SPECIFICATION ProcessSpec
CONSTANTS
    Thread = {t1, t2}
    Main = t1
    Reply <- MCReply
    MaxCpus = 3
    MaxDomains = 3
    MaxMembers = 2
    MaxTotal = 5
    MaxArgv = 2
    MaxEnvVars = 2
    MaxValueLen = 5
    MaxWord = 299
    Stack <- MCStack
    Feature = {"SYSCALL_BASIC", "ASYNC_IO", "THERMAL_PAGE", "SYSCALL_DRIVER"}
    Required = {"ASYNC_IO"}
    Optional = {"THERMAL_PAGE"}
    EnvKey = "ARACH_CAP_RESONANCE"
    LegacyKey = "SISYPHUS_CAP_RESONANCE"
    MaxSeq = 3
    MaxCommands = 4
    MaxClients = 2
    Epochs = 4
    RawZone = {0, 3, 7}
    MaxTicks = 6
INVARIANTS
    ReplyIsOwn
    WorkIsCovered
    WorkIsProportional
    StorageIsWhole
    LookupsAreFaithful
    GrantIsGenuine
    ReplyIsForCommand
    HandlerIsCurrent
PROPERTY
    CommandEnds
CHECK_DEADLOCK FALSE
