SPECIFICATION HermesSpec
CONSTANTS
    Domain = {1, 2}
    FeatureSet <- MCFeatureSet
    Generations = 3
    MaxFaults = 2
    NoCertificate = NoCertificate
INVARIANTS
    OnlineIsEarned
PROPERTY
    CertificateIsFinal
