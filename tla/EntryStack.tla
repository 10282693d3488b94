----------------------------- MODULE EntryStack -----------------------------
(***************************************************************************)
(* env.rs and capability.rs: what a process makes of the stack the kernel  *)
(* hands it.  A stack is [args, env, grant]: two sequences of strings; in  *)
(* memory the pointers to args, a null, the pointers to env and another    *)
(* null follow each other.  A string is [key, eq, value]: what precedes    *)
(* the first '=', whether there is one, and the characters after it.  A    *)
(* hash of a key (PhaseKey) is taken to identify the key.  grant is the    *)
(* handle that the kernel wrote for the Resonance right, or 0.             *)
(***************************************************************************)
EXTENDS Naturals, Sequences, SequencesExt, Loops

CONSTANTS MaxArgv, MaxEnvVars,  \* MAX_ARGV, MAX_ENV_VARS
          MaxValueLen,          \* u16::MAX, the longest value of a snapshot
          MaxWord               \* u64::MAX

ASSUME EntryAssumption == {MaxArgv, MaxEnvVars, MaxValueLen, MaxWord} \subseteq Nat \ {0}

AtMost(n, bound) == IF n < bound THEN n ELSE bound

-----------------------------------------------------------------------------
(* env.rs                                                                  *)

\* A null pointer, which is no string.
Null == [key |-> "null", eq |-> FALSE, value |-> <<>>]

Strings == [key : STRING, eq : BOOLEAN, value : Seq(STRING)]

\* The words behind argc.
Words(stack) == stack.args \o <<Null>> \o stack.env \o <<Null>>

\* QuantumArgv::from_stack
Argc(stack) == AtMost(Len(stack.args), MaxArgv)

\* Mutant: the null behind the arguments is not skipped.
EnvpBaseAtNull(stack) == Argc(stack) + 1

\* envp_base, as the index of a word
EnvpBase(stack) == Argc(stack) + 2

\* What a scan from envp_base visits: everything before the next null.
EnvBlock(stack) ==
    LET words == Words(stack)
        end == SelectInSubSeq(words, EnvpBase(stack), Len(words), LAMBDA w : w = Null)
    IN  SubSeq(words, EnvpBase(stack), end - 1)

\* Option: Some(value) or NotFound
Some(value) == [found |-> TRUE, value |-> value]
NotFound == [found |-> FALSE, value |-> <<>>]
ValueAt(entries, i) == IF i = 0 THEN NotFound ELSE Some(entries[i].value)

\* QuantumEnv::get: an entry with an empty value does not match
EnvGet(stack, key) ==
    LET block == EnvBlock(stack)
    IN  ValueAt(block, SelectInSeq(block, LAMBDA e : e.eq /\ e.key = key /\ e.value # <<>>))

\* QuantumEnv::get_phase: an entry without '=' ends the scan
EnvGetPhase(stack, key) ==
    LET block == EnvBlock(stack)
        i == SelectInSeq(block, LAMBDA e : ~e.eq \/ e.key = key)
    IN  IF i # 0 /\ ~block[i].eq THEN NotFound ELSE ValueAt(block, i)

Pairs(entries) == Selected(entries, {i \in DOMAIN entries : entries[i].eq})

\* EnvSnapshot::collapse
Collapse(stack) ==
    LET pairs == Pairs(EnvBlock(stack))
        kept == SubSeq(pairs, 1, AtMost(Len(pairs), MaxEnvVars))
    IN  [i \in DOMAIN kept |->
            [kept[i] EXCEPT !.value = SubSeq(@, 1, AtMost(Len(@), MaxValueLen))]]

\* EnvSnapshot::get
SnapshotGet(snapshot, key) ==
    ValueAt(snapshot, SelectInSeq(snapshot, LAMBDA e : e.key = key))

-----------------------------------------------------------------------------
(* capability.rs                                                           *)

\* The digits, with representatives of the decimal and the hexadecimal ones.
DigitValue == [c \in {"0", "1", "2", "9", "a", "F"} |->
                CASE c = "0" -> 0 [] c = "1" -> 1 [] c = "2" -> 2 [] c = "9" -> 9
                  [] c = "a" -> 10 [] c = "F" -> 15]

Handle(raw) == [error |-> "none", raw |-> raw]
Error(name) == [error |-> name, raw |-> 0]

\* The prefix of a text, if it has one, and what is read.
IsHex(bytes) == Len(bytes) >= 2 /\ bytes[1] = "0" /\ bytes[2] \in {"x", "X"}
Radix(bytes) == IF IsHex(bytes) THEN 16 ELSE 10
Digits(bytes) == IF IsHex(bytes) THEN SubSeq(bytes, 3, Len(bytes)) ELSE bytes

\* One round of the loop: the first bad character or the first overflow ends it.
TakeDigit(acc, c, radix) ==
    IF acc.error # "none" \/ c = "_" THEN acc
    ELSE IF c \notin DOMAIN DigitValue \/ DigitValue[c] >= radix THEN Error("Malformed")
    ELSE IF acc.raw * radix + DigitValue[c] > MaxWord THEN Error("Overflow")
    ELSE Handle(acc.raw * radix + DigitValue[c])

\* parse_handle; consumed is 0 where there is no digit
ParseHandle(bytes) ==
    LET digits == Digits(bytes)
        value[i \in 0 .. Len(digits)] ==
            IF i = 0 THEN Handle(0) ELSE TakeDigit(value[i - 1], digits[i], Radix(bytes))
    IN  IF \A i \in DOMAIN digits : digits[i] = "_"
        THEN Error("Malformed")
        ELSE value[Len(digits)]

\* CapabilityEnvelope::recv, for the right with this key and legacy key
Recv(snapshot, key, legacy) ==
    LET own == SnapshotGet(snapshot, key)
        bytes == IF own.found THEN own ELSE SnapshotGet(snapshot, legacy)
        handle == ParseHandle(bytes.value)
    IN  CASE ~bytes.found -> Error("Missing")
          [] handle = Handle(0) -> Error("NullHandle")
          [] OTHER -> handle

-----------------------------------------------------------------------------
(* What the kernel meant                                                   *)

\* The value of the first entry of a key.
KernelValue(stack, key) ==
    ValueAt(stack.env, SelectInSeq(stack.env, LAMBDA e : e.eq /\ e.key = key))

\* A numeral of a text's radix, and the number it stands for, of any size.
IsNumeral(bytes) ==
    LET digits == Digits(bytes)
        IsDigit(c) == c \in DOMAIN DigitValue /\ DigitValue[c] < Radix(bytes)
    IN  /\ \E i \in DOMAIN digits : digits[i] # "_"
        /\ \A i \in DOMAIN digits : digits[i] = "_" \/ IsDigit(digits[i])
Worth(c) == IF c \in DOMAIN DigitValue THEN DigitValue[c] ELSE 0
Number(bytes) ==
    LET digits == Digits(bytes)
        number[i \in 0 .. Len(digits)] ==
            IF i = 0 THEN 0
            ELSE IF digits[i] = "_" THEN number[i - 1]
            ELSE number[i - 1] * Radix(bytes) + Worth(digits[i])
    IN  number[Len(digits)]

\* The handle that a text is written for, or 0.
Meaning(bytes) == IF IsNumeral(bytes) /\ Number(bytes) <= MaxWord THEN Number(bytes) ELSE 0

\* argc is not capped, so the environment is where the kernel put it.
ArgsFit(stack) == Len(stack.args) <= MaxArgv

\* No entry falls behind the snapshot's end and no value is cut.
SnapshotFits(stack) ==
    /\ Len(Pairs(stack.env)) <= MaxEnvVars
    /\ \A i \in DOMAIN stack.env : Len(stack.env[i].value) <= MaxValueLen

\* What each of the three lookups needs to answer as the kernel meant it.
GetSuits(stack, key) ==
    \A i \in DOMAIN stack.env : stack.env[i].eq /\ stack.env[i].key = key => stack.env[i].value # <<>>
GetPhaseSuits(stack) == \A i \in DOMAIN stack.env : stack.env[i].eq
=============================================================================
