-------------------------- MODULE CrestPage_proofs --------------------------
(***************************************************************************)
(* Exclusive access to the three mailboxes and whole, ordered, exactly-    *)
(* once delivery, for any number of kernel and desktop threads; and the    *)
(* epoch word of a side with one sending thread, for any epochs it names.  *)
(***************************************************************************)
EXTENDS CrestPage, FiniteSetTheorems, TLAPS

\* The argument of a put call is not zero and is what the halves written so
\* far hold; only the mailboxes with an epoch word have a step that stores it.
Filled ==
    \A t \in Thread :
        /\ pc[t] \in {"epoch", "claim", "write1", "write2", "publish"} => arg[t] # 0
        /\ pc[t] = "epoch" => box[t] \in WithEpoch
        /\ pc[t] \in {"write2", "publish"} => lo[box[t]] = arg[t]
        /\ pc[t] = "publish" => hi[box[t]] = arg[t]

\* What can be taken from a mailbox is the value published last, and what
\* a reader has copied so far is that value.
Fresh ==
    /\ \A b \in Box : state[b] \in {"READY", "READING"} =>
        /\ Len(published[b]) > 0
        /\ lo[b] = published[b][Len(published[b])]
        /\ hi[b] = published[b][Len(published[b])]
    /\ \A t \in Thread :
        /\ pc[t] \in {"read2", "release"} => gotLo[t] = lo[box[t]]
        /\ pc[t] = "release" => gotHi[t] = hi[box[t]]

WritingAt == {"write1", "write2", "publish"}
ReadingAt == {"read1", "read2", "release"}

IInv == TypeOK /\ ExclusiveAccess /\ Filled /\ Fresh /\ DeliveredInOrder

\* A step that neither brings a thread into a mailbox nor takes one out of
\* it, and leaves the state words alone, preserves the exclusion.
LEMMA ExclusionKept ==
  ASSUME ExclusiveAccess, state' = state,
         \A u \in Thread : /\ pc'[u] \in WritingAt <=> pc[u] \in WritingAt
                           /\ pc'[u] \in ReadingAt <=> pc[u] \in ReadingAt
                           /\ (pc[u] \in WritingAt \/ pc[u] \in ReadingAt) => box'[u] = box[u]
  PROVE  ExclusiveAccess'
<1>1. ASSUME NEW u \in Thread, NEW c \in Box
      PROVE  (Writing(u, c)' <=> Writing(u, c)) /\ (Reading(u, c)' <=> Reading(u, c))
  BY DEF Writing, Reading, WritingAt, ReadingAt
<1>2. ASSUME NEW c \in Box
      PROVE  /\ \A t, u \in Thread :
                 (Writing(t, c) \/ Reading(t, c))' /\ (Writing(u, c) \/ Reading(u, c))' => t = u
             /\ (state[c] = "WRITING" <=> \E t \in Thread : Writing(t, c))'
             /\ (state[c] = "READING" <=> \E t \in Thread : Reading(t, c))'
  <2>1. /\ \A t, u \in Thread :
              (Writing(t, c) \/ Reading(t, c)) /\ (Writing(u, c) \/ Reading(u, c)) => t = u
        /\ state[c] = "WRITING" <=> \E t \in Thread : Writing(t, c)
        /\ state[c] = "READING" <=> \E t \in Thread : Reading(t, c)
    BY DEF ExclusiveAccess
  <2>2. QED
    BY <1>1, <2>1, Zenon
<1>3. QED
  BY <1>2 DEF ExclusiveAccess

\* Every step of every thread preserves the exclusion and what the mailboxes
\* hold.
LEMMA Inductive == Spec => []IInv
<1>1. Init => IInv
  BY CrestAssumption
     DEF Init, IInv, TypeOK, ExclusiveAccess, Filled, Fresh, DeliveredInOrder, Half,
         Writing, Reading, Box, WithEpoch
<1>2. IInv /\ [Next]_vars => IInv'
  <2> SUFFICES ASSUME IInv, [Next]_vars
               PROVE  IInv'
    OBVIOUS
  <2>0. TypeOK /\ ExclusiveAccess /\ Filled /\ Fresh /\ DeliveredInOrder
    BY DEF IInv
  <2>1. ASSUME NEW t \in Thread, NEW b \in Box, NEW e \in Epoch, PutCall(t, b, e) PROVE IInv'
    <3>0. serial[b] + 1 \in Half \ {0}
      <4>1. serial[b] \in Half /\ serial[b] < MaxPuts
        BY <2>0, <2>1 DEF PutCall, TypeOK
      <4>2. QED
        BY <4>1, CrestAssumption DEF Half
    <3>1. TypeOK'
      <4>1. named' \in [WithEpoch -> [1 .. MaxPuts -> Epoch \cup {0}]]
        <5>1. named' = IF b \in WithEpoch THEN [named EXCEPT ![b][serial[b] + 1] = e] ELSE named
          BY <2>1 DEF PutCall
        <5>2. named \in [WithEpoch -> [1 .. MaxPuts -> Epoch \cup {0}]]
          BY <2>0 DEF TypeOK
        <5>3. QED
          BY <5>1, <5>2
      <4>2. QED
        BY <3>0, <4>1, <2>0, <2>1, CrestAssumption DEF PutCall, Goto, page, TypeOK
    <3>2. ExclusiveAccess'
      <4>1. \A u \in Thread : /\ pc'[u] \in WritingAt <=> pc[u] \in WritingAt
                              /\ pc'[u] \in ReadingAt <=> pc[u] \in ReadingAt
                              /\ (pc[u] \in WritingAt \/ pc[u] \in ReadingAt) => box'[u] = box[u]
        <5>1. /\ pc[t] = "idle"
              /\ pc'[t] \in {"epoch", "claim"}
              /\ \A u \in Thread \ {t} : pc'[u] = pc[u] /\ box'[u] = box[u]
          BY <2>0, <2>1 DEF PutCall, Goto, TypeOK
        <5>2. QED
          BY <5>1 DEF WritingAt, ReadingAt
      <4>2. state' = state
        BY <2>0, <2>1 DEF PutCall, Goto, page, ledger
      <4>3. QED
        BY <2>0, <4>1, <4>2, ExclusionKept
    <3>3. Filled'
      BY <3>0, <2>0, <2>1 DEF PutCall, Goto, page, ledger, TypeOK, Filled, ExclusiveAccess, Writing
    <3>4. Fresh'
      BY <3>0, <2>0, <2>1 DEF PutCall, Goto, page, ledger, TypeOK, Fresh, Filled, ExclusiveAccess, Writing, Reading
    <3>5. DeliveredInOrder'
      BY <3>0, <2>0, <2>1 DEF PutCall, Goto, page, ledger, TypeOK, DeliveredInOrder
    <3>6. QED
      BY <3>1, <3>2, <3>3, <3>4, <3>5 DEF IInv
  <2>2. ASSUME NEW t \in Thread, NEW b \in Box, Take(t, b) PROVE IInv'
    <3>1. TypeOK'
      BY <2>0, <2>2, CrestAssumption DEF Take, Goto, page, ledger, TypeOK
    <3>2. ExclusiveAccess'
      <4>1. \A u \in Thread : /\ pc'[u] \in WritingAt <=> pc[u] \in WritingAt
                              /\ pc'[u] \in ReadingAt <=> (pc[u] \in ReadingAt \/ u = t)
                              /\ box'[u] = IF u = t THEN b ELSE box[u]
        BY <2>0, <2>2 DEF Take, Goto, page, ledger, TypeOK, WritingAt, ReadingAt
      <4>2. /\ pc[t] \notin WritingAt /\ pc[t] \notin ReadingAt
            /\ state[b] = "READY"
            /\ \A c \in Box : state'[c] = IF c = b THEN "READING" ELSE state[c]
        BY <2>0, <2>2 DEF Take, Goto, page, ledger, TypeOK, WritingAt, ReadingAt
      <4>3. QED
        BY <2>0, <4>1, <4>2 DEF ExclusiveAccess, Writing, Reading, WritingAt, ReadingAt
    <3>3. Filled'
      BY <2>0, <2>2 DEF Take, Goto, page, ledger, TypeOK, Filled, ExclusiveAccess, Writing
    <3>4. Fresh'
      BY <2>0, <2>2 DEF Take, Goto, page, ledger, TypeOK, Fresh, Filled, ExclusiveAccess, Writing, Reading
    <3>5. DeliveredInOrder'
      BY <2>0, <2>2 DEF Take, Goto, page, ledger, TypeOK, DeliveredInOrder
    <3>6. QED
      BY <3>1, <3>2, <3>3, <3>4, <3>5 DEF IInv
  <2>3. ASSUME NEW t \in Thread, StoreEpoch(t) PROVE IInv'
    <3>1. TypeOK'
      <4>1. box[t] \in WithEpoch /\ arg[t] \in 1 .. MaxPuts
        BY <2>0, <2>3, CrestAssumption DEF StoreEpoch, Filled, TypeOK, Half
      <4>2. named[box[t]][arg[t]] \in Epoch \cup {0}
        BY <2>0, <4>1 DEF TypeOK
      <4>3. QED
        BY <2>0, <2>3, <4>2, CrestAssumption DEF StoreEpoch, Goto, page, ledger, TypeOK
    <3>2. ExclusiveAccess'
      <4>1. \A u \in Thread : /\ pc'[u] \in WritingAt <=> pc[u] \in WritingAt
                              /\ pc'[u] \in ReadingAt <=> pc[u] \in ReadingAt
                              /\ (pc[u] \in WritingAt \/ pc[u] \in ReadingAt) => box'[u] = box[u]
        BY <2>0, <2>3 DEF StoreEpoch, Goto, page, ledger, TypeOK, WritingAt, ReadingAt
      <4>2. state' = state
        BY <2>0, <2>3 DEF StoreEpoch, Goto, page, ledger
      <4>3. QED
        BY <2>0, <4>1, <4>2, ExclusionKept
    <3>3. Filled'
      BY <2>0, <2>3 DEF StoreEpoch, Goto, page, ledger, TypeOK, Filled, ExclusiveAccess, Writing
    <3>4. Fresh'
      BY <2>0, <2>3 DEF StoreEpoch, Goto, page, ledger, TypeOK, Fresh, Filled, ExclusiveAccess, Writing, Reading
    <3>5. DeliveredInOrder'
      BY <2>0, <2>3 DEF StoreEpoch, Goto, page, ledger, TypeOK, DeliveredInOrder
    <3>6. QED
      BY <3>1, <3>2, <3>3, <3>4, <3>5 DEF IInv
  <2>4. ASSUME NEW t \in Thread, Claim(t) PROVE IInv'
    <3>1. TypeOK'
      BY <2>0, <2>4, CrestAssumption DEF Claim, Goto, page, ledger, TypeOK
    <3>2. ExclusiveAccess'
      BY <2>0, <2>4 DEF Claim, Goto, page, ledger, TypeOK, ExclusiveAccess, Writing, Reading
    <3>3. Filled'
      BY <2>0, <2>4 DEF Claim, Goto, page, ledger, TypeOK, Filled, ExclusiveAccess, Writing
    <3>4. Fresh'
      BY <2>0, <2>4 DEF Claim, Goto, page, ledger, TypeOK, Fresh, Filled, ExclusiveAccess, Writing, Reading
    <3>5. DeliveredInOrder'
      BY <2>0, <2>4 DEF Claim, Goto, page, ledger, TypeOK, DeliveredInOrder
    <3>6. QED
      BY <3>1, <3>2, <3>3, <3>4, <3>5 DEF IInv
  <2>r. ASSUME NEW t \in Thread, Return(t)
        PROVE  /\ pc' \in [Thread -> {"idle", "epoch", "claim", "write1", "write2", "publish",
                                      "read1", "read2", "release"}]
               /\ box' \in [Thread -> Box] /\ arg' \in [Thread -> Half]
    <3>1. 0 \in Half /\ "snapshot" \in Box
      BY CrestAssumption DEF Half, Box
    <3>2. pc' = [pc EXCEPT ![t] = "idle"]
      BY <2>r DEF Return, Goto
    <3>3. box' = [box EXCEPT ![t] = "snapshot"] /\ arg' = [arg EXCEPT ![t] = 0]
      BY <2>r DEF Return
    <3>4. QED
      BY <2>0, <3>1, <3>2, <3>3 DEF TypeOK
  <2>5. ASSUME NEW t \in Thread, Busy(t) PROVE IInv'
    <3>1. TypeOK'
      <4>1. Return(t) /\ UNCHANGED <<page, gotLo, gotHi, ledger>>
        BY <2>5 DEF Busy
      <4>2. UNCHANGED <<state, lo, hi, epoch, gotLo, gotHi, serial, named, published, taken>>
        BY <4>1 DEF page, ledger
      <4>3. QED
        BY <2>0, <2>r, <4>1, <4>2 DEF TypeOK
    <3>2. ExclusiveAccess'
      <4>1. \A u \in Thread : /\ pc'[u] \in WritingAt <=> pc[u] \in WritingAt
                              /\ pc'[u] \in ReadingAt <=> pc[u] \in ReadingAt
                              /\ (pc[u] \in WritingAt \/ pc[u] \in ReadingAt) => box'[u] = box[u]
        BY <2>0, <2>5 DEF Busy, Return, Goto, page, ledger, TypeOK, WritingAt, ReadingAt
      <4>2. state' = state
        BY <2>0, <2>5 DEF Busy, Return, Goto, page, ledger
      <4>3. QED
        BY <2>0, <4>1, <4>2, ExclusionKept
    <3>3. Filled'
      BY <2>0, <2>5 DEF Busy, Return, Goto, page, ledger, TypeOK, Filled, ExclusiveAccess, Writing
    <3>4. Fresh'
      BY <2>0, <2>5 DEF Busy, Return, Goto, page, ledger, TypeOK, Fresh, Filled, ExclusiveAccess, Writing, Reading
    <3>5. DeliveredInOrder'
      BY <2>0, <2>5 DEF Busy, Return, Goto, page, ledger, TypeOK, DeliveredInOrder
    <3>6. QED
      BY <3>1, <3>2, <3>3, <3>4, <3>5 DEF IInv
  <2>6. ASSUME NEW t \in Thread, Write1(t) PROVE IInv'
    <3>0. Writing(t, box[t]) /\ box[t] \in Box /\ state[box[t]] = "WRITING"
      BY <2>0, <2>6 DEF Write1, TypeOK, ExclusiveAccess, Writing, Reading
    <3>1. TypeOK'
      BY <3>0, <2>0, <2>6, CrestAssumption DEF Write1, Goto, page, ledger, TypeOK
    <3>2. ExclusiveAccess'
      BY <3>0, <2>0, <2>6 DEF Write1, Goto, page, ledger, TypeOK, ExclusiveAccess, Writing, Reading
    <3>3. Filled'
      BY <3>0, <2>0, <2>6 DEF Write1, Goto, page, ledger, TypeOK, Filled, ExclusiveAccess, Writing
    <3>4. Fresh'
      BY <3>0, <2>0, <2>6 DEF Write1, Goto, page, ledger, TypeOK, Fresh, Filled, ExclusiveAccess, Writing, Reading
    <3>5. DeliveredInOrder'
      BY <3>0, <2>0, <2>6 DEF Write1, Goto, page, ledger, TypeOK, DeliveredInOrder
    <3>6. QED
      BY <3>1, <3>2, <3>3, <3>4, <3>5 DEF IInv
  <2>7. ASSUME NEW t \in Thread, Write2(t) PROVE IInv'
    <3>0. Writing(t, box[t]) /\ box[t] \in Box /\ state[box[t]] = "WRITING"
      BY <2>0, <2>7 DEF Write2, TypeOK, ExclusiveAccess, Writing, Reading
    <3>1. TypeOK'
      BY <3>0, <2>0, <2>7, CrestAssumption DEF Write2, Goto, page, ledger, TypeOK
    <3>2. ExclusiveAccess'
      BY <3>0, <2>0, <2>7 DEF Write2, Goto, page, ledger, TypeOK, ExclusiveAccess, Writing, Reading
    <3>3. Filled'
      BY <3>0, <2>0, <2>7 DEF Write2, Goto, page, ledger, TypeOK, Filled, ExclusiveAccess, Writing
    <3>4. Fresh'
      BY <3>0, <2>0, <2>7 DEF Write2, Goto, page, ledger, TypeOK, Fresh, Filled, ExclusiveAccess, Writing, Reading
    <3>5. DeliveredInOrder'
      BY <3>0, <2>0, <2>7 DEF Write2, Goto, page, ledger, TypeOK, DeliveredInOrder
    <3>6. QED
      BY <3>1, <3>2, <3>3, <3>4, <3>5 DEF IInv
  <2>8. ASSUME NEW t \in Thread, Publish(t) PROVE IInv'
    <3>0. Writing(t, box[t]) /\ box[t] \in Box /\ state[box[t]] = "WRITING"
      BY <2>0, <2>8 DEF Publish, TypeOK, ExclusiveAccess, Writing, Reading
    <3>1. TypeOK'
      <4>1. 0 \in Half /\ "snapshot" \in Box
        BY CrestAssumption DEF Half, Box
      <4>2. published' \in [Box -> Seq(Half \ {0})]
        <5>1. arg[t] \in Half \ {0} /\ published \in [Box -> Seq(Half \ {0})]
          BY <2>0, <2>8 DEF Publish, TypeOK, Filled
        <5>2. published' = [published EXCEPT ![box[t]] = Append(published[box[t]], arg[t])]
          BY <2>8 DEF Publish
        <5>3. QED
          BY <3>0, <5>1, <5>2
      <4>3. QED
        BY <3>0, <4>1, <4>2, <2>0, <2>8 DEF Publish, Return, Goto, TypeOK
    <3>2. ExclusiveAccess'
      BY <3>0, <2>0, <2>8 DEF Publish, Return, Goto, page, ledger, TypeOK, ExclusiveAccess, Writing, Reading
    <3>3. Filled'
      BY <3>0, <2>0, <2>8 DEF Publish, Return, Goto, page, ledger, TypeOK, Filled, ExclusiveAccess, Writing
    <3>4. Fresh'
      BY <3>0, <2>0, <2>8 DEF Publish, Return, Goto, page, ledger, TypeOK, Fresh, Filled, ExclusiveAccess, Writing, Reading
    <3>5. DeliveredInOrder'
      BY <3>0, <2>0, <2>8 DEF Publish, Return, Goto, page, ledger, TypeOK, DeliveredInOrder
    <3>6. QED
      BY <3>1, <3>2, <3>3, <3>4, <3>5 DEF IInv
  <2>9. ASSUME NEW t \in Thread, Read1(t) PROVE IInv'
    <3>0. Reading(t, box[t]) /\ box[t] \in Box /\ state[box[t]] = "READING"
      BY <2>0, <2>9 DEF Read1, TypeOK, ExclusiveAccess, Writing, Reading
    <3>1. TypeOK'
      BY <3>0, <2>0, <2>9, CrestAssumption DEF Read1, Goto, page, ledger, TypeOK
    <3>2. ExclusiveAccess'
      BY <3>0, <2>0, <2>9 DEF Read1, Goto, page, ledger, TypeOK, ExclusiveAccess, Writing, Reading
    <3>3. Filled'
      BY <3>0, <2>0, <2>9 DEF Read1, Goto, page, ledger, TypeOK, Filled, ExclusiveAccess, Writing
    <3>4. Fresh'
      BY <3>0, <2>0, <2>9 DEF Read1, Goto, page, ledger, TypeOK, Fresh, Filled, ExclusiveAccess, Writing, Reading
    <3>5. DeliveredInOrder'
      BY <3>0, <2>0, <2>9 DEF Read1, Goto, page, ledger, TypeOK, DeliveredInOrder
    <3>6. QED
      BY <3>1, <3>2, <3>3, <3>4, <3>5 DEF IInv
  <2>10. ASSUME NEW t \in Thread, Read2(t) PROVE IInv'
    <3>0. Reading(t, box[t]) /\ box[t] \in Box /\ state[box[t]] = "READING"
      BY <2>0, <2>10 DEF Read2, TypeOK, ExclusiveAccess, Writing, Reading
    <3>1. TypeOK'
      BY <3>0, <2>0, <2>10, CrestAssumption DEF Read2, Goto, page, ledger, TypeOK
    <3>2. ExclusiveAccess'
      BY <3>0, <2>0, <2>10 DEF Read2, Goto, page, ledger, TypeOK, ExclusiveAccess, Writing, Reading
    <3>3. Filled'
      BY <3>0, <2>0, <2>10 DEF Read2, Goto, page, ledger, TypeOK, Filled, ExclusiveAccess, Writing
    <3>4. Fresh'
      BY <3>0, <2>0, <2>10 DEF Read2, Goto, page, ledger, TypeOK, Fresh, Filled, ExclusiveAccess, Writing, Reading
    <3>5. DeliveredInOrder'
      BY <3>0, <2>0, <2>10 DEF Read2, Goto, page, ledger, TypeOK, DeliveredInOrder
    <3>6. QED
      BY <3>1, <3>2, <3>3, <3>4, <3>5 DEF IInv
  <2>11. ASSUME NEW t \in Thread, Release(t) PROVE IInv'
    <3>0. Reading(t, box[t]) /\ box[t] \in Box /\ state[box[t]] = "READING"
      BY <2>0, <2>11 DEF Release, TypeOK, ExclusiveAccess, Writing, Reading
    <3>1. TypeOK'
      <4>1. Return(t) /\ UNCHANGED <<lo, hi, epoch, serial, named, published>>
        BY <2>11 DEF Release
      <4>2. 0 \in Half
        BY CrestAssumption DEF Half
      <4>3. Joined(gotLo[t], gotHi[t]) \in Half
        BY <2>0, <4>2 DEF TypeOK, Joined, Torn
      <4>4. /\ state' \in [Box -> {"FREE", "WRITING", "READY", "READING"}]
            /\ gotLo' \in [Thread -> Half] /\ gotHi' \in [Thread -> Half]
        BY <3>0, <2>0, <2>11, <4>2 DEF Release, TypeOK
      <4>5. taken' \in [Box -> Seq(Half)]
        BY <3>0, <2>0, <2>11, <4>3 DEF Release, TypeOK
      <4>6. QED
        BY <2>0, <2>r, <4>1, <4>4, <4>5 DEF TypeOK
    <3>2. ExclusiveAccess'
      BY <3>0, <2>0, <2>11 DEF Release, Return, Goto, page, ledger, TypeOK, ExclusiveAccess, Writing, Reading
    <3>3. Filled'
      BY <3>0, <2>0, <2>11 DEF Release, Return, Goto, page, ledger, TypeOK, Filled, ExclusiveAccess, Writing
    <3>4. Fresh'
      BY <3>0, <2>0, <2>11 DEF Release, Return, Goto, page, ledger, TypeOK, Fresh, Filled, ExclusiveAccess, Writing, Reading
    <3>5. DeliveredInOrder'
      <4> DEFINE b == box[t]
      <4>1. Joined(gotLo[t], gotHi[t]) = published[b][Len(published[b])]
        BY <3>0, <2>0, <2>11 DEF Release, Fresh, Joined
      <4>2. Len(published[b]) = Len(taken[b]) + 1
        BY <3>0, <2>0 DEF DeliveredInOrder
      <4>3. taken' = [taken EXCEPT ![b] = Append(@, published[b][Len(published[b])])]
        BY <4>1, <2>11 DEF Release
      <4>4. QED
        <5>1. ASSUME NEW c \in Box, c # b
              PROVE  taken'[c] = taken[c] /\ published'[c] = published[c] /\ state'[c] = state[c]
          BY <5>1, <2>0, <2>11 DEF Release, TypeOK
        <5>2. /\ Len(taken'[b]) = Len(taken[b]) + 1
              /\ \A i \in 1 .. Len(taken[b]) : taken'[b][i] = taken[b][i]
              /\ taken'[b][Len(taken[b]) + 1] = published[b][Len(published[b])]
          BY <4>3, <3>0, <2>0 DEF TypeOK
        <5>3. published'[b] = published[b] /\ state'[b] = "FREE"
          BY <3>0, <2>0, <2>11 DEF Release, TypeOK
        <5>4. /\ Len(taken[b]) \in Nat
              /\ \A i \in 1 .. Len(taken[b]) : taken[b][i] = published[b][i]
          BY <3>0, <2>0 DEF TypeOK, DeliveredInOrder
        <5>5. ASSUME NEW i \in 1 .. Len(taken'[b])
              PROVE  taken'[b][i] = published'[b][i]
          <6>1. CASE i = Len(taken[b]) + 1
            BY <6>1, <4>2, <5>2, <5>3
          <6>2. CASE i # Len(taken[b]) + 1
            BY <6>2, <5>2, <5>3, <5>4
          <6>3. QED
            BY <6>1, <6>2
        <5>6. ASSUME NEW c \in Box
              PROVE  /\ Len(published'[c]) =
                          Len(taken'[c]) + (IF state'[c] \in {"READY", "READING"} THEN 1 ELSE 0)
                     /\ \A i \in 1 .. Len(taken'[c]) : taken'[c][i] = published'[c][i]
          <6>1. CASE c = b
            BY <6>1, <4>2, <5>2, <5>3, <5>4, <5>5, SMTT(30)
          <6>2. CASE c # b
            BY <6>2, <5>1, <2>0, ZenonT(30) DEF DeliveredInOrder
          <6>3. QED
            BY <6>1, <6>2
        <5>7. QED
          BY <5>6 DEF DeliveredInOrder
    <3>6. QED
      BY <3>1, <3>2, <3>3, <3>4, <3>5 DEF IInv
  <2>12. CASE UNCHANGED vars
    BY <2>0, <2>12 DEF vars, page, ledger, IInv, TypeOK, ExclusiveAccess, Filled, Fresh,
         DeliveredInOrder, Writing, Reading
  <2>13. QED
    BY <2>1, <2>2, <2>3, <2>4, <2>5, <2>6, <2>7, <2>8, <2>9, <2>10, <2>11, <2>12
       DEF Next, Step
<1>3. QED
  BY <1>1, <1>2, PTL DEF Spec

\* Type correctness of the page, the calls in progress and the ledger.
THEOREM TypeCorrect == Spec => []TypeOK
<1>1. IInv => TypeOK
  BY DEF IInv
<1>2. QED
  BY <1>1, Inductive, PTL

\* At most one thread is inside a mailbox, and the state word says who.
THEOREM AccessIsExclusive == Spec => []ExclusiveAccess
<1>1. IInv => ExclusiveAccess
  BY DEF IInv
<1>2. QED
  BY <1>1, Inductive, PTL

\* Every mailbox delivers whole values, once each, in the order published.
THEOREM WholeAndOrdered == Spec => []DeliveredInOrder
<1>1. IInv => DeliveredInOrder
  BY DEF IInv
<1>2. QED
  BY <1>1, Inductive, PTL

-----------------------------------------------------------------------------
(* The epoch word.                                                         *)

SendingAt == {"epoch", "claim", "write1", "write2", "publish"}
AnnouncedAt == {"claim", "write1", "write2", "publish"}

\* No two threads send through the mailbox.
OneSender(b) == \A t, u \in Producer(b) : t = u

\* The call that sends is the last one, the epoch its record names stays in
\* the word once stored, and a record that can be taken is no newer.
EpochInv(b) ==
    OneSender(b) =>
        /\ state[b] \in {"READY", "READING"} =>
              /\ lo[b] <= serial[b]
              /\ lo[b] = serial[b] => epoch[b] = named[b][lo[b]]
        /\ \A t \in Thread : box[t] = b /\ pc[t] \in SendingAt =>
              /\ t \in Producer(b)
              /\ arg[t] = serial[b]
              /\ pc[t] \in AnnouncedAt => epoch[b] = named[b][arg[t]]

EpochsInv == \A b \in WithEpoch : EpochInv(b)

\* Every step of every thread preserves EpochsInv.
LEMMA EpochsInductive == Spec => []EpochsInv
<1>1. Init => EpochsInv
  BY DEF Init, EpochsInv, EpochInv, SendingAt, AnnouncedAt, WithEpoch, Box
<1>2. IInv /\ EpochsInv /\ [Next]_vars => EpochsInv'
  <2> SUFFICES ASSUME IInv, EpochsInv, [Next]_vars, NEW b \in WithEpoch, OneSender(b)
               PROVE  EpochInv(b)'
    BY DEF EpochsInv, EpochInv, OneSender, Producer
  <2> USE DEF SendingAt, AnnouncedAt
  <2>0. TypeOK /\ ExclusiveAccess /\ Filled /\ EpochInv(b) /\ b \in Box
    BY DEF IInv, EpochsInv, WithEpoch, Box
  <2>a. serial[b] \in Nat /\ lo[b] \in Nat
    BY <2>0, CrestAssumption DEF TypeOK, Half
  <2>1. ASSUME NEW t \in Thread, NEW c \in Box, NEW e \in Epoch, PutCall(t, c, e)
        PROVE  EpochInv(b)'
    <3>1. /\ pc[t] = "idle" /\ t \in Producer(c)
          /\ serial'[b] = IF b = c THEN serial[b] + 1 ELSE serial[b]
          /\ box'[t] = c /\ arg'[t] = serial[c] + 1
          /\ c \in WithEpoch => pc'[t] = "epoch"
          /\ \A u \in Thread \ {t} : pc'[u] = pc[u] /\ box'[u] = box[u] /\ arg'[u] = arg[u]
          /\ state' = state /\ lo' = lo /\ epoch' = epoch
      BY <2>0, <2>1 DEF PutCall, Goto, page, TypeOK
    <3>2. b # c => named'[b] = named[b]
      BY <2>0, <2>1 DEF PutCall, TypeOK
    <3>3. CASE b = c
      BY <2>0, <2>a, <3>1, <3>3 DEF EpochInv, OneSender
    <3>4. CASE b # c
      BY <2>0, <2>a, <3>1, <3>2, <3>4 DEF EpochInv, OneSender
    <3>5. QED
      BY <3>3, <3>4
  <2>2. ASSUME NEW t \in Thread, NEW c \in Box, Take(t, c) PROVE EpochInv(b)'
    <3>1. /\ pc'[t] = "read1"
          /\ \A u \in Thread \ {t} : pc'[u] = pc[u] /\ box'[u] = box[u]
          /\ state'[b] = IF b = c THEN "READING" ELSE state[b]
          /\ b = c => state[b] = "READY"
          /\ arg' = arg /\ serial' = serial /\ named' = named /\ lo' = lo /\ epoch' = epoch
      BY <2>0, <2>2 DEF Take, Goto, ledger, TypeOK
    <3>2. QED
      BY <2>0, <2>a, <3>1 DEF EpochInv, OneSender
  <2>3. ASSUME NEW t \in Thread, StoreEpoch(t) PROVE EpochInv(b)'
    <3>1. /\ pc[t] = "epoch" /\ pc'[t] = "claim" /\ box[t] \in WithEpoch
          /\ \A u \in Thread \ {t} : pc'[u] = pc[u]
          /\ epoch'[b] = IF b = box[t] THEN named[b][arg[t]] ELSE epoch[b]
          /\ arg' = arg /\ serial' = serial /\ named' = named /\ lo' = lo /\ state' = state
          /\ box' = box
      BY <2>0, <2>3 DEF StoreEpoch, Goto, ledger, TypeOK, Filled
    <3>2. QED
      BY <2>0, <2>a, <3>1 DEF EpochInv, OneSender
  <2>4. ASSUME NEW t \in Thread, Claim(t) PROVE EpochInv(b)'
    <3>1. /\ pc[t] = "claim" /\ pc'[t] = "write1"
          /\ \A u \in Thread \ {t} : pc'[u] = pc[u]
          /\ state'[b] = IF b = box[t] THEN "WRITING" ELSE state[b]
          /\ arg' = arg /\ serial' = serial /\ named' = named /\ lo' = lo /\ epoch' = epoch
          /\ box' = box
      BY <2>0, <2>4 DEF Claim, Goto, ledger, TypeOK
    <3>2. QED
      BY <2>0, <2>a, <3>1 DEF EpochInv, OneSender
  <2>5. ASSUME NEW t \in Thread, Write1(t) PROVE EpochInv(b)'
    <3>1. /\ pc[t] = "write1" /\ pc'[t] = "write2"
          /\ \A u \in Thread \ {t} : pc'[u] = pc[u]
          /\ lo'[b] = IF b = box[t] THEN arg[t] ELSE lo[b]
          /\ arg' = arg /\ serial' = serial /\ named' = named /\ state' = state
          /\ epoch' = epoch /\ box' = box
      BY <2>0, <2>5 DEF Write1, Goto, ledger, TypeOK
    <3>2. b = box[t] => state[b] = "WRITING"
      BY <2>0, <3>1 DEF ExclusiveAccess, Writing
    <3>3. QED
      BY <2>0, <2>a, <3>1, <3>2 DEF EpochInv, OneSender
  <2>6. ASSUME NEW t \in Thread, Publish(t) PROVE EpochInv(b)'
    <3>1. /\ pc[t] = "publish" /\ pc'[t] = "idle"
          /\ \A u \in Thread \ {t} : pc'[u] = pc[u] /\ arg'[u] = arg[u] /\ box'[u] = box[u]
          /\ state'[b] = IF b = box[t] THEN "READY" ELSE state[b]
          /\ serial' = serial /\ named' = named /\ lo' = lo /\ epoch' = epoch
      BY <2>0, <2>6 DEF Publish, Return, Goto, TypeOK
    <3>2. b = box[t] => lo[b] = arg[t]
      BY <2>0, <3>1 DEF Filled
    <3>3. QED
      BY <2>0, <2>a, <3>1, <3>2 DEF EpochInv, OneSender
  <2>7. ASSUME NEW t \in Thread, Busy(t) \/ Write2(t) \/ Read1(t) \/ Read2(t) \/ Release(t)
        PROVE  EpochInv(b)'
    <3>1. /\ \/ pc'[t] \notin SendingAt
             \/ /\ pc[t] = "write2" /\ pc'[t] = "publish"
                /\ arg'[t] = arg[t] /\ box'[t] = box[t]
          /\ \A u \in Thread \ {t} : pc'[u] = pc[u] /\ arg'[u] = arg[u] /\ box'[u] = box[u]
          /\ state'[b] \in {"READY", "READING"} => state[b] \in {"READY", "READING"}
          /\ serial' = serial /\ named' = named /\ lo' = lo /\ epoch' = epoch
      BY <2>0, <2>7 DEF Busy, Write2, Read1, Read2, Release, Return, Goto, page, ledger, TypeOK
    <3>2. QED
      BY <2>0, <2>a, <3>1 DEF EpochInv, OneSender
  <2>8. CASE UNCHANGED vars
    BY <2>0, <2>8 DEF vars, page, ledger, EpochInv
  <2>9. QED
    BY <2>1, <2>2, <2>3, <2>4, <2>5, <2>6, <2>7, <2>8 DEF Next, Step
<1>3. QED
  BY <1>1, <1>2, Inductive, PTL DEF Spec

\* When one thread sends, the word is the epoch that the record in the mailbox
\* names until the next call of the sender, refused or not.
THEOREM EpochsAreAnnounced == Spec => []EpochIsAnnounced
<1>1. ASSUME EpochsInv PROVE EpochIsAnnounced
  <2> SUFFICES ASSUME NEW b \in WithEpoch, Cardinality(Producer(b)) = 1,
                      state[b] \in {"READY", "READING"}, lo[b] = serial[b]
               PROVE  epoch[b] = named[b][lo[b]]
    BY DEF EpochIsAnnounced
  <2>1. OneSender(b)
    BY CrestAssumption, FS_Singleton DEF OneSender, Producer
  <2>2. QED
    BY <1>1, <2>1 DEF EpochsInv, EpochInv
<1>2. QED
  BY <1>1, EpochsInductive, PTL
=============================================================================
