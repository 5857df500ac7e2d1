--------------------------- MODULE AttesterProofs ---------------------------
(***************************************************************************)
(* Proofs about AttesterProtection: the types for every set of keys, and   *)
(* the protection of a client with one key, for every set of attestations, *)
(* every imported history and every number of crashes.                     *)
(***************************************************************************)
EXTENDS AttesterProtection, WellFoundedInduction, TLAPS

-----------------------------------------------------------------------------
(* Least and greatest numbers.                                             *)

\* A set of numbers has a least member.
LEMMA LeastNumber ==
    ASSUME NEW T \in SUBSET Nat, T # {}
    PROVE  \E x \in T : \A y \in T : x <= y
<1> DEFINE R == {ss \in Nat \X Nat : ss[1] < ss[2]}
<1>1. IsWellFoundedOn(R, Nat)
  BY NatLessThanWellFounded, Zenon DEF OpToRel
<1>2. \A y, x \in Nat : y < x => <<y, x>> \in R
  OBVIOUS
<1> HIDE DEF R
<1>3. PICK x \in T : \A y \in T : ~(<<y, x>> \in R)
  BY <1>1, WFMin, Zenon
<1>4. ASSUME NEW y \in T PROVE x <= y
  <2>1. x \in Nat /\ y \in Nat
    OBVIOUS
  <2>2. ~(y < x)
    BY <2>1, <1>2, <1>3, Zenon
  <2> QED
    BY <2>1, <2>2
<1> QED
  BY <1>4

\* A nonempty set of epochs holds its least element.
LEMMA MinInSet ==
    ASSUME NEW T \in SUBSET Nat, T # {}
    PROVE  Min(T) \in T
<1>1. \E x \in T : \A y \in T : x <= y
  BY LeastNumber
<1> QED
  BY <1>1, Zenon DEF Min

\* A bounded set of numbers has a greatest member.
LEMMA MaxInSet ==
    ASSUME NEW n \in Nat, NEW T \in SUBSET (1 .. n), T # {}
    PROVE  Max(T) \in T
<1> DEFINE C == {k \in Nat : \E x \in T : k = n - x}
<1>1. \A x \in T : n - x \in C /\ x \in Nat
  OBVIOUS
<1>2. C \in SUBSET Nat /\ C # {}
  BY <1>1
<1>3. PICK k \in C : \A l \in C : k <= l
  <2> HIDE DEF C
  <2> QED BY <1>2, LeastNumber, Zenon
<1>4. PICK x \in T : k = n - x
  OBVIOUS
<1>5. ASSUME NEW y \in T PROVE x >= y
  <2>1. n - y \in C /\ y \in Nat /\ x \in Nat
    BY <1>1
  <2>2. k <= n - y
    <3> HIDE DEF C
    <3> QED BY <2>1, <1>3
  <2> QED
    BY <2>1, <2>2, <1>4
<1>6. \E z \in T : \A y \in T : z >= y
  BY <1>5
<1> QED
  BY <1>6, Zenon DEF Max

-----------------------------------------------------------------------------
(* What saveAttestationRecords writes.                                     *)

Roots == UNION {[targets -> Inputs \cup {NoSigningRoot}] : targets \in SUBSET (0 .. MaxEpoch)}

\* The signing roots bucket keeps its type.
LEMMA SavedRootsType ==
    ASSUME NEW old \in Roots, NEW records \in Seq(Records), NEW k
    PROVE  savedRoots(old, records, k) \in Roots
<1> DEFINE put(t) == {i \in DOMAIN records : records[i].key = k /\ records[i].target = t}
           targets == {t \in 0 .. MaxEpoch : t \in DOMAIN old \/ put(t) # {}}
           new == [t \in targets |-> IF put(t) # {} THEN records[Max(put(t))].signingRoot ELSE old[t]]
<1>1. savedRoots(old, records, k) = new
  BY Zenon DEF savedRoots
<1>2. ASSUME NEW t \in targets PROVE new[t] \in Inputs \cup {NoSigningRoot}
  <2>1. CASE put(t) # {}
    <3>1. Len(records) \in Nat /\ DOMAIN records = 1 .. Len(records)
      OBVIOUS
    <3>2. put(t) \in SUBSET (1 .. Len(records))
      BY <3>1
    <3>3. Max(put(t)) \in put(t)
      <4> HIDE DEF put
      <4> QED BY <2>1, <3>1, <3>2, MaxInSet, Zenon
    <3>4. records[Max(put(t))] \in Records
      BY <3>1, <3>3
    <3>5. records[Max(put(t))].signingRoot \in Inputs \cup {NoSigningRoot}
      <4> HIDE DEF put
      <4> QED BY <3>4 DEF Records
    <3> HIDE DEF put
    <3> QED
      BY <2>1, <3>5
  <2>2. CASE put(t) = {}
    <3>1. t \in DOMAIN old
      BY <2>2
    <3>2. PICK S \in SUBSET (0 .. MaxEpoch) : old \in [S -> Inputs \cup {NoSigningRoot}]
      BY DEF Roots
    <3>3. old[t] \in Inputs \cup {NoSigningRoot}
      BY <3>1, <3>2
    <3> HIDE DEF put
    <3> QED
      BY <2>2, <3>3
  <2> QED
    BY <2>1, <2>2
<1>3. new \in [targets -> Inputs \cup {NoSigningRoot}] /\ targets \in SUBSET (0 .. MaxEpoch)
  <2>1. targets \in SUBSET (0 .. MaxEpoch)
    OBVIOUS
  <2> HIDE DEF put, targets
  <2> QED BY <1>2, <2>1
<1> HIDE DEF new, targets
<1>4. new \in Roots
  BY <1>3, Zenon DEF Roots
<1> QED
  BY <1>1, <1>4

\* The lowest epochs keep their type.
LEMMA SavedLowestType ==
    ASSUME NEW old \in 0 .. NoEpoch, NEW epochs \in SUBSET (0 .. MaxEpoch)
    PROVE  savedLowest(old, epochs) \in 0 .. NoEpoch
<1> DEFINE T == {old} \cup epochs
<1>1. T \in SUBSET (0 .. NoEpoch) /\ T \in SUBSET Nat /\ T # {}
  BY ProtectionAssumption DEF NoEpoch
<1> HIDE DEF T
<1>2. Min(T) \in T
  BY <1>1, MinInSet
<1> QED
  BY <1>1, <1>2 DEF savedLowest, T

\* The database keeps its types, whichever batch is written.
Disk(r, s, ls, lt) ==
    /\ r \in [Keys -> Roots]
    /\ s \in [Keys -> SUBSET Spans]
    /\ ls \in [Keys -> 0 .. NoEpoch]
    /\ lt \in [Keys -> 0 .. NoEpoch]

\* The epochs of the records of a batch.
LEMMA RecordEpochs ==
    ASSUME NEW records \in Seq(Records), NEW k
    PROVE  LET mine == {i \in DOMAIN records : records[i].key = k}
           IN  /\ {records[i].source : i \in mine} \in SUBSET (0 .. MaxEpoch)
               /\ {records[i].target : i \in mine} \in SUBSET (0 .. MaxEpoch)
<1>1. \A i \in DOMAIN records : records[i] \in Records
  OBVIOUS
<1>2. \A i \in DOMAIN records : records[i].source \in 0 .. MaxEpoch /\ records[i].target \in 0 .. MaxEpoch
  BY <1>1 DEF Records
<1> QED
  BY <1>2

\* A saved batch (saveAttestationRecords) leaves well-typed buckets.
LEMMA SaveKeepsTypes ==
    ASSUME Disk(roots, spans, lowestSource, lowestTarget), NEW records \in Seq(Records),
           saveAttestationRecords(records)
    PROVE  Disk(roots', spans', lowestSource', lowestTarget')
<1> DEFINE sources(k) == {records[i].source : i \in {j \in DOMAIN records : records[j].key = k}}
           targets(k) == {records[i].target : i \in {j \in DOMAIN records : records[j].key = k}}
<1>1. /\ roots' = [k \in Keys |-> savedRoots(roots[k], records, k)]
      /\ spans' = [k \in Keys |-> savedSpans(spans[k], records, k)]
      /\ lowestSource' = [k \in Keys |-> savedLowest(lowestSource[k], sources(k))]
      /\ lowestTarget' = [k \in Keys |-> savedLowest(lowestTarget[k], targets(k))]
  BY Zenon DEF saveAttestationRecords
<1>2. ASSUME NEW k \in Keys
      PROVE  /\ savedRoots(roots[k], records, k) \in Roots
             /\ savedSpans(spans[k], records, k) \in SUBSET Spans
             /\ savedLowest(lowestSource[k], sources(k)) \in 0 .. NoEpoch
             /\ savedLowest(lowestTarget[k], targets(k)) \in 0 .. NoEpoch
  <2>1. /\ roots[k] \in Roots /\ spans[k] \in SUBSET Spans
        /\ lowestSource[k] \in 0 .. NoEpoch /\ lowestTarget[k] \in 0 .. NoEpoch
    BY DEF Disk
  <2>2. sources(k) \in SUBSET (0 .. MaxEpoch) /\ targets(k) \in SUBSET (0 .. MaxEpoch)
    BY RecordEpochs, Zenon
  <2>3. savedRoots(roots[k], records, k) \in Roots
    BY <2>1, SavedRootsType
  <2>4. savedSpans(spans[k], records, k) \in SUBSET Spans
    BY <2>1 DEF savedSpans
  <2> HIDE DEF sources, targets
  <2> QED
    BY <2>1, <2>2, <2>3, <2>4, SavedLowestType
<1> HIDE DEF sources, targets
<1> QED
  BY <1>1, <1>2 DEF Disk

\* So does an imported history (SaveAttestationsForPubKey).
LEMMA ImportTypes ==
    ASSUME NEW records \in Seq(Records), SaveAttestationsForPubKey(records)
    PROVE  Disk(roots, spans, lowestSource, lowestTarget)
<1> DEFINE sources(k) == {records[i].source : i \in {j \in DOMAIN records : records[j].key = k}}
           targets(k) == {records[i].target : i \in {j \in DOMAIN records : records[j].key = k}}
           none == [target \in {} |-> NoSigningRoot]
<1>1. /\ roots = [k \in Keys |-> savedRoots(none, records, k)]
      /\ spans = [k \in Keys |-> savedSpans({}, records, k)]
      /\ lowestSource = [k \in Keys |-> savedLowest(NoEpoch, sources(k))]
      /\ lowestTarget = [k \in Keys |-> savedLowest(NoEpoch, targets(k))]
  BY Zenon DEF SaveAttestationsForPubKey
<1>2. none \in Roots
  <2>1. none \in [{} -> Inputs \cup {NoSigningRoot}] /\ {} \in SUBSET (0 .. MaxEpoch)
    OBVIOUS
  <2> HIDE DEF none
  <2> QED BY <2>1, Zenon DEF Roots
<1>3. NoEpoch \in 0 .. NoEpoch
  BY ProtectionAssumption DEF NoEpoch
<1> HIDE DEF none
<1>4. ASSUME NEW k \in Keys
      PROVE  /\ savedRoots(none, records, k) \in Roots
             /\ savedSpans({}, records, k) \in SUBSET Spans
             /\ savedLowest(NoEpoch, sources(k)) \in 0 .. NoEpoch
             /\ savedLowest(NoEpoch, targets(k)) \in 0 .. NoEpoch
  <2>1. sources(k) \in SUBSET (0 .. MaxEpoch) /\ targets(k) \in SUBSET (0 .. MaxEpoch)
    BY RecordEpochs, Zenon
  <2>2. savedRoots(none, records, k) \in Roots
    BY <1>2, SavedRootsType
  <2>3. savedSpans({}, records, k) \in SUBSET Spans
    BY DEF savedSpans
  <2> HIDE DEF sources, targets
  <2> QED
    BY <1>3, <2>1, <2>2, <2>3, SavedLowestType
<1> HIDE DEF sources, targets
<1> QED
  BY <1>1, <1>4 DEF Disk

-----------------------------------------------------------------------------
(* Types.                                                                  *)

\* The types, and what bounds the batch: while a flush is under way the batch is empty, and
\* only a failed flush makes it longer.
TypeInv ==
    /\ TypeOK
    /\ routine = "save" => batched = <<>> /\ Len(flush) <= BatchCapacity + failures

\* The data of a call has epochs within bounds.
LEMMA InputEpochs ==
    ASSUME NEW data \in Inputs
    PROVE  data.source \in 0 .. MaxEpoch /\ data.target \in 0 .. MaxEpoch
BY ProtectionAssumption DEF Spans

\* What a call enqueues is a record.
LEMMA RecordType ==
    ASSUME TypeOK, NEW k \in Keys
    PROVE  Record(k) \in Records
<1>1. att[k] \in Inputs
  BY DEF TypeOK
<1>2. att[k].source \in 0 .. MaxEpoch /\ att[k].target \in 0 .. MaxEpoch
  BY <1>1, InputEpochs
<1> QED
  BY <1>1, <1>2 DEF Record, Records

\* The parts of TypeOK a step of a call leaves alone.
LEMMA CallStepType ==
    ASSUME TypeInv, NEW k \in Keys, NEW from,
           NEW to \in {"idle", "source", "root", "target", "slashable", "enqueue", "subscribe", "waiting"},
           Step(k, from, to)
    PROVE  call' \in [Keys -> {"idle", "source", "root", "target", "slashable",
                               "enqueue", "subscribe", "waiting"}]
BY DEF TypeInv, TypeOK, Step

\* The database part of the type invariant.
LEMMA DiskType == TypeOK => Disk(roots, spans, lowestSource, lowestTarget)
BY DEF TypeOK, Disk, Roots

\* The type invariant holds after the import of a history.
LEMMA InitType == Init => TypeInv
<1> SUFFICES ASSUME Init PROVE TypeInv
  OBVIOUS
<1>1. Disk(roots, spans, lowestSource, lowestTarget)
  <2>1. PICK records \in Imports : SaveAttestationsForPubKey(records)
    BY DEF Init
  <2>2. records \in Seq(Records)
    BY ProtectionAssumption
  <2> QED
    BY <2>1, <2>2, ImportTypes
<1>2. att \in [Keys -> Inputs]
  <2>1. (CHOOSE data \in Inputs : TRUE) \in Inputs
    BY ProtectionAssumption, Zenon
  <2> QED
    BY <2>1 DEF Init
<1>3. \A queue \in {requests, batched, flush} : queue \in Seq(Records)
  <2>1. <<>> \in Seq(Records)
    OBVIOUS
  <2> QED
    BY <2>1, Zenon DEF Init
<1>4. Len(requests) = 0 /\ Len(batched) = 0
  BY DEF Init
<1> QED
  BY <1>1, <1>2, <1>3, <1>4, ProtectionAssumption DEF Init, TypeInv, TypeOK, Disk, Roots

\* Every step of a call, of the writer and every crash keeps the type invariant.
LEMMA StepType == TypeInv /\ [Next]_vars => TypeInv'
<1> SUFFICES ASSUME TypeInv, [Next]_vars PROVE TypeInv'
  OBVIOUS
<1> USE DEF TypeInv
<1>1. ASSUME NEW k \in Keys, NEW data \in Inputs, SubmitAttestation(k, data) PROVE TypeInv'
  BY <1>1 DEF SubmitAttestation, Step, TypeOK, disk, memory
<1>2. ASSUME NEW k \in Keys, Proceed(k) PROVE TypeInv'
  <2>1. CASE CheckLowestSource(k)
    BY <2>1 DEF CheckLowestSource, Step, TypeOK, disk, memory
  <2>2. CASE ReadSigningRoot(k)
    <3>1. (att[k].target \in DOMAIN roots[k] => SigningRootsDiffer(roots[k][att[k].target], att[k])) \in BOOLEAN
      BY DEF SigningRootsDiffer
    <3> QED
      BY <2>2, <3>1 DEF ReadSigningRoot, Step, TypeOK, disk, memory
  <2>3. CASE CheckLowestTarget(k)
    BY <2>3 DEF CheckLowestTarget, Step, TypeOK, disk, memory
  <2>4. CASE CheckSlashableAttestation(k)
    BY <2>4 DEF CheckSlashableAttestation, Step, TypeOK, disk, memory
  <2>5. CASE Enqueue(k)
    <3>1. /\ requests' = Append(requests, Record(k)) /\ Len(requests) < BatchCapacity
          /\ Step(k, "enqueue", "subscribe")
          /\ UNCHANGED <<disk, batched, flush, routine, answers, att, differ, submitted, crashes, failures>>
      BY <2>5 DEF Enqueue
    <3>2. requests' \in Seq(Records) /\ Len(requests') <= BatchCapacity
      <4>1. requests \in Seq(Records) /\ BatchCapacity \in Nat
        BY ProtectionAssumption, Zenon DEF TypeOK
      <4>2. Record(k) \in Records
        BY RecordType, Zenon
      <4> QED
        BY <3>1, <4>1, <4>2
    <3>3. call' \in [Keys -> {"idle", "source", "root", "target", "slashable",
                              "enqueue", "subscribe", "waiting"}]
      BY <3>1, CallStepType
    <3> QED
      BY <3>1, <3>2, <3>3 DEF TypeOK, disk
  <2>6. CASE Subscribe(k)
    BY <2>6 DEF Subscribe, Step, TypeOK, disk, memory
  <2>7. CASE Receive(k)
    BY <2>7 DEF Receive, Step, TypeOK, disk
  <2> QED
    BY <1>2, <2>1, <2>2, <2>3, <2>4, <2>5, <2>6, <2>7 DEF Proceed
<1>3. CASE TakeRequest
  <2> DEFINE records == Append(batched, Head(requests))
  <2>1. /\ routine = "select" /\ requests # <<>> /\ requests' = Tail(requests)
        /\ IF Len(records) >= BatchCapacity
           THEN batched' = <<>> /\ flush' = records /\ routine' = "save"
           ELSE batched' = records /\ flush' = flush /\ routine' = routine
        /\ UNCHANGED <<disk, answers, caller, submitted, crashes, failures>>
    BY <1>3 DEF TakeRequest
  <2>2. /\ requests \in Seq(Records) /\ batched \in Seq(Records) /\ flush \in Seq(Records)
        /\ Len(requests) <= BatchCapacity /\ Len(batched) < BatchCapacity + failures
        /\ failures \in Nat /\ flush = <<>> /\ BatchCapacity \in Nat \ {0}
    BY <2>1, ProtectionAssumption DEF TypeOK
  <2>3. requests' \in Seq(Records) /\ Len(requests') <= BatchCapacity
    BY <2>1, <2>2
  <2>4. records \in Seq(Records) /\ Len(records) = Len(batched) + 1 /\ records # <<>>
    <3>1. Head(requests) \in Records
      BY <2>1, <2>2
    <3>2. ASSUME NEW r \in Records
          PROVE  /\ Append(batched, r) \in Seq(Records) /\ Len(Append(batched, r)) = Len(batched) + 1
                 /\ Append(batched, r) # <<>>
      BY <2>2
    <3> QED
      BY <3>1, <3>2, Zenon
  <2> HIDE DEF records
  <2>5. /\ batched' \in Seq(Records) /\ flush' \in Seq(Records)
        /\ Len(batched') < BatchCapacity + failures
        /\ flush' # <<>> <=> routine' = "save"
        /\ routine' \in {"select", "save"}
        /\ routine' = "save" => batched' = <<>> /\ Len(flush') <= BatchCapacity + failures
    <3>1. CASE Len(records) >= BatchCapacity
      <4>1. batched' = <<>> /\ flush' = records /\ routine' = "save"
        BY <2>1, <3>1, Zenon
      <4>2. <<>> \in Seq(Records) /\ Len(<<>>) = 0
        OBVIOUS
      <4> QED
        BY <2>2, <2>4, <4>1, <4>2
    <3>2. CASE ~(Len(records) >= BatchCapacity)
      <4>1. batched' = records /\ flush' = <<>> /\ routine' = "select"
        BY <2>1, <2>2, <3>2, Zenon
      <4>2. Len(records) < BatchCapacity + failures
        BY <2>2, <2>4, <3>2
      <4> QED
        BY <2>2, <2>4, <4>1, <4>2
    <3> QED
      BY <3>1, <3>2
  <2> QED
    BY <2>1, <2>3, <2>5 DEF TypeOK, disk, caller
<1>4. CASE WriteInterval
  <2>1. /\ batched \in Seq(Records) /\ flush \in Seq(Records)
        /\ Len(batched) < BatchCapacity + failures
        /\ failures \in Nat /\ BatchCapacity \in Nat \ {0}
    BY ProtectionAssumption DEF TypeOK
  <2>2. /\ batched' = <<>> /\ flush' = batched /\ batched # <<>> /\ routine' = "save"
        /\ UNCHANGED <<disk, requests, answers, caller, submitted, crashes, failures>>
    BY <1>4 DEF WriteInterval
  <2>3. /\ batched' \in Seq(Records) /\ flush' \in Seq(Records)
        /\ Len(batched') < BatchCapacity + failures /\ Len(flush') <= BatchCapacity + failures
    BY <2>1, <2>2
  <2> QED
    BY <2>2, <2>3 DEF TypeOK, disk, caller
<1>5. CASE FlushSaves
  <2>1. /\ routine = "save" /\ saveAttestationRecords(flush)
        /\ flush' = <<>> /\ routine' = "saved"
        /\ UNCHANGED <<requests, batched, answers, caller, submitted, crashes, failures>>
    BY <1>5 DEF FlushSaves
  <2>2. Disk(roots, spans, lowestSource, lowestTarget) /\ flush \in Seq(Records)
    BY DiskType DEF TypeOK
  <2>3. Disk(roots', spans', lowestSource', lowestTarget')
    BY <2>1, <2>2, SaveKeepsTypes
  <2>4. flush' \in Seq(Records)
    BY <2>1
  <2> QED
    BY <2>1, <2>3, <2>4 DEF TypeOK, Disk, Roots, caller
<1>6. CASE FlushFails
  <2>1. /\ routine = "save" /\ failures < MaxFailures /\ failures' = failures + 1
        /\ batched' = batched \o flush /\ flush' = <<>> /\ routine' = "failed"
        /\ UNCHANGED <<disk, requests, answers, caller, submitted, crashes>>
    BY <1>6 DEF FlushFails
  <2>2. /\ batched = <<>> /\ flush \in Seq(Records) /\ Len(flush) <= BatchCapacity + failures
        /\ failures \in Nat /\ BatchCapacity \in Nat
    BY <2>1, ProtectionAssumption DEF TypeOK
  <2>3. batched' \in Seq(Records) /\ Len(batched') < BatchCapacity + failures'
    BY <2>1, <2>2
  <2>4. failures' \in 0 .. MaxFailures /\ flush' \in Seq(Records)
    BY <2>1, ProtectionAssumption DEF TypeOK
  <2> QED
    BY <2>1, <2>3, <2>4 DEF TypeOK, disk, caller
<1>7. CASE SendAnswer
  BY <1>7 DEF SendAnswer, TypeOK, disk, caller
<1>8. CASE Crash
  <2>1. /\ requests' = <<>> /\ batched' = <<>> /\ flush' = <<>> /\ routine' = "select"
        /\ crashes < MaxCrashes /\ crashes' = crashes + 1
        /\ call' = [k \in Keys |-> "idle"] /\ answers' = [k \in Keys |-> "none"]
        /\ UNCHANGED <<disk, att, differ, submitted, failures>>
    BY <1>8 DEF Crash
  <2>2. /\ \A queue \in {requests', batched', flush'} : queue \in Seq(Records)
        /\ Len(requests') = 0 /\ Len(batched') = 0
    BY <2>1
  <2>3. crashes' \in 0 .. MaxCrashes /\ failures \in Nat /\ BatchCapacity \in Nat \ {0}
    BY <2>1, ProtectionAssumption DEF TypeOK
  <2> QED
    BY <2>1, <2>2, <2>3 DEF TypeOK, disk
<1>9. CASE UNCHANGED vars
  BY <1>9 DEF vars, disk, memory, caller, TypeOK
<1> QED
  BY <1>1, <1>2, <1>3, <1>4, <1>5, <1>6, <1>7, <1>8, <1>9 DEF Next, Routine

\* For every set of keys, every batch capacity and every pattern of crashes and failures, the
\* buckets and queues keep their types, and no batch outgrows its capacity by more than
\* one record for each failed flush.
THEOREM TypeCorrect == Spec => []TypeOK
<1>1. TypeInv => TypeOK
  BY DEF TypeInv
<1> QED
  BY <1>1, InitType, StepType, PTL DEF Spec
-----------------------------------------------------------------------------
(* Protection: one key.                                                    *)

\* An attestation that agrees with the history in the database: no other signing root at its
\* target, no span it surrounds and none that surrounds it.
Clear(k, data) ==
    /\ data.target \in DOMAIN roots[k] => roots[k][data.target] = data
    /\ ~ checkSurroundingVote(k, data)
    /\ ~ checkSurroundedVote(k, data)

\* The record of an attestation is in the database.
InDisk(k, data) ==
    /\ <<data.source, data.target>> \in spans[k]
    /\ data.target \in DOMAIN roots[k]
    /\ roots[k][data.target] = data

Queues(onChannel, inBatch, inFlush) ==
    requests = onChannel /\ batched = inBatch /\ flush = inFlush

\* The record of the call is on its way to the database: in the channel, in the batch or in the
\* flush, once, with no other record.
OnTheWay(k) ==
    /\ answers[k] = "none"
    /\ \/ Queues(<<Record(k)>>, <<>>, <<>>) /\ routine = "select"
       \/ Queues(<<>>, <<Record(k)>>, <<>>) /\ routine = "select"
       \/ Queues(<<>>, <<>>, <<Record(k)>>) /\ routine = "save"

\* It has arrived, and an answer says so at most.
Written(k) ==
    /\ Queues(<<>>, <<>>, <<>>)
    /\ InDisk(k, att[k])
    /\ \/ routine = "saved" /\ answers[k] = "none"
       \/ routine = "select" /\ answers[k] # "failed"

\* The call that holds the key's lock.
CallOK(k) ==
    /\ call[k] \in {"enqueue", "subscribe", "waiting"} => Clear(k, att[k])
    /\ call[k] \in {"subscribe", "waiting"} => OnTheWay(k) \/ Written(k)
    /\ call[k] \notin {"subscribe", "waiting"} =>
           Queues(<<>>, <<>>, <<>>) /\ routine = "select" /\ answers[k] = "none"

SubmittedOK(k) == \A data \in submitted[k] : InDisk(k, data) /\ Clear(k, data)

SInv(k) == failures = 0 => CallOK(k) /\ SubmittedOK(k)

\* The one key of the client.
LEMMA OneKey ==
    ASSUME NEW k, Keys = {k}
    PROVE  k \in Keys /\ \A x \in Keys : x = k
OBVIOUS

\* What a flush of one record leaves in the database.
LEMMA SavedOne ==
    ASSUME TypeInv, NEW k \in Keys, saveAttestationRecords(<<Record(k)>>)
    PROVE  /\ spans'[k] = spans[k] \cup {<<att[k].source, att[k].target>>}
           /\ DOMAIN roots'[k] = DOMAIN roots[k] \cup {att[k].target}
           /\ roots'[k][att[k].target] = att[k]
           /\ \A t \in DOMAIN roots[k] : t # att[k].target => roots'[k][t] = roots[k][t]
<1> DEFINE r == Record(k)
           records == <<r>>
           put(t) == {i \in DOMAIN records : records[i].key = k /\ records[i].target = t}
           targets == {t \in 0 .. MaxEpoch : t \in DOMAIN roots[k] \/ put(t) # {}}
           new == [t \in targets |->
                      IF put(t) # {} THEN records[Max(put(t))].signingRoot ELSE roots[k][t]]
<1>1. /\ roots'[k] = savedRoots(roots[k], records, k)
      /\ spans'[k] = savedSpans(spans[k], records, k)
  BY Zenon DEF saveAttestationRecords
<1>2. roots'[k] = new
  BY <1>1, Zenon DEF savedRoots
<1>3. r.key = k /\ r.source = att[k].source /\ r.target = att[k].target /\ r.signingRoot = att[k]
  BY DEF Record
<1>4. att[k] \in Inputs /\ att[k].source \in 0 .. MaxEpoch /\ att[k].target \in 0 .. MaxEpoch
  <2>1. att[k] \in Inputs
    BY DEF TypeInv, TypeOK
  <2> QED
    BY <2>1, InputEpochs
<1>5. DOMAIN records = {1} /\ records[1] = r
  OBVIOUS
<1> HIDE DEF r, records
<1>6. put(att[k].target) = {1} /\ \A t : t # att[k].target => put(t) = {}
  BY <1>3, <1>5
<1>7. Max({1}) = 1
  <2>1. Max({1}) \in {1}
    BY MaxInSet
  <2> QED
    BY <2>1
<1>8. spans'[k] = spans[k] \cup {<<att[k].source, att[k].target>>}
  BY <1>1, <1>3, <1>4, <1>5 DEF savedSpans, Spans
<1>9. DOMAIN roots[k] \in SUBSET (0 .. MaxEpoch)
  <2>1. roots[k] \in Roots
    BY DEF TypeInv, TypeOK, Roots
  <2>2. PICK S \in SUBSET (0 .. MaxEpoch) : roots[k] \in [S -> Inputs \cup {NoSigningRoot}]
    BY <2>1, Zenon DEF Roots
  <2> QED
    BY <2>2
<1> HIDE DEF put
<1>10. targets = DOMAIN roots[k] \cup {att[k].target}
  BY <1>4, <1>6, <1>9
<1> HIDE DEF targets
<1>11. DOMAIN roots'[k] = DOMAIN roots[k] \cup {att[k].target}
  BY <1>2, <1>10
<1>12. roots'[k][att[k].target] = att[k]
  <2>1. new[att[k].target] = records[Max(put(att[k].target))].signingRoot
    BY <1>6, <1>10
  <2> QED
    BY <1>2, <1>3, <1>5, <1>6, <1>7, <2>1
<1>13. ASSUME NEW t \in DOMAIN roots[k], t # att[k].target PROVE roots'[k][t] = roots[k][t]
  BY <1>2, <1>6, <1>10, <1>13
<1> QED
  BY <1>8, <1>11, <1>12, <1>13

\* A flush of the record of a call that agrees with the history keeps the history's signing
\* roots, and what agreed with the record and with the history still does.
LEMMA SavedAgrees ==
    ASSUME TypeInv, NEW k \in Keys, saveAttestationRecords(<<Record(k)>>), Clear(k, att[k]),
           UNCHANGED att
    PROVE  /\ InDisk(k, att[k])' /\ Clear(k, att[k])'
           /\ \A data \in Inputs : InDisk(k, data) /\ Clear(k, data) => InDisk(k, data)' /\ Clear(k, data)'
           /\ \A t \in DOMAIN roots[k] : roots'[k][t] = roots[k][t]
<1> DEFINE a == att[k]
<1>1. /\ spans'[k] = spans[k] \cup {<<a.source, a.target>>}
      /\ DOMAIN roots'[k] = DOMAIN roots[k] \cup {a.target}
      /\ roots'[k][a.target] = a
      /\ \A t \in DOMAIN roots[k] : t # a.target => roots'[k][t] = roots[k][t]
  BY SavedOne, Zenon
<1>2. /\ a.target \in DOMAIN roots[k] => roots[k][a.target] = a
      /\ \A span \in spans[k] : /\ ~ IsSurround(a.source, a.target, span[1], span[2])
                                /\ ~ IsSurround(span[1], span[2], a.source, a.target)
  BY DEF Clear, checkSurroundingVote, checkSurroundedVote
<1>3. a \in Inputs /\ a.source \in 0 .. MaxEpoch /\ a.target \in 0 .. MaxEpoch
  <2>1. att[k] \in Inputs
    BY DEF TypeInv, TypeOK
  <2> QED
    BY <2>1, InputEpochs
<1>4. att'[k] = a
  OBVIOUS
<1> HIDE DEF a
<1>5. \A t \in DOMAIN roots[k] : roots'[k][t] = roots[k][t]
  BY <1>1, <1>2
<1>6. ASSUME NEW data \in Inputs, InDisk(k, data), Clear(k, data)
      PROVE  InDisk(k, data)' /\ Clear(k, data)'
  <2>1. /\ <<data.source, data.target>> \in spans[k] /\ data.target \in DOMAIN roots[k]
        /\ roots[k][data.target] = data
    BY <1>6 DEF InDisk
  <2>2. InDisk(k, data)'
    BY <2>1, <1>1, <1>5 DEF InDisk
  <2>3. /\ ~ IsSurround(a.source, a.target, data.source, data.target)
        /\ ~ IsSurround(data.source, data.target, a.source, a.target)
    BY <1>2, <2>1
  <2>4. \A span \in spans[k] : /\ ~ IsSurround(data.source, data.target, span[1], span[2])
                               /\ ~ IsSurround(span[1], span[2], data.source, data.target)
    BY <1>6 DEF Clear, checkSurroundingVote, checkSurroundedVote
  <2>5. \A span \in spans'[k] : /\ ~ IsSurround(data.source, data.target, span[1], span[2])
                                /\ ~ IsSurround(span[1], span[2], data.source, data.target)
    BY <1>1, <2>3, <2>4
  <2>6. data.target \in DOMAIN roots'[k] => roots'[k][data.target] = data
    BY <2>1, <1>5
  <2> QED
    BY <2>2, <2>5, <2>6 DEF Clear, checkSurroundingVote, checkSurroundedVote
<1>7. InDisk(k, att[k])'
  BY <1>1, <1>4 DEF InDisk
<1>8. Clear(k, att[k])'
  <2>1. ~ IsSurround(a.source, a.target, a.source, a.target)
    BY <1>3 DEF IsSurround
  <2>2. \A span \in spans'[k] : /\ ~ IsSurround(a.source, a.target, span[1], span[2])
                                /\ ~ IsSurround(span[1], span[2], a.source, a.target)
    BY <1>1, <1>2, <2>1
  <2> QED
    BY <1>1, <1>4, <2>2 DEF Clear, checkSurroundingVote, checkSurroundedVote
<1> QED
  BY <1>5, <1>6, <1>7, <1>8

\* Initially no call runs and nothing is submitted.
LEMMA InitProtected ==
    ASSUME NEW k, Keys = {k}
    PROVE  Init => SInv(k)
BY OneKey DEF Init, SInv, CallOK, SubmittedOK, Queues

\* A step that leaves the database and the submissions alone keeps what is submitted.
LEMMA SubmittedStays ==
    ASSUME NEW k, SubmittedOK(k), UNCHANGED <<roots, spans, submitted>>
    PROVE  SubmittedOK(k)'
BY DEF SubmittedOK, InDisk, Clear, checkSurroundingVote, checkSurroundedVote

\* A step that leaves the database alone keeps what agrees with it.
LEMMA ClearStays ==
    ASSUME NEW k, Clear(k, att[k]), UNCHANGED <<roots, spans, att>>
    PROVE  Clear(k, att[k])'
BY DEF Clear, checkSurroundingVote, checkSurroundedVote

\* A record stays in the database as long as nothing is written.
LEMMA InDiskStays ==
    ASSUME NEW k, InDisk(k, att[k]), UNCHANGED <<roots, spans, att>>
    PROVE  InDisk(k, att[k])'
BY DEF InDisk

\* The steps of a call before it enqueues its record: nothing is on the way.
LEMMA CheckProtected ==
    ASSUME NEW k, Keys = {k}, TypeInv, CallOK(k), SubmittedOK(k),
           \/ \E data \in Inputs : SubmitAttestation(k, data)
           \/ CheckLowestSource(k) \/ ReadSigningRoot(k) \/ CheckLowestTarget(k)
           \/ CheckSlashableAttestation(k)
    PROVE  CallOK(k)' /\ SubmittedOK(k)'
<1>1. UNCHANGED <<roots, spans, submitted>> /\ UNCHANGED memory
  BY DEF SubmitAttestation, CheckLowestSource, ReadSigningRoot, CheckLowestTarget,
         CheckSlashableAttestation, disk
<1>2. SubmittedOK(k)'
  BY <1>1, SubmittedStays
<1>3. call \in [Keys -> {"idle", "source", "root", "target", "slashable", "enqueue",
                         "subscribe", "waiting"}] /\ k \in Keys
  BY DEF TypeInv, TypeOK
<1>4. call[k] \notin {"subscribe", "waiting"} /\ call'[k] \notin {"subscribe", "waiting"}
  BY <1>3 DEF SubmitAttestation, CheckLowestSource, ReadSigningRoot, CheckLowestTarget,
              CheckSlashableAttestation, Step
<1>5. Queues(<<>>, <<>>, <<>>)' /\ routine' = "select" /\ answers'[k] = "none"
  BY <1>1, <1>4 DEF CallOK, Queues, memory
<1>6. ASSUME call'[k] = "enqueue" PROVE Clear(k, att[k])'
  <2>1. CheckSlashableAttestation(k)
    BY <1>3, <1>6 DEF SubmitAttestation, CheckLowestSource, ReadSigningRoot, CheckLowestTarget, Step
  <2>2. ~ doubleVote(k, att[k]) /\ ~ checkSurroundingVote(k, att[k]) /\ ~ checkSurroundedVote(k, att[k])
    BY <1>3, <1>6, <2>1 DEF CheckSlashableAttestation, Step
  <2>3. Clear(k, att[k])
    BY <2>2 DEF Clear, doubleVote, SigningRootsDiffer
  <2>4. UNCHANGED att
    BY <2>1 DEF CheckSlashableAttestation
  <2> QED
    BY <1>1, <2>3, <2>4, ClearStays
<1> QED
  BY <1>2, <1>4, <1>5, <1>6 DEF CallOK

\* The record enters the channel, and the caller subscribes.
LEMMA EnqueueProtected ==
    ASSUME NEW k, Keys = {k}, TypeInv, CallOK(k), SubmittedOK(k), Enqueue(k) \/ Subscribe(k)
    PROVE  CallOK(k)' /\ SubmittedOK(k)'
<1>1. UNCHANGED <<roots, spans, submitted, att>>
  BY DEF Enqueue, Subscribe, disk
<1>2. SubmittedOK(k)'
  BY <1>1, SubmittedStays
<1>3. call \in [Keys -> {"idle", "source", "root", "target", "slashable", "enqueue",
                         "subscribe", "waiting"}] /\ k \in Keys
  BY DEF TypeInv, TypeOK
<1>4. call[k] \in {"enqueue", "subscribe"} /\ call'[k] \in {"subscribe", "waiting"}
  BY <1>3 DEF Enqueue, Subscribe, Step
<1>5. Clear(k, att[k])'
  BY <1>1, <1>4, ClearStays DEF CallOK
<1>6. Record(k)' = Record(k)
  BY <1>1 DEF Record
<1>7. CASE Enqueue(k)
  <2>1. Queues(<<>>, <<>>, <<>>) /\ routine = "select" /\ answers[k] = "none"
    BY <1>3, <1>7 DEF CallOK, Enqueue, Step
  <2>2. requests' = Append(<<>>, Record(k)) /\ UNCHANGED <<batched, flush, routine, answers>>
    BY <1>7, <2>1 DEF Enqueue, Queues
  <2>3. Append(<<>>, Record(k)) = <<Record(k)>>
    OBVIOUS
  <2>4. Queues(<<Record(k)>>, <<>>, <<>>)' /\ routine' = "select" /\ answers'[k] = "none"
    BY <1>6, <2>1, <2>2, <2>3 DEF Queues
  <2> QED
    BY <1>2, <1>4, <1>5, <2>4 DEF CallOK, OnTheWay
<1>8. CASE Subscribe(k)
  <2>1. UNCHANGED memory /\ (OnTheWay(k) \/ Written(k))
    BY <1>3, <1>8 DEF CallOK, Subscribe, Step
  <2>2. OnTheWay(k) => OnTheWay(k)'
    BY <1>6, <2>1 DEF OnTheWay, Queues, memory
  <2>3. Written(k) => Written(k)'
    BY <1>1, <2>1, InDiskStays DEF Written, Queues, memory
  <2> QED
    BY <1>2, <1>4, <1>5, <2>1, <2>2, <2>3 DEF CallOK
<1> QED
  BY <1>7, <1>8

\* An answer is received only for a record that is in the database.
LEMMA ReceiveProtected ==
    ASSUME NEW k, Keys = {k}, TypeInv, CallOK(k), SubmittedOK(k), Receive(k)
    PROVE  CallOK(k)' /\ SubmittedOK(k)'
<1>1. /\ k \in Keys /\ call[k] = "waiting" /\ answers[k] # "none"
      /\ call'[k] = "idle" /\ answers'[k] = "none"
      /\ UNCHANGED <<roots, spans, att, requests, batched, flush, routine>>
  BY DEF TypeInv, TypeOK, Receive, Step, disk
<1>2. Written(k) /\ Clear(k, att[k])
  BY <1>1 DEF CallOK, OnTheWay
<1>3. Queues(<<>>, <<>>, <<>>)' /\ routine' = "select"
  BY <1>1, <1>2 DEF Written, Queues
<1>4. \A data \in submitted'[k] : data \in submitted[k] \/ data = att[k]
  BY <1>1 DEF Receive, TypeInv, TypeOK
<1>5. \A data \in submitted'[k] : InDisk(k, data) /\ Clear(k, data)
  BY <1>2, <1>4 DEF SubmittedOK, Written
<1>6. SubmittedOK(k)'
  BY <1>1, <1>5 DEF SubmittedOK, InDisk, Clear, checkSurroundingVote, checkSurroundedVote
<1> QED
  BY <1>1, <1>3, <1>6 DEF CallOK

\* The background routine moves the one record, or has none to move.
LEMMA RoutineProtected ==
    ASSUME NEW k, Keys = {k}, TypeInv, CallOK(k), SubmittedOK(k),
           TakeRequest \/ WriteInterval \/ FlushSaves \/ SendAnswer
    PROVE  CallOK(k)' /\ SubmittedOK(k)'
<1>1. UNCHANGED <<att, call, submitted>> /\ k \in Keys
  BY DEF TakeRequest, WriteInterval, FlushSaves, SendAnswer, caller
<1>2. Record(k)' = Record(k)
  BY <1>1 DEF Record
<1>3. call[k] \in {"subscribe", "waiting"} /\ Clear(k, att[k])
  BY DEF CallOK, Queues, TakeRequest, WriteInterval, FlushSaves, SendAnswer
<1>4. CASE TakeRequest
  <2>1. Queues(<<Record(k)>>, <<>>, <<>>) /\ routine = "select" /\ answers[k] = "none"
    BY <1>3, <1>4 DEF CallOK, OnTheWay, Written, Queues, TakeRequest
  <2>2. Tail(<<Record(k)>>) = <<>> /\ Append(<<>>, Head(<<Record(k)>>)) = <<Record(k)>>
    OBVIOUS
  <2>3. /\ requests' = <<>>
        /\ \/ batched' = <<>> /\ flush' = <<Record(k)>> /\ routine' = "save"
           \/ batched' = <<Record(k)>> /\ flush' = <<>> /\ routine' = "select"
        /\ UNCHANGED <<roots, spans, answers>>
    BY <1>4, <2>1, <2>2 DEF TakeRequest, Queues, disk
  <2>4. OnTheWay(k)'
    BY <1>2, <2>1, <2>3 DEF OnTheWay, Queues
  <2> QED
    BY <1>1, <1>3, <2>3, <2>4, ClearStays, SubmittedStays DEF CallOK
<1>5. CASE WriteInterval
  <2>1. Queues(<<>>, <<Record(k)>>, <<>>) /\ routine = "select" /\ answers[k] = "none"
    BY <1>3, <1>5 DEF CallOK, OnTheWay, Written, Queues, WriteInterval
  <2>2. /\ requests' = <<>> /\ batched' = <<>> /\ flush' = <<Record(k)>> /\ routine' = "save"
        /\ UNCHANGED <<roots, spans, answers>>
    BY <1>5, <2>1 DEF WriteInterval, Queues, disk
  <2>3. OnTheWay(k)'
    BY <1>2, <2>1, <2>2 DEF OnTheWay, Queues
  <2> QED
    BY <1>1, <1>3, <2>2, <2>3, ClearStays, SubmittedStays DEF CallOK
<1>6. CASE FlushSaves
  <2>1. Queues(<<>>, <<>>, <<Record(k)>>) /\ routine = "save" /\ answers[k] = "none"
    BY <1>3, <1>6 DEF CallOK, OnTheWay, Written, Queues, FlushSaves
  <2>2. /\ saveAttestationRecords(<<Record(k)>>)
        /\ requests' = <<>> /\ batched' = <<>> /\ flush' = <<>> /\ routine' = "saved"
        /\ UNCHANGED answers
    BY <1>6, <2>1 DEF FlushSaves, Queues
  <2>3. /\ InDisk(k, att[k])' /\ Clear(k, att[k])'
        /\ \A data \in Inputs : InDisk(k, data) /\ Clear(k, data) => InDisk(k, data)' /\ Clear(k, data)'
    BY <1>1, <1>3, <2>2, SavedAgrees
  <2>4. submitted[k] \in SUBSET Inputs
    BY <1>1 DEF TypeInv, TypeOK
  <2>5. SubmittedOK(k)'
    BY <1>1, <2>3, <2>4 DEF SubmittedOK
  <2>6. Written(k)'
    BY <2>1, <2>2, <2>3 DEF Written, Queues
  <2> QED
    BY <1>1, <1>3, <2>3, <2>5, <2>6 DEF CallOK
<1>7. CASE SendAnswer
  <2>1. Written(k) /\ routine = "saved" /\ answers[k] = "none"
    BY <1>3, <1>7 DEF CallOK, OnTheWay, Written, SendAnswer
  <2>2. /\ answers'[k] \in {"none", "saved"} /\ routine' = "select"
        /\ UNCHANGED <<roots, spans, requests, batched, flush>>
    BY <1>1, <1>7, <2>1 DEF SendAnswer, disk
  <2>3. Written(k)'
    BY <1>1, <2>1, <2>2, InDiskStays DEF Written, Queues
  <2> QED
    BY <1>1, <1>3, <2>2, <2>3, ClearStays, SubmittedStays DEF CallOK
<1> QED
  BY <1>4, <1>5, <1>6, <1>7

\* A crash loses the record on its way, and with it the only call that could submit it.
LEMMA CrashProtected ==
    ASSUME NEW k, Keys = {k}, SubmittedOK(k), Crash
    PROVE  CallOK(k)' /\ SubmittedOK(k)'
<1>1. UNCHANGED <<roots, spans, submitted>>
  BY DEF Crash, disk
<1>2. /\ call'[k] = "idle" /\ answers'[k] = "none" /\ routine' = "select"
      /\ requests' = <<>> /\ batched' = <<>> /\ flush' = <<>>
  BY DEF Crash
<1> QED
  BY <1>1, <1>2, SubmittedStays DEF CallOK, Queues

\* Every step of a client with one key keeps the protection.
LEMMA StepProtected ==
    ASSUME NEW k, Keys = {k}
    PROVE  TypeInv /\ SInv(k) /\ [Next]_vars => SInv(k)'
<1> SUFFICES ASSUME TypeInv, SInv(k), [Next]_vars, failures' = 0
             PROVE  CallOK(k)' /\ SubmittedOK(k)'
  BY DEF SInv
<1>1. ~ FlushFails /\ failures = 0
  <2>1. failures \in Nat
    BY ProtectionAssumption DEF TypeInv, TypeOK
  <2>2. failures' = failures + 1 \/ failures' = failures
    BY DEF Next, Proceed, Routine, SubmitAttestation, CheckLowestSource, ReadSigningRoot,
           CheckLowestTarget, CheckSlashableAttestation, Enqueue, Subscribe, Receive, TakeRequest,
           WriteInterval, FlushSaves, FlushFails, SendAnswer, Crash, vars
  <2>3. FlushFails => failures' = failures + 1
    BY DEF FlushFails
  <2> QED
    BY <2>1, <2>2, <2>3
<1>2. CallOK(k) /\ SubmittedOK(k)
  BY <1>1 DEF SInv
<1>3. CASE UNCHANGED vars
  <2>1. UNCHANGED <<roots, spans, submitted, att, call, requests, batched, flush, routine, answers>>
    BY <1>3 DEF vars, disk, memory, caller
  <2>2. SubmittedOK(k)' /\ Record(k)' = Record(k)
    BY <1>2, <2>1, SubmittedStays DEF Record
  <2>3. OnTheWay(k) => OnTheWay(k)'
    BY <2>1, <2>2 DEF OnTheWay, Queues
  <2>4. Written(k) => Written(k)'
    BY <2>1, InDiskStays DEF Written, Queues
  <2>5. Clear(k, att[k]) => Clear(k, att[k])'
    BY <2>1, ClearStays
  <2> QED
    BY <1>2, <2>1, <2>2, <2>3, <2>4, <2>5 DEF CallOK, Queues
<1>4. CASE \E data \in Inputs : SubmitAttestation(k, data)
  BY <1>2, <1>4, CheckProtected
<1>5. CASE Proceed(k)
  BY <1>2, <1>5, CheckProtected, EnqueueProtected, ReceiveProtected DEF Proceed
<1>6. CASE Routine
  BY <1>1, <1>2, <1>6, RoutineProtected DEF Routine
<1>7. CASE Crash
  BY <1>2, <1>7, CrashProtected
<1> QED
  BY <1>3, <1>4, <1>5, <1>6, <1>7, OneKey DEF Next

\* In every behaviour of a client with one key the record of the running call is in one place
\* between the caller and the database, and what is submitted is in the database.
THEOREM ProtectionInvariance ==
    ASSUME NEW key, Keys = {key}
    PROVE  Spec => [](TypeInv /\ SInv(key))
<1>1. Init => TypeInv /\ SInv(key)
  BY InitType, InitProtected
<1>2. TypeInv /\ SInv(key) /\ [Next]_vars => (TypeInv /\ SInv(key))'
  BY StepType, StepProtected
<1> QED
  BY <1>1, <1>2, PTL DEF Spec

\* For one key: as long as every write succeeds, no two submitted attestations are slashable
\* together, and none is slashable with a span of the history, whatever was imported, whatever
\* the beacon node hands out, however often the client crashes and however long the batches are.
THEOREM NoSlashableAttestation ==
    ASSUME NEW key, Keys = {key}
    PROVE  Spec => []NoSlashableSubmitted
<1>1. TypeInv /\ SInv(key) => NoSlashableSubmitted
  <2> SUFFICES ASSUME TypeInv, SInv(key), failures = 0, NEW data \in submitted[key]
               PROVE  /\ \A other \in submitted[key] : ~ Slashable(data, other)
                      /\ \A span \in spans[key] :
                            /\ ~ IsSurround(data.source, data.target, span[1], span[2])
                            /\ ~ IsSurround(span[1], span[2], data.source, data.target)
    BY OneKey, Zenon DEF NoSlashableSubmitted
  <2>1. \A d \in submitted[key] : InDisk(key, d) /\ Clear(key, d)
    BY DEF SInv, SubmittedOK
  <2>2. \A span \in spans[key] :
            /\ ~ IsSurround(data.source, data.target, span[1], span[2])
            /\ ~ IsSurround(span[1], span[2], data.source, data.target)
    BY <2>1 DEF Clear, checkSurroundingVote, checkSurroundedVote
  <2>3. ASSUME NEW other \in submitted[key] PROVE ~ Slashable(data, other)
    <3>1. /\ <<other.source, other.target>> \in spans[key]
          /\ roots[key][other.target] = other /\ roots[key][data.target] = data
      BY <2>1 DEF InDisk
    <3>2. /\ ~ IsSurround(data.source, data.target, other.source, other.target)
          /\ ~ IsSurround(other.source, other.target, data.source, data.target)
      BY <2>2, <3>1
    <3> QED
      BY <3>1, <3>2 DEF Slashable
  <2> QED
    BY <2>2, <2>3
<1> QED
  BY <1>1, ProtectionInvariance, PTL

\* For one key: an attestation is submitted only when its record is in the database, as long as
\* every write succeeds.
THEOREM SavedFirst ==
    ASSUME NEW key, Keys = {key}
    PROVE  Spec => []SavedBeforeSubmitted
<1>1. SInv(key) => SavedBeforeSubmitted
  BY OneKey DEF SInv, SubmittedOK, InDisk, SavedBeforeSubmitted, Saved
<1> QED
  BY <1>1, ProtectionInvariance, PTL

\* For one key: no step replaces a signing root in the database, imported ones included, as long
\* as every write succeeds.
THEOREM RootsStay ==
    ASSUME NEW key, Keys = {key}
    PROVE  Spec => RootsFinal
<1>1. TypeInv /\ SInv(key) /\ [Next]_vars =>
        [failures' = 0 =>
            \A k \in Keys : \A target \in DOMAIN roots[k] :
                roots'[k][target] = roots[k][target]]_vars
  <2> SUFFICES ASSUME TypeInv, SInv(key), Next, failures' = 0,
                      NEW target \in DOMAIN roots[key]
               PROVE  roots'[key][target] = roots[key][target]
    BY OneKey, Zenon DEF vars, disk
  <2>1. CASE ~ FlushSaves
    <3>1. UNCHANGED roots
      BY <2>1 DEF Next, Proceed, Routine, SubmitAttestation, CheckLowestSource, ReadSigningRoot,
           CheckLowestTarget, CheckSlashableAttestation, Enqueue, Subscribe, Receive, TakeRequest,
           WriteInterval, FlushFails, SendAnswer, Crash, disk
    <3> QED
      BY <3>1
  <2>2. CASE FlushSaves
    <3>1. CallOK(key)
      BY <2>2 DEF FlushSaves, SInv
    <3>2. /\ flush = <<Record(key)>> /\ call[key] \in {"subscribe", "waiting"}
      BY <2>2, <3>1 DEF CallOK, OnTheWay, Written, Queues, FlushSaves
    <3>3. Clear(key, att[key]) /\ saveAttestationRecords(<<Record(key)>>) /\ UNCHANGED att
      BY <2>2, <3>1, <3>2 DEF CallOK, FlushSaves, caller
    <3> QED
      BY <3>3, OneKey, SavedAgrees
  <2> QED
    BY <2>1, <2>2
<1> QED
  BY <1>1, ProtectionInvariance, PTL DEF Spec, RootsFinal
=============================================================================
