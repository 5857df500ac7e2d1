------------------------- MODULE AttesterProtection -------------------------
(***************************************************************************)
(* Local slashing protection of the validator client for attestations      *)
(* (validator/client/attest.go, attest_protect.go and                      *)
(* validator/db/kv/attester_protection.go).                                *)
(*                                                                         *)
(* SubmitAttestation runs under a lock per public key: it compares the     *)
(* attestation with the history on disk, hands a record to a background    *)
(* routine that writes records in batches, subscribes to the routine's     *)
(* answers, waits for one, and submits the attestation.  Each database     *)
(* transaction and each channel operation is a step.  A signing root is    *)
(* the hash of the attestation data and is represented by the data.        *)
(***************************************************************************)
EXTENDS Integers, Sequences, FiniteSetsExt

CONSTANTS
    Keys,            \* public keys of the validator client
    Inputs,          \* attestation data the beacon node hands out: [source, target, block]
    Imports,         \* histories that may be imported before the start, lists of records
    MaxEpoch,        \* bound on the epochs of the data
    BatchCapacity,   \* attestationBatchCapacity
    MaxCrashes,      \* bound on crashes of the client
    MaxFailures,     \* bound on failed write transactions
    NoSigningRoot    \* an empty signing root: imported histories may have one

\* No lowest signed epoch is stored.
NoEpoch == MaxEpoch + 1

Spans == (0 .. MaxEpoch) \X (0 .. MaxEpoch)
Records == [key : Keys, source : 0 .. MaxEpoch, target : 0 .. MaxEpoch,
            signingRoot : Inputs \cup {NoSigningRoot}]

ASSUME ProtectionAssumption ==
    /\ {MaxEpoch, BatchCapacity, MaxCrashes, MaxFailures} \subseteq Nat
    /\ BatchCapacity > 0
    /\ Inputs # {}
    /\ \A data \in Inputs : <<data.source, data.target>> \in Spans
    /\ Imports \subseteq Seq(Records)

VARIABLES
    roots,         \* signing roots bucket: [Keys -> [target epochs with an entry -> signing root]]
    spans,         \* source and target epochs buckets: [Keys -> set of <<source, target>>]
    lowestSource,  \* [Keys -> lowest signed source epoch, or NoEpoch]
    lowestTarget,  \* [Keys -> lowest signed target epoch, or NoEpoch]
    call,          \* [Keys -> where the SubmitAttestation that holds the key's lock is]
    att,           \* [Keys -> the data it submits]
    differ,        \* [Keys -> signingRootsDiffer, read before the lowest target epoch]
    requests,      \* batchedAttestationsChan
    batched,       \* batchedAttestations
    flush,         \* the records the background routine is flushing
    routine,       \* where the background routine is
    answers,       \* [Keys -> contents of responseChan]
    submitted,     \* [Keys -> data handed to ProposeAttestation]
    crashes, failures

disk == <<roots, spans, lowestSource, lowestTarget>>
memory == <<requests, batched, flush, routine, answers>>
caller == <<call, att, differ>>
vars == <<disk, memory, caller, submitted, crashes, failures>>

TypeOK ==
    /\ roots \in [Keys -> UNION {[targets -> Inputs \cup {NoSigningRoot}] :
                                      targets \in SUBSET (0 .. MaxEpoch)}]
    /\ spans \in [Keys -> SUBSET Spans]
    /\ lowestSource \in [Keys -> 0 .. NoEpoch]
    /\ lowestTarget \in [Keys -> 0 .. NoEpoch]
    /\ call \in [Keys -> {"idle", "source", "root", "target", "slashable",
                          "enqueue", "subscribe", "waiting"}]
    /\ att \in [Keys -> Inputs]
    /\ differ \in [Keys -> BOOLEAN]
    /\ \A queue \in {requests, batched, flush} : queue \in Seq(Records)
    /\ Len(requests) <= BatchCapacity /\ Len(batched) < BatchCapacity + failures
    /\ routine \in {"select", "save", "saved", "failed"}
    /\ flush # <<>> <=> routine = "save"
    /\ answers \in [Keys -> {"none", "saved", "failed"}]
    /\ submitted \in [Keys -> SUBSET Inputs]
    /\ crashes \in 0 .. MaxCrashes /\ failures \in 0 .. MaxFailures

-----------------------------------------------------------------------------
(* The comparison with the history.                                        *)

SigningRootsDiffer(existing, incoming) ==
    existing = NoSigningRoot \/ existing # incoming

IsSurround(source1, target1, source2, target2) ==
    source1 < source2 /\ target2 < target1

Step(k, from, to) ==
    /\ call[k] = from
    /\ call' = [call EXCEPT ![k] = to]

\* slashableAttestationCheck starts: the lock of the key is held.
SubmitAttestation(k, data) ==
    /\ Step(k, "idle", "source")
    /\ att' = [att EXCEPT ![k] = data]
    /\ UNCHANGED <<disk, memory, differ, submitted, crashes, failures>>

CheckLowestSource(k) ==
    /\ Step(k, "source",
            IF lowestSource[k] # NoEpoch /\ att[k].source < lowestSource[k]
            THEN "idle" ELSE "root")
    /\ UNCHANGED <<disk, memory, att, differ, submitted, crashes, failures>>

\* SigningRootAtTargetEpoch: no entry reads as an empty root.
ReadSigningRoot(k) ==
    /\ Step(k, "root", "target")
    /\ differ' = [differ EXCEPT ![k] =
           att[k].target \in DOMAIN roots[k] =>
               SigningRootsDiffer(roots[k][att[k].target], att[k])]
    /\ UNCHANGED <<disk, memory, att, submitted, crashes, failures>>

CheckLowestTarget(k) ==
    /\ Step(k, "target",
            IF differ[k] /\ lowestTarget[k] # NoEpoch /\ att[k].target <= lowestTarget[k]
            THEN "idle" ELSE "slashable")
    /\ UNCHANGED <<disk, memory, att, differ, submitted, crashes, failures>>

doubleVote_rooted(k, data) ==
    /\ data.target \in DOMAIN roots[k]
    /\ roots[k][data.target] # NoSigningRoot
    /\ SigningRootsDiffer(roots[k][data.target], data)
doubleVote(k, data) ==
    /\ data.target \in DOMAIN roots[k]
    /\ SigningRootsDiffer(roots[k][data.target], data)

checkSurroundingVote(k, data) ==
    \E span \in spans[k] : IsSurround(data.source, data.target, span[1], span[2])

checkSurroundedVote_later(k, data) ==
    \E span \in spans[k] :
        /\ span[1] >= data.source
        /\ IsSurround(span[1], span[2], data.source, data.target)
checkSurroundedVote(k, data) ==
    \E span \in spans[k] : IsSurround(span[1], span[2], data.source, data.target)

\* One read transaction.
CheckSlashableAttestation(k) ==
    /\ Step(k, "slashable",
            IF \/ doubleVote(k, att[k])
               \/ checkSurroundingVote(k, att[k])
               \/ checkSurroundedVote(k, att[k])
            THEN "idle" ELSE "enqueue")
    /\ UNCHANGED <<disk, memory, att, differ, submitted, crashes, failures>>

-----------------------------------------------------------------------------
(* SaveAttestationForPubKey.                                               *)

Record(k) == [key |-> k, source |-> att[k].source, target |-> att[k].target,
              signingRoot |-> att[k]]

\* The send on batchedAttestationsChan blocks while its buffer is full.
Enqueue(k) ==
    /\ Step(k, "enqueue", "subscribe")
    /\ Len(requests) < BatchCapacity
    /\ requests' = Append(requests, Record(k))
    /\ UNCHANGED <<disk, batched, flush, routine, answers, att, differ, submitted, crashes, failures>>

Subscribe(k) ==
    /\ Step(k, "subscribe", "waiting")
    /\ UNCHANGED <<disk, memory, att, differ, submitted, crashes, failures>>

\* The answer ends SaveAttestationForPubKey; SubmitAttestation then calls ProposeAttestation, or
\* returns when the answer is an error.  The lock is released.
Receive(k) ==
    /\ answers[k] # "none"
    /\ Step(k, "waiting", "idle")
    /\ answers' = [answers EXCEPT ![k] = "none"]
    /\ submitted' = IF answers[k] = "saved"
                    THEN [submitted EXCEPT ![k] = @ \cup {att[k]}]
                    ELSE submitted
    /\ UNCHANGED <<disk, requests, batched, flush, routine, att, differ, crashes, failures>>

-----------------------------------------------------------------------------
(* The background routine, batchAttestationWrites.                         *)

\* A record of the channel joins the batch; a full batch is flushed.
TakeRequest_forgotten ==
    /\ routine = "select"
    /\ requests # <<>>
    /\ requests' = Tail(requests)
    /\ IF Len(batched) + 1 >= BatchCapacity
       THEN batched' = <<>> /\ flush' = batched /\ routine' = "save"
       ELSE batched' = Append(batched, Head(requests)) /\ UNCHANGED <<flush, routine>>
    /\ UNCHANGED <<disk, answers, caller, submitted, crashes, failures>>
TakeRequest ==
    /\ routine = "select"
    /\ requests # <<>>
    /\ requests' = Tail(requests)
    /\ LET records == Append(batched, Head(requests)) IN
       IF Len(records) >= BatchCapacity
       THEN batched' = <<>> /\ flush' = records /\ routine' = "save"
       ELSE batched' = records /\ UNCHANGED <<flush, routine>>
    /\ UNCHANGED <<disk, answers, caller, submitted, crashes, failures>>

\* The write interval passes.
WriteInterval ==
    /\ routine = "select"
    /\ batched # <<>>
    /\ flush' = batched
    /\ batched' = <<>>
    /\ routine' = "save"
    /\ UNCHANGED <<disk, requests, answers, caller, submitted, crashes, failures>>

\* What the records of a batch leave in the buckets of a key: of the records for one target the
\* last one decides the signing root.
savedRoots(old, records, k) ==
    LET put(target) == {i \in DOMAIN records : records[i].key = k /\ records[i].target = target}
    IN  [target \in {t \in 0 .. MaxEpoch : t \in DOMAIN old \/ put(t) # {}} |->
            IF put(target) # {} THEN records[Max(put(target))].signingRoot ELSE old[target]]
savedSpans(old, records, k) ==
    old \cup {span \in Spans : \E i \in DOMAIN records :
                  records[i].key = k /\ span = <<records[i].source, records[i].target>>}
savedLowest(old, epochs) == Min({old} \cup epochs)

\* saveAttestationRecords: one transaction for the whole batch.
saveAttestationRecords_roots(records) ==
    LET mine(k) == {i \in DOMAIN records : records[i].key = k} IN
    /\ roots' = [k \in Keys |-> savedRoots(roots[k], records, k)]
    /\ lowestSource' =
          [k \in Keys |-> savedLowest(lowestSource[k], {records[i].source : i \in mine(k)})]
    /\ lowestTarget' =
          [k \in Keys |-> savedLowest(lowestTarget[k], {records[i].target : i \in mine(k)})]
    /\ UNCHANGED spans
saveAttestationRecords(records) ==
    LET mine(k) == {i \in DOMAIN records : records[i].key = k} IN
    /\ roots' = [k \in Keys |-> savedRoots(roots[k], records, k)]
    /\ spans' = [k \in Keys |-> savedSpans(spans[k], records, k)]
    /\ lowestSource' =
          [k \in Keys |-> savedLowest(lowestSource[k], {records[i].source : i \in mine(k)})]
    /\ lowestTarget' =
          [k \in Keys |-> savedLowest(lowestTarget[k], {records[i].target : i \in mine(k)})]

FlushSaves ==
    /\ routine = "save"
    /\ saveAttestationRecords(flush)
    /\ flush' = <<>>
    /\ routine' = "saved"
    /\ UNCHANGED <<requests, batched, answers, caller, submitted, crashes, failures>>

\* The transaction is rolled back and the records go back to the batch.
FlushFails_kept ==
    /\ routine = "save"
    /\ failures < MaxFailures
    /\ failures' = failures + 1
    /\ batched' = batched \o flush
    /\ routine' = "failed"
    /\ UNCHANGED <<disk, requests, flush, answers, caller, submitted, crashes>>
FlushFails ==
    /\ routine = "save"
    /\ failures < MaxFailures
    /\ failures' = failures + 1
    /\ batched' = batched \o flush
    /\ flush' = <<>>
    /\ routine' = "failed"
    /\ UNCHANGED <<disk, requests, answers, caller, submitted, crashes>>

\* batchAttestationsFlushedFeed.Send: every subscriber receives the result of this flush,
\* whichever records it wrote.  A subscriber that has not read an earlier answer drops this one
\* when it unsubscribes; the send waits for it to read meanwhile.
SendAnswer ==
    /\ routine \in {"saved", "failed"}
    /\ answers' = [k \in Keys |-> IF call[k] = "waiting" /\ answers[k] = "none"
                                  THEN routine ELSE answers[k]]
    /\ routine' = "select"
    /\ UNCHANGED <<disk, requests, batched, flush, caller, submitted, crashes, failures>>

-----------------------------------------------------------------------------
\* The client stops and starts again: only the database remains.
Crash ==
    /\ crashes < MaxCrashes
    /\ crashes' = crashes + 1
    /\ call' = [k \in Keys |-> "idle"]
    /\ requests' = <<>> /\ batched' = <<>> /\ flush' = <<>>
    /\ routine' = "select"
    /\ answers' = [k \in Keys |-> "none"]
    /\ UNCHANGED <<disk, att, differ, submitted, failures>>

\* SaveAttestationsForPubKey, as the import of a history uses it before the duties begin.
SaveAttestationsForPubKey(records) ==
    LET mine(k) == {i \in DOMAIN records : records[i].key = k} IN
    /\ roots = [k \in Keys |-> savedRoots([target \in {} |-> NoSigningRoot], records, k)]
    /\ spans = [k \in Keys |-> savedSpans({}, records, k)]
    /\ lowestSource = [k \in Keys |-> savedLowest(NoEpoch, {records[i].source : i \in mine(k)})]
    /\ lowestTarget = [k \in Keys |-> savedLowest(NoEpoch, {records[i].target : i \in mine(k)})]

Init ==
    /\ \E records \in Imports : SaveAttestationsForPubKey(records)
    /\ call = [k \in Keys |-> "idle"]
    /\ att = [k \in Keys |-> CHOOSE data \in Inputs : TRUE]
    /\ differ = [k \in Keys |-> FALSE]
    /\ requests = <<>> /\ batched = <<>> /\ flush = <<>>
    /\ routine = "select"
    /\ answers = [k \in Keys |-> "none"]
    /\ submitted = [k \in Keys |-> {}]
    /\ crashes = 0 /\ failures = 0

\* The steps of a call after its start.
Proceed(k) ==
    \/ CheckLowestSource(k) \/ ReadSigningRoot(k) \/ CheckLowestTarget(k)
    \/ CheckSlashableAttestation(k) \/ Enqueue(k) \/ Subscribe(k) \/ Receive(k)

Routine == TakeRequest \/ WriteInterval \/ FlushSaves \/ FlushFails \/ SendAnswer

Next ==
    \/ \E k \in Keys, data \in Inputs : SubmitAttestation(k, data)
    \/ \E k \in Keys : Proceed(k)
    \/ Routine
    \/ Crash

Spec == Init /\ [][Next]_vars

\* A call and the routine go on as long as they can; the ticker fires again and again, and no
\* failure of the database lasts.
FairSpec ==
    /\ Spec
    /\ \A k \in Keys : WF_vars(Proceed(k))
    /\ WF_vars(Routine)
    /\ WF_vars(FlushSaves)

-----------------------------------------------------------------------------
(* Properties.                                                             *)

Slashable(a1, a2) ==
    \/ a1 # a2 /\ a1.target = a2.target
    \/ IsSurround(a1.source, a1.target, a2.source, a2.target)
    \/ IsSurround(a2.source, a2.target, a1.source, a1.target)

\* Whatever the beacon node asks for, and however often the client crashes, two attestations a
\* key hands to ProposeAttestation are never slashable together, nor does one surround a span of
\* the history in the database, imported spans included, or lie within one.  Only as long as
\* every write succeeds: the answer to a repeated flush may be taken for another record's.
NoSlashableSubmitted ==
    failures = 0 =>
        \A k \in Keys : \A data \in submitted[k] :
            /\ \A other \in submitted[k] : ~ Slashable(data, other)
            /\ \A span \in spans[k] :
                  /\ ~ IsSurround(data.source, data.target, span[1], span[2])
                  /\ ~ IsSurround(span[1], span[2], data.source, data.target)

\* An attestation is handed to ProposeAttestation only when its record is in the database, so a
\* crash cannot lose it.
Saved(k, data) == <<data.source, data.target>> \in spans[k]
SavedBeforeSubmitted ==
    failures = 0 => \A k \in Keys : \A data \in submitted[k] : Saved(k, data)

\* A signing root in the database is never replaced, and an imported record without one never
\* gets one: saveAttestationRecords overwrites silently and relies on the check before it.
RootsFinal ==
    [][failures' = 0 =>
          \A k \in Keys : \A target \in DOMAIN roots[k] :
              roots'[k][target] = roots[k][target]]_vars

\* A submitted attestation reaches the database unless the client crashes before, whichever
\* flush answered for it and however the flushes of its record fail.
EventuallySaved ==
    \A k \in Keys, data \in Inputs :
        data \in submitted[k] ~> Saved(k, data) \/ crashes > 0
=============================================================================
