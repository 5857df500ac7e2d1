-------------------------- MODULE BlobAvailability --------------------------
(***************************************************************************)
(* How the import of a block waits for its blob sidecars                   *)
(* (beacon-chain/blockchain: blobNotifierMap, ReceiveBlob,                 *)
(* isDataAvailable).                                                       *)
(*                                                                         *)
(* A sidecar is written to disk and then announced on a channel kept per   *)
(* block root; an import reads the disk once and then the channel.  The    *)
(* maps are keyed by the root and never relate two roots, so one root is   *)
(* modelled.  Imports of one block can overlap: blockBeingSynced records   *)
(* them but excludes nobody.  Each acquisition of the map's mutex, each    *)
(* channel operation and each access to the disk is a step.                *)
(***************************************************************************)
EXTENDS Integers, Sequences, FiniteSets

CONSTANTS
    Imports,           \* calls of ReceiveBlock for the block
    Deliveries,        \* calls of ReceiveBlob for a sidecar of the block
    Index,             \* [Deliveries -> index of the sidecar]
    Expected,          \* the indices the block commits to
    MaxBlobsPerBlock

NoChannel == 0
Indices == 0 .. MaxBlobsPerBlock - 1

ASSUME BlobsAssumption ==
    /\ IsFiniteSet(Imports) /\ IsFiniteSet(Deliveries)
    /\ MaxBlobsPerBlock \in Nat
    /\ Expected \subseteq Indices
    /\ Index \in [Deliveries -> Indices]

VARIABLES
    disk,        \* indices in the blob storage
    seenIndex,   \* bn.seenIndex[root]
    notifier,    \* bn.notifiers[root]: a channel, or NoChannel when there is no entry
    channels,    \* every channel made so far, the buffered indices of each
    receive,     \* [Deliveries -> where ReceiveBlob is]
    sendTo,      \* [Deliveries -> the channel notifyIndex is about to write to]
    import,      \* [Imports -> where isDataAvailable is]
    missing,     \* [Imports -> indices it still waits for]
    listenTo     \* [Imports -> the channel it reads]

vars == <<disk, seenIndex, notifier, channels, receive, sendTo, import, missing, listenTo>>

TypeOK ==
    /\ disk \subseteq Indices
    /\ seenIndex \subseteq Indices
    /\ notifier \in 0 .. Len(channels)
    /\ channels \in Seq(Seq(Indices))
    /\ receive \in [Deliveries -> {"arrived", "saved", "sending", "finished"}]
    /\ sendTo \in [Deliveries -> 0 .. Len(channels)]
    /\ import \in [Imports -> {"start", "subscribe", "waiting", "clean", "available", "cancelled"}]
    /\ missing \in [Imports -> SUBSET Expected]
    /\ listenTo \in [Imports -> 0 .. Len(channels)]

-----------------------------------------------------------------------------
(* ReceiveBlob.                                                            *)

\* The entry of the root in bn.notifiers, made when it is absent.
ensureChannel ==
    IF notifier # NoChannel
    THEN UNCHANGED <<notifier, channels>>
    ELSE /\ channels' = Append(channels, <<>>)
         /\ notifier' = Len(channels')

\* blobStorage.Save: the file appears with its final name or the call fails.  Only verified
\* sidecars arrive, so the index is in bounds.
Save_unchecked(del) ==
    /\ receive[del] = "arrived"
    /\ disk' = disk \cup {Index[del]} \/ UNCHANGED disk
    /\ receive' = [receive EXCEPT ![del] = "saved"]
    /\ UNCHANGED <<seenIndex, notifier, channels, sendTo, import, missing, listenTo>>
Save(del) ==
    /\ receive[del] = "arrived"
    /\ \/ /\ disk' = disk \cup {Index[del]}
          /\ receive' = [receive EXCEPT ![del] = "saved"]
       \/ /\ receive' = [receive EXCEPT ![del] = "finished"]
          /\ UNCHANGED disk
    /\ UNCHANGED <<seenIndex, notifier, channels, sendTo, import, missing, listenTo>>

\* notifyIndex under the mutex: an index seen before is not announced again.
seen_ignored(del) == FALSE
seen(del) == Index[del] \in seenIndex

notifyIndex(del) ==
    /\ receive[del] = "saved"
    /\ IF seen(del)
       THEN /\ receive' = [receive EXCEPT ![del] = "finished"]
            /\ UNCHANGED <<seenIndex, notifier, channels, sendTo>>
       ELSE /\ seenIndex' = seenIndex \cup {Index[del]}
            /\ ensureChannel
            /\ sendTo' = [sendTo EXCEPT ![del] = notifier']
            /\ receive' = [receive EXCEPT ![del] = "sending"]
    /\ UNCHANGED <<disk, import, missing, listenTo>>

\* c <- idx after the mutex is released: waits while the buffer is full.
Send(del) ==
    /\ receive[del] = "sending"
    /\ Len(channels[sendTo[del]]) < MaxBlobsPerBlock
    /\ channels' = [channels EXCEPT ![sendTo[del]] = Append(@, Index[del])]
    /\ receive' = [receive EXCEPT ![del] = "finished"]
    /\ UNCHANGED <<disk, seenIndex, notifier, sendTo, import, missing, listenTo>>

-----------------------------------------------------------------------------
(* isDataAvailable.                                                        *)

\* missingIndices: the only look at the disk.
missingIndices_all(i) == Indices \ disk
missingIndices(i) == Expected \ disk

CheckDisk(i) ==
    /\ import[i] = "start"
    /\ missing' = [missing EXCEPT ![i] = missingIndices(i)]
    /\ import' = [import EXCEPT ![i] = IF missing'[i] = {} THEN "available" ELSE "subscribe"]
    /\ UNCHANGED <<disk, seenIndex, notifier, channels, receive, sendTo, listenTo>>

\* blobNotifiers.forRoot.
forRoot_fresh(i) ==
    /\ channels' = Append(channels, <<>>)
    /\ notifier' = Len(channels')
forRoot(i) == ensureChannel

Subscribe(i) ==
    /\ import[i] = "subscribe"
    /\ forRoot(i)
    /\ listenTo' = [listenTo EXCEPT ![i] = notifier']
    /\ import' = [import EXCEPT ![i] = "waiting"]
    /\ UNCHANGED <<disk, seenIndex, receive, sendTo, missing>>

\* An index read from the channel goes to one reader only.
Receive(i) ==
    /\ import[i] = "waiting"
    /\ channels[listenTo[i]] # <<>>
    /\ missing' = [missing EXCEPT ![i] = @ \ {Head(channels[listenTo[i]])}]
    /\ channels' = [channels EXCEPT ![listenTo[i]] = Tail(@)]
    /\ import' = [import EXCEPT ![i] = IF missing'[i] = {} THEN "clean" ELSE "waiting"]
    /\ UNCHANGED <<disk, seenIndex, notifier, receive, sendTo, listenTo>>

\* blobNotifiers.delete.
Clean(i) ==
    /\ import[i] = "clean"
    /\ seenIndex' = {}
    /\ notifier' = NoChannel
    /\ import' = [import EXCEPT ![i] = "available"]
    /\ UNCHANGED <<disk, channels, receive, sendTo, missing, listenTo>>

\* ctx.Done: the entry of the root stays as it is.
Cancel(i) ==
    /\ import[i] = "waiting"
    /\ import' = [import EXCEPT ![i] = "cancelled"]
    /\ UNCHANGED <<disk, seenIndex, notifier, channels, receive, sendTo, missing, listenTo>>

\* The block comes again, from gossip or from the pending queue.
Retry(i) ==
    /\ import[i] = "cancelled"
    /\ import' = [import EXCEPT ![i] = "start"]
    /\ UNCHANGED <<disk, seenIndex, notifier, channels, receive, sendTo, missing, listenTo>>

-----------------------------------------------------------------------------
Init ==
    /\ disk = {}
    /\ seenIndex = {}
    /\ notifier = NoChannel
    /\ channels = <<>>
    /\ receive = [del \in Deliveries |-> "arrived"]
    /\ sendTo = [del \in Deliveries |-> NoChannel]
    /\ import = [i \in Imports |-> "start"]
    /\ missing = [i \in Imports |-> {}]
    /\ listenTo = [i \in Imports |-> NoChannel]

\* Goroutines that have something to do; the environment only cancels and retries.
Work(i) == CheckDisk(i) \/ Subscribe(i) \/ Receive(i) \/ Clean(i)
ReceiveBlob(del) == Save(del) \/ notifyIndex(del) \/ Send(del)

Done == /\ \A i \in Imports : import[i] = "available"
        /\ \A del \in Deliveries : receive[del] = "finished"
        /\ UNCHANGED vars

Next ==
    \/ \E i \in Imports : Work(i) \/ Cancel(i) \/ Retry(i)
    \/ \E del \in Deliveries : ReceiveBlob(del)
    \/ Done

\* The Go scheduler runs every runnable goroutine.  Nothing is assumed of the deadline.
Fairness ==
    /\ \A i \in Imports : WF_vars(Work(i))
    /\ \A del \in Deliveries : WF_vars(ReceiveBlob(del))

Spec == Init /\ [][Next]_vars
FairSpec == Spec /\ Fairness

-----------------------------------------------------------------------------
(* Properties.                                                             *)

\* An import goes on only when every sidecar the block commits to is on disk, although it
\* looks at the disk once and then trusts the announcements of the channel, also those
\* left by a cancelled attempt (isDataAvailable, ReceiveBlob).
DataOnDisk ==
    \A i \in Imports : import[i] \in {"clean", "available"} => Expected \subseteq disk

\* The send outside of the mutex never blocks the goroutine of a sidecar: no channel gets
\* more indices than its buffer holds (notifyIndex).
SendNeverBlocks ==
    \A del \in Deliveries :
        receive[del] = "sending" => Len(channels[sendTo[del]]) < MaxBlobsPerBlock

\* Nothing is announced in vain: when all goroutines of sidecars are done, a waiting import
\* finds each index it misses in its channel.  Only the reader of a single import
\* can rely on this.
NoLostWakeup ==
    \A i \in Imports :
        import[i] = "waiting" /\ (\A del \in Deliveries : receive[del] = "finished")
          => \A idx \in missing[i] \cap disk :
                \E k \in 1 .. Len(channels[listenTo[i]]) : channels[listenTo[i]][k] = idx

\* "isDataAvailable blocks until all BlobSidecars committed to in the block are available,
\* or an error or context cancellation occurs": once they are stored, a waiting import
\* goes on, or was cancelled.
AvailableReturns ==
    \A i \in Imports :
        (Expected \subseteq disk /\ import[i] = "waiting") ~> import[i] # "waiting"
=============================================================================
