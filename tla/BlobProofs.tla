----------------------------- MODULE BlobProofs -----------------------------
(***************************************************************************)
(* Proofs about BlobAvailability.  For every set of imports and deliveries *)
(* and every limit on the blobs of a block, an import goes on only with    *)
(* its data on disk, and no sender blocks.  A single import finds what is  *)
(* announced.                                                              *)
(***************************************************************************)
EXTENDS BlobAvailability, FiniteSetTheorems, TLAPS

\* An index is in the buffer of a channel, or about to be sent to it.
Buffered(c, idx) == \E k \in 1 .. Len(channels[c]) : channels[c][k] = idx
Pending(c, del) == receive[del] = "sending" /\ sendTo[del] = c

-----------------------------------------------------------------------------
(* Announcements are true.                                                 *)

\* Whatever is announced, or about to be, is on disk, and what an import no longer misses is on
\* disk as well.
AnnouncedOK ==
    /\ \A del \in Deliveries : receive[del] \in {"saved", "sending"} => Index[del] \in disk
    /\ \A c \in 1 .. Len(channels) : \A k \in 1 .. Len(channels[c]) : channels[c][k] \in disk
    /\ \A i \in Imports : import[i] \in {"subscribe", "waiting"} => Expected \ missing[i] \subseteq disk
    /\ DataOnDisk

\* A sender and a reader have a channel.
ChannelsOK ==
    /\ \A del \in Deliveries : receive[del] = "sending" => sendTo[del] # NoChannel
    /\ \A i \in Imports : import[i] = "waiting" => listenTo[i] # NoChannel

\* A channel gets every index once: those that were sent are different from each other and from
\* those still to be sent, and all that go to the present channel are in seenIndex.
OnceOK ==
    /\ notifier = NoChannel => seenIndex = {}
    /\ seenIndex \subseteq disk
    /\ \A c \in 1 .. Len(channels) :
          /\ \A k, l \in 1 .. Len(channels[c]) : channels[c][k] = channels[c][l] => k = l
          /\ \A del \in Deliveries : Pending(c, del) =>
                /\ ~ Buffered(c, Index[del])
                /\ \A other \in Deliveries : Pending(c, other) /\ Index[other] = Index[del] => other = del
    /\ notifier # NoChannel =>
          /\ \A k \in 1 .. Len(channels[notifier]) : channels[notifier][k] \in seenIndex
          /\ \A del \in Deliveries : Pending(notifier, del) => Index[del] \in seenIndex

IInv == TypeOK /\ AnnouncedOK /\ ChannelsOK /\ OnceOK

\* One import: while it waits, its channel is the present one, and an index it misses is in
\* the channel, or on its way there, from the moment it is on disk.
WakeupOK(i) ==
    /\ import[i] = "waiting" => listenTo[i] = notifier
    /\ import[i] \in {"subscribe", "waiting"} =>
          \A idx \in missing[i] :
              /\ idx \in disk \ seenIndex =>
                    \E del \in Deliveries : receive[del] = "saved" /\ Index[del] = idx
              /\ idx \in seenIndex =>
                    \/ Buffered(notifier, idx)
                    \/ \E del \in Deliveries : Pending(notifier, del) /\ Index[del] = idx

-----------------------------------------------------------------------------
(* Sequences.                                                              *)

\* Append adds the element at the end.
LEMMA AppendFacts ==
    ASSUME NEW S, NEW s \in Seq(S), NEW e \in S
    PROVE  /\ Append(s, e) \in Seq(S) /\ Len(s) \in Nat /\ Len(Append(s, e)) = Len(s) + 1
           /\ Append(s, e)[Len(s) + 1] = e
           /\ \A k \in 1 .. Len(s) : Append(s, e)[k] = s[k]
OBVIOUS

\* Tail drops the first element.
LEMMA TailFacts ==
    ASSUME NEW S, NEW s \in Seq(S), s # <<>>
    PROVE  /\ Tail(s) \in Seq(S) /\ Len(s) \in Nat \ {0} /\ Len(Tail(s)) = Len(s) - 1
           /\ Head(s) = s[1] /\ Head(s) \in S
           /\ \A k \in 1 .. Len(s) - 1 : Tail(s)[k] = s[k + 1]
OBVIOUS

\* EXCEPT replaces one element.
LEMMA ReplaceFacts ==
    ASSUME NEW S, NEW s \in Seq(S), NEW c \in 1 .. Len(s), NEW e \in S
    PROVE  /\ [s EXCEPT ![c] = e] \in Seq(S) /\ Len([s EXCEPT ![c] = e]) = Len(s)
           /\ [s EXCEPT ![c] = e][c] = e
           /\ \A k \in 1 .. Len(s) : k # c => [s EXCEPT ![c] = e][k] = s[k]
OBVIOUS

\* Different numbers below n other than x are fewer than n.
LEMMA Pigeons ==
    ASSUME NEW n \in Nat, NEW s \in Seq(0 .. n - 1), NEW x \in 0 .. n - 1,
           \A k \in 1 .. Len(s) : s[k] # x,
           \A k, l \in 1 .. Len(s) : s[k] = s[l] => k = l
    PROVE  Len(s) < n
<1> DEFINE T == (0 .. n - 1) \ {x}
<1>1. IsFiniteSet(0 .. n - 1) /\ Cardinality(0 .. n - 1) = n
  <2>1. 0 \in Int /\ n - 1 \in Int
    OBVIOUS
  <2>2. /\ IsFiniteSet(0 .. n - 1)
        /\ Cardinality(0 .. n - 1) = IF 0 > n - 1 THEN 0 ELSE (n - 1) - 0 + 1
    BY <2>1, FS_Interval, Zenon
  <2> QED
    BY <2>2
<1>2. IsFiniteSet(T) /\ Cardinality(T) = n - 1
  BY <1>1, FS_RemoveElement
<1>3. Len(s) \in Nat /\ IsFiniteSet(1 .. Len(s)) /\ Cardinality(1 .. Len(s)) = Len(s)
  <2>1. Len(s) \in Nat /\ 1 \in Int /\ Len(s) \in Int
    OBVIOUS
  <2>2. /\ IsFiniteSet(1 .. Len(s))
        /\ Cardinality(1 .. Len(s)) = IF 1 > Len(s) THEN 0 ELSE Len(s) - 1 + 1
    BY <2>1, FS_Interval, Zenon
  <2> QED
    BY <2>1, <2>2
<1>4. s \in [1 .. Len(s) -> T]
  OBVIOUS
<1> HIDE DEF T
<1> SUFFICES ASSUME Len(s) >= n PROVE FALSE
  BY <1>3
<1>5. Cardinality(T) < Cardinality(1 .. Len(s))
  BY <1>2, <1>3
<1>6. \E k, l \in 1 .. Len(s) : k # l /\ s[k] = s[l]
  BY <1>2, <1>3, <1>4, <1>5, FS_PigeonHole, Zenon
<1> QED
  BY <1>6

-----------------------------------------------------------------------------
(* Every step keeps the invariant.                                         *)

\* ensureChannel leaves the present channel, or makes a new and empty one.
LEMMA EnsureFacts ==
    ASSUME TypeOK, ensureChannel
    PROVE  /\ channels' \in Seq(Seq(Indices)) /\ Len(channels) \in Nat /\ Len(channels') \in Nat
           /\ Len(channels) <= Len(channels') /\ notifier' \in 1 .. Len(channels')
           /\ \A c \in 1 .. Len(channels) : channels'[c] = channels[c]
           /\ notifier # NoChannel =>
                 notifier' = notifier /\ channels' = channels /\ notifier \in 1 .. Len(channels)
           /\ notifier = NoChannel => /\ Len(channels') = Len(channels) + 1
                                      /\ notifier' = Len(channels) + 1
                                      /\ Len(channels'[Len(channels) + 1]) = 0
<1>1. channels \in Seq(Seq(Indices)) /\ Len(channels) \in Nat /\ notifier \in 0 .. Len(channels)
  BY DEF TypeOK
<1>2. CASE notifier # NoChannel
  BY <1>1, <1>2 DEF ensureChannel, NoChannel
<1>3. CASE notifier = NoChannel
  <2>1. channels' = Append(channels, <<>>) /\ notifier' = Len(channels')
    BY <1>3 DEF ensureChannel
  <2>2. <<>> \in Seq(Indices) /\ Len(<<>>) = 0
    OBVIOUS
  <2> DEFINE e == <<>>
  <2>3. channels' = Append(channels, e) /\ e \in Seq(Indices) /\ Len(e) = 0
    BY <2>1, <2>2
  <2> HIDE DEF e
  <2>4. /\ Append(channels, e) \in Seq(Seq(Indices))
        /\ Len(Append(channels, e)) = Len(channels) + 1
        /\ Append(channels, e)[Len(channels) + 1] = e
        /\ \A k \in 1 .. Len(channels) : Append(channels, e)[k] = channels[k]
    BY <1>1, <2>3, AppendFacts
  <2> QED
    BY <1>1, <1>3, <2>1, <2>3, <2>4
<1> QED
  BY <1>2, <1>3

\* Nothing is announced at the start.
LEMMA InitInv == Init => IInv
<1> SUFFICES ASSUME Init PROVE IInv
  OBVIOUS
<1>1. Len(channels) = 0 /\ channels \in Seq(Seq(Indices))
  BY DEF Init
<1>2. TypeOK
  BY <1>1 DEF Init, TypeOK, NoChannel
<1>3. AnnouncedOK /\ ChannelsOK
  BY <1>1 DEF Init, AnnouncedOK, DataOnDisk, ChannelsOK
<1>4. OnceOK
  BY <1>1 DEF Init, OnceOK, NoChannel
<1> QED
  BY <1>2, <1>3, <1>4 DEF IInv

\* A step that leaves the channels alone and only ends or forgets a send keeps what is known of
\* the channels.
LEMMA OnceStays ==
    ASSUME OnceOK, disk \subseteq disk', UNCHANGED <<seenIndex, notifier, channels>>,
           \A c : \A d \in Deliveries : Pending(c, d)' => Pending(c, d)
    PROVE  OnceOK'
<1>1. /\ notifier' = NoChannel => seenIndex' = {}
      /\ seenIndex' \subseteq disk'
  BY DEF OnceOK
<1>2. ASSUME NEW c \in 1 .. Len(channels')
      PROVE  /\ \A k, l \in 1 .. Len(channels'[c]) : channels'[c][k] = channels'[c][l] => k = l
             /\ \A del \in Deliveries : Pending(c, del)' =>
                   /\ ~ Buffered(c, Index[del])'
                   /\ \A other \in Deliveries : Pending(c, other)' /\ Index[other] = Index[del] => other = del
  <2>1. c \in 1 .. Len(channels) /\ channels'[c] = channels[c]
    OBVIOUS
  <2>2. \A idx : Buffered(c, idx)' <=> Buffered(c, idx)
    BY <2>1 DEF Buffered
  <2> QED
    BY <2>1, <2>2 DEF OnceOK
<1>3. ASSUME notifier' # NoChannel
      PROVE  /\ \A k \in 1 .. Len(channels'[notifier']) : channels'[notifier'][k] \in seenIndex'
             /\ \A del \in Deliveries : Pending(notifier, del)' => Index[del] \in seenIndex'
  <2>1. \A del \in Deliveries : Pending(notifier, del)' => Pending(notifier, del)
    BY DEF Pending
  <2> QED
    BY <1>3, <2>1 DEF OnceOK
<1> QED
  BY <1>1, <1>2, <1>3 DEF OnceOK

\* A sidecar that is written becomes announceable.
LEMMA SaveKeeps ==
    ASSUME IInv, NEW del \in Deliveries, Save(del)
    PROVE  IInv'
<1>1. Index[del] \in Indices
  BY BlobsAssumption
<1>2. TypeOK'
  BY <1>1 DEF IInv, Save, TypeOK
<1>3. /\ disk \subseteq disk' /\ receive'[del] \in {"saved", "finished"}
      /\ (receive'[del] = "saved" => Index[del] \in disk')
      /\ \A d \in Deliveries : d # del => receive'[d] = receive[d]
      /\ UNCHANGED <<seenIndex, notifier, channels, sendTo, import, missing, listenTo>>
  BY DEF IInv, TypeOK, Save
<1>4. AnnouncedOK' /\ ChannelsOK'
  <2>1. \A d \in Deliveries : receive'[d] \in {"saved", "sending"} => Index[d] \in disk'
    BY <1>3 DEF IInv, AnnouncedOK
  <2>2. \A c \in 1 .. Len(channels) : \A k \in 1 .. Len(channels[c]) : channels[c][k] \in disk'
    BY <1>3 DEF IInv, AnnouncedOK
  <2>3. /\ \A i \in Imports : import[i] \in {"subscribe", "waiting"} => Expected \ missing[i] \subseteq disk'
        /\ DataOnDisk'
    BY <1>3 DEF IInv, AnnouncedOK, DataOnDisk
  <2>4. ChannelsOK'
    BY <1>3 DEF IInv, ChannelsOK
  <2> QED
    BY <1>3, <2>1, <2>2, <2>3, <2>4 DEF AnnouncedOK
<1>5. \A c : \A d \in Deliveries : Pending(c, d)' => Pending(c, d)
  BY <1>3 DEF Pending
<1>6. OnceOK'
  BY <1>3, <1>5, OnceStays DEF IInv
<1> QED
  BY <1>2, <1>4, <1>6 DEF IInv

\* An index is announced to the present channel only when nothing of it is there.
LEMMA NotifyKeeps ==
    ASSUME IInv, NEW del \in Deliveries, notifyIndex(del)
    PROVE  IInv'
<1>1. CASE seen(del)
  <2>1. /\ receive' = [receive EXCEPT ![del] = "finished"]
        /\ UNCHANGED <<disk, seenIndex, notifier, channels, sendTo, import, missing, listenTo>>
    BY <1>1 DEF notifyIndex
  <2>2. TypeOK'
    BY <2>1 DEF IInv, TypeOK
  <2>3. /\ receive'[del] = "finished"
        /\ \A d \in Deliveries : d # del => receive'[d] = receive[d]
    BY <2>1 DEF IInv, TypeOK
  <2>4. AnnouncedOK' /\ ChannelsOK'
    BY <2>1, <2>3 DEF IInv, AnnouncedOK, DataOnDisk, ChannelsOK
  <2>5. \A c : \A d \in Deliveries : Pending(c, d)' => Pending(c, d)
    BY <2>1, <2>3 DEF Pending
  <2>6. OnceOK'
    BY <2>1, <2>5, OnceStays DEF IInv
  <2> QED
    BY <2>2, <2>4, <2>6 DEF IInv
<1>2. CASE ~ seen(del)
  <2>1. /\ Index[del] \notin seenIndex /\ seenIndex' = seenIndex \cup {Index[del]}
        /\ ensureChannel
        /\ sendTo' = [sendTo EXCEPT ![del] = notifier']
        /\ receive' = [receive EXCEPT ![del] = "sending"]
        /\ receive[del] = "saved"
        /\ UNCHANGED <<disk, import, missing, listenTo>>
    BY <1>2 DEF notifyIndex, seen
  <2>2. /\ channels' \in Seq(Seq(Indices)) /\ Len(channels) \in Nat /\ Len(channels') \in Nat
        /\ Len(channels) <= Len(channels') /\ notifier' \in 1 .. Len(channels')
        /\ \A c \in 1 .. Len(channels) : channels'[c] = channels[c]
        /\ notifier # NoChannel =>
              notifier' = notifier /\ channels' = channels /\ notifier \in 1 .. Len(channels)
        /\ notifier = NoChannel => /\ Len(channels') = Len(channels) + 1
                                   /\ notifier' = Len(channels) + 1
                                   /\ Len(channels'[Len(channels) + 1]) = 0
    BY <2>1, EnsureFacts DEF IInv
  <2>3. Index[del] \in Indices
    BY BlobsAssumption
  <2>4. TypeOK'
    BY <2>1, <2>2, <2>3 DEF IInv, TypeOK
  <2>5. /\ receive'[del] = "sending" /\ sendTo'[del] = notifier' /\ notifier' # NoChannel
        /\ \A d \in Deliveries : d # del => receive'[d] = receive[d] /\ sendTo'[d] = sendTo[d]
        /\ Index[del] \in disk
    BY <2>1, <2>2 DEF IInv, TypeOK, AnnouncedOK, NoChannel
  <2>6. \A c \in 1 .. Len(channels') : c \in 1 .. Len(channels) \/ Len(channels'[c]) = 0
    BY <2>2
  <2>7. AnnouncedOK'
    <3>1. \A d \in Deliveries : receive'[d] \in {"saved", "sending"} => Index[d] \in disk'
      BY <2>1, <2>5 DEF IInv, AnnouncedOK
    <3>2. \A c \in 1 .. Len(channels') : \A k \in 1 .. Len(channels'[c]) : channels'[c][k] \in disk'
      BY <2>1, <2>2, <2>6 DEF IInv, AnnouncedOK
    <3>3. /\ \A i \in Imports : import'[i] \in {"subscribe", "waiting"} => Expected \ missing'[i] \subseteq disk'
          /\ DataOnDisk'
      BY <2>1 DEF IInv, AnnouncedOK, DataOnDisk
    <3> QED
      BY <3>1, <3>2, <3>3 DEF AnnouncedOK
  <2>8. ChannelsOK'
    BY <2>1, <2>5 DEF IInv, ChannelsOK
  <2>9. /\ \A d \in Deliveries : receive[d] = "sending" => sendTo[d] \in 1 .. Len(channels)
        /\ \A c : \A d \in Deliveries : d # del => (Pending(c, d)' <=> Pending(c, d))
        /\ \A c : Pending(c, del)' <=> c = notifier'
    BY <2>2, <2>5 DEF IInv, TypeOK, ChannelsOK, NoChannel, Pending
  <2>10. \* what is in the channel of the announcement, or on its way there, is in seenIndex
         /\ \A k \in 1 .. Len(channels'[notifier']) : channels'[notifier'][k] \in seenIndex
         /\ \A d \in Deliveries : d # del /\ Pending(notifier', d) => Index[d] \in seenIndex
    <3>1. CASE notifier = NoChannel
      <4>1. Len(channels'[notifier']) = 0 /\ ~ (notifier' \in 1 .. Len(channels))
        BY <2>2, <3>1
      <4> QED
        BY <2>9, <4>1 DEF Pending
    <3>2. CASE notifier # NoChannel
      BY <2>2, <3>2 DEF IInv, OnceOK
    <3> QED
      BY <3>1, <3>2
  <2>11. ASSUME NEW c \in 1 .. Len(channels')
         PROVE  /\ \A k, l \in 1 .. Len(channels'[c]) : channels'[c][k] = channels'[c][l] => k = l
                /\ \A d \in Deliveries : Pending(c, d)' =>
                      /\ ~ Buffered(c, Index[d])'
                      /\ \A other \in Deliveries :
                            Pending(c, other)' /\ Index[other] = Index[d] => other = d
    <3>1. \A k, l \in 1 .. Len(channels'[c]) : channels'[c][k] = channels'[c][l] => k = l
      <4>1. CASE c \in 1 .. Len(channels)
        <5>1. channels'[c] = channels[c]
          BY <2>2, <4>1
        <5>2. \A k, l \in 1 .. Len(channels[c]) : channels[c][k] = channels[c][l] => k = l
          BY <4>1, Zenon DEF IInv, OnceOK
        <5> QED
          BY <5>1, <5>2, Zenon
      <4>2. CASE Len(channels'[c]) = 0
        BY <4>2
      <4> QED
        BY <2>6, <4>1, <4>2
    <3>2. ASSUME NEW d \in Deliveries, d # del, Pending(c, d) PROVE c \in 1 .. Len(channels)
      BY <2>9, <3>2 DEF Pending
    <3>3. ASSUME NEW d \in Deliveries, Pending(c, d)'
          PROVE  /\ ~ Buffered(c, Index[d])'
                 /\ \A other \in Deliveries :
                       Pending(c, other)' /\ Index[other] = Index[d] => other = d
      <4>1. CASE d = del
        <5>1. c = notifier'
          BY <2>9, <3>3, <4>1
        <5>2. ~ Buffered(c, Index[d])'
          BY <2>1, <2>10, <4>1, <5>1 DEF Buffered
        <5>3. ASSUME NEW other \in Deliveries, Pending(c, other)', Index[other] = Index[d], other # d
              PROVE  FALSE
          BY <2>1, <2>9, <2>10, <4>1, <5>1, <5>3
        <5> QED
          BY <5>2, <5>3
      <4>2. CASE d # del
        <5>1. Pending(c, d) /\ c \in 1 .. Len(channels)
          BY <2>9, <3>2, <3>3, <4>2
        <5>2. ~ Buffered(c, Index[d])'
          BY <2>2, <5>1 DEF IInv, OnceOK, Buffered
        <5>3. ASSUME NEW other \in Deliveries, Pending(c, other)', Index[other] = Index[d], other # d
              PROVE  FALSE
          <6>1. CASE other = del
            BY <2>1, <2>9, <2>10, <4>2, <5>1, <5>3, <6>1
          <6>2. CASE other # del
            BY <2>9, <5>1, <5>3, <6>2 DEF IInv, OnceOK
          <6> QED
            BY <6>1, <6>2
        <5> QED
          BY <5>2, <5>3
      <4> QED
        BY <4>1, <4>2
    <3> QED
      BY <3>1, <3>3
  <2>12. OnceOK'
    <3>1. seenIndex' \subseteq disk' /\ notifier' # NoChannel
      BY <2>1, <2>5 DEF IInv, OnceOK
    <3>2. /\ \A k \in 1 .. Len(channels'[notifier']) : channels'[notifier'][k] \in seenIndex'
          /\ \A d \in Deliveries : Pending(notifier, d)' => Index[d] \in seenIndex'
      <4>1. seenIndex \subseteq seenIndex' /\ Index[del] \in seenIndex'
        BY <2>1
      <4>2. ASSUME NEW d \in Deliveries, Pending(notifier, d)', d # del PROVE Pending(notifier', d)
        BY <2>5, <4>2 DEF Pending
      <4> QED
        BY <2>10, <4>1, <4>2
    <3> QED
      BY <2>11, <3>1, <3>2 DEF OnceOK
  <2> QED
    BY <2>4, <2>7, <2>8, <2>12 DEF IInv
<1> QED
  BY <1>1, <1>2

\* A send adds an index its channel does not hold.
LEMMA SendKeeps ==
    ASSUME IInv, NEW del \in Deliveries, Send(del)
    PROVE  IInv'
<1> DEFINE c == sendTo[del]
           old == channels[c]
           new == Append(old, Index[del])
<1>1. /\ channels \in Seq(Seq(Indices)) /\ Len(channels) \in Nat /\ c \in 1 .. Len(channels)
      /\ Index[del] \in Indices /\ receive[del] = "sending"
  <2>1. receive[del] = "sending"
    BY DEF Send
  <2>2. Index[del] \in Indices
    BY BlobsAssumption
  <2>3. channels \in Seq(Seq(Indices)) /\ Len(channels) \in Nat /\ c \in 0 .. Len(channels)
    BY DEF IInv, TypeOK
  <2>4. c # 0
    BY <2>1 DEF IInv, ChannelsOK, NoChannel
  <2> HIDE DEF c
  <2> QED
    BY <2>1, <2>2, <2>3, <2>4
<1>2. old \in Seq(Indices)
  BY <1>1
<1>3. /\ channels' = [channels EXCEPT ![c] = new]
      /\ receive' = [receive EXCEPT ![del] = "finished"]
      /\ UNCHANGED <<disk, seenIndex, notifier, sendTo, import, missing, listenTo>>
  BY DEF Send
<1>4. Pending(c, del)
  BY <1>1 DEF Pending
<1> HIDE DEF c, old
<1>5. /\ new \in Seq(Indices) /\ Len(old) \in Nat /\ Len(new) = Len(old) + 1
      /\ new[Len(old) + 1] = Index[del]
      /\ \A k \in 1 .. Len(old) : new[k] = old[k]
  BY <1>1, <1>2, AppendFacts
<1> HIDE DEF new
<1>6. /\ channels' \in Seq(Seq(Indices)) /\ Len(channels') = Len(channels)
      /\ channels'[c] = new
      /\ \A e \in 1 .. Len(channels) : e # c => channels'[e] = channels[e]
  BY <1>1, <1>3, <1>5, ReplaceFacts
<1>7. /\ receive'[del] = "finished"
      /\ \A d \in Deliveries : d # del => receive'[d] = receive[d]
  BY <1>3 DEF IInv, TypeOK
<1>8. TypeOK'
  BY <1>3, <1>6 DEF IInv, TypeOK
<1>9. old = channels[c]
  BY DEF old
<1>10. \A k \in 1 .. Len(new) : (k \in 1 .. Len(old) /\ new[k] = old[k]) \/ (k = Len(old) + 1 /\ new[k] = Index[del])
  BY <1>5
<1>11. AnnouncedOK' /\ ChannelsOK'
  <2>1. \A d \in Deliveries : receive'[d] \in {"saved", "sending"} => Index[d] \in disk'
    BY <1>3, <1>7 DEF IInv, AnnouncedOK
  <2>2. Index[del] \in disk
    BY <1>1 DEF IInv, AnnouncedOK
  <2>3. \A e \in 1 .. Len(channels') : \A k \in 1 .. Len(channels'[e]) : channels'[e][k] \in disk'
    BY <1>1, <1>3, <1>6, <1>9, <1>10, <2>2 DEF IInv, AnnouncedOK
  <2>4. /\ \A i \in Imports : import'[i] \in {"subscribe", "waiting"} => Expected \ missing'[i] \subseteq disk'
        /\ DataOnDisk'
    BY <1>3 DEF IInv, AnnouncedOK, DataOnDisk
  <2>5. ChannelsOK'
    BY <1>3, <1>7 DEF IInv, ChannelsOK
  <2> QED
    BY <2>1, <2>3, <2>4, <2>5 DEF AnnouncedOK
<1>12. \A e : \A d \in Deliveries : Pending(e, d)' => Pending(e, d) /\ d # del
  BY <1>3, <1>7 DEF Pending
<1>13. /\ \A k, l \in 1 .. Len(old) : old[k] = old[l] => k = l
       /\ \A k \in 1 .. Len(old) : old[k] # Index[del]
       /\ \A d \in Deliveries : Pending(c, d) /\ d # del =>
             Index[d] # Index[del] /\ \A k \in 1 .. Len(old) : old[k] # Index[d]
  BY <1>1, <1>4, <1>9 DEF IInv, OnceOK, Buffered
<1>14. ASSUME NEW e \in 1 .. Len(channels')
       PROVE  /\ \A k, l \in 1 .. Len(channels'[e]) : channels'[e][k] = channels'[e][l] => k = l
              /\ \A d \in Deliveries : Pending(e, d)' =>
                    /\ ~ Buffered(e, Index[d])'
                    /\ \A other \in Deliveries :
                          Pending(e, other)' /\ Index[other] = Index[d] => other = d
  <2>1. e \in 1 .. Len(channels)
    BY <1>6
  <2>2. \A d, other \in Deliveries :
            Pending(e, d)' /\ Pending(e, other)' /\ Index[other] = Index[d] => other = d
    BY <1>12, <2>1 DEF IInv, OnceOK
  <2>3. CASE e = c
    <3>1. \A k, l \in 1 .. Len(new) : new[k] = new[l] => k = l
      BY <1>10, <1>13
    <3>2. ASSUME NEW d \in Deliveries, Pending(e, d)' PROVE ~ Buffered(e, Index[d])'
      <4>1. Index[d] # Index[del] /\ \A k \in 1 .. Len(old) : old[k] # Index[d]
        BY <1>12, <1>13, <2>3, <3>2
      <4>2. \A k \in 1 .. Len(new) : new[k] # Index[d]
        BY <1>10, <4>1
      <4> QED
        BY <1>6, <2>3, <4>2 DEF Buffered
    <3> QED
      BY <1>6, <2>2, <2>3, <3>1, <3>2
  <2>4. CASE e # c
    <3>1. channels'[e] = channels[e]
      BY <1>6, <2>1, <2>4
    <3>2. \A idx : Buffered(e, idx)' <=> Buffered(e, idx)
      BY <3>1 DEF Buffered
    <3> QED
      BY <1>12, <2>1, <2>2, <3>1, <3>2 DEF IInv, OnceOK
  <2> QED
    BY <2>3, <2>4
<1>15. ASSUME notifier # NoChannel
       PROVE  /\ \A k \in 1 .. Len(channels'[notifier]) : channels'[notifier][k] \in seenIndex
              /\ \A d \in Deliveries : Pending(notifier, d)' => Index[d] \in seenIndex
  <2>1. notifier \in 1 .. Len(channels)
    BY <1>1, <1>15 DEF IInv, TypeOK, NoChannel
  <2>2. /\ \A k \in 1 .. Len(channels[notifier]) : channels[notifier][k] \in seenIndex
        /\ \A d \in Deliveries : Pending(notifier, d) => Index[d] \in seenIndex
    BY <1>15 DEF IInv, OnceOK
  <2>3. \A d \in Deliveries : Pending(notifier, d)' => Pending(notifier, d)
    BY <1>3, <1>7 DEF Pending
  <2>4. CASE notifier = c
    BY <1>4, <1>6, <1>9, <1>10, <2>2, <2>3, <2>4
  <2>5. CASE notifier # c
    BY <1>6, <2>1, <2>2, <2>3, <2>5
  <2> QED
    BY <2>4, <2>5
<1>16. OnceOK'
  <2>1. (notifier' = NoChannel => seenIndex' = {}) /\ seenIndex' \subseteq disk'
    BY <1>3 DEF IInv, OnceOK
  <2> QED
    BY <1>3, <1>14, <1>15, <2>1 DEF OnceOK
<1> QED
  BY <1>8, <1>11, <1>16 DEF IInv

\* The import looks at the disk.
LEMMA CheckDiskKeeps ==
    ASSUME IInv, NEW i \in Imports, CheckDisk(i)
    PROVE  IInv'
<1>1. /\ missing' = [missing EXCEPT ![i] = Expected \ disk]
      /\ import'[i] = (IF Expected \ disk = {} THEN "available" ELSE "subscribe")
      /\ \A j \in Imports : j # i => import'[j] = import[j] /\ missing'[j] = missing[j]
      /\ missing'[i] = Expected \ disk
      /\ UNCHANGED <<disk, seenIndex, notifier, channels, receive, sendTo, listenTo>>
  BY DEF IInv, TypeOK, CheckDisk, missingIndices
<1>2. TypeOK'
  BY DEF IInv, TypeOK, CheckDisk, missingIndices
<1>3. AnnouncedOK' /\ ChannelsOK'
  <2>1. /\ \A d \in Deliveries : receive'[d] \in {"saved", "sending"} => Index[d] \in disk'
        /\ \A c \in 1 .. Len(channels') : \A k \in 1 .. Len(channels'[c]) : channels'[c][k] \in disk'
    BY <1>1 DEF IInv, AnnouncedOK
  <2>2. \A j \in Imports : import'[j] \in {"subscribe", "waiting"} => Expected \ missing'[j] \subseteq disk'
    BY <1>1 DEF IInv, AnnouncedOK
  <2>3. DataOnDisk'
    BY <1>1 DEF IInv, AnnouncedOK, DataOnDisk
  <2>4. ChannelsOK'
    BY <1>1 DEF IInv, ChannelsOK
  <2> QED
    BY <2>1, <2>2, <2>3, <2>4 DEF AnnouncedOK
<1>4. OnceOK'
  BY <1>1, OnceStays DEF IInv, Pending
<1> QED
  BY <1>2, <1>3, <1>4 DEF IInv

\* The import takes the present channel, or a new one.
LEMMA SubscribeKeeps ==
    ASSUME IInv, NEW i \in Imports, Subscribe(i)
    PROVE  IInv'
<1>1. /\ import[i] = "subscribe" /\ ensureChannel
      /\ listenTo' = [listenTo EXCEPT ![i] = notifier']
      /\ import' = [import EXCEPT ![i] = "waiting"]
      /\ UNCHANGED <<disk, seenIndex, receive, sendTo, missing>>
  BY DEF Subscribe, forRoot
<1>2. /\ channels' \in Seq(Seq(Indices)) /\ Len(channels) \in Nat /\ Len(channels') \in Nat
      /\ Len(channels) <= Len(channels') /\ notifier' \in 1 .. Len(channels')
      /\ \A c \in 1 .. Len(channels) : channels'[c] = channels[c]
      /\ notifier # NoChannel =>
            notifier' = notifier /\ channels' = channels /\ notifier \in 1 .. Len(channels)
      /\ notifier = NoChannel => /\ Len(channels') = Len(channels) + 1
                                 /\ notifier' = Len(channels) + 1
                                 /\ Len(channels'[Len(channels) + 1]) = 0
  BY <1>1, EnsureFacts DEF IInv
<1>3. TypeOK'
  BY <1>1, <1>2 DEF IInv, TypeOK
<1>4. /\ import'[i] = "waiting" /\ listenTo'[i] = notifier' /\ notifier' # NoChannel
      /\ \A j \in Imports : j # i => import'[j] = import[j] /\ listenTo'[j] = listenTo[j]
  BY <1>1, <1>2 DEF IInv, TypeOK, NoChannel
<1>5. \A c \in 1 .. Len(channels') : c \in 1 .. Len(channels) \/ Len(channels'[c]) = 0
  BY <1>2
<1>6. AnnouncedOK' /\ ChannelsOK'
  <2>1. /\ \A d \in Deliveries : receive'[d] \in {"saved", "sending"} => Index[d] \in disk'
        /\ \A c \in 1 .. Len(channels') : \A k \in 1 .. Len(channels'[c]) : channels'[c][k] \in disk'
    <3>1. \A d \in Deliveries : receive'[d] \in {"saved", "sending"} => Index[d] \in disk'
      BY <1>1 DEF IInv, AnnouncedOK
    <3>2. \A c \in 1 .. Len(channels') : \A k \in 1 .. Len(channels'[c]) : channels'[c][k] \in disk'
      BY <1>1, <1>2, <1>5 DEF IInv, AnnouncedOK
    <3> QED
      BY <3>1, <3>2
  <2>2. \A j \in Imports : import'[j] \in {"subscribe", "waiting"} => Expected \ missing'[j] \subseteq disk'
    BY <1>1, <1>4 DEF IInv, AnnouncedOK
  <2>3. DataOnDisk'
    BY <1>1, <1>4 DEF IInv, AnnouncedOK, DataOnDisk
  <2>4. ChannelsOK'
    BY <1>1, <1>4 DEF IInv, ChannelsOK
  <2> QED
    BY <2>1, <2>2, <2>3, <2>4 DEF AnnouncedOK
<1>7. /\ \A c : \A d \in Deliveries : Pending(c, d)' <=> Pending(c, d)
      /\ \A c : \A d \in Deliveries : Pending(c, d) => c \in 1 .. Len(channels)
  BY <1>1, <1>2 DEF IInv, TypeOK, ChannelsOK, NoChannel, Pending
<1>8. OnceOK'
  <2>1. CASE notifier # NoChannel
    BY <1>1, <1>2, <1>7, <2>1, OnceStays DEF IInv
  <2>2. CASE notifier = NoChannel
    <3>1. seenIndex' = {} /\ seenIndex' \subseteq disk' /\ notifier' # NoChannel
      BY <1>1, <1>4, <2>2 DEF IInv, OnceOK
    <3>2. Len(channels'[notifier']) = 0 /\ ~ (notifier' \in 1 .. Len(channels))
      BY <1>2, <2>2
    <3>3. \A d \in Deliveries : ~ Pending(notifier, d)'
      BY <1>1, <1>7, <3>2 DEF Pending
    <3>4. ASSUME NEW c \in 1 .. Len(channels')
          PROVE  /\ \A k, l \in 1 .. Len(channels'[c]) : channels'[c][k] = channels'[c][l] => k = l
                 /\ \A d \in Deliveries : Pending(c, d)' =>
                       /\ ~ Buffered(c, Index[d])'
                       /\ \A other \in Deliveries :
                             Pending(c, other)' /\ Index[other] = Index[d] => other = d
      <4>1. CASE c \in 1 .. Len(channels)
        <5>1. channels'[c] = channels[c]
          BY <1>2, <4>1
        <5>2. \A idx : Buffered(c, idx)' <=> Buffered(c, idx)
          BY <5>1 DEF Buffered
        <5> QED
          BY <1>7, <4>1, <5>1, <5>2 DEF IInv, OnceOK
      <4>2. CASE ~ (c \in 1 .. Len(channels))
        BY <1>5, <1>7, <4>2
      <4> QED
        BY <4>1, <4>2
    <3> QED
      BY <3>1, <3>2, <3>3, <3>4 DEF OnceOK
  <2> QED
    BY <2>1, <2>2
<1> QED
  BY <1>3, <1>6, <1>8 DEF IInv

\* An index that is read was announced, so it is on disk.
LEMMA ReceiveKeeps ==
    ASSUME IInv, NEW i \in Imports, Receive(i)
    PROVE  IInv'
<1> DEFINE c == listenTo[i]
           old == channels[c]
           new == Tail(old)
<1>1. /\ channels \in Seq(Seq(Indices)) /\ Len(channels) \in Nat /\ c \in 1 .. Len(channels)
      /\ import[i] = "waiting" /\ old # <<>>
  <2>1. import[i] = "waiting" /\ old # <<>>
    BY DEF Receive
  <2>2. channels \in Seq(Seq(Indices)) /\ Len(channels) \in Nat /\ c \in 0 .. Len(channels)
    BY DEF IInv, TypeOK
  <2>3. c # 0
    BY <2>1 DEF IInv, ChannelsOK, NoChannel
  <2> HIDE DEF c
  <2> QED
    BY <2>1, <2>2, <2>3
<1>2. old \in Seq(Indices) /\ old = channels[c]
  BY <1>1
<1>3. /\ channels' = [channels EXCEPT ![c] = new]
      /\ missing' = [missing EXCEPT ![i] = missing[i] \ {Head(old)}]
      /\ import' = [import EXCEPT ![i] = IF missing'[i] = {} THEN "clean" ELSE "waiting"]
      /\ UNCHANGED <<disk, seenIndex, notifier, receive, sendTo, listenTo>>
  BY DEF Receive
<1> HIDE DEF c, old
<1>4. /\ new \in Seq(Indices) /\ Len(old) \in Nat \ {0} /\ Len(new) = Len(old) - 1
      /\ Head(old) = old[1] /\ Head(old) \in Indices
      /\ \A k \in 1 .. Len(old) - 1 : new[k] = old[k + 1]
  BY <1>1, <1>2, TailFacts
<1> HIDE DEF new
<1>5. /\ channels' \in Seq(Seq(Indices)) /\ Len(channels') = Len(channels)
      /\ channels'[c] = new
      /\ \A e \in 1 .. Len(channels) : e # c => channels'[e] = channels[e]
  BY <1>1, <1>3, <1>4, ReplaceFacts
<1>6. TypeOK'
  BY <1>3, <1>5 DEF IInv, TypeOK
<1>7. /\ missing'[i] = missing[i] \ {Head(old)}
      /\ import'[i] = (IF missing'[i] = {} THEN "clean" ELSE "waiting")
      /\ \A j \in Imports : j # i => import'[j] = import[j] /\ missing'[j] = missing[j]
  BY <1>3 DEF IInv, TypeOK
<1>8. \A k \in 1 .. Len(new) : k + 1 \in 1 .. Len(old) /\ new[k] = old[k + 1]
  BY <1>4
<1>9. /\ 1 \in 1 .. Len(old) /\ \A k \in 1 .. Len(old) : old[k] \in disk
  BY <1>1, <1>2, <1>4 DEF IInv, AnnouncedOK
<1>10. AnnouncedOK' /\ ChannelsOK'
  <2>1. \A d \in Deliveries : receive'[d] \in {"saved", "sending"} => Index[d] \in disk'
    BY <1>3 DEF IInv, AnnouncedOK
  <2>2. \A e \in 1 .. Len(channels') : \A k \in 1 .. Len(channels'[e]) : channels'[e][k] \in disk'
    <3> SUFFICES ASSUME NEW e \in 1 .. Len(channels') PROVE \A k \in 1 .. Len(channels'[e]) : channels'[e][k] \in disk'
      OBVIOUS
    <3>1. CASE e = c
      BY <1>3, <1>5, <1>8, <1>9, <3>1
    <3>2. CASE e # c
      <4>1. e \in 1 .. Len(channels) /\ channels'[e] = channels[e]
        BY <1>5, <3>2
      <4> QED
        BY <1>3, <4>1 DEF IInv, AnnouncedOK
    <3> QED
      BY <3>1, <3>2
  <2>3. Expected \ missing'[i] \subseteq disk
    <3>1. Expected \ missing[i] \subseteq disk /\ Head(old) \in disk
      BY <1>1, <1>4, <1>9 DEF IInv, AnnouncedOK
    <3> QED
      BY <1>7, <3>1
  <2>4. \A j \in Imports : import'[j] \in {"subscribe", "waiting"} => Expected \ missing'[j] \subseteq disk'
    BY <1>3, <1>7, <2>3 DEF IInv, AnnouncedOK
  <2>5. DataOnDisk'
    BY <1>3, <1>7, <2>3 DEF IInv, AnnouncedOK, DataOnDisk
  <2>6. ChannelsOK'
    BY <1>1, <1>3, <1>7 DEF IInv, ChannelsOK
  <2> QED
    BY <2>1, <2>2, <2>4, <2>5, <2>6 DEF AnnouncedOK
<1>11. \A e : \A d \in Deliveries : Pending(e, d)' <=> Pending(e, d)
  BY <1>3 DEF Pending
<1>12. ASSUME NEW e \in 1 .. Len(channels')
       PROVE  /\ \A k, l \in 1 .. Len(channels'[e]) : channels'[e][k] = channels'[e][l] => k = l
              /\ \A d \in Deliveries : Pending(e, d)' =>
                    /\ ~ Buffered(e, Index[d])'
                    /\ \A other \in Deliveries :
                          Pending(e, other)' /\ Index[other] = Index[d] => other = d
  <2>1. e \in 1 .. Len(channels)
    BY <1>5
  <2>2. \A d, other \in Deliveries :
            Pending(e, d)' /\ Pending(e, other)' /\ Index[other] = Index[d] => other = d
    BY <1>11, <2>1 DEF IInv, OnceOK
  <2>3. \A idx : Buffered(e, idx)' => Buffered(e, idx)
    <3>1. CASE e = c
      BY <1>2, <1>5, <1>8, <3>1 DEF Buffered
    <3>2. CASE e # c
      BY <1>5, <2>1, <3>2 DEF Buffered
    <3> QED
      BY <3>1, <3>2
  <2>4. \A k, l \in 1 .. Len(channels'[e]) : channels'[e][k] = channels'[e][l] => k = l
    <3>1. CASE e = c
      <4>1. \A k, l \in 1 .. Len(old) : old[k] = old[l] => k = l
        BY <1>2, <2>1, <3>1 DEF IInv, OnceOK
      <4>2. ASSUME NEW k \in 1 .. Len(new), NEW l \in 1 .. Len(new), new[k] = new[l] PROVE k = l
        <5>1. k + 1 = l + 1
          BY <1>8, <4>1, <4>2
        <5> QED
          BY <5>1
      <4> QED
        BY <1>5, <3>1, <4>2
    <3>2. CASE e # c
      BY <1>5, <2>1, <3>2 DEF IInv, OnceOK
    <3> QED
      BY <3>1, <3>2
  <2> QED
    BY <1>11, <2>1, <2>2, <2>3, <2>4 DEF IInv, OnceOK
<1>13. OnceOK'
  <2>1. (notifier' = NoChannel => seenIndex' = {}) /\ seenIndex' \subseteq disk'
    BY <1>3 DEF IInv, OnceOK
  <2>2. ASSUME notifier # NoChannel
        PROVE  /\ \A k \in 1 .. Len(channels'[notifier]) : channels'[notifier][k] \in seenIndex
               /\ \A d \in Deliveries : Pending(notifier, d)' => Index[d] \in seenIndex
    <3>1. notifier \in 1 .. Len(channels)
      BY <1>1, <2>2 DEF IInv, TypeOK, NoChannel
    <3>2. /\ \A k \in 1 .. Len(channels[notifier]) : channels[notifier][k] \in seenIndex
          /\ \A d \in Deliveries : Pending(notifier, d) => Index[d] \in seenIndex
      BY <2>2 DEF IInv, OnceOK
    <3>3. \A d \in Deliveries : Pending(notifier, d)' => Pending(notifier, d)
      BY <1>3 DEF Pending
    <3>4. CASE notifier = c
      BY <1>2, <1>5, <1>8, <3>2, <3>3, <3>4
    <3>5. CASE notifier # c
      BY <1>5, <3>1, <3>2, <3>3, <3>5
    <3> QED
      BY <3>4, <3>5
  <2> QED
    BY <1>3, <1>12, <2>1, <2>2 DEF OnceOK
<1> QED
  BY <1>6, <1>10, <1>13 DEF IInv

\* The entry of the root is forgotten, with the indices that were seen.
LEMMA CleanKeeps ==
    ASSUME IInv, NEW i \in Imports, Clean(i)
    PROVE  IInv'
<1>1. /\ import[i] = "clean" /\ seenIndex' = {} /\ notifier' = NoChannel
      /\ import' = [import EXCEPT ![i] = "available"]
      /\ UNCHANGED <<disk, channels, receive, sendTo, missing, listenTo>>
  BY DEF Clean
<1>2. TypeOK'
  BY <1>1 DEF IInv, TypeOK, NoChannel
<1>3. AnnouncedOK' /\ ChannelsOK'
  BY <1>1 DEF IInv, TypeOK, AnnouncedOK, DataOnDisk, ChannelsOK
<1>4. /\ \A c : \A d \in Deliveries : Pending(c, d)' <=> Pending(c, d)
      /\ \A c, idx : Buffered(c, idx)' <=> Buffered(c, idx)
  BY <1>1 DEF Pending, Buffered
<1>5. OnceOK'
  <2>1. \A c \in 1 .. Len(channels') :
          /\ \A k, l \in 1 .. Len(channels'[c]) : channels'[c][k] = channels'[c][l] => k = l
          /\ \A d \in Deliveries : Pending(c, d)' =>
                /\ ~ Buffered(c, Index[d])'
                /\ \A other \in Deliveries : Pending(c, other)' /\ Index[other] = Index[d] => other = d
    BY <1>1, <1>4 DEF IInv, OnceOK
  <2> QED
    BY <1>1, <2>1 DEF OnceOK
<1> QED
  BY <1>2, <1>3, <1>5 DEF IInv

\* The deadline passes, or the block comes again.
LEMMA CancelRetryKeep ==
    ASSUME IInv, NEW i \in Imports, Cancel(i) \/ Retry(i)
    PROVE  IInv'
<1>1. /\ import'[i] \in {"cancelled", "start"}
      /\ \A j \in Imports : j # i => import'[j] = import[j]
      /\ UNCHANGED <<disk, seenIndex, notifier, channels, receive, sendTo, missing, listenTo>>
  BY DEF IInv, TypeOK, Cancel, Retry
<1>2. TypeOK'
  BY DEF IInv, TypeOK, Cancel, Retry
<1>3. AnnouncedOK' /\ ChannelsOK'
  BY <1>1 DEF IInv, AnnouncedOK, DataOnDisk, ChannelsOK
<1>4. OnceOK'
  BY <1>1, OnceStays DEF IInv, Pending
<1> QED
  BY <1>2, <1>3, <1>4 DEF IInv

\* Every step keeps the invariant.
LEMMA StepInv == IInv /\ [Next]_vars => IInv'
<1> SUFFICES ASSUME IInv, [Next]_vars PROVE IInv'
  OBVIOUS
<1>1. ASSUME NEW i \in Imports, Work(i) \/ Cancel(i) \/ Retry(i) PROVE IInv'
  BY <1>1, CheckDiskKeeps, SubscribeKeeps, ReceiveKeeps, CleanKeeps, CancelRetryKeep DEF Work
<1>2. ASSUME NEW del \in Deliveries, ReceiveBlob(del) PROVE IInv'
  BY <1>2, SaveKeeps, NotifyKeeps, SendKeeps DEF ReceiveBlob
<1>3. ASSUME UNCHANGED vars PROVE IInv'
  BY <1>3 DEF vars, IInv, TypeOK, AnnouncedOK, DataOnDisk, ChannelsOK, OnceOK, Pending, Buffered
<1> QED
  BY <1>1, <1>2, <1>3 DEF Next, Done

\* Whatever is announced is on disk, and a channel gets every index once.
THEOREM Invariance == Spec => []IInv
BY InitInv, StepInv, PTL DEF Spec

\* The maps, channels and goroutines of a root keep their types.
THEOREM TypeCorrect == Spec => []TypeOK
<1>1. IInv => TypeOK
  BY DEF IInv
<1> QED
  BY <1>1, Invariance, PTL

\* However many imports of the block overlap, are cancelled and come again, and however often
\* a sidecar is delivered, an import goes on only with every sidecar on disk.
THEOREM DataFirst == Spec => []DataOnDisk
<1>1. IInv => DataOnDisk
  BY DEF IInv, AnnouncedOK
<1> QED
  BY <1>1, Invariance, PTL

\* For every limit on the blobs of a block the buffer has room for a send: the indices in it
\* and the one to be sent are different members of a set of that many.
THEOREM NoSenderBlocks == Spec => []SendNeverBlocks
<1>1. IInv => SendNeverBlocks
  <2> SUFFICES ASSUME IInv, NEW del \in Deliveries, receive[del] = "sending"
               PROVE  Len(channels[sendTo[del]]) < MaxBlobsPerBlock
    BY DEF SendNeverBlocks
  <2> DEFINE c == sendTo[del]
  <2>1. channels \in Seq(Seq(Indices)) /\ c \in 0 .. Len(channels) /\ Len(channels) \in Nat
    BY DEF IInv, TypeOK
  <2>2. c # 0 /\ Pending(c, del)
    BY DEF IInv, ChannelsOK, NoChannel, Pending
  <2> HIDE DEF c
  <2>3. c \in 1 .. Len(channels) /\ channels[c] \in Seq(Indices)
    BY <2>1, <2>2
  <2>4. /\ \A k, l \in 1 .. Len(channels[c]) : channels[c][k] = channels[c][l] => k = l
        /\ \A k \in 1 .. Len(channels[c]) : channels[c][k] # Index[del]
    BY <2>2, <2>3 DEF IInv, OnceOK, Buffered
  <2>5. MaxBlobsPerBlock \in Nat /\ Index[del] \in Indices
    BY BlobsAssumption
  <2>6. Len(channels[c]) < MaxBlobsPerBlock
    BY <2>3, <2>4, <2>5, Pigeons DEF Indices
  <2> QED
    BY <2>6 DEF c
<1> QED
  BY <1>1, Invariance, PTL

-----------------------------------------------------------------------------
(* A single import.                                                        *)

\* An index that was announced while the import misses it.
Reaches(idx) ==
    \/ Buffered(notifier, idx)
    \/ \E del \in Deliveries : Pending(notifier, del) /\ Index[del] = idx

\* A step of ReceiveBlob keeps the index on its way to the import.
LEMMA DeliveryWakes ==
    ASSUME NEW i, Imports = {i}, IInv, WakeupOK(i), NEW del \in Deliveries, ReceiveBlob(del)
    PROVE  WakeupOK(i)'
<1> USE DEF Reaches
<1>1. UNCHANGED <<import, missing, listenTo>>
  BY DEF ReceiveBlob, Save, notifyIndex, Send
<1>2. i \in Imports
  OBVIOUS
<1>3. \A idx : ~ (idx \in seenIndex) \/ notifier # NoChannel
  BY DEF IInv, OnceOK
<1>4. CASE Save(del)
  <2>1. /\ disk' \subseteq disk \cup {Index[del]}
        /\ (disk' # disk => receive'[del] = "saved")
        /\ \A d \in Deliveries : d # del => receive'[d] = receive[d]
        /\ receive[del] = "arrived"
        /\ UNCHANGED <<seenIndex, notifier, channels, sendTo>>
    BY <1>4 DEF Save, IInv, TypeOK
  <2>2. \A idx : Reaches(idx) => Reaches(idx)'
    BY <2>1 DEF Buffered, Pending
  <2>3. ASSUME NEW idx \in disk' \ seenIndex', idx \in missing[i], import[i] \in {"subscribe", "waiting"}
        PROVE  \E d \in Deliveries : receive'[d] = "saved" /\ Index[d] = idx
    <3>1. CASE idx \in disk
      BY <2>1, <2>3, <3>1 DEF WakeupOK
    <3>2. CASE idx \notin disk
      BY <2>1, <2>3, <3>2
    <3> QED
      BY <3>1, <3>2
  <2> QED
    BY <1>1, <2>1, <2>2, <2>3 DEF WakeupOK
<1>5. CASE notifyIndex(del)
  <2>1. CASE seen(del)
    <3>1. /\ receive' = [receive EXCEPT ![del] = "finished"] /\ receive[del] = "saved"
          /\ Index[del] \in seenIndex
          /\ UNCHANGED <<disk, seenIndex, notifier, channels, sendTo>>
      BY <1>5, <2>1 DEF notifyIndex, seen
    <3>2. \A d \in Deliveries : d # del => receive'[d] = receive[d]
      BY <3>1 DEF IInv, TypeOK
    <3>3. \A idx : Reaches(idx) => Reaches(idx)'
      BY <3>1, <3>2 DEF Buffered, Pending
    <3>4. ASSUME NEW idx \in disk' \ seenIndex', NEW d \in Deliveries, receive[d] = "saved", Index[d] = idx
          PROVE  receive'[d] = "saved"
      BY <3>1, <3>2, <3>4
    <3> QED
      BY <1>1, <3>1, <3>3, <3>4 DEF WakeupOK
  <2>2. CASE ~ seen(del)
    <3>1. /\ ensureChannel /\ seenIndex' = seenIndex \cup {Index[del]}
          /\ sendTo' = [sendTo EXCEPT ![del] = notifier']
          /\ receive' = [receive EXCEPT ![del] = "sending"]
          /\ receive[del] = "saved" /\ UNCHANGED disk
      BY <1>5, <2>2 DEF notifyIndex, seen
    <3>2. /\ receive'[del] = "sending" /\ sendTo'[del] = notifier'
          /\ \A d \in Deliveries : d # del => receive'[d] = receive[d] /\ sendTo'[d] = sendTo[d]
      BY <3>1 DEF IInv, TypeOK
    <3>3. notifier # NoChannel => notifier' = notifier /\ channels' = channels
      BY <3>1 DEF ensureChannel
    <3>4. ASSUME NEW idx \in seenIndex, Reaches(idx) PROVE Reaches(idx)'
      BY <1>3, <3>1, <3>2, <3>3, <3>4 DEF Buffered, Pending
    <3>5. Reaches(Index[del])'
      BY <3>2 DEF Pending
    <3>6. ASSUME NEW idx \in disk' \ seenIndex', NEW d \in Deliveries, receive[d] = "saved", Index[d] = idx
          PROVE  receive'[d] = "saved"
      BY <3>1, <3>2, <3>6
    <3>7. import[i] = "waiting" => listenTo[i] = notifier'
      BY <1>2, <3>3 DEF WakeupOK, IInv, ChannelsOK
    <3>8. ASSUME NEW idx \in missing[i], import[i] \in {"subscribe", "waiting"}, idx \in seenIndex'
          PROVE  Reaches(idx)'
      <4>1. CASE idx \in seenIndex
        BY <3>4, <3>8, <4>1 DEF WakeupOK
      <4>2. CASE idx \notin seenIndex
        BY <3>1, <3>5, <3>8, <4>2
      <4> QED
        BY <4>1, <4>2
    <3>9. ASSUME NEW idx \in missing[i], import[i] \in {"subscribe", "waiting"}, idx \in disk' \ seenIndex'
          PROVE  \E d \in Deliveries : receive'[d] = "saved" /\ Index[d] = idx
      <4>1. idx \in disk \ seenIndex
        BY <3>1, <3>9
      <4>2. PICK d \in Deliveries : receive[d] = "saved" /\ Index[d] = idx
        BY <3>9, <4>1 DEF WakeupOK
      <4> QED
        BY <3>6, <3>9, <4>2
    <3> QED
      BY <1>1, <3>7, <3>8, <3>9 DEF WakeupOK
  <2> QED
    BY <2>1, <2>2
<1>6. CASE Send(del)
  <2> DEFINE c == sendTo[del]
  <2>1. /\ channels' = [channels EXCEPT ![c] = Append(channels[c], Index[del])]
        /\ receive' = [receive EXCEPT ![del] = "finished"] /\ receive[del] = "sending"
        /\ UNCHANGED <<disk, seenIndex, notifier, sendTo>>
    BY <1>6 DEF Send
  <2>2. channels \in Seq(Seq(Indices)) /\ Len(channels) \in Nat /\ c \in 0 .. Len(channels) /\ c # 0
    BY <2>1 DEF IInv, TypeOK, ChannelsOK, NoChannel
  <2>3. Index[del] \in Indices
    BY BlobsAssumption
  <2> HIDE DEF c
  <2>4. c \in 1 .. Len(channels) /\ channels[c] \in Seq(Indices)
    BY <2>2
  <2> DEFINE new == Append(channels[c], Index[del])
  <2>5. /\ new \in Seq(Indices) /\ Len(channels[c]) \in Nat /\ Len(new) = Len(channels[c]) + 1
        /\ new[Len(channels[c]) + 1] = Index[del]
        /\ \A k \in 1 .. Len(channels[c]) : new[k] = channels[c][k]
    BY <2>3, <2>4, AppendFacts
  <2>6. channels' = [channels EXCEPT ![c] = new]
    BY <2>1
  <2> HIDE DEF new
  <2>7. /\ channels'[c] = new
        /\ \A e \in 1 .. Len(channels) : e # c => channels'[e] = channels[e]
    BY <2>2, <2>4, <2>5, <2>6, ReplaceFacts
  <2>8. Len(channels[c]) + 1 \in 1 .. Len(new) /\ \A k \in 1 .. Len(channels[c]) : k \in 1 .. Len(new)
    BY <2>5
  <2>9. \E k \in 1 .. Len(channels'[c]) : channels'[c][k] = Index[del]
    BY <2>5, <2>7, <2>8
  <2>10. \A d \in Deliveries : d # del => receive'[d] = receive[d]
    BY <2>1 DEF IInv, TypeOK
  <2>11. ASSUME NEW idx, Buffered(notifier, idx), notifier \in 1 .. Len(channels)
         PROVE  Buffered(notifier, idx)'
    <3>1. CASE notifier = c
      <4>1. PICK k \in 1 .. Len(channels[c]) : channels[c][k] = idx
        BY <2>11, <3>1 DEF Buffered
      <4>2. k \in 1 .. Len(channels'[c]) /\ channels'[c][k] = idx
        BY <2>5, <2>7, <2>8, <4>1
      <4> QED
        BY <2>1, <3>1, <4>2 DEF Buffered
    <3>2. CASE notifier # c
      BY <2>1, <2>7, <2>11, <3>2 DEF Buffered
    <3> QED
      BY <3>1, <3>2
  <2>12. ASSUME NEW idx, Reaches(idx), notifier # NoChannel PROVE Reaches(idx)'
    <3>1. notifier \in 1 .. Len(channels)
      BY <2>2, <2>12 DEF IInv, TypeOK, NoChannel
    <3>2. CASE Buffered(notifier, idx)
      BY <2>11, <3>1, <3>2
    <3>3. ASSUME NEW d \in Deliveries, Pending(notifier, d), Index[d] = idx PROVE Reaches(idx)'
      <4>1. CASE d = del
        <5>1. notifier = c
          BY <3>3, <4>1 DEF Pending, c
        <5>2. notifier' = c /\ Index[del] = idx
          BY <2>1, <3>3, <4>1, <5>1
        <5>3. Buffered(notifier, idx)'
          BY <2>9, <5>2 DEF Buffered
        <5> QED
          BY <5>3
      <4>2. CASE d # del
        BY <2>1, <2>10, <3>3, <4>2 DEF Pending
      <4> QED
        BY <4>1, <4>2
    <3> QED
      BY <2>12, <3>2, <3>3
  <2>13. \A d \in Deliveries : receive[d] = "saved" => receive'[d] = "saved"
    BY <2>1, <2>10
  <2> HIDE DEF Reaches
  <2>14. ASSUME NEW idx \in missing[i], import[i] \in {"subscribe", "waiting"}, idx \in seenIndex'
         PROVE  Reaches(idx)'
    BY <1>3, <2>1, <2>12, <2>14 DEF WakeupOK, Reaches
  <2>15. ASSUME NEW idx \in missing[i], import[i] \in {"subscribe", "waiting"}, idx \in disk' \ seenIndex'
         PROVE  \E d \in Deliveries : receive'[d] = "saved" /\ Index[d] = idx
    BY <2>1, <2>13, <2>15 DEF WakeupOK
  <2> QED
    BY <1>1, <2>1, <2>14, <2>15 DEF WakeupOK, Reaches
<1> QED
  BY <1>4, <1>5, <1>6 DEF ReceiveBlob

\* A step of the import: it looks at the disk before it subscribes, and it alone reads its
\* channel and clears the entry of the root.
LEMMA ImportWakes ==
    ASSUME NEW i, Imports = {i}, IInv, WakeupOK(i), Work(i) \/ Cancel(i) \/ Retry(i)
    PROVE  WakeupOK(i)'
<1>1. i \in Imports /\ seenIndex \subseteq disk
  BY DEF IInv, OnceOK
<1>2. CASE CheckDisk(i)
  <2>1. /\ missing'[i] = Expected \ disk /\ import'[i] \in {"available", "subscribe"}
        /\ UNCHANGED <<disk, seenIndex>>
    BY <1>1, <1>2 DEF CheckDisk, missingIndices, IInv, TypeOK
  <2> QED
    BY <1>1, <2>1 DEF WakeupOK
<1>3. CASE Subscribe(i)
  <2>1. /\ import[i] = "subscribe" /\ import'[i] = "waiting" /\ listenTo'[i] = notifier' /\ ensureChannel
        /\ UNCHANGED <<disk, seenIndex, receive, sendTo, missing>>
    BY <1>1, <1>3 DEF Subscribe, forRoot, IInv, TypeOK
  <2>2. CASE notifier = NoChannel
    <3>1. seenIndex' = {}
      BY <2>1, <2>2 DEF IInv, OnceOK
    <3> QED
      BY <2>1, <3>1 DEF WakeupOK
  <2>3. CASE notifier # NoChannel
    <3>1. UNCHANGED <<notifier, channels>>
      BY <2>1, <2>3 DEF ensureChannel
    <3>2. \A idx : Reaches(idx) => Reaches(idx)'
      BY <2>1, <3>1 DEF Reaches, Buffered, Pending
    <3> QED
      BY <2>1, <3>2 DEF WakeupOK, Reaches
  <2> QED
    BY <2>2, <2>3
<1>4. CASE Receive(i)
  <2> DEFINE c == listenTo[i]
             old == channels[c]
             new == Tail(old)
  <2>1. /\ import[i] = "waiting" /\ old # <<>> /\ c = notifier
        /\ channels' = [channels EXCEPT ![c] = new]
        /\ missing'[i] = missing[i] \ {Head(old)}
        /\ UNCHANGED <<disk, seenIndex, notifier, receive, sendTo, listenTo>>
    BY <1>1, <1>4 DEF Receive, IInv, TypeOK, WakeupOK
  <2>2. channels \in Seq(Seq(Indices)) /\ Len(channels) \in Nat /\ c \in 0 .. Len(channels) /\ c # 0
    BY <1>1, <2>1 DEF IInv, TypeOK, ChannelsOK, NoChannel
  <2> HIDE DEF c
  <2>3. c \in 1 .. Len(channels) /\ old \in Seq(Indices)
    BY <2>2
  <2>4. old = channels[c]
    OBVIOUS
  <2> HIDE DEF old
  <2>5. /\ new \in Seq(Indices) /\ Len(old) \in Nat \ {0} /\ Len(new) = Len(old) - 1
        /\ Head(old) = old[1]
        /\ \A k \in 1 .. Len(old) - 1 : new[k] = old[k + 1]
    BY <2>1, <2>3, TailFacts
  <2> HIDE DEF new
  <2>6. channels'[c] = new
    BY <2>1, <2>2, <2>3, <2>5, ReplaceFacts
  <2>7. \A k \in 1 .. Len(old) : k = 1 \/ (k - 1 \in 1 .. Len(new) /\ new[k - 1] = old[k])
    BY <2>5
  <2>8. ASSUME NEW idx, idx # Head(old), Buffered(notifier, idx) PROVE Buffered(notifier, idx)'
    <3>1. PICK k \in 1 .. Len(old) : old[k] = idx
      BY <2>1, <2>4, <2>8 DEF Buffered
    <3>2. k - 1 \in 1 .. Len(new) /\ new[k - 1] = idx
      BY <2>5, <2>7, <2>8, <3>1
    <3> QED
      BY <2>1, <2>6, <3>2 DEF Buffered
  <2>9. \A idx : idx # Head(old) /\ Reaches(idx) => Reaches(idx)'
    BY <2>1, <2>8 DEF Reaches, Pending
  <2>10. \A idx \in missing'[i] : idx # Head(old) /\ idx \in missing[i]
    BY <2>1
  <2>11. ASSUME NEW idx \in missing'[i], idx \in seenIndex' PROVE Reaches(idx)'
    BY <2>1, <2>9, <2>10, <2>11 DEF WakeupOK, Reaches
  <2>12. ASSUME NEW idx \in missing'[i], idx \in disk' \ seenIndex'
         PROVE  \E d \in Deliveries : receive'[d] = "saved" /\ Index[d] = idx
    BY <2>1, <2>10, <2>12 DEF WakeupOK
  <2>13. listenTo'[i] = notifier'
    BY <2>1 DEF c
  <2> QED
    BY <2>11, <2>12, <2>13 DEF WakeupOK, Reaches
<1>5. CASE Clean(i) \/ Cancel(i) \/ Retry(i)
  <2>1. import'[i] \in {"available", "cancelled", "start"}
    BY <1>1, <1>5 DEF Clean, Cancel, Retry, IInv, TypeOK
  <2> QED
    BY <2>1 DEF WakeupOK
<1> QED
  BY <1>2, <1>3, <1>4, <1>5 DEF Work

\* A single import: when the goroutines of the sidecars are done, every index it misses and
\* that is on disk is in the channel it reads, also after attempts that were cancelled.
THEOREM WakeupKept ==
    ASSUME NEW i, Imports = {i}
    PROVE  Spec => []NoLostWakeup
<1>1. Init => IInv /\ WakeupOK(i)
  BY InitInv DEF Init, WakeupOK
<1>2. IInv /\ WakeupOK(i) /\ [Next]_vars => (IInv /\ WakeupOK(i))'
  <2> SUFFICES ASSUME IInv, WakeupOK(i), [Next]_vars PROVE WakeupOK(i)'
    BY StepInv
  <2>1. CASE UNCHANGED vars
    BY <2>1 DEF vars, WakeupOK, Buffered, Pending
  <2>2. ASSUME NEW j \in Imports, Work(j) \/ Cancel(j) \/ Retry(j) PROVE WakeupOK(i)'
    <3>1. j = i
      OBVIOUS
    <3> QED
      BY <2>2, <3>1, ImportWakes
  <2>3. ASSUME NEW del \in Deliveries, ReceiveBlob(del) PROVE WakeupOK(i)'
    BY <2>3, DeliveryWakes
  <2> QED
    BY <2>1, <2>2, <2>3 DEF Next, Done
<1>3. IInv /\ WakeupOK(i) => NoLostWakeup
  <2> SUFFICES ASSUME IInv, WakeupOK(i), import[i] = "waiting",
                      \A del \in Deliveries : receive[del] = "finished",
                      NEW idx \in missing[i] \cap disk
               PROVE  \E k \in 1 .. Len(channels[listenTo[i]]) : channels[listenTo[i]][k] = idx
    BY DEF NoLostWakeup
  <2>1. idx \in seenIndex
    BY DEF WakeupOK
  <2>2. Buffered(notifier, idx)
    BY <2>1 DEF WakeupOK, Pending
  <2> QED
    BY <2>2 DEF WakeupOK, Buffered
<1> QED
  BY <1>1, <1>2, <1>3, PTL DEF Spec

=============================================================================
