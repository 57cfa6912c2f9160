--------------------------- MODULE History_proofs ---------------------------
(***************************************************************************)
(* The write queue for any capacities, rooms and readers: types, the cache *)
(* that names no index the table lacks, a Stop that leaves nothing it had  *)
(* accepted, and the promise of WriteBehind.  The invariant adds what the  *)
(* worker relies on between two of its steps.                              *)
(***************************************************************************)
EXTENDS History, SequenceTheorems, TLAPS

Flushing == worker \in {"saved", "lock"}

(* There is room for what is received next, and a flush that has saved a   *)
(* row still has it at the head of its batch.                              *)
BatchHasRoom == worker \in {"select", "drain"} => Len(batch) < BatchSize
HeadSaved ==
    Flushing =>
        /\ batch # << >>
        /\ \E x \in rows : x.room = Head(batch).room /\ x.index = Head(batch).index

(* Only Stop makes the worker drain; once the queue has been found empty,  *)
(* it holds nothing that was accepted before.                              *)
StopSeen ==
    /\ back # "select" \/ worker \in {"drain", "stopped"} => stopCh
    /\ stopCh => closedAt <= accepted
    /\ worker = "stopped" => back = "stopped" /\ batch = << >>
QueueLate == back = "stopped" => \A k \in DOMAIN writeQ : writeQ[k].msg > closedAt

HInv == TypeOK /\ BatchHasRoom /\ HeadSaved /\ StopSeen /\ QueueLate /\ CacheNotAhead

-----------------------------------------------------------------------------
(* The invariant holds in a new process with an empty table.               *)
THEOREM InitHInv == Init => HInv
<1> SUFFICES ASSUME Init PROVE HInv OBVIOUS
<1> USE HistoryAssumption DEF Init
<1>1. << >> \in Seq(Row) /\ Len(<< >>) = 0 BY EmptySeq
<1>2. TypeOK
  <2>1. writeQ \in Seq(Row) /\ Len(writeQ) \in 0..QueueSize BY <1>1
  <2>2. batch \in Seq(Row) /\ Len(batch) \in 0..BatchSize BY <1>1
  <2>3. lastIndex \in [Room -> 0..MaxIndex \cup {None}] OBVIOUS
  <2>4. /\ reader \in [Reader -> {"idle", "rlock", "lookup", "query", "upgrade"}]
        /\ asks \in [Reader -> Room]
    OBVIOUS
  <2>5. /\ worker \in {"select", "save", "saved", "lock", "drain", "stopped"}
        /\ back \in {"select", "drain", "stopped"}
        /\ timer \in {"running", "fired"} /\ stopCh \in BOOLEAN
    OBVIOUS
  <2>6. holders \subseteq Reader /\ rows \subseteq Row OBVIOUS
  <2>7. accepted \in 0..MaxWrites /\ closedAt \in 0..MaxWrites OBVIOUS
  <2>8. QED BY ONLY <2>1, <2>2, <2>3, <2>4, <2>5, <2>6, <2>7 DEF TypeOK
<1>3. BatchHasRoom BY <1>1 DEF BatchHasRoom
<1>4. HeadSaved /\ StopSeen BY DEF HeadSaved, StopSeen, Flushing
<1>5. QueueLate /\ CacheNotAhead BY DEF QueueLate, CacheNotAhead
<1>6. QED BY <1>2, <1>3, <1>4, <1>5 DEF HInv

(* What is read of the two sequences: of the queue and the batch.          *)
LEMMA QueueFacts ==
    ASSUME NEW S, NEW seq \in Seq(S)
    PROVE  /\ Len(seq) \in Nat /\ DOMAIN seq = 1..Len(seq)
           /\ seq = << >> <=> Len(seq) = 0
           /\ seq # << >> => /\ Head(seq) \in S /\ Tail(seq) \in Seq(S)
                             /\ Len(Tail(seq)) = Len(seq) - 1
                             /\ DOMAIN Tail(seq) = 1..(Len(seq) - 1)
                             /\ \A k \in DOMAIN Tail(seq) : Tail(seq)[k] = seq[k + 1]
           /\ \A e \in S : /\ Append(seq, e) \in Seq(S)
                           /\ Len(Append(seq, e)) = Len(seq) + 1
                           /\ \A k \in DOMAIN Append(seq, e) :
                                Append(seq, e)[k] = IF k \in DOMAIN seq THEN seq[k] ELSE e
<1>1. Len(seq) \in Nat /\ DOMAIN seq = 1..Len(seq) BY LenProperties
<1>2. seq = << >> <=> Len(seq) = 0 BY <1>1, EmptySeq
<1>3. ASSUME seq # << >>
      PROVE  /\ Head(seq) \in S /\ Tail(seq) \in Seq(S)
             /\ Len(Tail(seq)) = Len(seq) - 1
             /\ DOMAIN Tail(seq) = 1..(Len(seq) - 1)
             /\ \A k \in DOMAIN Tail(seq) : Tail(seq)[k] = seq[k + 1]
  <2>1. /\ Head(seq) \in S /\ Tail(seq) \in Seq(S)
        /\ Len(Tail(seq)) = Len(seq) - 1
        /\ \A k \in 1..Len(Tail(seq)) : Tail(seq)[k] = seq[k + 1]
    BY <1>3, HeadTailProperties
  <2>2. DOMAIN Tail(seq) = 1..Len(Tail(seq)) BY <2>1, LenProperties
  <2>3. QED BY <2>1, <2>2
<1>4. ASSUME NEW e \in S
      PROVE  /\ Append(seq, e) \in Seq(S)
             /\ Len(Append(seq, e)) = Len(seq) + 1
             /\ \A k \in DOMAIN Append(seq, e) :
                  Append(seq, e)[k] = IF k \in DOMAIN seq THEN seq[k] ELSE e
  <2>1. /\ Append(seq, e) \in Seq(S) /\ Len(Append(seq, e)) = Len(seq) + 1
        /\ \A k \in 1..Len(seq) : Append(seq, e)[k] = seq[k]
        /\ Append(seq, e)[Len(seq) + 1] = e
    BY AppendProperties
  <2>2. DOMAIN Append(seq, e) = 1..(Len(seq) + 1) BY <2>1, LenProperties
  <2>3. QED BY <1>1, <2>1, <2>2
<1>5. QED BY <1>1, <1>2, <1>3, <1>4

(* A request that is accepted goes to the back of the queue, and is not    *)
(* among those accepted before Stop.                                       *)
LEMMA EnqueueKeepsHInv ==
    ASSUME HInv, NEW r \in Room, NEW i \in 0..MaxIndex, EnqueueEnvelope(r, i)
    PROVE  HInv'
<1> DEFINE row == [room |-> r, index |-> i, msg |-> accepted + 1]
<1> USE HistoryAssumption DEF HInv, EnqueueEnvelope
<1>1. row \in Row BY DEF Row, TypeOK
<1>2. /\ writeQ' \in Seq(Row) /\ Len(writeQ') = Len(writeQ) + 1
      /\ \A k \in DOMAIN writeQ' :
           writeQ'[k] = IF k \in DOMAIN writeQ THEN writeQ[k] ELSE row
  BY <1>1, QueueFacts DEF TypeOK
<1>3. TypeOK' BY <1>2 DEF TypeOK
<1>4. QueueLate'
  <2> SUFFICES ASSUME back = "stopped", NEW k \in DOMAIN writeQ'
               PROVE  writeQ'[k].msg > closedAt
    BY DEF QueueLate
  <2>1. closedAt <= accepted /\ closedAt \in Nat /\ accepted \in Nat
    BY DEF StopSeen, TypeOK
  <2>2. row.msg > closedAt BY <2>1
  <2>3. k \in DOMAIN writeQ => writeQ[k].msg > closedAt BY DEF QueueLate
  <2>4. QED BY <1>2, <2>2, <2>3
<1>5. BatchHasRoom' /\ HeadSaved' BY DEF BatchHasRoom, HeadSaved, Flushing
<1>6. StopSeen' /\ CacheNotAhead' BY DEF StopSeen, CacheNotAhead, TypeOK
<1>7. QED BY <1>3, <1>4, <1>5, <1>6

(* What is received fits in the batch, which is flushed once it is full.   *)
LEMMA ReceiveKeepsHInv ==
    ASSUME HInv, NEW from \in {"select", "drain"}, Receive(from)
    PROVE  HInv'
<1> USE HistoryAssumption DEF HInv, Receive
<1>1. /\ Head(writeQ) \in Row /\ writeQ' \in Seq(Row)
      /\ Len(writeQ') = Len(writeQ) - 1
      /\ DOMAIN writeQ' = 1..(Len(writeQ) - 1)
      /\ \A k \in DOMAIN writeQ' : writeQ'[k] = writeQ[k + 1]
  BY QueueFacts DEF TypeOK
<1>2. batch' \in Seq(Row) /\ Len(batch') = Len(batch) + 1
  BY <1>1, QueueFacts DEF TypeOK
<1>3. Len(batch) < BatchSize /\ Len(batch) \in Nat /\ Len(writeQ) \in Nat
      /\ DOMAIN writeQ = 1..Len(writeQ)
  BY QueueFacts DEF BatchHasRoom, TypeOK
<1>4. \/ worker' = "save" /\ back' = from
      \/ Len(batch') < BatchSize /\ UNCHANGED <<worker, back>>
  BY <1>2, <1>3 DEF Flush
<1>5. TypeOK'
  BY <1>1, <1>2, <1>3, <1>4 DEF TypeOK
<1>6. BatchHasRoom' /\ HeadSaved'
  BY <1>4 DEF BatchHasRoom, HeadSaved, Flushing
<1>7. QueueLate'
  <2>1. back' = "stopped" => back = "stopped" BY <1>4
  <2>2. \A k \in DOMAIN writeQ' : k + 1 \in DOMAIN writeQ BY <1>1, <1>3
  <2>3. QED BY <1>1, <2>1, <2>2 DEF QueueLate
<1>8. StopSeen'
  BY <1>4 DEF StopSeen
<1>9. CacheNotAhead' BY DEF CacheNotAhead
<1>10. QED BY <1>5, <1>6, <1>7, <1>8, <1>9

(* A row is in the table before the cache names its index, and stays.      *)
LEMMA SaveKeepsHInv ==
    ASSUME HInv, SaveEnvelope \/ SetLastIndex \/ SaveFails
    PROVE  HInv'
<1> USE HistoryAssumption DEF HInv
<1>1. CASE SaveEnvelope
  <2> USE <1>1 DEF SaveEnvelope
  <2>1. Head(batch) \in Row BY QueueFacts DEF TypeOK
  <2>2. rows' \subseteq Row /\ rows \subseteq rows'
    BY <2>1 DEF Insert, TypeOK
  <2>3. \E x \in rows' : x.room = Head(batch).room /\ x.index = Head(batch).index
    BY <2>1 DEF Insert
  <2>4. TypeOK' BY <2>2 DEF TypeOK
  <2>5. HeadSaved' BY <2>3 DEF HeadSaved
  <2>6. CacheNotAhead' BY <2>2 DEF CacheNotAhead
  <2>7. BatchHasRoom' /\ StopSeen' /\ QueueLate'
    BY DEF BatchHasRoom, StopSeen, QueueLate
  <2>8. QED BY <2>4, <2>5, <2>6, <2>7
<1>2. CASE SetLastIndex
  BY <1>2 DEF SetLastIndex, TypeOK, HeadSaved, Flushing, CacheNotAhead, BatchHasRoom,
     StopSeen, QueueLate
<1>3. CASE SaveFails
  <2> USE <1>3 DEF SaveFails
  <2>1. batch' \in Seq(Row) /\ Len(batch') = Len(batch) - 1 /\ Len(batch) \in Nat
        /\ Len(batch) # 0
    BY QueueFacts DEF TypeOK
  <2>2. TypeOK' BY <2>1 DEF TypeOK
  <2>3. HeadSaved' /\ CacheNotAhead' /\ BatchHasRoom' /\ StopSeen' /\ QueueLate'
    BY DEF HeadSaved, Flushing, CacheNotAhead, BatchHasRoom, StopSeen, QueueLate
  <2>4. QED BY <2>2, <2>3
<1>4. QED BY <1>1, <1>2, <1>3

(* The cache is raised to the index of the row that was saved, or stays.   *)
LEMMA LockedKeepsHInv ==
    ASSUME HInv, Locked
    PROVE  HInv'
<1> USE HistoryAssumption DEF HInv, Locked
<1> DEFINE row == Head(batch)
<1>1. batch # << >> /\ \E x \in rows : x.room = row.room /\ x.index = row.index
  BY DEF HeadSaved, Flushing
<1>2. /\ row \in Row /\ batch' \in Seq(Row)
      /\ Len(batch') = Len(batch) - 1 /\ Len(batch) \in Nat /\ Len(batch) # 0
  BY <1>1, QueueFacts DEF TypeOK
<1>3. row.room \in Room /\ row.index \in 0..MaxIndex BY <1>2 DEF Row
<1>4. /\ lastIndex' \in [Room -> 0..MaxIndex \cup {None}]
      /\ \A r \in Room : \/ lastIndex'[r] = lastIndex[r]
                         \/ r = row.room /\ lastIndex'[r] = row.index
  BY <1>3 DEF TypeOK
<1>5. TypeOK' BY <1>2, <1>4 DEF TypeOK
<1>6. CacheNotAhead'
  <2> SUFFICES ASSUME NEW r \in Room, lastIndex'[r] # None
               PROVE  \E x \in rows : x.room = r /\ x.index >= lastIndex'[r]
    BY DEF CacheNotAhead
  <2>1. CASE lastIndex'[r] = lastIndex[r] BY <2>1 DEF CacheNotAhead
  <2>2. CASE r = row.room /\ lastIndex'[r] = row.index BY <1>1, <1>3, <2>2
  <2>3. QED BY <1>4, <2>1, <2>2
<1>7. BatchHasRoom' /\ HeadSaved' /\ StopSeen' /\ QueueLate'
  BY DEF BatchHasRoom, HeadSaved, Flushing, StopSeen, QueueLate
<1>8. QED BY <1>5, <1>6, <1>7

(* The worker's other steps: where they lead, it knows that Stop was       *)
(* called, and that the queue was empty when it flushes for the last time. *)
LEMMA WorkerKeepsHInv ==
    ASSUME HInv, Worker
    PROVE  HInv'
<1> USE HistoryAssumption DEF HInv
<1>1. CASE ReceiveTimer \/ ReceiveStop
  <2> USE <1>1 DEF ReceiveTimer, ReceiveStop, Flush
  <2>1. TypeOK' BY DEF TypeOK
  <2>2. BatchHasRoom' BY DEF BatchHasRoom
  <2>3. HeadSaved' /\ StopSeen' BY DEF HeadSaved, Flushing, StopSeen
  <2>4. QueueLate' /\ CacheNotAhead' BY DEF QueueLate, CacheNotAhead
  <2>5. QED BY <2>1, <2>2, <2>3, <2>4
<1>2. CASE DrainDone
  <2> USE <1>2 DEF DrainDone, Flush
  <2>1. TypeOK' BY DEF TypeOK
  <2>2. DOMAIN writeQ = {} BY QueueFacts DEF TypeOK
  <2>3. QueueLate' BY <2>2 DEF QueueLate
  <2>4. BatchHasRoom' /\ HeadSaved' /\ StopSeen' /\ CacheNotAhead'
    BY DEF BatchHasRoom, HeadSaved, Flushing, StopSeen, CacheNotAhead
  <2>5. QED BY <2>1, <2>3, <2>4
<1>3. CASE FlushDone
  <2> USE <1>3 DEF FlushDone
  <2>1. TypeOK' BY DEF TypeOK
  <2>2. BatchHasRoom' BY QueueFacts DEF BatchHasRoom, TypeOK
  <2>3. StopSeen' BY DEF StopSeen, TypeOK
  <2>4. HeadSaved' /\ QueueLate' /\ CacheNotAhead'
    BY DEF HeadSaved, Flushing, TypeOK, QueueLate, CacheNotAhead
  <2>5. QED BY <2>1, <2>2, <2>3, <2>4
<1>4. QED
  BY <1>1, <1>2, <1>3, ReceiveKeepsHInv, SaveKeepsHInv, LockedKeepsHInv
     DEF Worker, ReceiveRequest, DrainRequest

(* A reader changes nothing but where it stands and the lock it holds.     *)
LEMMA ReaderKeepsHInv ==
    ASSUME HInv, NEW x \in Reader,
           GetLastIndex(x) \/ \E r \in Room : GetMessages(x, r)
    PROVE  HInv'
<1> USE DEF HInv
<1>1. /\ UNCHANGED <<writeQ, batch, worker, back, timer, stopCh, lastIndex, rows,
                     accepted, closedAt>>
      /\ holders' \subseteq Reader
      /\ asks' \in [Reader -> Room]
      /\ reader' \in [Reader -> {"idle", "rlock", "lookup", "query", "upgrade"}]
  BY DEF GetLastIndex, GetMessages, RLock, CacheHit, CacheMiss, NoRows, Upgrade, Return,
     TypeOK
<1>2. TypeOK' BY <1>1 DEF TypeOK
<1>3. BatchHasRoom' /\ HeadSaved' /\ StopSeen' /\ QueueLate' /\ CacheNotAhead'
  BY <1>1 DEF BatchHasRoom, HeadSaved, Flushing, StopSeen, QueueLate, CacheNotAhead
<1>4. QED BY <1>2, <1>3

(* Stop finds nothing accepted after it; a new process has empty queues.   *)
LEMMA OthersKeepHInv ==
    ASSUME HInv, Stop \/ Restart \/ TimerFires
    PROVE  HInv'
<1> USE HistoryAssumption DEF HInv
<1>1. CASE Stop
  <2> USE <1>1 DEF Stop
  <2>1. back # "stopped" BY DEF StopSeen
  <2>2. TypeOK' /\ StopSeen' BY DEF TypeOK, StopSeen
  <2>3. BatchHasRoom' /\ HeadSaved' /\ QueueLate' /\ CacheNotAhead'
    BY <2>1 DEF BatchHasRoom, HeadSaved, Flushing, QueueLate, CacheNotAhead
  <2>4. QED BY <2>2, <2>3
<1>2. CASE Restart
  <2> USE <1>2 DEF Restart
  <2>1. << >> \in Seq(Row) /\ Len(<< >>) = 0 BY EmptySeq
  <2>2. writeQ' \in Seq(Row) /\ Len(writeQ') \in 0..QueueSize BY <2>1
  <2>3. batch' \in Seq(Row) /\ Len(batch') \in 0..BatchSize BY <2>1
  <2>4. reader' \in [Reader -> {"idle", "rlock", "lookup", "query", "upgrade"}]
    OBVIOUS
  <2>5. lastIndex' \in [Room -> 0..MaxIndex \cup {None}] OBVIOUS
  <2>6. TypeOK'
    <3>1. /\ worker' \in {"select", "save", "saved", "lock", "drain", "stopped"}
          /\ back' \in {"select", "drain", "stopped"}
          /\ timer' \in {"running", "fired"} /\ stopCh' \in BOOLEAN
      OBVIOUS
    <3>2. asks' \in [Reader -> Room] /\ holders' \subseteq Reader /\ rows' \subseteq Row
      BY DEF TypeOK
    <3>3. accepted' \in 0..MaxWrites /\ closedAt' \in 0..MaxWrites BY DEF TypeOK
    <3>4. QED BY ONLY <2>2, <2>3, <2>4, <2>5, <3>1, <3>2, <3>3 DEF TypeOK
  <2>7. BatchHasRoom' BY <2>1 DEF BatchHasRoom
  <2>8. HeadSaved' /\ StopSeen' /\ QueueLate' /\ CacheNotAhead'
    BY DEF HeadSaved, Flushing, StopSeen, QueueLate, CacheNotAhead
  <2>9. QED BY <2>6, <2>7, <2>8
<1>3. CASE TimerFires
  BY <1>3 DEF TimerFires, TypeOK, BatchHasRoom, HeadSaved, Flushing, StopSeen, QueueLate,
     CacheNotAhead
<1>4. QED BY <1>1, <1>2, <1>3

(* Every step preserves the invariant.                                     *)
LEMMA NextHInv ==
    ASSUME HInv, [Next]_vars
    PROVE  HInv'
<1>1. CASE UNCHANGED vars
  BY <1>1 DEF vars, memory, HInv, TypeOK, BatchHasRoom, HeadSaved, Flushing, StopSeen,
     QueueLate, CacheNotAhead
<1>2. CASE Next
  BY <1>2, EnqueueKeepsHInv, WorkerKeepsHInv, ReaderKeepsHInv, OthersKeepHInv DEF Next
<1>3. QED BY <1>1, <1>2

(* The invariant, however the worker is interrupted.                       *)
THEOREM HistoryInvariant == Spec => []HInv
<1>1. QED BY InitHInv, NextHInv, PTL DEF Spec

(* Every variable keeps its type; the queue and the batch their capacity.  *)
THEOREM HistoryTypes == Spec => []TypeOK
<1>1. HInv => TypeOK BY DEF HInv
<1>2. QED BY <1>1, HistoryInvariant, PTL

(* GetLastIndex never names an index that catch-up could not be given:     *)
(* setLastIndex comes after the save, and a failed save does not reach it. *)
THEOREM HistoryCacheNotAhead == Spec => []CacheNotAhead
<1>1. HInv => CacheNotAhead BY DEF HInv
<1>2. QED BY <1>1, HistoryInvariant, PTL

(* Stop returns once all that was accepted before it has left the queue    *)
(* and the batch, whatever was being flushed when it was called.           *)
THEOREM HistoryStopDrains == Spec => []StopDrains
<1>1. HInv => StopDrains BY DEF HInv, StopSeen, QueueLate, StopDrains
<1>2. QED BY <1>1, HistoryInvariant, PTL

-----------------------------------------------------------------------------
(* A pair of sequences, read as their concatenation: what is taken from    *)
(* the first is its head, what is added to the second its last, and moving *)
(* the head of the second to the end of the first changes nothing.         *)
LEMMA PairAsOne ==
    ASSUME NEW S, NEW s \in Seq(S), NEW t \in Seq(S)
    PROVE  /\ s \o t \in Seq(S)
           /\ s # << >> => /\ s \o t # << >>
                           /\ Head(s \o t) = Head(s)
                           /\ Tail(s \o t) = Tail(s) \o t
           /\ \A e \in S : s \o Append(t, e) = Append(s \o t, e)
           /\ t # << >> => Append(s, Head(t)) \o Tail(t) = s \o t
<1>1. /\ s \o t \in Seq(S) /\ Len(s \o t) = Len(s) + Len(t)
      /\ \A i \in 1..Len(s) + Len(t) :
           (s \o t)[i] = IF i <= Len(s) THEN s[i] ELSE t[i - Len(s)]
  BY ConcatProperties
<1>2. Len(s) \in Nat /\ Len(t) \in Nat BY LenProperties
<1>3. ASSUME s # << >>
      PROVE  /\ s \o t # << >> /\ Head(s \o t) = Head(s)
             /\ Tail(s \o t) = Tail(s) \o t
  <2>1. Len(s) # 0 BY <1>3, EmptySeq
  <2>2. s \o t # << >> BY <1>1, <1>2, <2>1, EmptySeq
  <2>3. Head(s \o t) = Head(s) BY <1>1, <1>2, <2>1
  <2>4. /\ Tail(s \o t) \in Seq(S) /\ Len(Tail(s \o t)) = Len(s) + Len(t) - 1
        /\ \A i \in 1..Len(Tail(s \o t)) : Tail(s \o t)[i] = (s \o t)[i + 1]
    BY <1>1, <2>2, HeadTailProperties
  <2>5. /\ Tail(s) \in Seq(S) /\ Len(Tail(s)) = Len(s) - 1
        /\ \A i \in 1..Len(Tail(s)) : Tail(s)[i] = s[i + 1]
    BY <1>3, HeadTailProperties
  <2>6. /\ Tail(s) \o t \in Seq(S) /\ Len(Tail(s) \o t) = Len(s) - 1 + Len(t)
        /\ \A i \in 1..(Len(s) - 1) + Len(t) :
             (Tail(s) \o t)[i] = IF i <= Len(s) - 1 THEN Tail(s)[i]
                                 ELSE t[i - (Len(s) - 1)]
    BY <2>5, ConcatProperties
  <2>7. \A i \in 1..Len(Tail(s \o t)) : Tail(s \o t)[i] = (Tail(s) \o t)[i]
    <3> SUFFICES ASSUME NEW i \in 1..Len(Tail(s \o t))
                 PROVE  Tail(s \o t)[i] = (Tail(s) \o t)[i]
      OBVIOUS
    <3>1. i \in Nat /\ i + 1 \in 1..Len(s) + Len(t) /\ i \in 1..(Len(s) - 1) + Len(t)
      BY <1>2, <2>1, <2>4
    <3>2. Tail(s \o t)[i] = IF i + 1 <= Len(s) THEN s[i + 1] ELSE t[i + 1 - Len(s)]
      BY <1>1, <2>4, <3>1
    <3>3. (Tail(s) \o t)[i] = IF i <= Len(s) - 1 THEN Tail(s)[i] ELSE t[i - (Len(s) - 1)]
      BY <2>6, <3>1
    <3>4. i <= Len(s) - 1 <=> i + 1 <= Len(s) BY <1>2, <3>1
    <3>5. i + 1 - Len(s) = i - (Len(s) - 1) BY <1>2, <3>1
    <3>6. i <= Len(s) - 1 => Tail(s)[i] = s[i + 1] BY <1>2, <2>5, <3>1
    <3>7. QED BY <3>2, <3>3, <3>4, <3>5, <3>6
  <2>8. Len(Tail(s \o t)) = Len(Tail(s) \o t) BY <1>2, <2>4, <2>6
  <2>9. Tail(s \o t) = Tail(s) \o t BY ONLY <2>4, <2>6, <2>7, <2>8, SeqEqual
  <2>10. QED BY <2>2, <2>3, <2>9
<1>4. ASSUME NEW e \in S PROVE s \o Append(t, e) = Append(s \o t, e)
  <2>1. <<e>> \in Seq(S) OBVIOUS
  <2>2. Append(t, e) = t \o <<e>> /\ Append(s \o t, e) = (s \o t) \o <<e>>
    BY <1>1, AppendIsConcat
  <2>3. QED BY <2>1, <2>2, ConcatAssociative
<1>5. ASSUME t # << >> PROVE Append(s, Head(t)) \o Tail(t) = s \o t
  <2>1. Head(t) \in S /\ Tail(t) \in Seq(S) /\ <<Head(t)>> \in Seq(S)
    BY <1>5, HeadTailProperties
  <2>2. Append(s, Head(t)) = s \o <<Head(t)>> BY <2>1, AppendIsConcat
  <2>3. (s \o <<Head(t)>>) \o Tail(t) = s \o (<<Head(t)>> \o Tail(t))
    BY <2>1, ConcatAssociative
  <2>4. <<Head(t)>> \o Tail(t) = t
    <3>1. Len(t) \in Nat \ {0} BY <1>5, EmptySeq
    <3>2. SubSeq(t, 1, Len(t)) = <<t[1]>> \o SubSeq(t, 2, Len(t))
      BY <3>1, SubSeqRecursiveFirst
    <3>3. Tail(t) = SubSeq(t, 2, Len(t)) BY <1>5, TailIsSubSeq
    <3>4. SubSeq(t, 1, Len(t)) = t BY SubSeqFull
    <3>5. QED BY <3>2, <3>3, <3>4
  <2>5. QED BY <2>2, <2>3, <2>4
<1>6. QED BY <1>1, <1>3, <1>4, <1>5

LEMMA ToWriteIsASeq == ASSUME TypeOK, HeadSaved PROVE ToWrite \in Seq(Row)
<1>1. CASE Flushing
  BY <1>1, HeadTailProperties, PairAsOne DEF TypeOK, HeadSaved, Flushing, ToWrite
<1>2. CASE ~Flushing
  BY <1>2, PairAsOne DEF TypeOK, Flushing, ToWrite
<1>3. QED BY <1>1, <1>2

(* A new process with an empty table promises nothing yet.                 *)
LEMMA InitPromise == Init => Promise!Init
<1>1. << >> \o << >> = << >> BY EmptySeq, ConcatEmptySeq
<1>2. QED BY <1>1 DEF Init, Promise!Init, ToWrite

(* What is accepted is what is to be written last.                         *)
LEMMA EnqueueAccepts ==
    ASSUME HInv, NEW r \in Room, NEW i \in 0..MaxIndex, EnqueueEnvelope(r, i)
    PROVE  Promise!Next
<1> DEFINE row == [room |-> r, index |-> i, msg |-> accepted + 1]
           written == IF Flushing THEN Tail(batch) ELSE batch
<1> USE HistoryAssumption DEF HInv, EnqueueEnvelope
<1>1. row \in Row BY DEF Row, TypeOK
<1>2. written \in Seq(Row) /\ writeQ \in Seq(Row)
  BY HeadTailProperties DEF TypeOK, HeadSaved
<1>3. ToWrite = written \o writeQ /\ ToWrite' = written \o Append(writeQ, row)
  BY DEF ToWrite, Flushing
<1> HIDE DEF row, written
<1>4. ToWrite' = Append(ToWrite, row) BY <1>1, <1>2, <1>3, PairAsOne
<1>5. UNCHANGED rows OBVIOUS
<1>6. QED BY <1>1, <1>4, <1>5 DEF Promise!Next, Promise!Accept

(* What is received moves from the queue to the batch, and still is        *)
(* written after the rest of the batch and before the rest of the queue.   *)
LEMMA ReceiveKeepsOrder ==
    ASSUME HInv, NEW from \in {"select", "drain"}, Receive(from)
    PROVE  UNCHANGED <<ToWrite, rows>>
<1> USE DEF HInv, Receive
<1>1. batch \in Seq(Row) /\ writeQ \in Seq(Row) BY DEF TypeOK
<1>2. worker \notin {"saved", "lock"} /\ worker' \notin {"saved", "lock"} BY DEF Flush
<1>3. ToWrite = batch \o writeQ /\ ToWrite' = Append(batch, Head(writeQ)) \o Tail(writeQ)
  BY <1>2 DEF ToWrite
<1>4. QED BY <1>1, <1>3, PairAsOne

(* A save writes what was to be written first, or loses it; what follows a *)
(* save takes the row from the batch it is no longer counted in.           *)
LEMMA FlushWrites ==
    ASSUME HInv, SaveEnvelope \/ SaveFails \/ SetLastIndex \/ Locked \/ FlushDone
    PROVE  [Promise!Next]_Promise!vars
<1> USE DEF HInv
<1>1. batch \in Seq(Row) /\ writeQ \in Seq(Row) BY DEF TypeOK
<1>2. CASE SaveEnvelope
  <2>1. /\ batch # << >> /\ ToWrite = batch \o writeQ
        /\ ToWrite' = Tail(batch) \o writeQ /\ rows' = Insert(rows, Head(batch))
    BY <1>2 DEF SaveEnvelope, ToWrite
  <2>2. /\ ToWrite # << >> /\ ToWrite' = Tail(ToWrite)
        /\ rows' = Insert(rows, Head(ToWrite))
    BY <1>1, <2>1, PairAsOne
  <2>3. Promise!Write BY <2>2 DEF Promise!Write, Promise!Insert, Insert
  <2>4. QED BY <2>3 DEF Promise!Next
<1>3. CASE SaveFails
  <2>1. /\ batch # << >> /\ ToWrite = batch \o writeQ
        /\ ToWrite' = Tail(batch) \o writeQ /\ rows' = rows
    BY <1>3 DEF SaveFails, ToWrite
  <2>2. ToWrite # << >> /\ ToWrite' = Tail(ToWrite)
    BY <1>1, <2>1, PairAsOne
  <2>3. Promise!Fail BY <2>1, <2>2 DEF Promise!Fail
  <2>4. QED BY <2>3 DEF Promise!Next
<1>4. CASE SetLastIndex \/ Locked
  BY <1>4 DEF SetLastIndex, Locked, ToWrite, Promise!vars
<1>5. CASE FlushDone
  <2>1. worker = "save" /\ worker' \notin {"saved", "lock"}
    BY <1>5 DEF FlushDone, TypeOK
  <2>2. QED BY <1>5, <2>1 DEF FlushDone, ToWrite, Promise!vars
<1>6. QED BY <1>2, <1>3, <1>4, <1>5

(* Every step of the worker, its callers and its readers is one the        *)
(* promise allows or changes nothing that was promised.                    *)
LEMMA NextPromise ==
    ASSUME HInv, [Next]_vars
    PROVE  [Promise!Next]_Promise!vars
<1>1. CASE UNCHANGED vars BY <1>1 DEF vars, memory, ToWrite, Promise!vars
<1>2. ASSUME NEW r \in Room, NEW i \in 0..MaxIndex, EnqueueEnvelope(r, i)
      PROVE  Promise!Next
  BY <1>2, EnqueueAccepts
<1>3. CASE Restart
  <2>1. << >> \o << >> = << >> BY EmptySeq, ConcatEmptySeq
  <2>2. ToWrite' = << >> /\ UNCHANGED rows BY <1>3, <2>1 DEF Restart, ToWrite
  <2>3. QED BY <2>2 DEF Promise!Next, Promise!End
<1>4. CASE Stop \/ TimerFires
  BY <1>4 DEF Stop, TimerFires, ToWrite, Promise!vars
<1>5. CASE Worker
  <2>1. CASE ReceiveRequest \/ DrainRequest
    BY <2>1, ReceiveKeepsOrder DEF ReceiveRequest, DrainRequest, Promise!vars
  <2>2. CASE ReceiveTimer \/ ReceiveStop \/ DrainDone
    BY <2>2 DEF ReceiveTimer, ReceiveStop, DrainDone, Flush, ToWrite, Promise!vars
  <2>3. QED BY <1>5, <2>1, <2>2, FlushWrites DEF Worker
<1>6. ASSUME NEW x \in Reader, GetLastIndex(x) \/ \E r \in Room : GetMessages(x, r)
      PROVE  UNCHANGED <<ToWrite, rows>>
  BY <1>6 DEF GetLastIndex, GetMessages, RLock, CacheHit, CacheMiss, NoRows, Upgrade,
     Return, ToWrite
<1>7. QED BY <1>1, <1>2, <1>3, <1>4, <1>5, <1>6 DEF Next, Promise!vars

(* The batched, timed, drained write queue keeps the promise of            *)
(* WriteBehind: nothing is written twice, out of order or over an earlier  *)
(* row, and nothing is lost but by a failed save or the end of a process.  *)
THEOREM HistoryKeepsPromise == Spec => KeepsPromise
<1>1. QED
  BY InitPromise, InitHInv, NextHInv, NextPromise, PTL
     DEF Spec, KeepsPromise, Promise!Spec
=============================================================================
