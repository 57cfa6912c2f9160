------------------------------ MODULE History ------------------------------
(***************************************************************************)
(* storage.HistoryManager: the bounded write queue of the messages table,  *)
(* the worker that writes it in batches when a batch is full or a timer    *)
(* fires, the cache of each room's last index under its RWMutex, and the   *)
(* catch-up helpers that read both.  EnqueueEnvelope's callers always pass *)
(* a chain index.  Stop is exported and nothing in the repository calls    *)
(* it: a process that exits loses what its worker has not written.         *)
(***************************************************************************)
EXTENDS Integers, Sequences

CONSTANTS
    Room,
    None,          \* no entry in lastIndex
    Reader,        \* goroutines that run helpCatchUp
    QueueSize,     \* capacity of writeQ (1024 in the code)
    BatchSize,     \* writeBatchSize (50 in the code)
    MaxIndex,      \* bound: chain indices in use
    MaxWrites      \* bound: requests accepted in a behaviour

ASSUME HistoryAssumption ==
    /\ QueueSize \in Nat \ {0} /\ BatchSize \in Nat \ {0}
    /\ MaxIndex \in Nat /\ MaxWrites \in Nat /\ None \notin Nat

VARIABLES
    writeQ,        \* the channel
    batch,         \* the worker's batch, less what a flush is done with
    worker,        \* where writeWorker is
    back,          \* where its flush returns to
    timer,         \* flushTimer: running, or fired and not yet received
    stopCh,        \* closed by Stop
    reader,        \* where each reader is in BuildCatchUpPayload
    asks,          \* the room each reader was asked for
    holders,       \* readers that hold lastIndexMu for reading
    lastIndex,     \* the cache
    rows,          \* the messages table: survives the process
    accepted,      \* requests accepted so far (history variable)
    closedAt       \* how many when Stop was called (history variable)

memory == <<writeQ, batch, worker, back, timer, stopCh, reader, asks, holders,
            lastIndex>>
vars == <<memory, rows, accepted, closedAt>>

Row == [room : Room, index : 0..MaxIndex, msg : 1..MaxWrites]

TypeOK ==
    /\ writeQ \in Seq(Row) /\ Len(writeQ) \in 0..QueueSize
    /\ batch \in Seq(Row) /\ Len(batch) \in 0..BatchSize
    /\ worker \in {"select", "save", "saved", "lock", "drain", "stopped"}
    /\ back \in {"select", "drain", "stopped"}
    /\ timer \in {"running", "fired"}
    /\ stopCh \in BOOLEAN
    /\ reader \in [Reader -> {"idle", "rlock", "lookup", "query", "upgrade"}]
    /\ asks \in [Reader -> Room]
    /\ holders \subseteq Reader
    /\ lastIndex \in [Room -> 0..MaxIndex \cup {None}]
    /\ rows \subseteq Row
    /\ accepted \in 0..MaxWrites /\ closedAt \in 0..MaxWrites

Replace(stored, row) ==   \* mutant: INSERT OR REPLACE, as the peers table has it
    { x \in stored : x.room # row.room \/ x.index # row.index } \cup {row}

Insert(stored, row) ==
    IF \E x \in stored : x.room = row.room /\ x.index = row.index
    THEN stored ELSE stored \cup {row}

-----------------------------------------------------------------------------
Init ==
    /\ writeQ = << >> /\ batch = << >>
    /\ worker = "select" /\ back = "select"
    /\ timer = "running" /\ stopCh = FALSE
    /\ reader = [x \in Reader |-> "idle"]
    /\ asks \in [Reader -> Room]
    /\ holders = {}
    /\ lastIndex = [r \in Room |-> None]
    /\ rows = {} /\ accepted = 0 /\ closedAt = MaxWrites

(* InitSessionDB after the process has ended, wherever its goroutines were.*)
Restart ==
    /\ writeQ' = << >> /\ batch' = << >>
    /\ worker' = "select" /\ back' = "select"
    /\ timer' = "running" /\ stopCh' = FALSE
    /\ reader' = [x \in Reader |-> "idle"]
    /\ holders' = {}
    /\ lastIndex' = [r \in Room |-> None]
    /\ closedAt' = MaxWrites
    /\ UNCHANGED <<asks, rows, accepted>>

EnqueueUnbounded(r, i) ==   \* mutant: nothing is refused
    /\ accepted < MaxWrites
    /\ writeQ' = Append(writeQ, [room |-> r, index |-> i, msg |-> accepted + 1])
    /\ accepted' = accepted + 1
    /\ UNCHANGED <<batch, worker, back, timer, stopCh, reader, asks, holders,
                   lastIndex, rows, closedAt>>

(* EnqueueEnvelope; on a full queue it returns an error and does nothing.  *)
EnqueueEnvelope(r, i) ==
    /\ Len(writeQ) < QueueSize
    /\ accepted < MaxWrites
    /\ writeQ' = Append(writeQ, [room |-> r, index |-> i, msg |-> accepted + 1])
    /\ accepted' = accepted + 1
    /\ UNCHANGED <<batch, worker, back, timer, stopCh, reader, asks, holders,
                   lastIndex, rows, closedAt>>

Stop ==
    /\ ~stopCh
    /\ stopCh' = TRUE
    /\ closedAt' = accepted
    /\ UNCHANGED <<writeQ, batch, worker, back, timer, reader, asks, holders,
                   lastIndex, rows, accepted>>

-----------------------------------------------------------------------------
(* The cases of writeWorker's select.                                      *)
Flush(return) == worker' = "save" /\ back' = return

(* case req := <-h.writeQ, in the main select and in the one that drains   *)
Receive(from) ==
    /\ worker = from /\ writeQ # << >>
    /\ batch' = Append(batch, Head(writeQ))
    /\ writeQ' = Tail(writeQ)
    /\ IF Len(batch') >= BatchSize THEN Flush(from) ELSE UNCHANGED <<worker, back>>
    /\ UNCHANGED <<timer, stopCh, reader, asks, holders, lastIndex, rows, accepted,
                   closedAt>>

ReceiveRequest == Receive("select")

(* time passes                                                             *)
TimerFires ==
    /\ timer = "running" /\ worker # "stopped"
    /\ timer' = "fired"
    /\ UNCHANGED <<writeQ, batch, worker, back, stopCh, reader, asks, holders,
                   lastIndex, rows, accepted, closedAt>>

TimerIgnored ==   \* mutant: the timer is reset and a batch under its size kept
    /\ worker = "select" /\ timer = "fired"
    /\ timer' = "running"
    /\ UNCHANGED <<writeQ, batch, worker, back, stopCh, reader, asks, holders, lastIndex,
                   rows, accepted, closedAt>>

(* case <-flushTimer.C                                                     *)
ReceiveTimer ==
    /\ worker = "select" /\ timer = "fired"
    /\ Flush("select")
    /\ UNCHANGED <<writeQ, batch, timer, stopCh, reader, asks, holders, lastIndex,
                   rows, accepted, closedAt>>

StopUndrained ==   \* mutant: the last batch is flushed, the queue left
    /\ worker = "select" /\ stopCh
    /\ Flush("stopped")
    /\ UNCHANGED <<writeQ, batch, timer, stopCh, reader, asks, holders, lastIndex, rows,
                   accepted, closedAt>>

(* case <-h.stopCh                                                         *)
ReceiveStop ==
    /\ worker = "select" /\ stopCh
    /\ worker' = "drain"
    /\ UNCHANGED <<writeQ, batch, back, timer, stopCh, reader, asks, holders,
                   lastIndex, rows, accepted, closedAt>>

DrainRequest == Receive("drain")

DrainDone ==
    /\ worker = "drain" /\ writeQ = << >>
    /\ Flush("stopped")
    /\ UNCHANGED <<writeQ, batch, timer, stopCh, reader, asks, holders, lastIndex,
                   rows, accepted, closedAt>>

(* flush: one SaveEnvelope after the other...                              *)
SaveEnvelope ==
    /\ worker = "save" /\ batch # << >>
    /\ rows' = Insert(rows, Head(batch))
    /\ worker' = "saved"
    /\ UNCHANGED <<writeQ, batch, back, timer, stopCh, reader, asks, holders,
                   lastIndex, accepted, closedAt>>

FailureCached ==   \* mutant: setLastIndex whatever SaveEnvelope returned
    /\ worker = "save" /\ batch # << >>
    /\ worker' = "lock"
    /\ UNCHANGED <<writeQ, batch, back, timer, stopCh, reader, asks, holders, lastIndex,
                   rows, accepted, closedAt>>

SaveFails ==
    /\ worker = "save" /\ batch # << >>
    /\ batch' = Tail(batch)
    /\ UNCHANGED <<writeQ, worker, back, timer, stopCh, reader, asks, holders,
                   lastIndex, rows, accepted, closedAt>>

(* ...each followed by setLastIndex, which locks the cache against readers *)
SetLastIndex ==
    /\ worker = "saved"
    /\ worker' = "lock"
    /\ UNCHANGED <<writeQ, batch, back, timer, stopCh, reader, asks, holders,
                   lastIndex, rows, accepted, closedAt>>

Locked ==
    /\ worker = "lock" /\ holders = {}
    /\ LET row == Head(batch)
       IN  lastIndex' =
             [lastIndex EXCEPT ![row.room] =
                IF @ = None \/ row.index > @ THEN row.index ELSE @]
    /\ batch' = Tail(batch)
    /\ worker' = "save"
    /\ UNCHANGED <<writeQ, back, timer, stopCh, reader, asks, holders, rows, accepted,
                   closedAt>>

(* The batch is empty again; the main loop then resets its timer, whether  *)
(* or not it has fired meanwhile.                                          *)
FlushDone ==
    /\ worker = "save" /\ batch = << >>
    /\ worker' = back
    /\ timer' = IF back = "select" THEN "running" ELSE timer
    /\ UNCHANGED <<writeQ, batch, back, stopCh, reader, asks, holders, lastIndex, rows,
                   accepted, closedAt>>

-----------------------------------------------------------------------------
(* BuildCatchUpPayload: the rows of the room if there are any, otherwise   *)
(* GetLastIndex.                                                           *)
Stored(r) == { x \in rows : x.room = r }

GetMessages(x, r) ==
    /\ reader[x] = "idle"
    /\ Stored(r) = {}
    /\ reader' = [reader EXCEPT ![x] = "rlock"]
    /\ asks' = [asks EXCEPT ![x] = r]
    /\ UNCHANGED <<writeQ, batch, worker, back, timer, stopCh, holders, lastIndex, rows,
                   accepted, closedAt>>

(* RLock waits for a writer that is waiting, too.                          *)
RLock(x) ==
    /\ reader[x] = "rlock"
    /\ worker # "lock" /\ \A y \in Reader : reader[y] # "upgrade"
    /\ reader' = [reader EXCEPT ![x] = "lookup"]
    /\ holders' = holders \cup {x}
    /\ UNCHANGED <<writeQ, batch, worker, back, timer, stopCh, asks, lastIndex, rows,
                   accepted, closedAt>>

Return(x) ==
    /\ reader' = [reader EXCEPT ![x] = "idle"]
    /\ holders' = holders \ {x}
    /\ UNCHANGED <<writeQ, batch, worker, back, timer, stopCh, asks, lastIndex, rows,
                   accepted, closedAt>>

CacheHit(x) ==
    /\ reader[x] = "lookup" /\ lastIndex[asks[x]] # None
    /\ Return(x)

CacheMiss(x) ==
    /\ reader[x] = "lookup" /\ lastIndex[asks[x]] = None
    /\ reader' = [reader EXCEPT ![x] = "query"]
    /\ UNCHANGED <<writeQ, batch, worker, back, timer, stopCh, asks, holders, lastIndex,
                   rows, accepted, closedAt>>

(* GetLatestChainIndex finds nothing...                                    *)
NoRows(x) ==
    /\ reader[x] = "query" /\ Stored(asks[x]) = {}
    /\ Return(x)

(* ...or a row, to be cached: setLastIndex locks lastIndexMu while this    *)
(* goroutine still holds it for reading, and so waits for itself.          *)
Upgrade(x) ==
    /\ reader[x] = "query" /\ Stored(asks[x]) # {}
    /\ reader' = [reader EXCEPT ![x] = "upgrade"]
    /\ UNCHANGED <<writeQ, batch, worker, back, timer, stopCh, asks, holders, lastIndex,
                   rows, accepted, closedAt>>

-----------------------------------------------------------------------------
Worker ==
    \/ ReceiveRequest \/ ReceiveTimer \/ ReceiveStop \/ DrainRequest \/ DrainDone
    \/ SaveEnvelope \/ SaveFails \/ SetLastIndex \/ Locked \/ FlushDone

GetLastIndex(x) == RLock(x) \/ CacheHit(x) \/ CacheMiss(x) \/ NoRows(x) \/ Upgrade(x)

Next ==
    \/ \E r \in Room, i \in 0..MaxIndex : EnqueueEnvelope(r, i)
    \/ Stop \/ Restart
    \/ TimerFires \/ Worker
    \/ \E x \in Reader : GetLastIndex(x) \/ \E r \in Room : GetMessages(x, r)

Spec == Init /\ [][Next]_vars

(* Goroutines that can run are scheduled and the timer goes off; a select  *)
(* with several ready cases picks one at random, so it does not pass a     *)
(* request by for ever.                                                    *)
FairSpec ==
    /\ Spec
    /\ WF_vars(Worker) /\ SF_vars(ReceiveRequest) /\ WF_vars(TimerFires)
    /\ \A x \in Reader : WF_vars(GetLastIndex(x))

-----------------------------------------------------------------------------
(* What the worker has still to write, in the order it was accepted.       *)
ToWrite ==
    (IF worker \in {"saved", "lock"} THEN Tail(batch) ELSE batch) \o writeQ

(* History implements WriteBehind: batches, timer and drain are not seen.  *)
Promise == INSTANCE WriteBehind WITH todo <- ToWrite, table <- rows
KeepsPromise == Promise!Spec

(* The cache is never ahead of the table: GetLastIndex names no index that *)
(* catch-up could not then be given, even while saves fail.                *)
CacheNotAhead ==
    \A r \in Room : lastIndex[r] # None =>
        \E x \in rows : x.room = r /\ x.index >= lastIndex[r]

(* history.go:65: when Stop returns, all that was accepted before it was   *)
(* called has been written (or its save has failed).                       *)
StopDrains ==
    worker = "stopped" =>
        /\ batch = << >>
        /\ \A k \in DOMAIN writeQ : writeQ[k].msg > closedAt

(* An accepted request does not wait for ever, full batch or not, unless a *)
(* catch-up helper waits for itself in GetLastIndex.                       *)
Waiting(m) == \E k \in DOMAIN ToWrite : ToWrite[k].msg = m
Wedged == \E x \in Reader : reader[x] = "upgrade"
EventuallyWritten ==
    \A m \in 1..MaxWrites :
        Waiting(m) ~> (~Waiting(m) \/ worker = "stopped" \/ Wedged)

(* history.go:175: GetLastIndex returns the last index or ErrNoRows.       *)
GetLastIndexReturns == \A x \in Reader : reader[x] = "rlock" ~> reader[x] = "idle"
=============================================================================
