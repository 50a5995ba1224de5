---------------------------- MODULE RedisBackend ----------------------------
(***************************************************************************)
(* The Redis side of realtime mode (src/Parser/src/RedisCache.cpp,         *)
(* RedisAsyncWriter.h, RedisConnectionPool.h, PacketParser.cpp).           *)
(*                                                                         *)
(* Worker threads push every record with RedisCache::pushToStream, which   *)
(* enqueues a stream write and, if that was accepted, a counter increment *)
(* on the RedisAsyncWriter's bounded queue.  The writer threads take up   *)
(* to 50 tasks at a time, borrow a connection from the RedisConnectionPool *)
(* through a RedisConnectionGuard, pipeline the batch and give the         *)
(* connection back; a batch that gets no usable connection is pushed back *)
(* onto the queue.  At shutdown RedisCache::disconnect stops the writer   *)
(* (joining its threads) and then shuts the pool down.                     *)
(*                                                                         *)
(* A task is identified by the order in which it was enqueued.  A          *)
(* connection is a record: ok (its socket works and answers PING), sel     *)
(* (AUTH and SELECT were sent on it) and em (it was made as an emergency   *)
(* connection by acquire).                                                 *)
(***************************************************************************)
EXTENDS Naturals, Sequences, FiniteSets, SequencesExt

CONSTANTS
    Writers,     \* async writer threads (async_writers)
    PoolSize,    \* pool_size
    QueueSize,   \* async_queue_size (m_max_queue_size)
    BatchSize,   \* tasks per batch (50)
    MaxPush,     \* bound on pushToStream calls
    MaxBreaks,   \* bound on connections broken by the server
    EsConnected  \* Elasticsearch is enabled and connected (sendToBackends)

ASSUME PoolSize \in Nat \ {0} /\ QueueSize \in Nat \ {0} /\ BatchSize \in Nat \ {0}
ASSUME EsConnected \in BOOLEAN

Conn == [ok : BOOLEAN, sel : BOOLEAN, em : BOOLEAN]
(* A connection made by the RedisConnection constructor: it may fail.     *)
Fresh(emergency) == {[ok |-> b, sel |-> FALSE, em |-> emergency] : b \in BOOLEAN}

VARIABLES
    queue,      \* m_queue, as task ids
    running,    \* m_running
    written,    \* m_total_written
    dropped,    \* m_total_dropped
    wpc,        \* where each writer thread is
    batch,      \* each writer's local batch
    held,       \* the connection each writer's guard holds ({}: nullptr)
    pool,       \* m_pool
    shutdown,   \* m_shutdown
    phase,      \* where the owning thread is (run, join, close, done)
    pushes,     \* pushToStream calls so far
    enqueued,   \* enqueue calls so far (history)
    failedReplies, \* tasks whose reply was missing or an error (history)
    skipped,    \* records sendToBackends skipped because isConnected() was false
    breaks,     \* connections the server broke so far
    onWrongDb,  \* tasks sent on a connection without AUTH/SELECT (history)
    outcome,    \* how each finished task ended: written, failed or dropped (history)
    prod,       \* where the thread in sendToBackends is, and asset lookups left
    prodHeld,   \* the connection its getAssetInfo guard holds ({}: nullptr)
    wrongDbLookups \* asset GETs sent on a connection without AUTH/SELECT (history)

(* The producer's variables, which the writer and shutdown steps leave.  *)
pvars == <<prod, prodHeld, wrongDbLookups>>

vars == <<queue, running, written, dropped, wpc, batch, held, pool, shutdown, phase,
          pushes, enqueued, failedReplies, skipped, breaks, onWrongDb, outcome, pvars>>

Task == 1..(2 * MaxPush)

TypeOK ==
    /\ queue \in Seq(Task) /\ Len(queue) <= QueueSize
    /\ running \in BOOLEAN /\ shutdown \in BOOLEAN
    /\ written \in Nat /\ dropped \in Nat /\ failedReplies \in Nat
    /\ wpc \in [Writers -> {"top", "wait", "acquire", "process", "exited"}]
    /\ batch \in [Writers -> Seq(Task)]
    /\ \A w \in Writers : Len(batch[w]) <= BatchSize
    /\ held \in [Writers -> SUBSET Conn]
    /\ \A w \in Writers : Cardinality(held[w]) <= 1
    /\ pool \in Seq(Conn)
    /\ phase \in {"run", "join", "close", "done"}
    /\ pushes \in 0..MaxPush /\ enqueued \in 0..(2 * MaxPush)
    /\ skipped \in 0..MaxPush /\ breaks \in 0..MaxBreaks
    /\ onWrongDb \subseteq Task
    /\ outcome \in [Task -> {"none", "written", "failed", "dropped"}]
    /\ prod \in [stage : {"idle", "acquire", "get", "push"}, left : 0..2]
    /\ prodHeld \in SUBSET Conn /\ Cardinality(prodHeld) <= 1
    /\ wrongDbLookups \in 0..(2 * MaxPush)

-----------------------------------------------------------------------------
(* RedisConnectionPool.                                                    *)

(* release(conn), run by ~RedisConnectionGuard: dropped after shutdown;   *)
(* a connection that answers PING goes back to the FIFO; otherwise a new  *)
(* connection is made and pooled if it connected.                          *)
Release(h) ==
    IF h = {} \/ shutdown THEN UNCHANGED pool
    ELSE LET c == CHOOSE x \in h : TRUE IN
         IF c.ok THEN pool' = Append(pool, c)
         ELSE \E n \in Fresh(FALSE) : pool' = IF n.ok THEN Append(pool, n) ELSE pool

(* The guard converts to true: it holds a connection whose valid flag is  *)
(* set.                                                                    *)
GuardValid(h) == \E c \in h : c.ok

(* acquire() with a connection in the FIFO: pop it; if PING fails a new   *)
(* connection replaces it.  After shutdown acquire returns nullptr.  Each *)
(* lease is the pool afterwards and what the guard holds.                  *)
PoolLeases ==
    IF shutdown THEN {[pool |-> pool, h |-> {}]}
    ELSE IF Head(pool).ok THEN {[pool |-> Tail(pool), h |-> {Head(pool)}]}
    ELSE {[pool |-> Tail(pool), h |-> {n}] : n \in Fresh(FALSE)}

(* acquire() timing out on an empty FIFO: an emergency connection is made *)
(* and handed out if it connected, else nullptr.                           *)
TimeoutLeases == {[pool |-> pool, h |-> IF n.ok THEN {n} ELSE {}] : n \in Fresh(TRUE)}

(* A writer's guard, acquire(1000), with a connection in the FIFO (or      *)
(* after shutdown) ...                                                      *)
AcquireFromPool(w) ==
    /\ wpc[w] = "acquire"
    /\ shutdown \/ pool # << >>
    /\ \E l \in PoolLeases : pool' = l.pool /\ held' = [held EXCEPT ![w] = l.h]
    /\ wpc' = [wpc EXCEPT ![w] = "process"]
    /\ UNCHANGED <<queue, running, written, dropped, batch, shutdown, phase, pushes,
                   enqueued, failedReplies, skipped, breaks, onWrongDb, outcome, pvars>>

(* ... or timing out on an empty one.                                      *)
AcquireTimeout(w) ==
    /\ wpc[w] = "acquire"
    /\ ~shutdown /\ pool = << >>
    /\ \E l \in TimeoutLeases : held' = [held EXCEPT ![w] = l.h]
    /\ wpc' = [wpc EXCEPT ![w] = "process"]
    /\ UNCHANGED <<queue, running, written, dropped, batch, pool, shutdown, phase, pushes,
                   enqueued, failedReplies, skipped, breaks, onWrongDb, outcome, pvars>>

(* The server closes an idle pooled connection.                            *)
BreakConnection ==
    /\ breaks < MaxBreaks
    /\ \E i \in DOMAIN pool :
          /\ pool[i].ok
          /\ pool' = [pool EXCEPT ![i].ok = FALSE]
    /\ breaks' = breaks + 1
    /\ UNCHANGED <<queue, running, written, dropped, wpc, batch, held, shutdown, phase,
                   pushes, enqueued, failedReplies, skipped, onWrongDb, outcome, pvars>>

-----------------------------------------------------------------------------
(* RedisAsyncWriter and RedisCache.                                        *)

(* RedisAsyncWriter::enqueue accepts a task while the queue is below      *)
(* m_max_queue_size; otherwise it counts a drop.                           *)
Accepts(len) == len < QueueSize

(* RedisCache::isConnected: some connection is idle in the pool.           *)
IsConnected == Len(pool) > 0

(* The Redis branch of sendToBackends: skipped unless isConnected();       *)
(* otherwise RedisCache::pushToStream enqueues the stream write and, if    *)
(* that was accepted, the counter increment; enqueue drops a task when    *)
(* the queue is full.                                                      *)
PushToStream ==
    IF ~IsConnected
    THEN /\ skipped' = skipped + 1
         /\ UNCHANGED <<queue, enqueued, dropped, outcome>>
    ELSE LET streamOk  == Accepts(Len(queue))
             counterOk == streamOk /\ Accepts(Len(queue) + 1)
         IN  /\ queue' = queue \o (IF streamOk THEN << enqueued + 1 >> ELSE << >>)
                               \o (IF counterOk THEN << enqueued + 2 >> ELSE << >>)
             /\ enqueued' = enqueued + (IF streamOk THEN 2 ELSE 1)
             /\ dropped' = dropped + (IF streamOk THEN 0 ELSE 1)
                                   + (IF streamOk /\ ~counterOk THEN 1 ELSE 0)
             /\ outcome' = [t \in Task |->
                    IF \/ t = enqueued + 1 /\ ~streamOk
                       \/ t = enqueued + 2 /\ streamOk /\ ~counterOk
                    THEN "dropped" ELSE outcome[t]]
             /\ UNCHANGED skipped

(* A worker thread calls sendToBackends (addUnifiedRecord in realtime    *)
(* mode, where no UnifiedWriter exists).  The model has one such thread,  *)
(* the num_threads = 1 configuration; with more, workers call it          *)
(* concurrently, but every enqueue and requeue is under the queue mutex.  *)
(* pushToStream's two enqueues (writeStream, incrCounter) are one step    *)
(* here, though each takes the queue mutex on its own.                    *)
(* With Elasticsearch connected and isConnected() it first looks up the  *)
(* source and destination assets (getAssetInfo, two synchronous leases);  *)
(* otherwise it goes straight to the Redis branch.                        *)
SendToBackends ==
    /\ phase = "run" /\ prod.stage = "idle"
    /\ pushes < MaxPush
    /\ pushes' = pushes + 1
    /\ IF EsConnected /\ IsConnected
       THEN /\ prod' = [stage |-> "acquire", left |-> 2]
            /\ UNCHANGED <<queue, enqueued, dropped, outcome, skipped>>
       ELSE PushToStream /\ UNCHANGED prod
    /\ UNCHANGED <<running, written, wpc, batch, held, pool, shutdown, phase,
                   failedReplies, breaks, onWrongDb, prodHeld, wrongDbLookups>>

(* getAssetInfo: its RedisConnectionGuard, acquire(5000), leases a        *)
(* connection from the FIFO or times out into an emergency one.            *)
AssetAcquire ==
    /\ prod.stage = "acquire"
    /\ \/ (shutdown \/ pool # << >>) /\ \E l \in PoolLeases : pool' = l.pool /\ prodHeld' = l.h
       \/ ~shutdown /\ pool = << >> /\ \E l \in TimeoutLeases : prodHeld' = l.h /\ UNCHANGED pool
    /\ prod' = [prod EXCEPT !.stage = "get"]
    /\ UNCHANGED <<queue, running, written, dropped, wpc, batch, held, shutdown, phase,
                   pushes, enqueued, failedReplies, skipped, breaks, onWrongDb, outcome,
                   wrongDbLookups>>

(* ... returns default info if the guard is false; otherwise sends GET    *)
(* cache:asset:<ip> on it (to db 0 when the connection never got SELECT), *)
(* and the guard releases the connection.  Then the next lookup, or the    *)
(* Redis branch.                                                           *)
AssetGet ==
    /\ prod.stage = "get"
    /\ wrongDbLookups' = IF GuardValid(prodHeld) /\ ~(\E c \in prodHeld : c.sel)
                         THEN wrongDbLookups + 1 ELSE wrongDbLookups
    /\ Release(prodHeld)
    /\ prodHeld' = {}
    /\ prod' = IF prod.left = 1 THEN [stage |-> "push", left |-> 0]
               ELSE [stage |-> "acquire", left |-> prod.left - 1]
    /\ UNCHANGED <<queue, running, written, dropped, wpc, batch, held, shutdown, phase,
                   pushes, enqueued, failedReplies, skipped, breaks, onWrongDb, outcome>>

(* After the lookups (and addToBulk) the Redis branch checks isConnected() *)
(* again.                                                                  *)
StreamAfterLookups ==
    /\ prod.stage = "push"
    /\ PushToStream
    /\ prod' = [stage |-> "idle", left |-> 0]
    /\ UNCHANGED <<running, written, wpc, batch, held, pool, shutdown, phase, pushes,
                   failedReplies, breaks, onWrongDb, prodHeld, wrongDbLookups>>

(* Variant: the loop is while (true).                                      *)
WriterLoopForever(w) ==
    /\ wpc[w] = "top"
    /\ wpc' = [wpc EXCEPT ![w] = "wait"]
    /\ UNCHANGED <<queue, running, written, dropped, batch, held, pool, shutdown, phase,
                   pushes, enqueued, failedReplies, skipped, breaks, onWrongDb, outcome, pvars>>

(* writerWorker: while (m_running) ...                                     *)
WriterLoop(w) ==
    /\ wpc[w] = "top"
    /\ wpc' = [wpc EXCEPT ![w] = IF running THEN "wait" ELSE "exited"]
    /\ UNCHANGED <<queue, running, written, dropped, batch, held, pool, shutdown, phase,
                   pushes, enqueued, failedReplies, skipped, breaks, onWrongDb, outcome, pvars>>

(* Variant: the batch is taken from the back of the queue.                *)
WriterTakeLifo(w) ==
    /\ wpc[w] = "wait"
    /\ IF ~running /\ queue = << >>
       THEN /\ wpc' = [wpc EXCEPT ![w] = "exited"]
            /\ UNCHANGED <<queue, batch>>
       ELSE LET n == IF Len(queue) < BatchSize THEN Len(queue) ELSE BatchSize
            IN  /\ batch' = [batch EXCEPT ![w] = SubSeq(queue, Len(queue) - n + 1, Len(queue))]
                /\ queue' = SubSeq(queue, 1, Len(queue) - n)
                /\ wpc' = [wpc EXCEPT ![w] = IF n = 0 THEN "top" ELSE "acquire"]
    /\ UNCHANGED <<running, written, dropped, held, pool, shutdown, phase, pushes,
                   enqueued, failedReplies, skipped, breaks, onWrongDb, outcome, pvars>>

(* ... wait_for(100 ms) under m_mutex; leave if stopped with nothing      *)
(* queued; otherwise move up to 50 tasks into the local batch.  An empty   *)
(* batch goes back to the top of the loop.                                 *)
WriterTake(w) ==
    /\ wpc[w] = "wait"
    /\ IF ~running /\ queue = << >>
       THEN /\ wpc' = [wpc EXCEPT ![w] = "exited"]
            /\ UNCHANGED <<queue, batch>>
       ELSE LET n == IF Len(queue) < BatchSize THEN Len(queue) ELSE BatchSize
            IN  /\ batch' = [batch EXCEPT ![w] = SubSeq(queue, 1, n)]
                /\ queue' = SubSeq(queue, n + 1, Len(queue))
                /\ wpc' = [wpc EXCEPT ![w] = IF n = 0 THEN "top" ELSE "acquire"]
    /\ UNCHANGED <<running, written, dropped, held, pool, shutdown, phase, pushes,
                   enqueued, failedReplies, skipped, breaks, onWrongDb, outcome, pvars>>

(* Variant: tasks that do not fit back in the queue vanish uncounted.      *)
RequeueSilent(q, b) ==
    [queue |-> q \o SubSeq(b, 1, IF QueueSize - Len(q) < Len(b) THEN QueueSize - Len(q) ELSE Len(b)),
     lost  |-> 0]

(* Variant: the batch is pushed back without the capacity check.         *)
RequeueUnbounded(q, b) == [queue |-> q \o b, lost |-> 0]

(* The batch pushed back onto the queue when no connection was usable:     *)
(* tasks that no longer fit are dropped and counted.                       *)
Requeue(q, b) ==
    LET room == IF QueueSize - Len(q) < Len(b) THEN QueueSize - Len(q) ELSE Len(b)
    IN  [queue |-> q \o SubSeq(b, 1, room), lost |-> Len(b) - room]

(* With the guard's connection: without one (or an invalid one) requeue    *)
(* the batch; otherwise pipeline it with processBatch and count the good   *)
(* replies.  A connection that breaks mid-pipeline loses the replies of    *)
(* the rest of the batch.  Either way the guard then releases it.          *)
WriterProcess(w) ==
    /\ wpc[w] = "process"
    /\ IF ~GuardValid(held[w])
       THEN LET r == Requeue(queue, batch[w]) IN
            /\ queue' = r.queue
            /\ dropped' = dropped + r.lost
            /\ outcome' = [t \in Task |->
                   IF t \in ToSet(SubSeq(batch[w], Len(batch[w]) - r.lost + 1, Len(batch[w])))
                   THEN "dropped" ELSE outcome[t]]
            /\ Release(held[w])
            /\ UNCHANGED <<written, failedReplies, breaks, onWrongDb>>
       ELSE \E j \in {Len(batch[w])} \cup (IF breaks < MaxBreaks THEN 0..(Len(batch[w]) - 1) ELSE {}) :
            /\ written' = written + j
            /\ outcome' = [t \in Task |->
                   IF t \in ToSet(SubSeq(batch[w], 1, j)) THEN "written"
                   ELSE IF t \in ToSet(batch[w]) THEN "failed" ELSE outcome[t]]
            /\ failedReplies' = failedReplies + (Len(batch[w]) - j)
            /\ onWrongDb' = IF \E c \in held[w] : c.sel THEN onWrongDb
                            ELSE onWrongDb \cup ToSet(batch[w])
            /\ breaks' = IF j < Len(batch[w]) THEN breaks + 1 ELSE breaks
            /\ Release(IF j < Len(batch[w]) THEN {[c EXCEPT !.ok = FALSE] : c \in held[w]} ELSE held[w])
            /\ UNCHANGED <<queue, dropped>>
    /\ batch' = [batch EXCEPT ![w] = << >>]
    /\ held' = [held EXCEPT ![w] = {}]
    /\ wpc' = [wpc EXCEPT ![w] = "top"]
    /\ UNCHANGED <<running, shutdown, phase, pushes, enqueued, skipped, pvars>>

-----------------------------------------------------------------------------
(* RedisCache::disconnect, from ~PacketParser.                             *)

(* RedisAsyncWriter::stop: clear m_running and notify_all ...  It runs in *)
(* ~PacketParser after the worker threads are joined, so no               *)
(* sendToBackends call is in progress.                                     *)
StopWriter ==
    /\ phase = "run" /\ prod.stage = "idle"
    /\ running' = FALSE
    /\ phase' = "join"
    /\ UNCHANGED <<queue, written, dropped, wpc, batch, held, pool, shutdown, pushes,
                   enqueued, failedReplies, skipped, breaks, onWrongDb, outcome, pvars>>

(* ... and join the writer threads.                                        *)
JoinWriters ==
    /\ phase = "join"
    /\ \A w \in Writers : wpc[w] = "exited"
    /\ phase' = "close"
    /\ UNCHANGED <<queue, running, written, dropped, wpc, batch, held, pool, shutdown,
                   pushes, enqueued, failedReplies, skipped, breaks, onWrongDb, outcome, pvars>>

(* RedisConnectionPool::shutdown: set m_shutdown and empty the FIFO.       *)
ShutdownPool ==
    /\ phase = "close"
    /\ shutdown' = TRUE
    /\ pool' = << >>
    /\ phase' = "done"
    /\ UNCHANGED <<queue, running, written, dropped, wpc, batch, held, pushes,
                   enqueued, failedReplies, skipped, breaks, onWrongDb, outcome, pvars>>

-----------------------------------------------------------------------------
(* After RedisCache::connect: the pool holds the connections that came up  *)
(* (at least the one connect() tested, which got AUTH and SELECT and was   *)
(* released to the back of the FIFO) and the writer threads are started. *)
(* The RedisConnectionPool constructor pools the n of pool_size           *)
(* connections that came up; connect() then leases the first, sends AUTH  *)
(* and SELECT on it and releases it to the back of the FIFO.               *)
InitialPool(n) == [i \in 1..n |-> [ok |-> TRUE, sel |-> (i = n), em |-> FALSE]]

Init ==
    /\ \E n \in 1..PoolSize : pool = InitialPool(n)
    /\ queue = << >>
    /\ running = TRUE
    /\ written = 0 /\ dropped = 0
    /\ wpc = [w \in Writers |-> "top"]
    /\ batch = [w \in Writers |-> << >>]
    /\ held = [w \in Writers |-> {}]
    /\ shutdown = FALSE
    /\ phase = "run"
    /\ pushes = 0 /\ enqueued = 0 /\ failedReplies = 0 /\ skipped = 0 /\ breaks = 0
    /\ onWrongDb = {}
    /\ outcome = [t \in Task |-> "none"]
    /\ prod = [stage |-> "idle", left |-> 0]
    /\ prodHeld = {}
    /\ wrongDbLookups = 0

WriterStep(w) ==
    WriterLoop(w) \/ WriterTake(w) \/ AcquireFromPool(w) \/ AcquireTimeout(w) \/ WriterProcess(w)

MainStep == StopWriter \/ JoinWriters \/ ShutdownPool

(* The steps of a sendToBackends call once it has started.               *)
ProducerStep == AssetAcquire \/ AssetGet \/ StreamAfterLookups

Next ==
    \/ SendToBackends
    \/ ProducerStep
    \/ BreakConnection
    \/ \E w \in Writers : WriterStep(w)
    \/ MainStep

(* Writer threads, a started sendToBackends call and the shutdown run     *)
(* whenever they can; traffic and the server's failures are the            *)
(* environment.                                                            *)
Fairness == (\A w \in Writers : WF_vars(WriterStep(w))) /\ WF_vars(ProducerStep)
            /\ WF_vars(MainStep)

Spec == Init /\ [][Next]_vars /\ Fairness

-----------------------------------------------------------------------------
(* Properties.                                                             *)

InBatches == FoldFunction(LAMBDA x, y : x + y, 0, [w \in Writers |-> Len(batch[w])])

(* enqueue, writerWorker's requeue and processBatch account for every      *)
(* task: each enqueue call ends up dropped, queued, in a writer's batch,   *)
(* acknowledged (m_total_written) or with a failed reply.                  *)
NoTaskLost ==
    enqueued = dropped + Len(queue) + InBatches + written + failedReplies

(* Spec 8: total_written + total_dropped + queue_size = total_enqueued     *)
(* whenever no writer is holding a batch (getStats() under m_mutex).       *)
SpecAsyncAccounting ==
    (\A w \in Writers : batch[w] = << >>) => written + dropped + Len(queue) = enqueued

(* Spec 5: stopping the async writer flushes the pending tasks: once its  *)
(* threads are joined nothing is left in the queue.                        *)
StopDrainsQueue ==
    phase \in {"close", "done"} => queue = << >>

(* Spec 4.L: the pool is a fixed set of pool_size connections.             *)
PoolBounded == Len(pool) <= PoolSize

(* RedisCache::connect authenticates and selects the configured database: *)
(* every command, a queued write task or an asset lookup's GET, is sent    *)
(* on a connection that received AUTH and SELECT.                          *)
ConfiguredDbUsed == onWrongDb = {} /\ wrongDbLookups = 0

(* RedisCache::disconnect completes: the writer threads leave their loop  *)
(* after stop() and the pool is shut down.                                 *)
Termination == <>(phase = "done")

-----------------------------------------------------------------------------
(* Refinement: the writer threads, the pool and the connections implement *)
(* the bounded drop-on-overflow task queue of AsyncWriteQueue.  A task in  *)
(* m_queue is queued, one in a writer's local batch is being sent, and a  *)
(* finished one is what its reply (or the drop) made it.                  *)
TaskFate ==
    [t \in Task |->
        IF t \in ToSet(queue) THEN "queued"
        ELSE IF \E w \in Writers : t \in ToSet(batch[w]) THEN "sending"
        ELSE IF outcome[t] # "none" THEN outcome[t]
        ELSE "new"]

AW == INSTANCE AsyncWriteQueue WITH queue <- queue, fate <- TaskFate, open <- running

(* RedisAsyncWriter implements its spec: enqueue appends while the queue  *)
(* is below m_max_queue_size and drops otherwise, writers take batches    *)
(* from the head, a requeued batch goes back to the tail with the excess  *)
(* dropped, a task's fate never goes back, and nothing is enqueued after  *)
(* stop().  A task that vanishes without a count shows up as going back  *)
(* to new.                                                                 *)
AsyncWriterRefined == AW!Spec

====
