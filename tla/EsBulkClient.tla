---------------------------- MODULE EsBulkClient ----------------------------
(***************************************************************************)
(* The Elasticsearch bulk path of realtime mode                            *)
(* (src/Parser/src/ElasticsearchClient.cpp, PacketParser.cpp).             *)
(*                                                                         *)
(* Worker threads (Producers) call addToBulk through sendToBackends; the   *)
(* client's autoFlushLoop thread ("auto") and PacketParser's               *)
(* realtimeFlushThread ("rt") flush the buffer periodically; at shutdown   *)
(* main stops the workers (joining rt, which flushes a last time) and the *)
(* PacketParser destructor calls disconnect, which stops and joins auto,  *)
(* flushes, and clears m_connected.  Every send goes through sendRequest  *)
(* under m_curl_mutex with up to three attempts.                           *)
(*                                                                         *)
(* A document is identified by its position in the order it was appended *)
(* to m_bulk_buffer (its action and source lines are kept together).      *)
(* The state starts after a successful connect(): when connect fails      *)
(* PacketParser never uses the client.                                    *)
(***************************************************************************)
EXTENDS Naturals, Sequences, FiniteSets, SequencesExt

CONSTANTS
    Producers,   \* worker threads calling addToBulk
    BulkSize,    \* m_config.bulk_size, in documents (the buffer holds 2 lines each)
    MaxDocs,     \* bound on the number of documents appended
    MaxRetries   \* max_retries in sendRequest (3)

ASSUME BulkSize \in Nat \ {0} /\ MaxDocs \in Nat /\ MaxRetries \in Nat \ {0}

Threads == Producers \cup {"auto", "rt", "main"}
None == "none"

VARIABLES
    connected,   \* m_connected
    stopFlush,   \* m_stop_flush
    stopFlag,    \* PacketParser::m_stop_flag
    buffer,      \* m_bulk_buffer, as document ids
    bulkHolder,  \* owner of m_bulk_mutex, or None
    curlHolder,  \* owner of m_curl_mutex, or None
    pc,          \* where each thread is
    ret,         \* where a thread goes back to when its flush returns
    batch,       \* each thread's buffer_copy
    attempt,     \* each thread's retry counter in sendRequest
    appended,    \* documents appended so far (history)
    indexed,     \* documents the server indexed, in order (with duplicates)
    failed,      \* documents of batches whose send failed MaxRetries times
    discarded    \* documents of batches flushed while not connected

vars == <<connected, stopFlush, stopFlag, buffer, bulkHolder, curlHolder, pc, ret,
          batch, attempt, appended, indexed, failed, discarded>>

Doc == 1..MaxDocs
PCs == {"idle", "top", "loop", "lock", "send", "http", "run", "join_rt", "disc",
        "join_auto", "close", "exited", "done"}

TypeOK ==
    /\ connected \in BOOLEAN /\ stopFlush \in BOOLEAN /\ stopFlag \in BOOLEAN
    /\ buffer \in Seq(Doc)
    /\ bulkHolder \in Threads \cup {None} /\ curlHolder \in Threads \cup {None}
    /\ pc \in [Threads -> PCs] /\ ret \in [Threads -> PCs]
    /\ batch \in [Threads -> Seq(Doc)]
    /\ attempt \in [Threads -> 0..(MaxRetries - 1)]
    /\ appended \in 0..MaxDocs
    /\ indexed \in Seq(Doc)
    /\ failed \subseteq Doc /\ discarded \subseteq Doc

-----------------------------------------------------------------------------
(* Return from a flush: the lock_guard on m_bulk_mutex (if this thread    *)
(* took it) is released and the local copy is gone.                        *)
Finish(t) ==
    /\ pc' = [pc EXCEPT ![t] = ret[t]]
    /\ batch' = [batch EXCEPT ![t] = << >>]
    /\ bulkHolder' = IF bulkHolder = t THEN None ELSE bulkHolder

(* Variant: the buffer is cleared before it is copied.                     *)
FlushLockClearFirst(t) ==
    /\ pc[t] = "lock"
    /\ bulkHolder = None
    /\ IF buffer = << >>
       THEN /\ pc' = [pc EXCEPT ![t] = ret[t]]
            /\ UNCHANGED <<bulkHolder, batch>>
       ELSE /\ bulkHolder' = t
            /\ batch' = [batch EXCEPT ![t] = << >>]
            /\ pc' = [pc EXCEPT ![t] = "send"]
    /\ buffer' = << >>
    /\ UNCHANGED <<connected, stopFlush, stopFlag, curlHolder, ret, attempt,
                   appended, indexed, failed, discarded>>

(* flushBulk(), and the body of autoFlushLoop: take m_bulk_mutex; an empty *)
(* buffer returns at once, otherwise it is swapped into buffer_copy and    *)
(* sent while the lock is still held.                                      *)
FlushLock(t) ==
    /\ pc[t] = "lock"
    /\ bulkHolder = None
    /\ IF buffer = << >>
       THEN /\ pc' = [pc EXCEPT ![t] = ret[t]]
            /\ UNCHANGED <<bulkHolder, batch>>
       ELSE /\ bulkHolder' = t
            /\ batch' = [batch EXCEPT ![t] = buffer]
            /\ pc' = [pc EXCEPT ![t] = "send"]
    /\ buffer' = << >>
    /\ UNCHANGED <<connected, stopFlush, stopFlag, curlHolder, ret, attempt,
                   appended, indexed, failed, discarded>>

(* flushBulkInternal: a batch flushed while not connected is discarded;   *)
(* otherwise sendRequest takes m_curl_mutex.                               *)
Send(t) ==
    /\ pc[t] = "send"
    /\ IF connected
       THEN /\ curlHolder = None
            /\ curlHolder' = t
            /\ attempt' = [attempt EXCEPT ![t] = 0]
            /\ pc' = [pc EXCEPT ![t] = "http"]
            /\ UNCHANGED <<batch, bulkHolder, discarded>>
       ELSE /\ discarded' = discarded \cup ToSet(batch[t])
            /\ Finish(t)
            /\ UNCHANGED <<curlHolder, attempt>>
    /\ UNCHANGED <<connected, stopFlush, stopFlag, buffer, ret, appended, indexed, failed>>

(* Variant: the loop runs while retry <= max_retries.                    *)
HttpExtraRetry(t) ==
    /\ pc[t] = "http"
    /\ \E outcome \in {"ok", "lost", "late"} :
          /\ indexed' = IF outcome = "lost" THEN indexed ELSE indexed \o batch[t]
          /\ IF outcome # "ok" /\ attempt[t] < MaxRetries
             THEN /\ attempt' = [attempt EXCEPT ![t] = @ + 1]
                  /\ UNCHANGED <<pc, batch, bulkHolder, curlHolder, failed>>
             ELSE /\ failed' = IF outcome = "ok" THEN failed
                               ELSE failed \cup ToSet(batch[t])
                  /\ curlHolder' = None
                  /\ Finish(t)
                  /\ UNCHANGED attempt
    /\ UNCHANGED <<connected, stopFlush, stopFlag, buffer, ret, appended, discarded>>

(* One attempt of sendRequest's retry loop.  "ok": a 2xx reply; "lost":   *)
(* the request never reached the index; "late": the server indexed the    *)
(* bulk but the reply did not arrive in time (CURLOPT_TIMEOUT).  After a   *)
(* failure the loop retries until max_retries attempts were made; then the *)
(* batch is given up.                                                      *)
Http(t) ==
    /\ pc[t] = "http"
    /\ \E outcome \in {"ok", "lost", "late"} :
          /\ indexed' = IF outcome = "lost" THEN indexed ELSE indexed \o batch[t]
          /\ IF outcome # "ok" /\ attempt[t] + 1 < MaxRetries
             THEN /\ attempt' = [attempt EXCEPT ![t] = @ + 1]
                  /\ UNCHANGED <<pc, batch, bulkHolder, curlHolder, failed>>
             ELSE /\ failed' = IF outcome = "ok" THEN failed
                               ELSE failed \cup ToSet(batch[t])
                  /\ curlHolder' = None
                  /\ Finish(t)
                  /\ UNCHANGED attempt
    /\ UNCHANGED <<connected, stopFlush, stopFlag, buffer, ret, appended, discarded>>

-----------------------------------------------------------------------------
(* sendToBackends -> addToBulk on a worker thread, until it is joined (a   *)
(* worker still parsing a frame after m_stop_flag is set can add more):    *)
(* append a document under m_bulk_mutex; at 2 * bulk_size lines swap the   *)
(* buffer out and return flushBulkInternal(buffer_copy) before the         *)
(* lock_guard is destroyed.                                                *)
AddToBulk(p) ==
    /\ pc[p] = "idle"
    /\ pc["main"] \in {"run", "join_rt"} /\ connected
    /\ appended < MaxDocs
    /\ bulkHolder = None
    /\ appended' = appended + 1
    /\ IF Len(buffer) + 1 >= BulkSize
       THEN /\ batch' = [batch EXCEPT ![p] = Append(buffer, appended + 1)]
            /\ buffer' = << >>
            /\ bulkHolder' = p
            /\ pc' = [pc EXCEPT ![p] = "send"]
       ELSE /\ buffer' = Append(buffer, appended + 1)
            /\ UNCHANGED <<batch, pc, bulkHolder>>
    /\ UNCHANGED <<connected, stopFlush, stopFlag, curlHolder, ret, attempt,
                   indexed, failed, discarded>>

(* Variant: the flush loop never looks at m_stop_flush.                   *)
AutoFlushLoopForever ==
    /\ pc["auto"] = "top"
    /\ pc' = [pc EXCEPT !["auto"] = "lock"]
    /\ UNCHANGED <<connected, stopFlush, stopFlag, buffer, bulkHolder, curlHolder,
                   ret, batch, attempt, appended, indexed, failed, discarded>>

(* autoFlushLoop: at the top of the loop leave if m_stop_flush is set,    *)
(* otherwise sleep the interval and flush a non-empty buffer.              *)
AutoFlushLoop ==
    /\ pc["auto"] = "top"
    /\ pc' = [pc EXCEPT !["auto"] = IF stopFlush THEN "exited" ELSE "lock"]
    /\ UNCHANGED <<connected, stopFlush, stopFlag, buffer, bulkHolder, curlHolder,
                   ret, batch, attempt, appended, indexed, failed, discarded>>

(* realtimeFlushThread: every 100 ms call flushBulk() if connected; once  *)
(* m_stop_flag is set, flush a last time (if connected) and return.        *)
RealtimeFlushThread ==
    /\ pc["rt"] = "loop"
    /\ connected \/ stopFlag
    /\ pc' = [pc EXCEPT !["rt"] = IF connected THEN "lock" ELSE "exited"]
    /\ ret' = [ret EXCEPT !["rt"] = IF stopFlag THEN "exited" ELSE "loop"]
    /\ UNCHANGED <<connected, stopFlush, stopFlag, buffer, bulkHolder, curlHolder,
                   batch, attempt, appended, indexed, failed, discarded>>

-----------------------------------------------------------------------------
(* main and ~PacketParser.                                                 *)

(* stopWorkers: set m_stop_flag ...                                        *)
StopWorkers ==
    /\ pc["main"] = "run"
    /\ stopFlag' = TRUE
    /\ pc' = [pc EXCEPT !["main"] = "join_rt"]
    /\ UNCHANGED <<connected, stopFlush, buffer, bulkHolder, curlHolder, ret, batch,
                   attempt, appended, indexed, failed, discarded>>

(* ... and join the workers and the realtime flush thread.                 *)
JoinWorkers ==
    /\ pc["main"] = "join_rt"
    /\ pc["rt"] = "exited"
    /\ \A p \in Producers : pc[p] = "idle"
    /\ pc' = [pc EXCEPT !["main"] = "disc"]
    /\ UNCHANGED <<connected, stopFlush, stopFlag, buffer, bulkHolder, curlHolder, ret,
                   batch, attempt, appended, indexed, failed, discarded>>

(* disconnect(): set m_stop_flush ...                                      *)
StopFlush ==
    /\ pc["main"] = "disc"
    /\ stopFlush' = TRUE
    /\ pc' = [pc EXCEPT !["main"] = "join_auto"]
    /\ UNCHANGED <<connected, stopFlag, buffer, bulkHolder, curlHolder, ret, batch,
                   attempt, appended, indexed, failed, discarded>>

(* Variant: m_connected is cleared before the final flush.                 *)
DisconnectClearFirst ==
    /\ pc["main"] = "join_auto"
    /\ pc["auto"] = "exited"
    /\ connected' = FALSE
    /\ pc' = [pc EXCEPT !["main"] = "lock"]
    /\ ret' = [ret EXCEPT !["main"] = "close"]
    /\ UNCHANGED <<stopFlush, stopFlag, buffer, bulkHolder, curlHolder, batch,
                   attempt, appended, indexed, failed, discarded>>

(* ... join the flush thread, then flushBulk() what is left ...            *)
Disconnect ==
    /\ pc["main"] = "join_auto"
    /\ pc["auto"] = "exited"
    /\ pc' = [pc EXCEPT !["main"] = "lock"]
    /\ ret' = [ret EXCEPT !["main"] = "close"]
    /\ UNCHANGED <<connected, stopFlush, stopFlag, buffer, bulkHolder, curlHolder,
                   batch, attempt, appended, indexed, failed, discarded>>

(* ... and clear m_connected.                                              *)
Close ==
    /\ pc["main"] = "close"
    /\ connected' = FALSE
    /\ pc' = [pc EXCEPT !["main"] = "done"]
    /\ UNCHANGED <<stopFlush, stopFlag, buffer, bulkHolder, curlHolder, ret, batch,
                   attempt, appended, indexed, failed, discarded>>

-----------------------------------------------------------------------------
(* After connect(): connected, the flush thread started, nothing buffered. *)
Init ==
    /\ connected = TRUE
    /\ stopFlush = FALSE
    /\ stopFlag = FALSE
    /\ buffer = << >>
    /\ bulkHolder = None
    /\ curlHolder = None
    /\ pc = [t \in Threads |-> CASE t = "auto" -> "top"
                                  [] t = "rt"   -> "loop"
                                  [] t = "main" -> "run"
                                  [] OTHER      -> "idle"]
    /\ ret = [t \in Threads |-> IF t = "auto" THEN "top" ELSE "idle"]
    /\ batch = [t \in Threads |-> << >>]
    /\ attempt = [t \in Threads |-> 0]
    /\ appended = 0
    /\ indexed = << >>
    /\ failed = {}
    /\ discarded = {}

Flusher(t) == FlushLock(t) \/ Send(t) \/ Http(t)

ProducerStep(p) == AddToBulk(p) \/ Send(p) \/ Http(p)

MainStep == StopWorkers \/ JoinWorkers \/ StopFlush \/ Disconnect \/ Close \/ Flusher("main")

Next ==
    \/ \E p \in Producers : ProducerStep(p)
    \/ AutoFlushLoop \/ Flusher("auto")
    \/ RealtimeFlushThread \/ Flusher("rt")
    \/ MainStep

(* Every thread runs whenever it can; the producers' calls are driven by  *)
(* traffic and need no fairness, but a producer holding a batch finishes   *)
(* sending it.                                                             *)
Fairness ==
    /\ \A p \in Producers : WF_vars(Send(p) \/ Http(p))
    /\ WF_vars(AutoFlushLoop \/ Flusher("auto"))
    /\ WF_vars(RealtimeFlushThread \/ Flusher("rt"))
    /\ WF_vars(MainStep)

Spec == Init /\ [][Next]_vars /\ Fairness

-----------------------------------------------------------------------------
(* Properties.                                                             *)

InFlight == UNION {ToSet(batch[t]) : t \in Threads}

(* addToBulk, flushBulk, autoFlushLoop and flushBulkInternal never lose a  *)
(* document: each one appended is still buffered, held in some thread's    *)
(* buffer_copy, indexed, or in a batch given up after its retries or       *)
(* flushed while disconnected.                                             *)
NoDocumentLost ==
    1..appended = ToSet(buffer) \cup InFlight \cup ToSet(indexed) \cup failed \cup discarded

(* The shutdown order (realtime flush thread's last flush, then            *)
(* disconnect's final flushBulk before m_connected is cleared) delivers    *)
(* everything: once main is done, every document was indexed or belonged  *)
(* to a batch whose send failed MaxRetries times.                          *)
FinalFlushDelivers ==
    pc["main"] = "done" => 1..appended \subseteq ToSet(indexed) \cup failed

(* Spec 4.K and 9: the bulk mutex is never held across a network call.    *)
NoNetworkCallUnderBulkLock ==
    \A t \in Threads : pc[t] = "http" => bulkHolder # t

(* Shutdown completes: main gets through stopWorkers and disconnect.      *)
Termination == <>(pc["main"] = "done")

=============================================================================
