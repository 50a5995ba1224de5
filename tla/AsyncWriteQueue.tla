-------------------------- MODULE AsyncWriteQueue --------------------------
(***************************************************************************)
(* What the in-memory store's asynchronous writer promises (spec 4.M and  *)
(* 8), without writer threads, connections or the pool: a bounded FIFO    *)
(* of write tasks with drop-on-overflow.  Every task moves one way        *)
(* through new -> queued -> sending -> written, failed or dropped, except *)
(* that a batch sent without a usable connection goes back to the tail of *)
(* the queue.  Tasks are numbered in the order enqueue is called.          *)
(***************************************************************************)
EXTENDS Naturals, Sequences, SequencesExt

CONSTANTS
    Task,       \* task ids 1..N, in the order enqueue is called
    QueueSize   \* the bound of the queue

VARIABLES
    queue,      \* the tasks waiting, head first
    fate,       \* where each task is
    open        \* enqueue is still being called (the writer is not stopped)

avars == <<queue, fate, open>>

Sending == {t \in Task : fate[t] = "sending"}

Init ==
    /\ queue = << >>
    /\ fate = [t \in Task |-> "new"]
    /\ open = TRUE

(* Offering tasks in turn: each is appended while the queue has room and  *)
(* dropped once it is full.  Result: the queue and the dropped tasks.     *)
RECURSIVE Offer(_, _, _)
Offer(q, ts, d) ==
    IF ts = << >> THEN [queue |-> q, dropped |-> d]
    ELSE IF Len(q) < QueueSize THEN Offer(Append(q, Head(ts)), Tail(ts), d)
    ELSE Offer(q, Tail(ts), d \cup {Head(ts)})

(* n enqueue calls at once (a stream write and its counter increment).    *)
Enqueue(n) ==
    LET next == Cardinality({t \in Task : fate[t] # "new"}) + 1
        ts == [i \in 1..n |-> next + i - 1]
        r == Offer(queue, ts, {})
    IN  /\ open
        /\ next + n - 1 \in Task
        /\ queue' = r.queue
        /\ fate' = [t \in Task |-> IF t \in r.dropped THEN "dropped"
                                   ELSE IF t \in ToSet(ts) THEN "queued" ELSE fate[t]]
        /\ UNCHANGED open

(* A batch leaves from the head of the queue.                              *)
Take ==
    \E n \in 1..Len(queue) :
        /\ queue' = SubSeq(queue, n + 1, Len(queue))
        /\ fate' = [t \in Task |-> IF t \in ToSet(SubSeq(queue, 1, n)) THEN "sending" ELSE fate[t]]
        /\ UNCHANGED open

(* Some tasks being sent get their replies: written, or failed.            *)
Settle ==
    \E S \in SUBSET Sending \ {{}}, W \in SUBSET Sending :
        /\ W \subseteq S
        /\ fate' = [t \in Task |-> IF t \in W THEN "written"
                                   ELSE IF t \in S THEN "failed" ELSE fate[t]]
        /\ UNCHANGED <<queue, open>>

(* A batch that could not be sent goes back to the tail in its order;     *)
(* the tasks that no longer fit are dropped.                               *)
Requeue ==
    \E b \in SetToAllKPermutations(Sending) \ {<< >>} :
        LET room == IF QueueSize - Len(queue) < Len(b) THEN QueueSize - Len(queue) ELSE Len(b)
        IN  /\ queue' = queue \o SubSeq(b, 1, room)
            /\ fate' = [t \in Task |-> IF t \in ToSet(SubSeq(b, 1, room)) THEN "queued"
                                       ELSE IF t \in ToSet(b) THEN "dropped" ELSE fate[t]]
            /\ UNCHANGED open

(* stop(): no enqueue after it.                                            *)
Stop ==
    /\ open
    /\ open' = FALSE
    /\ UNCHANGED <<queue, fate>>

Next == (\E n \in 1..2 : Enqueue(n)) \/ Take \/ Settle \/ Requeue \/ Stop

Spec == Init /\ [][Next]_avars

====
