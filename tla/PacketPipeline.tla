--------------------------- MODULE PacketPipeline ---------------------------
(***************************************************************************)
(* The concurrency spine of the parser in file-output mode                 *)
(* (src/Parser/src/PacketParser.cpp, UnifiedWriter.cpp, main.cpp).         *)
(*                                                                         *)
(* The capture thread (main) copies each frame into the packet queue      *)
(* (PacketParser::parse); worker threads pop one packet at a time and run *)
(* it through their own parser set, whose Modbus and S7Comm instances keep *)
(* per-worker pending-request tables; every record a parser builds is     *)
(* added to the shared UnifiedWriter under its mutex, one addRecord call  *)
(* per record.  At shutdown main waits for the queue to empty, sets the   *)
(* stop flag, joins the workers, flushes the writer (stable sort by        *)
(* timestamp, one file per time slot) and finally destroys the writer,     *)
(* whose destructor flushes again if anything is left.                     *)
(*                                                                         *)
(* Records are kept per time slot (getTimeSlot): with a rolling interval  *)
(* of 0 every record falls in the single slot "output_all", otherwise in  *)
(* the slot named after its timestamp's minute rounded down to the         *)
(* interval; flush writes one CSV/JSONL pair per slot.                     *)
(***************************************************************************)
EXTENDS Naturals, Sequences, FiniteSets, SequencesExt, ModbusParser, S7CommParser

CONSTANTS
    Workers,         \* worker thread ids (m_num_threads of them)
    CapturePackets,  \* the frames the capture may deliver (see Packet)
    MaxPackets,      \* bound on the number of frames captured
    MaxTs,           \* capture timestamps are 1..MaxTs
    MaxClock,        \* bound on the steady clock, in minutes
    RollInterval     \* the rolling interval in minutes (-r, ROLLING_INTERVAL)

(* A classified frame: protocol, direction, request key or PDU reference, *)
(* request start address and register count of a read response.           *)
Packet == [proto : {"modbus", "s7comm", "other"}, dir : {"req", "resp", "other"},
           key : Keys \cup Refs, addr : Addrs \cup {0}, nregs : 0..MaxRegs]

ASSUME CapturePackets \subseteq Packet
ASSUME Workers # {} /\ MaxPackets \in Nat /\ MaxTs \in 1..59 /\ RollInterval \in Nat

(* A record added to the UnifiedWriter: the frame it came from, its       *)
(* timestamp and protocol, its register index and recovered base address, *)
(* and its modbus.translated_addr as ASCII digits.                          *)
Record == [pkt : Nat, ts : 1..MaxTs, proto : {"modbus", "s7comm", "tcp_session"},
           reg : 0..MaxRegs, base : Addrs \cup {0}, taddr : Seq(48..57)]

VARIABLES
    captured,   \* every frame captured so far, in capture order (history)
    queue,      \* m_packet_queue: indices into captured
    phase,      \* where main is in main()
    stop,       \* m_stop_flag
    worker,     \* per worker: stage, and the records still to add
    modbus,     \* per worker: its ModbusParser state
    s7,         \* per worker: its S7CommParser state
    clock,      \* std::chrono::steady_clock, in minutes
    sink,       \* UnifiedWriter::m_time_slots: slot -> its record vector
    file,       \* slot -> contents last written to its .csv / .jsonl
    processed,  \* m_packets_processed
    log,        \* every record passed to addRecord, in call order (history)
    ioError     \* writeTimeSlot logged that it could not open a file (history)

vars == <<captured, queue, phase, stop, worker, modbus, s7, clock, sink, file,
          processed, log, ioError>>

(* A slot is named by the minute its label ends in ("output_YYYYMMDD_HHMM", *)
(* date and hour fixed, so label order is minute order); AllSlot stands   *)
(* for "output_all".                                                       *)
AllSlot == -1
Slots == {AllSlot} \cup 0..MaxTs

(* Variant: the minute's remainder by the interval instead of the minute *)
(* rounded down to it.                                                     *)
TimeSlotRemainder(ts) == IF RollInterval = 0 THEN AllSlot ELSE ts % RollInterval

(* getTimeSlot: "output_all" for interval 0; otherwise the minute of the  *)
(* timestamp rounded down to a multiple of the interval.  The timestamps  *)
(* format_timestamp builds are always 27 characters long, so the branch   *)
(* for a timestamp shorter than 19 characters ("" and the record dropped) *)
(* is never taken.                                                         *)
TimeSlot(ts) ==
    IF RollInterval = 0 THEN AllSlot ELSE (ts \div RollInterval) * RollInterval

Phases == {"capture", "drain", "stop", "join", "output", "destroy", "done"}

TypeOK ==
    /\ captured \in Seq([p : CapturePackets, ts : 1..MaxTs])
    /\ queue \in Seq(1..MaxPackets)
    /\ phase \in Phases
    /\ stop \in BOOLEAN
    /\ worker \in [Workers -> [stage : {"idle", "emit", "exited"},
                               todo : Seq(Record)]]
    /\ \A w \in Workers :
          /\ DOMAIN modbus[w].pending \subseteq Keys
          /\ \A k \in DOMAIN modbus[w].pending : modbus[w].pending[k] \in Entry(clock)
          /\ modbus[w].lastCleanup \in 0..clock
    /\ s7 \in [Workers -> SUBSET Refs]
    /\ clock \in 0..MaxClock
    /\ DOMAIN sink \subseteq Slots /\ \A sl \in DOMAIN sink : sink[sl] \in Seq(Record)
    /\ DOMAIN file \subseteq Slots /\ \A sl \in DOMAIN file : file[sl] \in Seq(Record)
    /\ ioError \in BOOLEAN
    /\ processed \in 0..MaxPackets /\ log \in Seq(Record)

-----------------------------------------------------------------------------
(* The unified sink.                                                       *)

(* Variant: std::sort, which may put a record before an equal-timestamp  *)
(* record added earlier.                                                   *)
StdSortByTs(s) ==
    LET Insert(acc, r) ==
            InsertAt(acc, Cardinality({i \in DOMAIN acc : acc[i].ts < r.ts}) + 1, r)
    IN  FoldLeft(Insert, << >>, s)

(* std::stable_sort by timestamp: each record is inserted after every     *)
(* record already placed whose timestamp is not greater than its own.      *)
StableSortByTs(s) ==
    LET Insert(acc, r) ==
            InsertAt(acc, Cardinality({i \in DOMAIN acc : acc[i].ts <= r.ts}) + 1, r)
    IN  FoldLeft(Insert, << >>, s)

(* The three ways writeTimeSlot can end: both files open and the sorted   *)
(* records are written; the CSV cannot be opened and the slot's old files *)
(* stay as they were; the CSV is opened (std::ofstream truncates it) and  *)
(* written its header but the JSONL cannot be opened, leaving a CSV       *)
(* without records.  Both failures only print an error.                   *)
WriteOutcomes == {"written", "nocsv", "nojsonl"}

(* What slot sl's file holds after writeTimeSlot(sl) ended with outcome o *)
(* (o # "nocsv": with "nocsv" the file is not touched).                   *)
WriteTimeSlot(sl, o) == IF o = "written" THEN StableSortByTs(sink[sl]) ELSE << >>

(* UnifiedWriter::flush: an empty slot map writes nothing; otherwise each *)
(* slot is written over its own files, each with its own outcome, and the *)
(* map is cleared whether or not the writes succeeded.                    *)
Flush ==
    /\ IF DOMAIN sink = {}
       THEN UNCHANGED <<file, ioError>>
       ELSE \E o \in [DOMAIN sink -> WriteOutcomes] :
                LET touched == {sl \in DOMAIN sink : o[sl] # "nocsv"}
                IN  /\ file' = [sl \in DOMAIN file \cup touched |->
                                  IF sl \in touched THEN WriteTimeSlot(sl, o[sl]) ELSE file[sl]]
                    /\ ioError' = (ioError \/ \E sl \in DOMAIN sink : o[sl] # "written")
    /\ sink' = [sl \in {} |-> << >>]

-----------------------------------------------------------------------------
(* Dispatch: PacketParser::parsePacket with worker w's parser set.         *)

(* Tag the records a parser built with the frame they came from.  Only    *)
(* Modbus records carry a translated address here (the S7 item address    *)
(* is not modelled); the others have << >>, which no property reads.      *)
Tagged(i, proto, recs) ==
    [j \in DOMAIN recs |-> [pkt |-> i, ts |-> captured[i].ts, proto |-> proto,
                           reg |-> recs[j].reg, base |-> recs[j].base,
                           taddr |-> IF proto = "modbus" THEN recs[j].taddr ELSE << >>]]

(* The first parser whose isProtocol holds handles the frame; a TCP frame *)
(* no parser claims goes to tcp_session, which emits one record.          *)
ParsePacket(w, i) ==
    LET pkt == captured[i].p IN
    CASE pkt.proto = "modbus" ->
            LET r == ModbusParse(modbus[w], pkt, clock) IN
            /\ modbus' = [modbus EXCEPT ![w] = r.parser]
            /\ s7' = s7
            /\ worker' = [worker EXCEPT ![w] = [stage |-> "emit",
                                                 todo |-> Tagged(i, "modbus", r.recs)]]
      [] pkt.proto = "s7comm" ->
            LET r == S7Parse(s7[w], pkt) IN
            /\ s7' = [s7 EXCEPT ![w] = r.parser]
            /\ modbus' = modbus
            /\ worker' = [worker EXCEPT ![w] = [stage |-> "emit",
                                                 todo |-> Tagged(i, "s7comm", r.recs)]]
      [] OTHER ->
            /\ UNCHANGED <<modbus, s7>>
            /\ worker' = [worker EXCEPT ![w] = [stage |-> "emit",
                             todo |-> Tagged(i, "tcp_session",
                                             << [reg |-> 0, base |-> 0, taddr |-> << >>] >>)]]

-----------------------------------------------------------------------------
(* Main thread.                                                            *)

(* packetCallback -> PacketParser::parse: copy the frame onto the queue.  *)
Capture ==
    /\ phase = "capture"
    /\ Len(captured) < MaxPackets
    /\ \E p \in CapturePackets, t \in 1..MaxTs :
          /\ captured' = Append(captured, [p |-> p, ts |-> t])
          /\ queue' = Append(queue, Len(captured) + 1)
    /\ UNCHANGED <<phase, stop, worker, modbus, s7, clock, sink, file, ioError, processed, log>>

(* pcap_loop returns at end of file, or the live loop sees g_running false. *)
EndCapture ==
    /\ phase = "capture"
    /\ phase' = "drain"
    /\ UNCHANGED <<captured, queue, stop, worker, modbus, s7, clock, sink, file, ioError,
                   processed, log>>

(* waitForCompletion: poll until the queue is empty.                      *)
WaitForCompletion ==
    /\ phase = "drain"
    /\ queue = << >>
    /\ phase' = "stop"
    /\ UNCHANGED <<captured, queue, stop, worker, modbus, s7, clock, sink, file, ioError,
                   processed, log>>

(* stopWorkers: set the stop flag and notify_all ...                        *)
StopWorkers ==
    /\ phase = "stop"
    /\ stop' = TRUE
    /\ phase' = "join"
    /\ UNCHANGED <<captured, queue, worker, modbus, s7, clock, sink, file, ioError,
                   processed, log>>

(* Variant: main goes on to output without joining the workers.          *)
JoinWorkersNoWait ==
    /\ phase = "join"
    /\ phase' = "output"
    /\ UNCHANGED <<captured, queue, stop, worker, modbus, s7, clock, sink, file, ioError,
                   processed, log>>

(* ... then join every worker thread.                                      *)
JoinWorkers ==
    /\ phase = "join"
    /\ \A w \in Workers : worker[w].stage = "exited"
    /\ phase' = "output"
    /\ UNCHANGED <<captured, queue, stop, worker, modbus, s7, clock, sink, file, ioError,
                   processed, log>>

(* generateUnifiedOutput: flush the writer.                                *)
GenerateUnifiedOutput ==
    /\ phase = "output"
    /\ Flush
    /\ phase' = "destroy"
    /\ UNCHANGED <<captured, queue, stop, worker, modbus, s7, clock, processed, log>>

(* delete g_parser: ~UnifiedWriter flushes again when slots remain.        *)
DestroyWriter ==
    /\ phase = "destroy"
    /\ Flush
    /\ phase' = "done"
    /\ UNCHANGED <<captured, queue, stop, worker, modbus, s7, clock, processed, log>>

-----------------------------------------------------------------------------
(* Worker threads: PacketParser::workerThread.                             *)

(* Wake with the queue non-empty, pop the front frame and parse it; the   *)
(* parser's own tables change here, its records are added one by one.     *)
Dequeue(w) ==
    /\ worker[w].stage = "idle"
    /\ queue # << >>
    /\ queue' = Tail(queue)
    /\ ParsePacket(w, Head(queue))
    /\ UNCHANGED <<captured, phase, stop, clock, sink, file, ioError, processed, log>>

(* Variant: the loop is left whenever the queue is empty.                 *)
WorkerExitOnEmpty(w) ==
    /\ worker[w].stage = "idle"
    /\ queue = << >>
    /\ worker' = [worker EXCEPT ![w].stage = "exited"]
    /\ UNCHANGED <<captured, queue, phase, stop, modbus, s7, clock, sink, file, ioError,
                   processed, log>>

(* Exit the loop: stop flag set and queue empty.                           *)
WorkerExit(w) ==
    /\ worker[w].stage = "idle"
    /\ stop /\ queue = << >>
    /\ worker' = [worker EXCEPT ![w].stage = "exited"]
    /\ UNCHANGED <<captured, queue, phase, stop, modbus, s7, clock, sink, file, ioError,
                   processed, log>>

(* BaseProtocolParser::addUnifiedRecord -> UnifiedWriter::addRecord:       *)
(* append the record to its time slot's vector (m_time_slots[slot], made *)
(* on first use) under m_mutex.                                            *)
AddRecord(w) ==
    LET r  == Head(worker[w].todo)
        sl == TimeSlot(r.ts)
    IN  /\ worker[w].stage = "emit"
        /\ worker[w].todo # << >>
        /\ sink' = IF sl \in DOMAIN sink THEN [sink EXCEPT ![sl] = Append(@, r)]
                                         ELSE sink @@ (sl :> << r >>)
        /\ worker' = [worker EXCEPT ![w].todo = Tail(@)]
        /\ log' = Append(log, r)
        /\ UNCHANGED <<captured, queue, phase, stop, modbus, s7, clock, file, ioError,
                       processed>>

(* Variant: the frame is counted but the worker is not reset to idle.     *)
FinishPacketNoReset(w) ==
    /\ worker[w].stage = "emit"
    /\ worker[w].todo = << >>
    /\ processed' = processed + 1
    /\ UNCHANGED <<captured, queue, phase, stop, worker, modbus, s7, clock, sink,
                   file, ioError, log>>

(* parsePacket returned: count the frame and wait for the next one.       *)
FinishPacket(w) ==
    /\ worker[w].stage = "emit"
    /\ worker[w].todo = << >>
    /\ worker' = [worker EXCEPT ![w].stage = "idle"]
    /\ processed' = processed + 1
    /\ UNCHANGED <<captured, queue, phase, stop, modbus, s7, clock, sink, file, ioError, log>>

(* Minutes of steady-clock time pass.                                      *)
Tick ==
    /\ clock < MaxClock
    /\ clock' = clock + 1
    /\ UNCHANGED <<captured, queue, phase, stop, worker, modbus, s7, sink, file, ioError,
                   processed, log>>

-----------------------------------------------------------------------------
Init ==
    /\ captured = << >>
    /\ queue = << >>
    /\ phase = "capture"
    /\ stop = FALSE
    /\ worker = [w \in Workers |-> [stage |-> "idle", todo |-> << >>]]
    /\ modbus = [w \in Workers |-> NewModbusParser]
    /\ s7 = [w \in Workers |-> NewS7CommParser]
    /\ clock = 0
    /\ sink = [sl \in {} |-> << >>]
    /\ file = [sl \in {} |-> << >>]
    /\ ioError = FALSE
    /\ processed = 0
    /\ log = << >>

MainStep == EndCapture \/ WaitForCompletion \/ StopWorkers \/ JoinWorkers
              \/ GenerateUnifiedOutput \/ DestroyWriter

WorkerStep(w) == Dequeue(w) \/ WorkerExit(w) \/ AddRecord(w) \/ FinishPacket(w)

Next ==
    \/ Capture
    \/ MainStep
    \/ \E w \in Workers : WorkerStep(w)
    \/ Tick

(* Worker threads and main are OS threads that keep running while they   *)
(* can; the capture source and the clock are the environment.             *)
Fairness == WF_vars(MainStep) /\ \A w \in Workers : WF_vars(WorkerStep(w))

Spec == Init /\ [][Next]_vars /\ Fairness

-----------------------------------------------------------------------------
(* Properties.                                                             *)

(* The latest request with key k captured before frame i, if any.         *)
LatestRequestBefore(i, k) ==
    LET reqs == {j \in 1..(i - 1) : /\ captured[j].p.proto = "modbus"
                                      /\ captured[j].p.dir = "req"
                                      /\ captured[j].p.key = k}
    IN  IF reqs = {} THEN 0 ELSE captured[Max(reqs)].p.addr

AllRecords == UNION {Range(sink[sl]) : sl \in DOMAIN sink} \cup
              UNION {Range(file[sl]) : sl \in DOMAIN file} \cup
              UNION {Range(worker[w].todo) : w \in Workers}

(* Spec 4.B: the Modbus translation of function code fc and address k.   *)
SpecModbusAddress(fc, k) ==
    CASE fc = 0 -> ToDecimal(1 + k)
      [] fc \in {1, 2} -> ToDecimal(10001 + k)
      [] fc = 3 -> ToDecimal(300001 + k)
      [] fc = 4 -> ToDecimal(400001 + k)
      [] OTHER -> ToDecimal(k)

(* ModbusParser::parse fans a read response out with the start address of *)
(* the request it matched: every register record carries either no base   *)
(* (0, the request is unknown) or the start address of the latest request *)
(* with the same transaction id and function code captured before it; the *)
(* per-worker pending tables must never yield an older request's address. *)
(* Its translated address is then the spec's translation of that start    *)
(* address plus the register's index (spec scenario 2: 300013, 300014,    *)
(* 300015 for a read of three registers at 12).                            *)
ModbusBaseCorrect ==
    \A r \in AllRecords :
        (r.proto = "modbus" /\ r.reg > 0 /\ r.base # 0)
            => LET start == LatestRequestBefore(r.pkt, captured[r.pkt].p.key)
               IN  /\ r.base = start
                   /\ r.taddr = SpecModbusAddress(KeyFc(captured[r.pkt].p.key),
                                                  start + r.reg - 1)

(* S7CommParser::parse turns an ack-data into a response record when it  *)
(* follows its job: after shutdown, every ack whose reference had a job   *)
(* captured after the previous ack with that reference is in the output   *)
(* (unless writing the output failed and said so).                        *)
S7AckAnswered(i) ==
    \E j \in 1..(i - 1) :
        /\ captured[j].p.proto = "s7comm" /\ captured[j].p.dir = "req"
        /\ captured[j].p.key = captured[i].p.key
        /\ \A m \in (j + 1)..(i - 1) :
              ~(captured[m].p.proto = "s7comm" /\ captured[m].p.dir = "resp"
                /\ captured[m].p.key = captured[i].p.key)

S7ResponseEmitted ==
    phase = "done" =>
        \A i \in DOMAIN captured :
            (captured[i].p.proto = "s7comm" /\ captured[i].p.dir = "resp"
             /\ S7AckAnswered(i))
                => ioError \/ \E sl \in DOMAIN file : \E k \in DOMAIN file[sl] : file[sl][k].pkt = i

(* Spec 5 (ordering guarantees): when the frames of a flow are spread     *)
(* over workers, correlation can miss, and the penalty is a missing       *)
(* base-address annotation: a Modbus register record carries no base or  *)
(* the start address of the latest earlier request with its transaction  *)
(* id and function code, never an older request's address.               *)
CorrelationOnlyMisses == ModbusBaseCorrect

(* The output files read in the order of their names.                   *)
FilesInNameOrder == FlattenSeq([k \in DOMAIN SetToSortSeq(DOMAIN file, <) |->
                                  file[SetToSortSeq(DOMAIN file, <)[k]]])

(* main's shutdown (waitForCompletion, stopWorkers, generateUnifiedOutput, *)
(* ~UnifiedWriter) loses nothing silently: when it is done every captured *)
(* frame was parsed, and the files hold every record ever added to the    *)
(* writer unless writeTimeSlot logged that it could not open a file.      *)
NothingLostAtShutdown ==
    phase = "done" => /\ processed = Len(captured)
                      /\ ioError \/ Len(FilesInNameOrder) = Len(log)

(* The stable sort in writeTimeSlot: each file is ordered by timestamp    *)
(* and the register records of one frame stay in the order they were      *)
(* added.                                                                  *)
OutputOrdered ==
    \A sl \in DOMAIN file : \A a, b \in DOMAIN file[sl] :
        LET x == file[sl][a]  y == file[sl][b]
        IN  a < b => \/ x.ts < y.ts
                     \/ x.ts = y.ts /\ (x.pkt = y.pkt => x.reg < y.reg)

(* Rolling output splits the stream without reordering it: once main is  *)
(* done and no write failed, the files read in name order hold exactly    *)
(* what one stable sort by timestamp of all addRecord calls gives.  It     *)
(* needs getTimeSlot to cut time into slots whose names grow with time,   *)
(* flush to write every slot, and the worker interleaving to be the same  *)
(* one both sides see.                                                    *)
RollingOutputIsSortedStream ==
    (phase = "done" /\ ~ioError) => FilesInNameOrder = StableSortByTs(log)

(* Once capture ends, main always gets through the shutdown sequence: the *)
(* workers drain the queue and leave their loop, and main reaches the end. *)
Termination == <>(phase = "done")

=============================================================================
