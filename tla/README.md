# TLA+ models of the SLiMe packet parser

This directory holds TLA+ models of the industrial-protocol packet parser in
`src/Parser/src`, the TLC configurations that check them, and
`PROJECT.json`, which maps every model definition to the source lines it
translates.

## The system

`main.cpp` opens a pcap file or a live interface. Its capture loop hands each
frame to `PacketParser::parse`, which copies the frame onto a
mutex/condition-variable queue. `m_num_threads` worker threads run
`workerThread`: each waits for a frame or the stop flag, pops the front frame,
and runs `parsePacket` with its own set of protocol parsers. That set is
created per worker by `createParsersForWorker`. Dispatch gives a TCP frame to
the first parser whose `isProtocol` holds, falling back to `tcp_session`; a
UDP frame falls back to `unknown`.

Two parsers keep state between frames:

- `ModbusParser` keeps a table of pending requests, keyed by transaction id
  and function code, with a one-minute sweep of entries older than five
  minutes. It fans a read response out into one record per register, using
  the start address of the matching request.
- `S7CommParser` keeps pending jobs keyed by PDU reference, and erases a job
  when its ack-data arrives.

Every record goes through `BaseProtocolParser::addUnifiedRecord` and takes
one of two paths:

- **File mode:** the record goes to the shared `UnifiedWriter`, which appends
  it under a mutex to the vector of its time slot. `flush` stable-sorts each
  slot by timestamp and writes `<slot>.csv` and `<slot>.jsonl`.
- **Realtime mode:** the record goes to `sendToBackends`, which:
  - looks up asset names in Redis (`RedisCache` over a `RedisConnectionPool`);
  - buffers a bulk action in `ElasticsearchClient`, which a 100 ms flush
    thread and a size threshold send;
  - queues an XADD on the `RedisAsyncWriter`, whose workers send batches of
    up to 50 commands.

Shutdown in `main` runs in this order:

1. pcap closes.
2. `waitForCompletion` waits for the queue to empty.
3. `stopWorkers` sets the flag, notifies every worker and joins them.
4. `generateUnifiedOutput` flushes the writer.
5. `delete g_parser` destroys the writer, whose destructor flushes again if
   anything was added after the previous flush.

## Inventory

| component | state | operations | hard behaviour |
|---|---|---|---|
| packet queue and worker pool (`PacketParser.cpp`) | queue, stop flag, processed counter, one parser set per worker | parse, workerThread, waitForCompletion, stopWorkers | wakeup/exit race, drain before stop |
| main shutdown (`main.cpp`) | position in main | end of capture, wait, stop, output, destroy | order of the shutdown steps |
| `UnifiedWriter` | map from time slot to record vector | addRecord, flush, ~UnifiedWriter | concurrent adds, stable sort, double flush, open failure |
| `ModbusParser` | per flow: key → (start address, time); last sweep time | parse, cleanupOldRequests | per-worker tables, never-erased matches, uint16 wrap |
| `S7CommParser` | per flow: PDU reference → item count | parse | per-worker tables, no sweep, header size by ROSCTR, item walks, reused references |
| `XgtFenParser` | none | parse, parseInstruction | length-field walk, declared length against capture, error responses |
| header decoding (`parsePacket`, `network_headers.h`) | none | parsePacket up to the registry | bitfields, IP-total-length payload size, size_t casts of negative sizes |
| parser registry (`createParsersForWorker`, every `isProtocol`) | none | dispatch | first match in registration order, shared ports, fallbacks |
| stateless parsers | none | parse | byte decoding |
| `ElasticsearchClient` | bulk buffer, connected flag, flush thread | connect, addToBulk, flushBulk, autoFlushLoop, disconnect | network call under the bulk mutex, retries |
| `RedisConnectionPool` | FIFO of idle connections, shutdown flag | acquire (timeout, emergency), release, shutdown | pool growth, shutdown racing acquire |
| `RedisAsyncWriter` | bounded task queue, running flag, counters | enqueue, writerWorker, stop | stop leaving tasks, requeue order, accounting |
| `RedisCache` | pool, async writer | connect, pushToStream, getAssetInfo, disconnect | `isConnected` as a snapshot of idle connections |
| `AssetManager` | IP and tag tables, loaded once | normalizeIp, translate*Address | normalization and address arithmetic |

The properties that make these components correct:

- the same frame gets the same correlation whatever worker it lands on;
- no frame and no record is lost at shutdown;
- the output is in timestamp order, with fan-out order kept;
- the program terminates;
- every XGT instruction is accepted exactly when it is well formed, with
  the right columns and translated address;
- the payload a parser is given is the one the sender wrapped, whatever
  the header options and the Ethernet padding;
- every frame reaches the parser the spec names for it;
- backend accounting: everything enqueued is written, dropped or still
  queued, and the async writer behaves as a bounded drop-on-overflow FIFO;
- the pool never exceeds its size;
- no lock is held across a network call.

## Modules

- `ModbusParser.tla` translates `ModbusParser::parse` and
  `cleanupOldRequests` as operators on one parser instance's state: a
  function from request key to `[addr, t]`, plus the time of the last sweep.
  `ModbusParse(mb, pkt, now)` returns the next state and the records built, in
  emission order. Packets arrive classified: a request with a start address,
  or a response with a register count. A key is the code's
  `(trans_id << 8) | fc`, so `KeyFc` is its low byte. A register record's
  `regs.addr` is the `uint16_t` `start_addr + i` (`% 65536`). It and a
  request's start address are translated with `translateModbusAddress`, the
  `AssetManager.tla` operator with the per-function-code offsets.
- `S7CommParser.tla` translates the job/ack correlation of
  `S7CommParser::parse` as `S7Parse(pend, pkt)`:
  - a job adds its reference;
  - an ack-data with a pending reference emits a response and erases the
    entry;
  - anything else returns with no record.
- `PacketPipeline.tla` composes the main thread, the packet queue, the
  workers (each with its own `modbus[w]` and `s7[w]`), and the writer's
  time slots. The variables map to the code as follows.

  | variable | code |
  |---|---|
  | `queue` | `m_packet_queue` |
  | `stop` | `m_stop_flag` |
  | `processed` | `m_packets_processed` |
  | `sink` | `m_time_slots`, slot -> record vector |
  | `file` | slot -> what the last flush wrote to `<slot>.csv`/`.jsonl` |
  | `phase` | where `main` is |
  | `worker[w]` | whether worker w is waiting (`idle`), has records of a parsed frame still to add (`emit`), or has left its loop (`exited`) |

  A slot is named by the minute its label ends in. Timestamps are
  minutes 1..`MaxTs` of one hour, so the label order is the minute order.
  `TimeSlot` is `getTimeSlot`: `output_all` (`AllSlot`) for interval 0, else
  the minute rounded down to a multiple of `RollInterval`. The branch for a
  timestamp shorter than 19 characters is left out: `format_timestamp`
  always builds 27.
  `captured` and `log` (every record passed to `addRecord`, in call order)
  are history variables. The worker's pop and parse
  form one step (`Dequeue`): the parse touches only the worker's own parser
  state. Each `addRecord` is its own step (`AddRecord`), because that is where
  workers interleave on the writer mutex.
  `Flush` chooses, for each slot, how its `writeTimeSlot` ends: both files written, the CSV not
  opened (old files stay), or the JSONL not opened after `std::ofstream`
  has truncated the CSV to its header. `ioError` records that an error line
  was printed; `flush` clears the slot map in every case.
- `MCPacketPipeline.tla` gives the constants model values. It defines the
  frames a capture can deliver: Modbus requests and responses, S7 jobs and
  acks, other TCP.
- `EsBulkClient.tla` models `ElasticsearchClient`:
  - the producer threads calling `addToBulk`, which flushes inline once the
    buffer reaches the bulk size;
  - the 100 ms `autoFlushLoop` thread and the realtime flush thread of
    `PacketParser` (`rt`);
  - `disconnect` on the main thread: stop, join, final flush, clear.

  A flush is split into the steps where threads interleave: take the bulk
  mutex (`FlushLock`), then take the curl mutex or discard when not
  connected (`Send`), then one step per HTTP attempt (`Http`). An attempt
  succeeds, is lost, or succeeds late after the client gave up, which
  re-sends an indexed batch. `pc[t]`, `batch[t]` and `attempt[t]` are each
  thread's position, its copied buffer and its retry count. `bulkHolder` and
  `curlHolder` are the two mutexes. `indexed`, `failed` and `discarded` are
  what the server and the error paths saw.
- `RedisBackend.tla` models `RedisConnectionPool`, `RedisAsyncWriter` and
  the parts of `RedisCache` used in realtime mode.

  | model | code |
  |---|---|
  | `pool` | `m_pool`, a FIFO of connections `[ok, sel, em]`: the socket works, AUTH/SELECT were sent on it, it was made as an emergency connection |
  | `held[w]` | the connection in writer w's `RedisConnectionGuard`; `{}` is nullptr |
  | `queue` | `m_queue`, as task ids in enqueue order |
  | `batch[w]` | writer w's local batch |
  | `written`, `dropped` | `m_total_written`, `m_total_dropped` |
  | `running`, `shutdown` | `m_running`, `m_shutdown` |
  | `prod` | where the thread in `sendToBackends` is, and how many `getAssetInfo` lookups it has left |
  | `prodHeld` | the connection in `getAssetInfo`'s guard |

  The actions:
  - `SendToBackends`: a worker calls `sendToBackends` directly (in
    realtime mode there is no `UnifiedWriter`, `main.cpp:212-233`,
    `PacketParser.cpp:167-176`). The model has one such producer, which is
    the `num_threads = 1` configuration; with more workers the calls run
    concurrently, but each enqueue and requeue takes the queue mutex.
    `pushToStream`'s two enqueues, each under the mutex on its own, are one
    step in the model. With Elasticsearch
    connected (`EsConnected`) and `isConnected()`, it first looks up both
    assets. Each lookup is `AssetAcquire` (the guard's `acquire(5000)`:
    `PoolLeases` or `TimeoutLeases`, the same as a writer's) and then
    `AssetGet` (GET, then release). `StreamAfterLookups` then checks
    `isConnected()` again and calls `PushToStream`. Without Elasticsearch,
    `SendToBackends` calls `PushToStream` directly: it is skipped unless
    `isConnected()`, and otherwise it enqueues the stream write and the
    counter increment;
  - the writer loop, split at its blocking points: `WriterLoop` (the
    `while (m_running)` test), `WriterTake` (timed wait and batch take),
    `AcquireFromPool` or `AcquireTimeout` (the guard's `acquire(1000)`),
    `WriterProcess` (requeue, or `processBatch`, then `release`);
  - `StopWriter`, `JoinWriters` and `ShutdownPool`: `RedisCache::disconnect`;
  - `BreakConnection`: the server closing an idle connection, an
    environment action. `processBatch` may also lose the rest of a batch's
    replies when its connection breaks mid-pipeline.
  `outcome` is a history variable: how each finished task ended (written,
  failed reply, dropped). `wrongDbLookups` counts asset GETs sent on a
  connection that never got SELECT. With it, `TaskFate` maps the model onto
  `AsyncWriteQueue`.
- `AsyncWriteQueue.tla` is the abstract specification of the async writer
  (spec §4.M, §8): a bounded FIFO of tasks numbered in enqueue order,
  drop-on-overflow, and one-way fates new → queued → sending → written,
  failed or dropped. The one way back is a requeued batch, which returns to
  the tail with the excess dropped. It has no threads, pool or
  connections. `RedisBackend` instantiates it with `queue <- queue`,
  `fate <- TaskFate`, `open <- running`, and `AsyncWriterRefined` (its
  `Spec`) is a property of the `redis_writer` run.
- `XgtFenParser.tla` translates `XgtFenParser::parse` and
  `parseInstruction` on the bytes of one instruction (numbers 0..255,
  offsets from 0 as in the code):
  - `U16` is `read_le<uint16_t>`;
  - `ReadBlocks` is the three length-prefixed block loops;
  - `ParseResponse` and `ParseRequest` are the two halves of the walk, with
    every length check and early return;
  - `ParseInstruction` ends with the `offset == inst_size` check, which
    error responses skip;
  - `XgtParse` takes the first `min(length, payload - 20)` bytes and builds
    the record's columns;
  - `XgtIsProtocol` is admission (TCP or UDP, port 2004, at least 20
    bytes, the magic), and `XgtParseHeader` reads the source and the
    declared length out of the payload.

  Its `Parse` action is the whole path of one captured frame:
  `parsePacket` of `PacketDemux`, `Dispatch` of `ProtocolRegistry`, and
  `parse` when the XGT parser is the one chosen. The frame is an XGT frame
  in one of the `Encapsulations`, sent off every other parser's ports (an
  `ASSUME`), or one of 22 `Probes`. Each probe is built from spec §4.A and
  §4.C-§4.G together with the parser the spec says handles it:
  - Modbus requests and responses;
  - spec scenario 1, a Modbus segment whose length is wrong;
  - a wrong protocol id, a pure ACK with padding, and Modbus over UDP;
  - an S7 job and a COTP connect on port 102;
  - DNP3 on TCP, on UDP, and from port 502;
  - DNS over UDP with 12 and 11 bytes, and DNS over TCP;
  - each port-only parser;
  - ARP, IPv6 and a runt frame.

  Its checking part is an encoder of spec §4.H: every read/write,
  individual/continuous request and response the spec describes, with the
  columns it should yield. The frames TLC tries are those encodings, every
  prefix of them and each with one extra byte, under sources 0x33, 0x11 and
  0, with a declared length one short, exact or one long. `Wire` then wraps
  each frame in the bytes a capture holds: Ethernet II, an IPv4 header,
  a TCP or UDP header and `pad` bytes of Ethernet padding, for every
  `Encapsulations` entry.
- `PacketDemux.tla` translates `parsePacket` up to the registry, with the
  header layouts of `network_headers.h`. A frame is its captured bytes.
  The result is the part of `PacketInfo` the parsers branch on: layer, IP
  protocol, ports, payload start and `payload_size`.
  - `IpHl` and `TcpOff` are the 4-bit fields (`& 15` and `shiftR` of the
    community `Bitwise` module, LSB-first as GCC lays them out).
  - `L4PayloadSize` is the IP total length minus the IP header length.
  - `SizeTLess` is a `static_cast<size_t>(n) < k` test: a negative `n`
    passes it.
  - `Payload` is the `payload_size` bytes a parser reads.
- `S7CommFrame.tla` translates `S7CommParser::parse` at byte level, on
  the payload from the TPKT header on. `S7HeaderSize` is the 10 or 12 byte
  header by ROSCTR. `S7Record` is the record: the parameter walk keeps item
  0's columns (`S7ItemColumns`: area, DB number for area 0x84, the 24-bit
  address shifted by 3, `translateS7Address`), and the data walk keeps the
  first return code and, for 0xff, the read length in bytes. `S7ParsePdu`
  is the table step: a matched ack or ack-data erases its entry, a job
  inserts or overwrites its entry with its item count, anything else is
  ignored. Its checking part encodes spec §4.G PDUs from their fields
  (`S7PduBytes`) and folds the spec's reading of them (`SpecS7`, with
  `FoldLeft`). In `XgtFenParser` the third kind of initial state is an S7
  exchange on one flow, and `Receive` delivers its next PDU through
  `parsePacket`, the registry and S7CommParser, as `Parse` does for a
  single frame (both use `Deliver`).
- `ProtocolRegistry.tla` translates the registry: `AppParsers` is the
  registration order of `createParsersForWorker`, minus the three parsers
  the loops skip. There is one operator per `isProtocol`: Modbus with its
  MBAP checks, S7, XGT, DNP3, DNS, and the Generic port tables. `Dispatch`
  is the two loops of `parsePacket`: `SelectInSeq` finds the first parser
  that claims the frame, else the frame goes to `tcp_session` or `unknown`.
- `AssetManager.tla` translates `translateXgtAddress`:
  - the `%([A-Z]{2})([0-9]+)` match;
  - the DB/MB/PB prefixes;
  - `std::stoi`, whose out_of_range exception is found by comparing digit
    strings with `"2147483647"`;
  - the halving and `std::to_string`.

  `XgtParse` applies it to the primary variable.
- `MCXgtFenParser.tla` picks the names `%DB12`, `%MB7`, `%PB0`, `%XB4`,
  `%DB` and `A` and the data blocks (empty, one byte).
- `MCEsBulkClient.tla` and `MCRedisBackend.tla` give the thread sets model
  values and define the symmetry sets.

## Runs

| run | cfg | expect | shows |
|---|---|---|---|
| correlation_one_worker | `MCPacketPipeline_one.cfg` | pass | one worker: each Modbus register record's base is the latest earlier request's start address, or none after the sweep, and its translated address is spec 4.B's `300001 + start + i` for FC 3 (`ModbusBaseCorrect`); every S7 ack-data following its job is written |
| correlation_two_workers | `MCPacketPipeline_two.cfg` | violation | two workers, Modbus and S7 traffic: a Modbus response takes an **older** request's address, where spec §5 allows correlation only to miss (`CorrelationOnlyMisses`) |
| shutdown | `MCPacketPipeline_shutdown.cfg` | pass | two workers, mixed traffic, a 2-minute rolling interval over minutes 1..3, any file-open failure: every frame is parsed; every added record is in some file unless an open error was printed; each file is sorted with fan-out order kept; the files read in name order are exactly the stable sort of all `addRecord` calls (`RollingOutputIsSortedStream`); main always reaches its end |
| es_bulk | `MCEsBulkClient.cfg` | pass | two producers plus both flush threads, lost and late HTTP answers: no document is lost (each is buffered, in flight, indexed, failed after the last retry, or discarded while disconnected), the final flush of `disconnect` delivers what was buffered, and `disconnect` completes. No index order is claimed: nothing promises one, and the order documents reach the index in today only comes from the bulk lock being held across the HTTP call (see the lock finding) |
| es_bulk_lock | `MCEsBulkClient_lock.cfg` | violation | the HTTP request runs while `m_bulk_mutex` is held |
| redis_writer | `MCRedisBackend.cfg` | pass | two writers, a pool of one or two connections the server may break, two records each looked up twice before their push: every enqueued task is dropped, queued, in a batch, written, or has a failed reply; `disconnect` completes; and the writer refines `AsyncWriteQueue` (`AsyncWriterRefined`) |
| redis_accounting | `MCRedisBackend_accounting.cfg` | violation | written + dropped + queued = enqueued (spec §8) breaks once a pipelined reply fails |
| redis_drain | `MCRedisBackend_drain.cfg` | violation | `stop()` can join the writers with tasks still queued |
| redis_pool | `MCRedisBackend_pool.cfg` | violation | the pool grows past `pool_size` |
| redis_db | `MCRedisBackend_db.cfg` | violation | tasks and asset lookups are sent on connections that never received AUTH or SELECT; the shortest trace is a lookup on a connection recreated after the server closed it |
| xgt_walk | `MCXgtFenParser.cfg` | pass | `parseInstruction` accepts exactly the instructions spec §4.H describes (an error response, any non-zero errorStatus, ends the walk), the record's columns are that instruction's, and the translated address is spec §4.B's translation of the primary variable. `PayloadDelivered`: in every encapsulation (TCP and UDP) `parsePacket` hands `XgtFenParser` exactly the payload the sender wrapped, so IP and TCP options are skipped and padding is never payload (spec §4.A) . `RegistryAsSpecified`: every probe frame reaches the parser spec §4.A and §4.C-§4.G name, through each admission test, the registration order and the fallbacks. `S7CorrelationAsSpecified`: after every prefix of an S7 exchange, the records and the pending table are those of spec §4.G read PDU by PDU (scenario 5 among them: a job for DB 1 byte 16 then an ack-data with 16 bits gives `s7.rc=255`, `s7.len=2` and an empty table) |
| xgt_blkcnt | `MCXgtFenParser_blkcnt.cfg` | violation | a continuous read response records `xgt_blkcnt` 0 while its block count field is 1 |

**Bounds.**

- The correlation runs capture up to 4 frames, drawn from two Modbus
  requests with one transaction id and different start addresses, a
  two-register response, and S7 jobs and acks. The key is 259, which is
  transaction id 1 with FC 3, the function code of spec scenario 2.
  Start addresses are 1 and 2, so `start + i` never passes 65535. With a
  request at 65535, `ModbusBaseCorrect` fails: the second register is
  translated to `300001`, where the spec's `300001 + k` gives `365537`.
  Only a device that breaks Modbus's `start + quantity <= 65536` sends that
  response, so the runs leave it out; the hazard list records it.
- The clock reaches 2 minutes, with a sweep interval of 1 and a maximum age
  of 1. So a request can be swept before its response arrives, and a second
  request can overwrite the first.
- Two S7 references let one ack erase the wrong entry.
- The S7 exchanges are any two of 39 PDUs, or two jobs then an answer, on
  the two TCP encapsulations. The PDUs use references 42 and 43; jobs are
  read-var or write-var with 0, 1 or 2 items, or setup communication; items
  are in area 0x84 or 0x83 at byte 16, bit 0 or 3; ack-data carry no item,
  a success of 16 or 9 bits, an error, or an error then a success; there
  are acks and a userdata. That reaches a reused reference, an answer with
  no job, an answer to a job without items, and both header sizes. A
  one-item job's parameter is exactly 14 bytes, the bound of the item walk.
- The shutdown run mixes every kind of frame the dispatcher tells apart,
  with two packets and timestamps 1..3, so equal timestamps and reordering
  both occur. With a rolling interval of 2, minute 1 is slot 0 and minutes
  2 and 3 share slot 2. So there are several files, and a file can hold
  different timestamps. Two packets are enough for each of its mutants: a
  lost record, an unstable sort, a worker leaving early and a slot computed
  with `%` all show with two. The correlation runs use interval 0 (the
  default of `ROLLING_INTERVAL`), the `output_all` branch.
- The one-worker correlation run uses one timestamp: its properties do not
  depend on timestamps. The timestamp matters only to the sort, which the
  shutdown runs check.
- `es_bulk` uses:
  - bulk size 2, so one producer's second document flushes inline and
    another thread's flush can race it;
  - four documents;
  - three HTTP attempts, the code's `max_retries`, so the give-up path is
    reached.
- `redis_writer` uses:
  - a queue of 3 and batches of up to 2, so a requeued batch can overflow a
    queue refilled meanwhile;
  - two records of two tasks each (the stream write and its counter), each
    preceded by two asset lookups. That is four tasks for a queue of 3, so
    enqueue can overflow. Three records with lookups reach 2.5 million
    states, and the liveness check then takes more than 5 minutes;
  - a pool of 1 or 2 connections;
  - one server break, enough to exercise recreation and partial replies.

  The Redis violation runs use a pool of 1, a queue of 2 and batches of 1,
  with the lookups on.
- `xgt_walk` allows up to 2 blocks (names or data) per instruction, so
  the loops run zero, one and two times. The names cover each area, an odd
  and a zero address, a rejected area, a name without digits and one
  without `%`. Every instruction is also tried cut short at each byte and
  with one byte too many. That gives 26,898 frames. Each is sent in two
  encapsulations:
  - 20-byte IP and TCP headers, no padding, towards port 2004;
  - a 24-byte IP header, a 32-byte TCP header and 6 bytes of padding,
    from port 2004.
  - UDP (which `isProtocol` also accepts) under a 28-byte IP header, with
    3 bytes of padding.

  The second one moves every offset. A declared length one long then
  reaches into the padding if the payload is sized from the capture.
  That gives 80,694 initial states, the probes add 66 more and the S7
  exchanges 19,266; the run reaches 235,542 states in about a minute.

**Symmetry.** Worker symmetry is used only in the safety runs.

**Deadlock.** Deadlock checking is off: the program ends once `main` is
done, and `Termination` states that it gets there.

**Fairness.** Weak fairness is assumed for `main`'s shutdown steps and for
each worker. They are OS threads that run whenever they can: the waits are
condition-variable waits with `notify_one` on push and `notify_all` on stop,
plus a 100 ms polling loop in `waitForCompletion`. Capture and the clock are
the environment and get no fairness.

In `EsBulkClient`:
- the flush threads and `main` are weakly fair;
- a producer is weakly fair only on finishing a send it started, since it is
  a worker that may stop producing at any time;
- HTTP outcomes are nondeterministic, and each attempt is bounded by the
  curl timeout.

In `RedisBackend`:
- each writer and the disconnect sequence are weakly fair: the writer's
  waits are `wait_for` with 100 ms and `wait_until` with 1000 ms, so they
  never block forever;
- a `sendToBackends` call, once started, is weakly fair (it is straight-line
  code on a worker thread, and `acquire` always returns);
- pushes and server breaks are the environment and get no fairness.

## Findings

- **Modbus correlation, several workers** (`ModbusParser.cpp:114`). Every
  worker has its own parsers, so the request tables are per worker. Matched
  entries are never erased, so a worker may hold an older request with the
  same transaction id, and the base address is then wrong, not only
  missing. Spec §5 (ordering guarantees) says spreading a flow over workers
  costs at most a missing base-address annotation (`CorrelationOnlyMisses`).
  An S7 ack-data whose job went to another worker is not written at all.
  Spec §4.G says an unmatched ack is ignored, but §7 says every decoded
  frame yields a record, so the project claims no property about it.
- **XGT block count** (`XgtFenParser.cpp:140`). The continuous read
  response branch never sets `blockCount`, so `xgt_blkcnt` is 0. Spec
  scenario 3 expects 1 for exactly such a frame, and the other response
  branches copy `errorInfoOrBlockCount`.
- **Elasticsearch lock discipline** (`ElasticsearchClient.cpp:231`).
  `addToBulk`, `flushBulk` and `autoFlushLoop` call `flushBulkInternal`
  inside the scope of the bulk mutex, so every HTTP request, retries and
  backoff included, blocks all record producers. The comment and spec
  §4.K/§9 say the buffer is swapped out and sent without the lock.
- **Redis accounting** (`RedisAsyncWriter.h:206`). Failed replies are
  counted nowhere, so spec §8's identity breaks for good after the first
  failed reply. `NoTaskLost`, with failed replies added, holds.
- **Redis stop** (`RedisAsyncWriter.h:170`). `stop()` does not flush:
  - a writer that returns to `while (m_running)` after stop exits with tasks
    still queued;
  - `disconnect` then shuts the pool down and the tasks are lost.

  Spec §5 says stopping the writer flushes pending batches.
- **Redis pool size** (`RedisConnectionPool.h:109`). An emergency connection
  is released into the FIFO like any other, so the pool grows past
  `pool_size`. Spec §4.L describes it as short-lived.
- **Redis AUTH/SELECT** (`RedisCache.cpp:37`). Only the connection
  `connect()` tests gets AUTH and SELECT. With a password or a non-zero db
  configured, writes go out unauthenticated or to db 0, and `getAssetInfo`
  reads its asset from db 0.

## Plan

Done, in order of importance:

1. Worker pool, shutdown and writer.
2. Modbus and S7 correlation.
3. `EsBulkClient`: bulk buffer, flush threads, retries, disconnect.
4. `RedisBackend`: pool, async writer, `pushToStream`, disconnect.

5. `XgtFenParser` with its address translation.
6. The file-open failure path of `writeTimeSlot`.
7. `AsyncWriteQueue` and the refinement of the async writer.
8. Time slots with a non-zero rolling interval (`getTimeSlot`), one file per
   slot.
9. The Modbus translation and the 16-bit register address.
10. `getAssetInfo` from `sendToBackends` on leased connections.
11. The Ethernet/IPv4/TCP header decoding of `parsePacket` (`PacketDemux`),
    composed with `XgtFenParser`.
12. The parser registry with every `isProtocol` (`ProtocolRegistry`),
    checked on spec probe frames.
13. `S7CommParser::parse` at byte level with `translateS7Address`
    (`S7CommFrame`), checked on S7 exchanges.

Next:

- the records of the length-only parsers (`GenericParser`, `tcp_session`,
  `unknown`), for frames whose `payload_size` is negative.

## Not modelled

- pcap and curl/hiredis I/O, beyond the outcomes of a call;
- `publishAlert`, `cacheAssetInfo`, `incrementCounter`, `getCounter` and
  `createProtocolStreams`: nothing in the program calls them. The asset-cache
  task kind is left out for the same reason. Neither is the Elasticsearch half
  of `sendToBackends` (document building and `addToBulk`, which
  `EsBulkClient` models);
- CSV and JSON formatting;
- command-line parsing;
- `TimeBasedCsvWriter`, which no other file references;
- the XGT header fields other than source and length, which are copied
  verbatim, and the description lookup;
- the AssetManager CSV loaders (file I/O once at startup, including
  `normalizeIp` and `isValidIp`) and its lookups;
- the S7 data walk past item 0: it only moves a local pointer, and no
  column depends on it;
- frames whose IP total length is below the header length (negative
  `payload_size`) or beyond the captured bytes: `parsePacket` decodes
  them, but no run sends them. A negative size only reaches the parsers
  that print it, and a read past the capture is of memory the model does
  not have;
- the signal path of `main`: once `signalHandler` clears `g_running`,
  `packetCallback` drops every frame and the live loop ends, which is the
  capture ending at that frame. `EndCapture` may happen after any frame,
  so the runs already cover it, and a `g_running` variable would add no
  reachable behaviour;
- the standalone test programs.
