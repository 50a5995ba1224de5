---------------------------- MODULE ModbusParser ----------------------------
(***************************************************************************)
(* The request/response correlation of ModbusParser::parse                *)
(* (src/Parser/src/protocols/ModbusParser.cpp, ModbusParser.h).           *)
(*                                                                         *)
(* One ModbusParser instance belongs to one worker thread.  Its state is  *)
(* the pending-request table of the single flow modelled                   *)
(* (m_pending_requests[flow_key]) and m_last_cleanup.  A table entry maps *)
(* a request key ((trans_id << 8) | fc, an element of Keys) to the        *)
(* request's start address and creation time.                             *)
(*                                                                         *)
(* The byte-level decoding (MBAP admission, field extraction) is not part *)
(* of this module: a packet arrives here already classified as a request  *)
(* with a start address, or a response with a number of registers.       *)
(* Time is the steady clock in whole minutes.                             *)
(***************************************************************************)
EXTENDS Naturals, Sequences, Functions, TLC, AssetManager

CONSTANTS
    Keys,             \* request keys (trans_id, fc) seen on the flow
    Addrs,            \* start addresses carried by requests (all > 0)
    MaxRegs,          \* largest register count of a read response
    CleanupInterval,  \* minutes between sweeps (code: 60 s = 1 minute)
    RequestMaxAge     \* an entry older than this many minutes is swept (code: 5)

ASSUME Addrs \subseteq 1..65535 /\ Keys \subseteq 0..(65535 * 256 + 255)
ASSUME CleanupInterval \in Nat \ {0} /\ RequestMaxAge \in Nat

(* A pending-request entry: ModbusRequestInfo.start_address and .timestamp *)
Entry(now) == [addr : Addrs, t : 0..now]

(* Parser state: the table is a function whose domain is the set of keys  *)
(* with a stored request.                                                  *)
NewModbusParser == [pending |-> [k \in {} |-> 0], lastCleanup |-> 0]

(* cleanupOldRequests(): at most once per CleanupInterval, erase every    *)
(* entry whose age in whole minutes exceeds RequestMaxAge.                 *)
CleanupOldRequests(mb, now) ==
    IF now - mb.lastCleanup < CleanupInterval
    THEN mb
    ELSE [pending     |-> RestrictDomain(mb.pending,
                            LAMBDA k : ~(now - mb.pending[k].t > RequestMaxAge)),
          lastCleanup |-> now]

(* Base address recovered for a response: the matching request's start    *)
(* address, or 0 when there is none (req_info_ptr == nullptr).            *)
ResponseBase(mb, key) ==
    IF key \in DOMAIN mb.pending THEN mb.pending[key].addr ELSE 0

(* The function code, the low byte of the request key.                    *)
KeyFc(key) == key % 256

(* The records emitted for one Modbus packet, in emission order.  A read  *)
(* response with registers fans out one record per register (reg = i);   *)
(* its regs.addr is the uint16_t start_addr + i - 1 and is translated.    *)
(* A request carries its start address in modbus.addr, which is           *)
(* translated; any other packet has no address and an empty translation. *)
ModbusRecords(mb, pkt) ==
    LET fc == KeyFc(pkt.key)
        base == ResponseBase(mb, pkt.key)
    IN  IF pkt.dir = "resp" /\ pkt.nregs > 0
        THEN [i \in 1..pkt.nregs |->
                [reg |-> i, base |-> base,
                 taddr |-> translateModbusAddress(fc, (base + i - 1) % 65536)]]
        ELSE << [reg |-> 0, base |-> 0,
                 taddr |-> IF pkt.dir = "req" THEN translateModbusAddress(fc, pkt.addr)
                           ELSE << >>] >>

(* Variant: emplace, which keeps the first request stored under a key.   *)
StoreRequestKeepFirst(mb, pkt, now) ==
    IF pkt.dir = "req"
    THEN [mb EXCEPT !.pending = @ @@ (pkt.key :> [addr |-> pkt.addr, t |-> now])]
    ELSE mb

(* A request stores (or overwrites) its entry; a response leaves the table *)
(* as it is: a matched entry is never erased.                              *)
StoreRequest(mb, pkt, now) ==
    IF pkt.dir = "req"
    THEN [mb EXCEPT !.pending = (pkt.key :> [addr |-> pkt.addr, t |-> now]) @@ @]
    ELSE mb

(* ModbusParser::parse: sweep, look up or store, then build the records.  *)
(* The result is the parser's next state and the records to add.          *)
ModbusParse(mb, pkt, now) ==
    LET swept == CleanupOldRequests(mb, now)
    IN  [parser |-> StoreRequest(swept, pkt, now),
         recs   |-> ModbusRecords(swept, pkt)]

=============================================================================
