----------------------------- MODULE S7CommFrame -----------------------------
(***************************************************************************)
(* S7CommParser::parse (src/Parser/src/protocols/S7CommParser.cpp) at the *)
(* level of the payload bytes: the S7 header after TPKT and COTP, the     *)
(* parameter walk over the items of a read-var or write-var job, the      *)
(* data walk over the return codes of an ack-data, the pending-request    *)
(* table of one flow, and AssetManager::translateS7Address.               *)
(*                                                                         *)
(* p is the payload the registry hands over (the bytes from the TPKT      *)
(* header on), offsets counted from 0 as in the code.  The table is a     *)
(* function from PDU reference to the item count the job stored (the      *)
(* size of new_req.items; the items themselves are never filled in).  A   *)
(* record column left empty is None; the catalogue description looked up *)
(* for the translated address is left out, as for XGT.                    *)
(***************************************************************************)
EXTENDS Integers, Sequences, SequencesExt, ProtocolRegistry

None == -1

RosJob == 1        \* 0x01
RosAck == 2        \* 0x02
RosAckData == 3    \* 0x03
RosUserdata == 7   \* 0x07
FnReadVar == 4     \* 0x04
FnWriteVar == 5    \* 0x05
AreaDB == 132      \* 0x84
RcSuccess == 255   \* 0xff

S7PduOffset == 7   \* s7_pdu = info.payload + 7

(* The byte at offset o of the S7 PDU.                                     *)
Pdu(p, o) == Octet(p, S7PduOffset + o)
PduU16(p, o) == NtoHs(p, S7PduOffset + o)

(* s7_addr_to_int: the 24-bit big-endian value at o.                       *)
s7_addr_to_int(p, o) == 65536 * Pdu(p, o) + 256 * Pdu(p, o + 1) + Pdu(p, o + 2)

(* translateS7Address(s7_ar, s7_db, s7_addr): "DB<db>,<addr>" when the    *)
(* area column is "132", else "".                                          *)
NoS7Address == [db |-> None, addr |-> None]
translateS7Address(ar, db, addr) == IF ar = AreaDB THEN [db |-> db, addr |-> addr] ELSE NoS7Address

(* A variant sizing the header as 10 bytes whatever the ROSCTR.          *)
S7HeaderSizeAlways10(ros) == 10

(* header_size: 10 bytes for a job or userdata, 12 (with the error class *)
(* and code) otherwise.                                                    *)
S7HeaderSize(ros) == IF ros \in {RosJob, RosUserdata} THEN 10 ELSE 12

(* The first item of the parameter walk at PDU offset it (item 0): the   *)
(* syntax id, transport size, length, area, DB number (area 0x84 only)    *)
(* and the bit address shifted to a byte address, with its translation.  *)
S7ItemColumns(p, it) ==
    LET ar == Pdu(p, it + 8)
        db == IF ar = AreaDB THEN PduU16(p, it + 6) ELSE None
        addr == shiftR(s7_addr_to_int(p, it + 9), 3)
    IN  [syn |-> Pdu(p, it + 2), tsz |-> Pdu(p, it + 3), amt |-> PduU16(p, it + 4),
         ar |-> ar, db |-> db, addr |-> addr, taddr |-> translateS7Address(ar, db, addr)]

NoItemColumns ==
    [syn |-> None, tsz |-> None, amt |-> None, ar |-> None, db |-> None,
     addr |-> None, taddr |-> NoS7Address]

(* The request or response record parse builds; items is the item count  *)
(* of the job req_info_ptr points at.  The parameter walk keeps only item *)
(* 0's columns and stops at an item that does not fit; the data walk only *)
(* item 0's return code and, for 0xff, the read length in bytes (the      *)
(* pointer arithmetic of the later items touches no column).               *)
S7Record(p, dir, items) ==
    LET len == Len(p) - S7PduOffset
        ros == Pdu(p, 1)
        plen == PduU16(p, 6)
        dlen == PduU16(p, 8)
        hs == S7HeaderSize(ros)
        hasParam == plen > 0 /\ len >= hs + plen
        fn == IF hasParam THEN Pdu(p, hs) ELSE None
        walk == hasParam /\ fn \in {FnReadVar, FnWriteVar} /\ plen >= 2
        ic == IF walk THEN Pdu(p, hs + 1) ELSE None
        first == walk /\ ic > 0 /\ hs + 2 + 12 <= hs + plen
        dat == hs + plen
        dwalk == dlen > 0 /\ len >= hs + plen + dlen /\ ros = RosAckData /\ items > 0
        rc == IF dwalk THEN Pdu(p, dat) ELSE None
        rlen == IF dwalk /\ rc = RcSuccess /\ dat + 4 <= dat + dlen
                THEN (PduU16(p, dat + 2) + 7) \div 8 ELSE None
    IN  [dir |-> dir, len |-> len, prid |-> PduU16(p, 4), ros |-> ros, fn |-> fn, ic |-> ic,
         item |-> IF first THEN S7ItemColumns(p, hs + 2) ELSE NoItemColumns,
         rc |-> rc, rlen |-> rlen]

(* The item count a job stores: item_count when its parameter is read-var *)
(* or write-var with at least 2 bytes and fits (checked against a 10-byte *)
(* header), else 0.                                                        *)
S7JobItems(p) ==
    LET plen == PduU16(p, 6)
    IN  IF plen > 0 /\ Len(p) - S7PduOffset >= 10 + plen
           /\ Pdu(p, 10) \in {FnReadVar, FnWriteVar} /\ plen >= 2
        THEN Pdu(p, 11) ELSE 0

(* S7CommParser::parse on the flow's table pend: a PDU shorter than 10    *)
(* bytes is ignored; an ack or ack-data whose reference is stored gives a *)
(* response record and erases the entry; a job stores (or overwrites) its *)
(* entry and gives a request record; anything else returns.               *)
S7ParsePdu(pend, p) ==
    LET ros == Pdu(p, 1)
        ref == PduU16(p, 4)
    IN  IF Len(p) - S7PduOffset < 10 THEN [pend |-> pend, recs |-> << >>]
        ELSE IF ros \in {RosAck, RosAckData} /\ ref \in DOMAIN pend
        THEN [pend |-> Restrict(pend, DOMAIN pend \ {ref}),
              recs |-> << S7Record(p, "response", pend[ref]) >>]
        ELSE IF ros = RosJob
        THEN [pend |-> (ref :> S7JobItems(p)) @@ pend,
              recs |-> << S7Record(p, "request", S7JobItems(p)) >>]
        ELSE [pend |-> pend, recs |-> << >>]

-----------------------------------------------------------------------------
(* Spec 4.G, as an encoder and a reference.  A PDU is given by its        *)
(* ROSCTR, reference, function code (None for none), the items of a job   *)
(* and the data items of an ack-data; an item names its area, DB number,  *)
(* byte address and the bit within it, a data item its return code and    *)
(* read length in bits.                                                    *)

BE(n) == << n \div 256, n % 256 >>
Zeros(n) == [i \in 1..n |-> 0]

(* The bytes a bit count needs: the least n with 8 * n >= bits.           *)
SpecBytes(bits) == CHOOSE n \in 0..bits : 8 * n >= bits /\ (n = 0 \/ 8 * (n - 1) < bits)

S7ItemBytes(i) ==
    LET a == 8 * i.byte + i.bit
    IN  << 18, 10, 16, i.tsz >> \o BE(i.amt) \o BE(i.db) \o << i.area >>
        \o << a \div 65536, (a \div 256) % 256, a % 256 >>
S7DataItemBytes(d) ==
    IF d.rc = RcSuccess THEN << d.rc, 4 >> \o BE(d.bits) \o Zeros(SpecBytes(d.bits))
    ELSE << d.rc, 0, 0, 0 >>
S7Param(m) ==
    CASE m.ros = RosAckData -> << FnReadVar, Len(m.data) >>
      [] m.fn \in {FnReadVar, FnWriteVar} ->
            << m.fn, Len(m.items) >> \o FlattenSeq([k \in DOMAIN m.items |-> S7ItemBytes(m.items[k])])
      [] m.fn = None -> << >>
      [] OTHER -> << m.fn, 0, 0, 1, 0, 1, 1, 224 >>   \* setup communication
S7Data(m) == FlattenSeq([k \in DOMAIN m.data |-> S7DataItemBytes(m.data[k])])
S7Header(m) ==
    << 50, m.ros, 0, 0 >> \o BE(m.ref) \o BE(Len(S7Param(m))) \o BE(Len(S7Data(m)))
    \o (IF m.ros \in {RosAck, RosAckData} THEN << 0, 0 >> ELSE << >>)
S7PduLen(m) == Len(S7Header(m)) + Len(S7Param(m)) + Len(S7Data(m))
(* TPKT (version 3, length), COTP DT (0xf0, last unit) and the S7 PDU.    *)
S7PduBytes(m) ==
    << 3, 0 >> \o BE(7 + S7PduLen(m)) \o << 2, 240, 128 >> \o S7Header(m) \o S7Param(m) \o S7Data(m)

(* The record spec 4.G says a PDU yields, given the item count its job    *)
(* stored (for a response).                                                *)
SpecItem(i) ==
    [syn |-> 16, tsz |-> i.tsz, amt |-> i.amt, ar |-> i.area,
     db |-> IF i.area = AreaDB THEN i.db ELSE None, addr |-> i.byte,
     taddr |-> IF i.area = AreaDB THEN [db |-> i.db, addr |-> i.byte] ELSE NoS7Address]
SpecRequest(m) ==
    LET rw == m.fn \in {FnReadVar, FnWriteVar}
    IN  [dir |-> "request", len |-> S7PduLen(m), prid |-> m.ref, ros |-> m.ros, fn |-> m.fn,
         ic |-> IF rw THEN Len(m.items) ELSE None,
         item |-> IF rw /\ m.items # << >> THEN SpecItem(m.items[1]) ELSE NoItemColumns,
         rc |-> None, rlen |-> None]
SpecResponse(m, items) ==
    LET hasRc == m.ros = RosAckData /\ items > 0 /\ m.data # << >>
    IN  [dir |-> "response", len |-> S7PduLen(m), prid |-> m.ref, ros |-> m.ros,
         fn |-> IF m.ros = RosAckData THEN FnReadVar ELSE None,
         ic |-> IF m.ros = RosAckData THEN Len(m.data) ELSE None,
         item |-> NoItemColumns,
         rc |-> IF hasRc THEN m.data[1].rc ELSE None,
         rlen |-> IF hasRc /\ m.data[1].rc = RcSuccess THEN SpecBytes(m.data[1].bits) ELSE None]

(* Spec 4.G and the pending-request table of section 3, one PDU at a      *)
(* time: a job inserts its item list under its reference and is recorded *)
(* as a request; an ack or ack-data matching a stored job is recorded as  *)
(* its response and consumes the entry; any other PDU is ignored.         *)
SpecS7Step(s, m) ==
    IF m.ros \in {RosAck, RosAckData} /\ m.ref \in DOMAIN s.tbl
    THEN [tbl |-> [r \in DOMAIN s.tbl \ {m.ref} |-> s.tbl[r]],
          recs |-> Append(s.recs, SpecResponse(m, s.tbl[m.ref]))]
    ELSE IF m.ros = RosJob
    THEN [tbl |-> [r \in DOMAIN s.tbl \cup {m.ref} |->
                     IF r = m.ref THEN (IF m.fn \in {FnReadVar, FnWriteVar} THEN Len(m.items) ELSE 0)
                     ELSE s.tbl[r]],
          recs |-> Append(s.recs, SpecRequest(m))]
    ELSE s

EmptyTable == [r \in {} |-> 0]
SpecS7(ms) == FoldLeft(SpecS7Step, [tbl |-> EmptyTable, recs |-> << >>], ms)

====
