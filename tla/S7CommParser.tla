---------------------------- MODULE S7CommParser ----------------------------
(***************************************************************************)
(* The job/ack-data correlation of S7CommParser::parse                    *)
(* (src/Parser/src/protocols/S7CommParser.cpp).                           *)
(*                                                                         *)
(* One S7CommParser instance belongs to one worker thread.  Its state is  *)
(* the set of PDU references with a stored job on the single flow         *)
(* modelled (the keys of m_pending_requests[flow_id]); the item list kept *)
(* with a job only shapes the fields of the response record and is left   *)
(* out.  A packet arrives classified by ROSCTR: "req" is a job (0x01),    *)
(* "resp" an ack or ack-data (0x02/0x03), "other" any other ROSCTR.        *)
(***************************************************************************)
EXTENDS Naturals, Sequences

CONSTANTS Refs   \* PDU references used on the flow

NewS7CommParser == {}

(* Is the packet answered from the table?  ROSCTR 2/3 with a stored job.  *)
S7Matched(pend, pkt) == pkt.dir = "resp" /\ pkt.key \in pend

(* Variant: a matched response erases the whole flow's table.            *)
S7ParseEraseFlow(pend, pkt) ==
    IF S7Matched(pend, pkt)
    THEN [parser |-> {}, recs |-> << [reg |-> 0, base |-> 0] >>]
    ELSE IF pkt.dir = "req"
    THEN [parser |-> pend \cup {pkt.key}, recs |-> << [reg |-> 0, base |-> 0] >>]
    ELSE [parser |-> pend, recs |-> << >>]

(* S7CommParser::parse.  A job stores its reference and emits a request   *)
(* record; an ack whose reference is stored emits a response record and   *)
(* erases the entry; anything else returns before building a record.       *)
S7Parse(pend, pkt) ==
    IF S7Matched(pend, pkt)
    THEN [parser |-> pend \ {pkt.key}, recs |-> << [reg |-> 0, base |-> 0] >>]
    ELSE IF pkt.dir = "req"
    THEN [parser |-> pend \cup {pkt.key}, recs |-> << [reg |-> 0, base |-> 0] >>]
    ELSE [parser |-> pend, recs |-> << >>]

=============================================================================
