--------------------------- MODULE MCXgtFenParser ---------------------------
(* Model-checking instance of XgtFenParser.  Names: "%DB12", "%MB7" and   *)
(* "%PB0" (the three areas, an odd and a zero address), "%XB4" (an area  *)
(* the translation rejects), "%DB" (no digits) and "A" (no '%').  Data    *)
(* blocks: empty and one byte.  Encapsulations: plain 20-byte IP and TCP *)
(* headers with no padding, towards port 2004; a 24-byte IP header, a     *)
(* 32-byte TCP header and 6 bytes of Ethernet padding, from port 2004;    *)
(* and UDP under a 28-byte IP header with 3 bytes of padding.  S7:       *)
(* references 42 and 43; items of area 0x84 (DB 1) and 0x83 at byte 16,  *)
(* bit 0 or 3; jobs of read-var or write-var with 0, 1 or 2 items or a    *)
(* setup communication; ack-data with no data item, a success of 16 or 9 *)
(* bits, an error code, or an error then a success; acks and a userdata. *)
(* Exchanges: any two PDUs, or two jobs then an ack or ack-data.          *)
EXTENDS XgtFenParser

MCNames == {<<37, 68, 66, 49, 50>>, <<37, 77, 66, 55>>, <<37, 80, 66, 48>>,
            <<37, 88, 66, 52>>, <<37, 68, 66>>, <<65>>}
MCBlocks == {<< >>, <<171>>}
MCEncapsulations ==
    {[l4 |-> IPProtoTcp, hl |-> 5, off |-> 5, pad |-> 0, sport |-> 49152, dport |-> 2004],
     [l4 |-> IPProtoTcp, hl |-> 6, off |-> 8, pad |-> 6, sport |-> 2004, dport |-> 49152],
     [l4 |-> IPProtoUdp, hl |-> 7, off |-> 5, pad |-> 3, sport |-> 49152, dport |-> 2004]}
MCS7Refs == {42, 43}
MCS7Items == {[tsz |-> 2, amt |-> 1, area |-> a, db |-> 1, byte |-> 16, bit |-> b] :
                a \in {AreaDB, 131}, b \in {0, 3}}
MCS7Jobs ==
    {[ros |-> RosJob, ref |-> r, fn |-> f, items |-> is, data |-> << >>] :
        r \in MCS7Refs, f \in {FnReadVar, FnWriteVar},
        is \in {<< >>} \cup {<< i >> : i \in MCS7Items}
               \cup {<< [tsz |-> 2, amt |-> 1, area |-> 131, db |-> 1, byte |-> 16, bit |-> 0],
                       [tsz |-> 2, amt |-> 1, area |-> AreaDB, db |-> 1, byte |-> 16, bit |-> 0] >>}}
    \cup {[ros |-> RosJob, ref |-> r, fn |-> 240, items |-> << >>, data |-> << >>] : r \in MCS7Refs}
MCS7Answers ==
    {[ros |-> RosAckData, ref |-> r, fn |-> FnReadVar, items |-> << >>, data |-> ds] :
        r \in MCS7Refs,
        ds \in {<< >>, << [rc |-> RcSuccess, bits |-> 16] >>, << [rc |-> RcSuccess, bits |-> 9] >>,
               << [rc |-> 10, bits |-> 0] >>, << [rc |-> 10, bits |-> 0], [rc |-> RcSuccess, bits |-> 16] >>}}
    \cup {[ros |-> RosAck, ref |-> r, fn |-> None, items |-> << >>, data |-> << >>] : r \in MCS7Refs}
MCS7Pdus == MCS7Jobs \cup MCS7Answers
    \cup {[ros |-> RosUserdata, ref |-> 42, fn |-> None, items |-> << >>, data |-> << >>]}
MCS7Exchanges ==
    {<< a, b >> : a, b \in MCS7Pdus} \cup {<< j, k, a >> : j, k \in MCS7Jobs, a \in MCS7Answers}
=============================================================================
