---------------------------- MODULE XgtFenParser ----------------------------
(***************************************************************************)
(* XgtFenParser (src/Parser/src/protocols/XgtFenParser.cpp): the walk     *)
(* over the instruction of an XGT FEnet frame and the record parse()      *)
(* builds from it.                                                         *)
(*                                                                         *)
(* A frame is admitted by isProtocol (port 2004, "LSIS-XGT" magic, at     *)
(* least 20 bytes), so parseHeader always succeeds; what matters of the   *)
(* header is sourceOfFrame (src) and the declared length (hlen).  The     *)
(* instruction is its bytes, numbers in 0..255, offsets counted from 0 as *)
(* in the code.  Names are the ASCII codes of their characters.            *)
(***************************************************************************)
EXTENDS Integers, Sequences, SequencesExt, AssetManager, ProtocolRegistry, S7CommFrame

(* sourceOfFrame, command and dataType values the parser tests.           *)
SrcRequest == 51   \* 0x33
SrcResponse == 17  \* 0x11
CmdReadReq == 84   \* 0x0054
CmdReadResp == 85  \* 0x0055
CmdWriteReq == 88  \* 0x0058
CmdWriteResp == 89 \* 0x0059
DtypeContinuous == 20 \* 0x0014

(* A variant reading the field as read_le<int16_t>, sign-extended.      *)
U16Signed(buf, o) ==
    LET v == buf[o + 1] + 256 * buf[o + 2] IN IF v >= 32768 THEN v - 65536 ELSE v

(* read_le<uint16_t>(p + o).                                               *)
U16(buf, o) == buf[o + 1] + 256 * buf[o + 2]

(* The instruction struct, value-initialised (XgtFenInstruction = {}).    *)
EmptyInstruction ==
    [command |-> 0, dataType |-> 0, blockCount |-> 0, errorStatus |-> 0,
     errorInfoOrBlockCount |-> 0, dataSize |-> 0, variables |-> << >>,
     variableName |-> << >>, readData |-> << >>, writeData |-> << >>,
     continuousReadData |-> << >>]

(* How parseInstruction ends: returning true or false right away, or     *)
(* reaching the final offset check with the offset it walked to.          *)
Return(ok, ins) == [status |-> IF ok THEN "true" ELSE "false", off |-> 0, ins |-> ins]
Walked(off, ins) == [status |-> "walked", off |-> off, ins |-> ins]

(* The three block loops: n times a 2-byte length and that many bytes,   *)
(* each loop giving up as soon as a length or its bytes do not fit.       *)
RECURSIVE ReadBlocks(_, _, _, _)
ReadBlocks(buf, off, n, acc) ==
    IF n = 0 THEN [ok |-> TRUE, off |-> off, items |-> acc]
    ELSE IF Len(buf) < off + 2 THEN [ok |-> FALSE, off |-> off, items |-> acc]
    ELSE LET l == U16(buf, off) IN
         IF Len(buf) < off + 2 + l THEN [ok |-> FALSE, off |-> off + 2, items |-> acc]
         ELSE ReadBlocks(buf, off + 2 + l, n - 1,
                         Append(acc, SubSeq(buf, off + 3, off + 2 + l)))

(* The response part, from the errorStatus field at offset 6.            *)
ParseResponse(buf, isRead, cont, ins0) ==
    IF Len(buf) < 8 THEN Return(FALSE, ins0) ELSE
    LET ins1 == [ins0 EXCEPT !.errorStatus = U16(buf, 6)] IN
    IF Len(buf) < 10 THEN Return(FALSE, ins1) ELSE
    LET ei == U16(buf, 8)
        ins2 == [ins1 EXCEPT !.errorInfoOrBlockCount = ei]
    IN
    IF ins2.errorStatus # 0 THEN Return(TRUE, ins2)
    ELSE IF isRead /\ cont
    THEN IF Len(buf) < 12 THEN Return(FALSE, ins2) ELSE
         LET ds == U16(buf, 10)
             ins3 == [ins2 EXCEPT !.dataSize = ds]
         IN  IF Len(buf) < 12 + ds THEN Return(FALSE, ins3)
             ELSE Walked(12 + ds, [ins3 EXCEPT !.continuousReadData = SubSeq(buf, 13, 12 + ds)])
    ELSE IF isRead
    THEN LET r == ReadBlocks(buf, 10, ei, << >>)
             ins3 == [ins2 EXCEPT !.blockCount = ei, !.readData = r.items]
         IN  IF r.ok THEN Walked(r.off, ins3) ELSE Return(FALSE, ins3)
    ELSE Walked(10, [ins2 EXCEPT !.blockCount = ei])

(* The request part, from the blockCount field at offset 6.  The check   *)
(* that a continuous variable names a byte area only prints a warning.    *)
ParseRequest(buf, isWrite, cont, ins0) ==
    IF Len(buf) < 8 THEN Return(FALSE, ins0) ELSE
    LET bc == U16(buf, 6)
        ins1 == [ins0 EXCEPT !.blockCount = bc]
    IN
    IF cont
    THEN IF bc # 1 \/ Len(buf) < 10 THEN Return(FALSE, ins1) ELSE
         LET vl == U16(buf, 8) IN
         IF Len(buf) < 10 + vl THEN Return(FALSE, ins1) ELSE
         LET ins2 == [ins1 EXCEPT !.variableName = SubSeq(buf, 11, 10 + vl)] IN
         IF Len(buf) < 12 + vl THEN Return(FALSE, ins2) ELSE
         LET ds == U16(buf, 10 + vl)
             ins3 == [ins2 EXCEPT !.dataSize = ds]
         IN  IF ~isWrite THEN Walked(12 + vl, ins3)
             ELSE IF Len(buf) < 12 + vl + ds THEN Return(FALSE, ins3)
             ELSE Walked(12 + vl + ds,
                         [ins3 EXCEPT !.continuousReadData = SubSeq(buf, 13 + vl, 12 + vl + ds)])
    ELSE LET names == ReadBlocks(buf, 8, bc, << >>)
             ins2 == [ins1 EXCEPT !.variables = names.items]
         IN  IF ~names.ok THEN Return(FALSE, ins2)
             ELSE IF ~isWrite THEN Walked(names.off, ins2)
             ELSE LET data == ReadBlocks(buf, names.off, bc, << >>)
                      ins3 == [ins2 EXCEPT !.writeData = data.items]
                  IN  IF data.ok THEN Walked(data.off, ins3) ELSE Return(FALSE, ins3)

(* A variant that accepts a walk without comparing the offset it reached *)
(* with the instruction size.                                              *)
ParseInstructionNoSizeCheck(buf, src) ==
    IF Len(buf) < 4 THEN [ok |-> FALSE, ins |-> EmptyInstruction] ELSE
    LET cmd == U16(buf, 0)
        ins == [EmptyInstruction EXCEPT !.command = cmd, !.dataType = U16(buf, 2)]
        cont == ins.dataType = DtypeContinuous
        isRead == cmd \in {CmdReadReq, CmdReadResp}
        isWrite == cmd \in {CmdWriteReq, CmdWriteResp}
        r == IF (~isRead /\ ~isWrite) \/ Len(buf) < 6 THEN Return(FALSE, ins)
             ELSE IF src = SrcResponse THEN ParseResponse(buf, isRead, cont, ins)
             ELSE IF src = SrcRequest THEN ParseRequest(buf, isWrite, cont, ins)
             ELSE Return(FALSE, ins)
    IN  [ok |-> r.status # "false", ins |-> r.ins]

(* parseInstruction: command and dataType, the reserved field, the       *)
(* request or response part, then the consumed offset must equal the     *)
(* instruction size.  Result: [ok, ins].                                   *)
ParseInstruction(buf, src) ==
    IF Len(buf) < 4 THEN [ok |-> FALSE, ins |-> EmptyInstruction] ELSE
    LET cmd == U16(buf, 0)
        ins == [EmptyInstruction EXCEPT !.command = cmd, !.dataType = U16(buf, 2)]
        cont == ins.dataType = DtypeContinuous
        isRead == cmd \in {CmdReadReq, CmdReadResp}
        isWrite == cmd \in {CmdWriteReq, CmdWriteResp}
        r == IF (~isRead /\ ~isWrite) \/ Len(buf) < 6 THEN Return(FALSE, ins)
             ELSE IF src = SrcResponse THEN ParseResponse(buf, isRead, cont, ins)
             ELSE IF src = SrcRequest THEN ParseRequest(buf, isWrite, cont, ins)
             ELSE Return(FALSE, ins)
    IN  [ok |-> IF r.status = "walked" THEN r.off = Len(buf) ELSE r.status = "true",
         ins |-> r.ins]

(* The xgt_data column: hex of the continuous data, else of the first    *)
(* read or write block with "...(n items)" when there are more; hex       *)
(* encoding is one-to-one, so the bytes stand for it.                      *)
DataColumn(ins) ==
    IF ins.continuousReadData # << >> THEN [hex |-> ins.continuousReadData, items |-> 0]
    ELSE IF ins.readData # << >>
    THEN [hex |-> ins.readData[1], items |-> IF Len(ins.readData) > 1 THEN Len(ins.readData) ELSE 0]
    ELSE IF ins.writeData # << >>
    THEN [hex |-> ins.writeData[1], items |-> IF Len(ins.writeData) > 1 THEN Len(ins.writeData) ELSE 0]
    ELSE [hex |-> << >>, items |-> 0]

(* The xgt_vars column: the continuous variable, else the list joined    *)
(* with ';' (59).                                                          *)
RECURSIVE JoinVars(_)
JoinVars(vs) ==
    IF vs = << >> THEN << >>
    ELSE IF Len(vs) = 1 THEN vs[1]
    ELSE vs[1] \o << 59 >> \o JoinVars(Tail(vs))

VarsColumn(ins) ==
    IF ins.variableName # << >> THEN ins.variableName ELSE JoinVars(ins.variables)

(* The primary variable: the continuous variable, else the first of the *)
(* list.                                                                   *)
PrimaryVarName(ins) ==
    IF ins.variableName # << >> THEN ins.variableName
    ELSE IF ins.variables # << >> THEN ins.variables[1] ELSE << >>

Direction(src) ==
    IF src = SrcRequest THEN "request" ELSE IF src = SrcResponse THEN "response" ELSE "unknown"

(* XgtFenParser::parse: the instruction is the first min(length, payload *)
(* - 20) bytes after the header.  The record always carries the header    *)
(* fields; the instruction columns (a set holding one record, or empty)   *)
(* are written only when the walk succeeded, datasize only when non-zero  *)
(* (0 stands for the empty column), and the primary variable's translated *)
(* address (the catalogue's description of it is a lookup left out).      *)
XgtParse(frame) ==
    LET size == IF frame.hlen < Len(frame.inst) THEN frame.hlen ELSE Len(frame.inst)
        p == ParseInstruction(SubSeq(frame.inst, 1, size), frame.src)
    IN  [dir |-> Direction(frame.src), len |-> frame.hlen,
         xgt |-> IF p.ok
                 THEN {[cmd |-> p.ins.command, dtype |-> p.ins.dataType,
                        blkcnt |-> p.ins.blockCount, errstat |-> p.ins.errorStatus,
                        errinfo |-> p.ins.errorInfoOrBlockCount, datasize |-> p.ins.dataSize,
                        vars |-> VarsColumn(p.ins), data |-> DataColumn(p.ins),
                        taddr |-> IF PrimaryVarName(p.ins) = << >> THEN << >>
                                  ELSE translateXgtAddress(PrimaryVarName(p.ins))]}
                 ELSE {}]

(* parseHeader on an admitted payload: parse uses sourceOfFrame (byte 13) *)
(* and length (bytes 16-17, little-endian); the instruction bytes are     *)
(* those after the 20-byte header, up to payload_size.                     *)
XgtParseHeader(p) == [src |-> Octet(p, 13), hlen |-> U16(p, 16), inst |-> SubSeq(p, 21, Len(p))]

-----------------------------------------------------------------------------
(* Checking the walk: one captured frame goes through parsePacket, the    *)
(* registry and, when it claims the frame, XgtFenParser::parse.  The      *)
(* frame carries an XGT payload, or is one of the probe frames of the     *)
(* other protocols.                                                        *)

CONSTANTS
    Names,          \* variable names, as ASCII codes
    Blocks,         \* data blocks
    MaxBlocks,      \* bound on blockCount
    MaxAddress,     \* bound on the addresses the translation reference lists
    Encapsulations, \* transport, IP and TCP header lengths (in words), ports, padding
    S7Exchanges     \* sequences of S7 PDUs sent on one flow to and from port 102

(* XGT frames are sent off the ports of the other parsers, which claim on *)
(* their ports.                                                            *)
ASSUME \A w \in Encapsulations :
    /\ w.l4 \in {IPProtoTcp, IPProtoUdp}
    /\ w.hl \in 5..15 /\ w.off \in 5..15 /\ w.pad \in Nat
    /\ {w.sport, w.dport} \cap {502, 102, 20000, 53, 67, 68, 44818, 2404, 4840, 47808} = {}

VARIABLES
    frame,    \* the XGT frame sent
    wrap,     \* its encapsulation
    probe,    \* or the probe frame sent instead (NoProbe when an XGT frame is)
    out,      \* the XGT records parse adds
    handler,  \* the parser the registry hands the frame to ("none" before)
    exchange, \* or the S7 PDUs sent on one flow (<< >> when not)
    sent,     \* how many of them have been captured
    pending,  \* S7CommParser's m_pending_requests for the flow
    s7out     \* the S7 records parse adds

vars == <<frame, wrap, probe, out, handler, exchange, sent, pending, s7out>>

(* Spec 4.H, as an encoder: the instructions the spec describes, each     *)
(* with the record columns it should yield.                                *)
LE(n) == << n % 256, n \div 256 >>
LP(s) == LE(Len(s)) \o s
Seqs(S) == UNION {[1..n -> S] : n \in 0..MaxBlocks}
ReadCmds == {CmdReadReq, CmdReadResp}
WriteCmds == {CmdWriteReq, CmdWriteResp}
Dtypes == {2, DtypeContinuous}
Cols(cmd, dt, es, ei, ds, names, blocks) ==
    [cmd |-> cmd, dtype |-> dt, errstat |-> es, errinfo |-> ei, datasize |-> ds,
     vars |-> JoinVars(names), primary |-> IF names = << >> THEN << >> ELSE names[1],
     blocks |-> blocks]
Head6(cmd, dt) == LE(cmd) \o LE(dt) \o LE(0)

ErrorResponses ==
    {Head6(c, d) \o LE(65535) \o LE(ei) : c \in ReadCmds \cup WriteCmds, d \in Dtypes, ei \in 0..MaxBlocks}

(* Any response whose errorStatus is not 0 is an error response; the      *)
(* walk stops after its errorInfo field.                                   *)
ErrorResponse(buf) ==
    IF Len(buf) >= 10 /\ U16(buf, 0) \in ReadCmds \cup WriteCmds /\ U16(buf, 6) # 0
    THEN {[bytes |-> SubSeq(buf, 1, 10), error |-> TRUE,
           cols |-> Cols(U16(buf, 0), U16(buf, 2), U16(buf, 6), U16(buf, 8), 0, << >>, << >>)]}
    ELSE {}

RefResponses ==
    {[bytes |-> Head6(c, DtypeContinuous) \o LE(0) \o LE(ei) \o LP(b), error |-> FALSE,
           cols |-> Cols(c, DtypeContinuous, 0, ei, Len(b), << >>, IF b = << >> THEN << >> ELSE << b >>)] :
             c \in ReadCmds, ei \in 0..MaxBlocks, b \in Blocks}
    \cup {[bytes |-> Head6(c, 2) \o LE(0) \o LE(Len(bs)) \o FlattenSeq([i \in DOMAIN bs |-> LP(bs[i])]),
           error |-> FALSE, cols |-> Cols(c, 2, 0, Len(bs), 0, << >>, bs)] :
             c \in ReadCmds, bs \in Seqs(Blocks)}
    \cup {[bytes |-> Head6(c, d) \o LE(0) \o LE(ei), error |-> FALSE,
           cols |-> Cols(c, d, 0, ei, 0, << >>, << >>)] :
             c \in WriteCmds, d \in Dtypes, ei \in 0..MaxBlocks}

RefRequests ==
    {[bytes |-> Head6(c, DtypeContinuous) \o LE(1) \o LP(n) \o LE(ds), error |-> FALSE,
      cols |-> Cols(c, DtypeContinuous, 0, 0, ds, << n >>, << >>)] :
        c \in ReadCmds, n \in Names, ds \in 0..1}
    \cup {[bytes |-> Head6(c, DtypeContinuous) \o LE(1) \o LP(n) \o LP(b), error |-> FALSE,
           cols |-> Cols(c, DtypeContinuous, 0, 0, Len(b), << n >>, IF b = << >> THEN << >> ELSE << b >>)] :
             c \in WriteCmds, n \in Names, b \in Blocks}
    \cup {[bytes |-> Head6(c, 2) \o LE(Len(ns)) \o FlattenSeq([i \in DOMAIN ns |-> LP(ns[i])]),
           error |-> FALSE, cols |-> Cols(c, 2, 0, 0, 0, ns, << >>)] :
             c \in ReadCmds, ns \in Seqs(Names)}
    \cup UNION {{[bytes |-> Head6(c, 2) \o LE(Len(ns)) \o FlattenSeq([i \in DOMAIN ns |-> LP(ns[i])])
                             \o FlattenSeq([i \in DOMAIN ns |-> LP(bs[i])]),
                  error |-> FALSE, cols |-> Cols(c, 2, 0, 0, 0, ns, bs)] :
                    bs \in [DOMAIN ns -> Blocks]} :
                 c \in WriteCmds, ns \in Seqs(Names)}

Reference(src) ==
    IF src = SrcResponse THEN RefResponses ELSE IF src = SrcRequest THEN RefRequests ELSE {}

(* The frames a capture can deliver: every instruction of the spec, each *)
(* of its prefixes and each with one trailing byte, under any source and  *)
(* a declared length one short, exact or one long.                         *)
Instructions ==
    LET enc == {e.bytes : e \in RefResponses \cup RefRequests} \cup ErrorResponses
    IN  UNION {{SubSeq(b, 1, k) : k \in 0..Len(b)} \cup {b \o << 0 >>} : b \in enc}

Frames ==
    UNION {{[src |-> s, hlen |-> h, inst |-> i] :
               h \in {Len(i) - 1, Len(i), Len(i) + 1} \cap Nat} :
           s \in {SrcRequest, SrcResponse, 0}, i \in Instructions}

(* The bytes a capture holds for XGT frame f sent in encapsulation w:     *)
(* Ethernet II, an IPv4 header of w.hl words, a TCP header of w.off words *)
(* or a UDP header (option bytes zero), the 20-byte XGT header, the       *)
(* instruction, and w.pad bytes of Ethernet padding after the datagram.   *)
XgtHeaderBytes(f) == XgtMagic \o Zeros(5) \o << f.src >> \o Zeros(2) \o LE(f.hlen) \o Zeros(2)
Encap(w, sp, dp, l7) ==
    LET l4 == IF w.l4 = IPProtoTcp
              THEN BE(sp) \o BE(dp) \o Zeros(8) \o << 16 * w.off, 0 >> \o Zeros(4 * w.off - 14)
              ELSE BE(sp) \o BE(dp) \o BE(UDPHeaderLen + Len(l7)) \o Zeros(2)
    IN  Zeros(12) \o BE(EthTypeIPv4)
        \o << 64 + w.hl, 0 >> \o BE(4 * w.hl + Len(l4) + Len(l7)) \o Zeros(5)
        \o << w.l4 >> \o Zeros(4 * w.hl - 10)
        \o l4 \o l7 \o Zeros(w.pad)
Wire(f, w) == Encap(w, w.sport, w.dport, XgtHeaderBytes(f) \o f.inst)
(* An S7 PDU of the exchange: a job or userdata from the client to port   *)
(* 102, an ack or ack-data back.                                           *)
S7Wire(m, w) ==
    IF m.ros \in {RosJob, RosUserdata} THEN Encap(w, 49153, 102, S7PduBytes(m))
    ELSE Encap(w, 102, 49153, S7PduBytes(m))

(* Probe frames, from spec 4.A and 4.C-4.G, each with the parser the spec *)
(* says handles it: plain IPv4 (20-byte header) over TCP (20-byte header, *)
(* ACK) or UDP, ARP, IPv6 and a frame shorter than an Ethernet header.    *)
Ipv4(proto, l4, l7, pad) ==
    Zeros(12) \o BE(EthTypeIPv4) \o << 69, 0 >> \o BE(20 + Len(l4) + Len(l7)) \o Zeros(5)
    \o << proto >> \o Zeros(10) \o l4 \o l7 \o Zeros(pad)
TcpFrame(sp, dp, l7, pad) ==
    Ipv4(IPProtoTcp, BE(sp) \o BE(dp) \o Zeros(8) \o << 80, 16 >> \o Zeros(6), l7, pad)
UdpFrame(sp, dp, l7) == Ipv4(IPProtoUdp, BE(sp) \o BE(dp) \o BE(8 + Len(l7)) \o Zeros(2), l7, 0)
MbReadRequest == << 0, 1, 0, 0, 0, 6, 1, 3, 0, 12, 0, 3 >>   \* tid 1, unit 1, FC 3, addr 12, qty 3
MbResidual == << 0, 0, 0, 0, 0, 7, 0, 4, 4, 0 >>             \* spec scenario 1
MbProtocolId1 == << 0, 1, 0, 1, 0, 6, 1, 3, 0, 12, 0, 3 >>
S7Job == << 3, 0, 0, 17, 2, 240, 128, 50, 1, 0, 0, 0, 1, 0, 0, 0, 0 >>
CotpConnect == << 3, 0, 0, 22, 17, 224, 0, 0, 0, 1, 0, 192, 1, 10, 193, 2, 1, 0, 194, 2, 1, 2 >>
Dnp3Frame == << 5, 100, 5, 192, 1, 0, 0, 4 >>
DnsHeader == << 0, 1, 1, 0, 0, 1, 0, 0, 0, 0, 0, 0 >>
Probes ==
    {[bytes |-> TcpFrame(49152, 502, MbReadRequest, 0), expect |-> "modbus"],
     [bytes |-> TcpFrame(502, 49152, MbReadRequest, 0), expect |-> "modbus"],
     [bytes |-> TcpFrame(49152, 502, MbResidual, 0), expect |-> "tcp_session"],
     [bytes |-> TcpFrame(49152, 502, MbProtocolId1, 0), expect |-> "tcp_session"],
     [bytes |-> TcpFrame(49152, 502, << >>, 6), expect |-> "tcp_session"],
     [bytes |-> UdpFrame(49152, 502, MbReadRequest), expect |-> "unknown"],
     [bytes |-> TcpFrame(49152, 102, S7Job, 0), expect |-> "s7comm"],
     [bytes |-> TcpFrame(49152, 102, CotpConnect, 0), expect |-> "mms"],
     [bytes |-> TcpFrame(49152, 20000, Dnp3Frame, 0), expect |-> "dnp3"],
     [bytes |-> TcpFrame(502, 20000, Dnp3Frame, 0), expect |-> "dnp3"],
     [bytes |-> UdpFrame(20000, 49152, Dnp3Frame), expect |-> "dnp3"],
     [bytes |-> UdpFrame(49152, 53, DnsHeader), expect |-> "dns"],
     [bytes |-> UdpFrame(49152, 53, SubSeq(DnsHeader, 1, 11)), expect |-> "unknown"],
     [bytes |-> TcpFrame(49152, 53, DnsHeader, 0), expect |-> "tcp_session"],
     [bytes |-> UdpFrame(68, 67, Zeros(8)), expect |-> "dhcp"],
     [bytes |-> UdpFrame(47808, 47808, Zeros(4)), expect |-> "bacnet"],
     [bytes |-> TcpFrame(49152, 44818, Zeros(4), 0), expect |-> "ethernet_ip"],
     [bytes |-> TcpFrame(2404, 49152, Zeros(6), 0), expect |-> "iec104"],
     [bytes |-> TcpFrame(49152, 4840, Zeros(8), 0), expect |-> "opc_ua"],
     [bytes |-> Zeros(12) \o BE(EthTypeArp) \o Zeros(28), expect |-> "arp"],
     [bytes |-> Zeros(12) \o << 134, 221 >> \o Zeros(40), expect |-> "dropped"],
     [bytes |-> Zeros(10), expect |-> "dropped"]}
NoProbe == [bytes |-> << >>, expect |-> "none"]

NoFrame == [src |-> 0, hlen |-> 0, inst |-> << >>]

Init ==
    /\ \/ /\ frame \in Frames
          /\ wrap \in Encapsulations
          /\ probe = NoProbe
          /\ exchange = << >>
       \/ /\ frame = NoFrame
          /\ wrap \in Encapsulations
          /\ probe \in Probes
          /\ exchange = << >>
       \/ /\ frame = NoFrame
          /\ wrap \in {w \in Encapsulations : w.l4 = IPProtoTcp}
          /\ probe = NoProbe
          /\ exchange \in S7Exchanges
    /\ out = {}
    /\ handler = "none"
    /\ sent = 0
    /\ pending = EmptyTable
    /\ s7out = << >>

(* packetCallback's frame through parsePacket and the registry's          *)
(* dispatch, and the parse of the parser that handles it: XgtFenParser    *)
(* adds its record to out, S7CommParser works on the flow's table and     *)
(* adds its record to s7out; the other parsers' records are left out.     *)
Deliver(b) ==
    LET info == parsePacket(b)
        p == Payload(b, info)
        h == Dispatch(info, p)
        s7 == S7ParsePdu(pending, p)
    IN  /\ handler' = h
        /\ out' = IF h = "xgt_fen" THEN {XgtParse(XgtParseHeader(p))} ELSE {}
        /\ pending' = IF h = "s7comm" THEN s7.pend ELSE pending
        /\ s7out' = IF h = "s7comm" THEN s7out \o s7.recs ELSE s7out

(* The one XGT or probe frame.                                             *)
Parse ==
    /\ handler = "none" /\ exchange = << >>
    /\ Deliver(IF probe = NoProbe THEN Wire(frame, wrap) ELSE probe.bytes)
    /\ UNCHANGED <<frame, wrap, probe, exchange, sent>>

(* The next PDU of the S7 exchange.                                        *)
Receive ==
    /\ sent < Len(exchange)
    /\ Deliver(S7Wire(exchange[sent + 1], wrap))
    /\ sent' = sent + 1
    /\ UNCHANGED <<frame, wrap, probe, exchange>>

Next == Parse \/ Receive

Spec == Init /\ [][Next]_vars

-----------------------------------------------------------------------------
TypeOK ==
    /\ frame \in Frames
    /\ wrap \in Encapsulations
    /\ probe \in Probes \cup {NoProbe}
    /\ exchange \in Seq([ros : Nat, ref : Nat, fn : Int, items : Seq([tsz : Nat, amt : Nat, area : Nat,
                         db : Nat, byte : Nat, bit : Nat]), data : Seq([rc : Nat, bits : Nat])])
    /\ sent \in 0..Len(exchange)
    /\ pending \in [DOMAIN pending -> Nat] /\ DOMAIN pending \subseteq 0..65535
    /\ s7out \in Seq([dir : {"request", "response"}, len : Nat, prid : Nat, ros : Nat,
                      fn : Int, ic : Int, item : [syn : Int, tsz : Int, amt : Int, ar : Int, db : Int,
                      addr : Int, taddr : [db : Int, addr : Int]], rc : Int, rlen : Int])
    /\ handler \in {"none", "arp", "tcp_session", "unknown", "dropped"} \cup ToSet(AppParsers)
    /\ out \subseteq [dir : {"request", "response", "unknown"}, len : Nat, xgt : SUBSET [
           cmd : Nat, dtype : Nat, blkcnt : Nat, errstat : Nat, errinfo : Nat,
           datasize : Nat, vars : Seq(Nat), data : [hex : Seq(Nat), items : Nat],
           taddr : Seq(Nat)]]

(* The instruction the walk reads: the first min(length, payload - 20)    *)
(* bytes.                                                                  *)
Walk(f) == SubSeq(f.inst, 1, IF f.hlen < Len(f.inst) THEN f.hlen ELSE Len(f.inst))

Describes(e, buf) == IF e.error THEN IsPrefix(e.bytes, buf) ELSE e.bytes = buf

(* The columns a record shows of the blocks it carries.                   *)
Shown(blocks) ==
    IF blocks = << >> THEN [hex |-> << >>, items |-> 0]
    ELSE [hex |-> blocks[1], items |-> IF Len(blocks) > 1 THEN Len(blocks) ELSE 0]

(* The spec entries the instruction of frame f is an encoding of.        *)
Matches(f) ==
    {e \in Reference(f.src) \cup (IF f.src = SrcResponse THEN ErrorResponse(Walk(f)) ELSE {}) :
        Describes(e, Walk(f))}

(* parseInstruction accepts exactly the instructions spec 4.H describes   *)
(* (an error response ends the walk, so bytes after it are ignored), and  *)
(* the record's instruction columns are those of that instruction: every  *)
(* offset, length check and loop of the walk agrees with the format.       *)
InstructionWalkCorrect ==
    \A r \in out :
        LET M == Matches(frame)
        IN  /\ (r.xgt # {}) <=> (M # {})
            /\ \A x \in r.xgt : \E e \in M :
                  /\ x.cmd = e.cols.cmd /\ x.dtype = e.cols.dtype
                  /\ x.errstat = e.cols.errstat /\ x.errinfo = e.cols.errinfo
                  /\ x.datasize = e.cols.datasize /\ x.vars = e.cols.vars
                  /\ x.data = Shown(e.cols.blocks)

(* Spec 4.H and scenario 3: a response without error carries its block    *)
(* count in errorInfoOrBlockCount, and the record's xgt_blkcnt column      *)
(* shows it (blkcnt=1 for a continuous read response).                     *)
BlockCountRecorded ==
    \A r \in out : \A x \in r.xgt :
        (r.dir = "response" /\ x.errstat = 0) => x.blkcnt = x.errinfo

(* Spec 4.B, as an encoder: "%" then DB, MB or PB then the decimal n     *)
(* gives the letter then n \div 2; any other name gives "".               *)
SpecTranslations ==
    {[name |-> << 37, t[1], t[2] >> \o ToDecimal(n), addr |-> << t[1] >> \o ToDecimal(n \div 2)] :
        t \in {<< 68, 66 >>, << 77, 66 >>, << 80, 66 >>}, n \in 0..MaxAddress}
SpecXgtAddress(name) ==
    IF \E e \in SpecTranslations : e.name = name
    THEN (CHOOSE e \in SpecTranslations : e.name = name).addr
    ELSE << >>

(* Spec 4.H and 4.B: the record's translated address is the spec's        *)
(* translation of the instruction's primary variable (parse picks the     *)
(* continuous variable or the first of the list, then                     *)
(* AssetManager::translateXgtAddress turns %DB<2n> into D<n>).            *)
AddressTranslated ==
    \A r \in out : \A x \in r.xgt :
        \E e \in Matches(frame) : x.taddr = SpecXgtAddress(e.cols.primary)

(* Spec 4.A: parsePacket sizes the payload from the IP total length and  *)
(* the IP and TCP header lengths, not from the captured length, so        *)
(* whatever the header options and however much Ethernet padding follows *)
(* the datagram, the XGT frame reaches XgtFenParser and the record is the *)
(* one parse builds from exactly the payload the sender wrapped.           *)
PayloadDelivered ==
    probe = NoProbe /\ exchange = << >> /\ handler # "none" => handler = "xgt_fen" /\ out = {XgtParse(frame)}

(* Spec 4.A and 4.C-4.G: every probe frame reaches the parser the spec    *)
(* names for it.  The registry asks the parsers in registration order and *)
(* the first whose admission test passes handles the frame, so this takes *)
(* each isProtocol, the order, the TCP/UDP fallbacks and the demultiplexer *)
(* together: a Modbus segment whose length is not exactly 6 + MBAP length *)
(* (scenario 1) or a pure ACK on port 502 falls through to tcp_session, a *)
(* COTP connect on port 102 to mms, a DNP3 frame from port 502 to dnp3.   *)
RegistryAsSpecified ==
    probe # NoProbe /\ handler # "none" => handler = probe.expect

(* Spec 4.G, scenario 5 and the pending-request table of section 3: after *)
(* any sequence of jobs, acks and ack-data on a flow, S7CommParser::parse *)
(* has recorded each PDU as the spec describes it (request fields and the *)
(* translated DB address of item 0, the return code and byte length of    *)
(* the first data item of an ack-data matched to a job with items) and    *)
(* its table holds exactly the jobs not yet answered.  The header size by *)
(* ROSCTR, every bound of the two item walks, the 24-bit address shift     *)
(* and the erase on a response have to agree for this to hold.            *)
S7CorrelationAsSpecified ==
    exchange # << >> =>
        LET s == SpecS7(SubSeq(exchange, 1, sent))
        IN  s7out = s.recs /\ pending = s.tbl

====
