--------------------------- MODULE ProtocolRegistry ---------------------------
(***************************************************************************)
(* The protocol-parser registry of PacketParser (createParsersForWorker   *)
(* and the two dispatch loops of parsePacket), with the isProtocol        *)
(* predicate of every parser (src/Parser/src/protocols/*Parser.cpp).      *)
(*                                                                         *)
(* A predicate sees the PacketInfo of PacketDemux and the payload bytes   *)
(* p.  The result of a dispatch is the name (getName) of the parser that  *)
(* handles the frame, or "dropped" when parsePacket returns before the    *)
(* registry.                                                               *)
(***************************************************************************)
EXTENDS Integers, Sequences, SequencesExt, PacketDemux

Ports(info) == {info.sport, info.dport}

(* ModbusParser::isProtocol: TCP with 502 on one side, at least 8 bytes, *)
(* protocol id bytes zero, an MBAP length of at least 2, and a payload of *)
(* exactly 6 + length bytes.                                               *)
ModbusIsProtocolNoExactLength(info, p) ==
    /\ info.protocol = IPProtoTcp /\ 502 \in Ports(info)
    /\ info.size >= 8
    /\ Octet(p, 2) = 0 /\ Octet(p, 3) = 0
    /\ NtoHs(p, 4) >= 2

ModbusIsProtocol(info, p) ==
    /\ info.protocol = IPProtoTcp /\ 502 \in Ports(info)
    /\ info.size >= 8
    /\ Octet(p, 2) = 0 /\ Octet(p, 3) = 0
    /\ NtoHs(p, 4) >= 2
    /\ info.size = 6 + NtoHs(p, 4)

(* S7CommParser::isProtocol: TCP port 102, at least 17 bytes, TPKT 0x03, *)
(* COTP DT 0xf0 at 5 and the S7 protocol id 0x32 at 7.                    *)
S7IsProtocol(info, p) ==
    /\ info.protocol = IPProtoTcp /\ 102 \in Ports(info)
    /\ info.size >= 17
    /\ Octet(p, 0) = 3 /\ Octet(p, 5) = 240 /\ Octet(p, 7) = 50

(* The "LSIS-XGT" company id.                                              *)
XgtMagic == << 76, 83, 73, 83, 45, 88, 71, 84 >>

(* XgtFenParser::isProtocol: TCP or UDP, port 2004 on either side, a      *)
(* payload of at least 20 bytes (an int comparison, so a negative size    *)
(* fails) starting with the magic.                                         *)
XgtIsProtocol(info, p) ==
    /\ info.protocol \in {IPProtoTcp, IPProtoUdp}
    /\ 2004 \in Ports(info)
    /\ info.size >= 20
    /\ SubSeq(p, 1, 8) = XgtMagic

(* Dnp3Parser::isProtocol: TCP or UDP port 20000, start bytes 0x05 0x64. *)
Dnp3IsProtocol(info, p) ==
    /\ info.protocol \in {IPProtoTcp, IPProtoUdp}
    /\ 20000 \in Ports(info)
    /\ info.size >= 2
    /\ Octet(p, 0) = 5 /\ Octet(p, 1) = 100

(* DnsParser::isProtocol: UDP port 53 with a 12-byte header.              *)
DnsIsProtocol(info, p) ==
    /\ info.protocol = IPProtoUdp /\ 53 \in Ports(info)
    /\ info.size >= 12

(* GenericParser::isProtocol: a port test per name, no payload look.      *)
GenericTcpPorts == [ethernet_ip |-> {44818}, iec104 |-> {2404}, mms |-> {102}, opc_ua |-> {4840}]
GenericUdpPorts == [dhcp |-> {67, 68}, bacnet |-> {47808}]
GenericIsProtocol(name, info) ==
    \/ info.protocol = IPProtoTcp /\ name \in DOMAIN GenericTcpPorts
       /\ Ports(info) \cap GenericTcpPorts[name] # {}
    \/ info.protocol = IPProtoUdp /\ name \in DOMAIN GenericUdpPorts
       /\ Ports(info) \cap GenericUdpPorts[name] # {}

(* createParsersForWorker: the registration order, without the three     *)
(* parsers the IP loops skip (arp, tcp_session, unknown).                 *)
AppParsers == << "modbus", "s7comm", "xgt_fen", "dnp3", "dhcp", "dns",
                 "ethernet_ip", "iec104", "mms", "opc_ua", "bacnet" >>

IsProtocol(name, info, p) ==
    CASE name = "modbus"  -> ModbusIsProtocol(info, p)
      [] name = "s7comm"  -> S7IsProtocol(info, p)
      [] name = "xgt_fen" -> XgtIsProtocol(info, p)
      [] name = "dnp3"    -> Dnp3IsProtocol(info, p)
      [] name = "dns"     -> DnsIsProtocol(info, p)
      [] OTHER            -> GenericIsProtocol(name, info)

(* parsePacket's dispatch: ARP goes to the ARP parser; a TCP or UDP       *)
(* frame to the first parser in registration order that claims it, else  *)
(* to tcp_session (TCP) or unknown (UDP).                                  *)
Dispatch(info, p) ==
    LET i == SelectInSeq(AppParsers, LAMBDA n : IsProtocol(n, info, p))
    IN  CASE info.layer = "arp" -> "arp"
          [] info.layer \in {"tcp", "udp"} /\ i # 0 -> AppParsers[i]
          [] info.layer = "tcp" -> "tcp_session"
          [] info.layer = "udp" -> "unknown"
          [] OTHER -> "dropped"

====
