----------------------------- MODULE PacketDemux -----------------------------
(***************************************************************************)
(* PacketParser::parsePacket (src/Parser/src/PacketParser.cpp): the       *)
(* Ethernet, IPv4, TCP and UDP header decoding that turns a captured      *)
(* frame into the PacketInfo the protocol parsers are given, with the     *)
(* header layouts of src/Parser/src/network/network_headers.h.            *)
(*                                                                         *)
(* A frame is its captured bytes, numbers in 0..255; caplen is its        *)
(* length.  Offsets are counted from 0 as in the code.  What a PacketInfo *)
(* keeps of the frame is the layer it was decoded as, the IP protocol,    *)
(* the two ports, and where the payload starts and how long it says it    *)
(* is (payload_size is an int, so it can be negative).  MAC and IP        *)
(* strings, the timestamp, seq/ack/flags and the flow id are formatting   *)
(* and left out.                                                           *)
(***************************************************************************)
EXTENDS Integers, Sequences, Bitwise

EthernetHeaderLen == 14   \* sizeof(EthernetHeader)
IPHeaderLen == 20         \* sizeof(IPHeader)
TCPHeaderLen == 20        \* sizeof(TCPHeader)
UDPHeaderLen == 8         \* sizeof(UDPHeader)
EthTypeArp == 2054        \* 0x0806
EthTypeIPv4 == 2048       \* 0x0800
IPProtoTcp == 6
IPProtoUdp == 17

Octet(b, o) == b[o + 1]
NtoHs(b, o) == 256 * b[o + 1] + b[o + 2]   \* ntohs of the uint16_t at o

(* static_cast<size_t>(n) < k for an int n: a negative n converts to     *)
(* 2^64 + n, which is never below k.                                       *)
SizeTLess(n, k) == n >= 0 /\ n < k

(* The header fields parsePacket reads.  hl and off are 4-bit fields      *)
(* declared first in their byte, so with GCC's LSB-first bitfields hl is  *)
(* the low nibble of the IP header's first byte and off the high nibble   *)
(* of the TCP header's byte 12.                                            *)
EthType(b) == NtoHs(b, 12)
IpHl(b) == Octet(b, EthernetHeaderLen) & 15
IpTotalLen(b) == NtoHs(b, EthernetHeaderLen + 2)
IpProto(b) == Octet(b, EthernetHeaderLen + 9)
TcpOff(b, l4) == shiftR(Octet(b, l4 + 12), 4)

NoInfo == [layer |-> "none", protocol |-> 0, sport |-> 0, dport |-> 0, start |-> 0, size |-> 0]

Info(layer, proto, sport, dport, start, size) ==
    [layer |-> layer, protocol |-> proto, sport |-> sport, dport |-> dport,
     start |-> start, size |-> size]

(* A variant that sizes the L4 payload from the captured length (the     *)
(* method test_ip_length.cpp calls wrong).                                 *)
L4PayloadSizeCaplen(b, hl) == Len(b) - EthernetHeaderLen - hl

(* l4_payload_size: the IP total length minus the IP header length, never *)
(* compared with caplen.                                                   *)
L4PayloadSize(b, hl) == IpTotalLen(b) - hl

(* parsePacket up to the registry: a frame shorter than the Ethernet      *)
(* header, of another EtherType, with fewer than 20 bytes after the       *)
(* Ethernet header, of another IP protocol, or whose L4 size is below the *)
(* TCP or UDP header gives no PacketInfo.  ARP hands on everything after  *)
(* the Ethernet header.  The TCP payload is the L4 size minus the data    *)
(* offset, the UDP payload the L4 size minus 8; a negative L4 size passes *)
(* the size_t check.                                                       *)
parsePacket(b) ==
    IF Len(b) < EthernetHeaderLen THEN NoInfo ELSE
    LET l3Size == Len(b) - EthernetHeaderLen
    IN  IF EthType(b) = EthTypeArp THEN Info("arp", 0, 0, 0, EthernetHeaderLen, l3Size)
        ELSE IF EthType(b) # EthTypeIPv4 \/ SizeTLess(l3Size, IPHeaderLen) THEN NoInfo
        ELSE LET hl == IpHl(b) * 4
                 l4 == EthernetHeaderLen + hl
                 l4Size == L4PayloadSize(b, hl)
             IN  IF IpProto(b) = IPProtoTcp THEN
                     IF SizeTLess(l4Size, TCPHeaderLen) THEN NoInfo
                     ELSE LET off == TcpOff(b, l4) * 4
                          IN  Info("tcp", IPProtoTcp, NtoHs(b, l4), NtoHs(b, l4 + 2), l4 + off, l4Size - off)
                 ELSE IF IpProto(b) = IPProtoUdp THEN
                     IF SizeTLess(l4Size, UDPHeaderLen) THEN NoInfo
                     ELSE Info("udp", IPProtoUdp, NtoHs(b, l4), NtoHs(b, l4 + 2),
                               l4 + UDPHeaderLen, l4Size - UDPHeaderLen)
                 ELSE NoInfo

(* The payload bytes a parser reads through info.payload: payload_size    *)
(* bytes from the start, or none when payload_size is not positive.  Only *)
(* defined while they lie inside the capture; past caplen the read is of  *)
(* memory the frame does not own.                                          *)
Payload(b, info) == SubSeq(b, info.start + 1, info.start + info.size)

====
