-------------------------- MODULE MCPacketPipeline --------------------------
(* Model-checking instance of PacketPipeline: the frames a capture can    *)
(* deliver, built from a few request keys, addresses and PDU references.  *)
EXTENDS PacketPipeline, TLC

CONSTANTS w1, w2

MbReq(k, a)  == [proto |-> "modbus", dir |-> "req", key |-> k, addr |-> a, nregs |-> 0]
MbResp(k, n) == [proto |-> "modbus", dir |-> "resp", key |-> k, addr |-> 0, nregs |-> n]
S7Job(r)     == [proto |-> "s7comm", dir |-> "req", key |-> r, addr |-> 0, nregs |-> 0]
S7Ack(r)     == [proto |-> "s7comm", dir |-> "resp", key |-> r, addr |-> 0, nregs |-> 0]
TcpOther     == [proto |-> "other", dir |-> "other", key |-> 1, addr |-> 0, nregs |-> 0]

(* Two requests with key 259 = (1 << 8) | 3 (transaction id 1, function  *)
(* code 3, read holding registers) and different start addresses,        *)
(* and a two-register read response to that id.                          *)
ModbusFrames == {MbReq(259, 1), MbReq(259, 2), MbResp(259, 2)}

(* Jobs and ack-data on two PDU references, and an unrelated frame.      *)
S7Frames == {S7Job(1), S7Job(2), S7Ack(1), S7Ack(2)}

(* One frame of each kind the dispatcher tells apart.                    *)
MixedFrames == {MbReq(259, 1), MbResp(259, 2), S7Job(1), S7Ack(1), TcpOther}

(* One worker: the Modbus and the S7 correlation frames together.        *)
CorrelationFrames == ModbusFrames \cup S7Frames

OneWorker  == {w1}
TwoWorkers == {w1, w2}

WorkerSymmetry == Permutations(TwoWorkers)
=============================================================================
