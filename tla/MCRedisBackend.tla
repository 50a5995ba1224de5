--------------------------- MODULE MCRedisBackend ---------------------------
(* Model-checking instance of RedisBackend with two writer threads.       *)
EXTENDS RedisBackend, TLC

CONSTANTS w1, w2

TwoWriters == {w1, w2}

WriterSymmetry == Permutations(TwoWriters)
=============================================================================
