--------------------------- MODULE MCEsBulkClient ---------------------------
(* Model-checking instance of EsBulkClient with two worker threads.       *)
EXTENDS EsBulkClient, TLC

CONSTANTS p1, p2

TwoProducers == {p1, p2}

ProducerSymmetry == Permutations(TwoProducers)
=============================================================================
