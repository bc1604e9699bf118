--------------------------- MODULE MCExpertsLoad ---------------------------
(* An instance of ExpertsLoad in which a read may fail: the tensors have a row  *)
(* for each of the three experts.                                               *)
EXTENDS ExpertsLoad

EveryRow == {<<3, 3>>}
=============================================================================
