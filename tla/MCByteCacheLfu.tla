--------------------------- MODULE MCByteCacheLfu ---------------------------
(* Instance of ByteCache for the C cache under lfu, with hot and cold entries. *)
EXTENDS ByteCache, TLC

CONSTANTS a1, a2, b1, b2

OneLayer == [k \in {a1, a2, b1, b2} |-> 0]
LfuInC == {[impl |-> C, policy |-> "lfu", hots |-> BOOLEAN, maxItems |-> 0]}
=============================================================================
