----------------------------- MODULE MCSampling -----------------------------
(* An instance of Generation for what fails of its properties: the C runtime   *)
(* samples without a nucleus (main.c:203), with three tokens of which the      *)
(* first may have no weight at all.                                            *)
EXTENDS Generation

WithoutNucleus == [engine : {"model.c"}, command : {"generate"}, greedy : {FALSE}, topP : {10},
                   runs : {1}, chat : {FALSE}, stops : {{0}}]
AllWeights == [Tokens -> 0..2] \ {[t \in Tokens |-> 0]}
Prompt == {<<1, 2>>}
=============================================================================
