-------------------------------- MODULE TopK --------------------------------
(***************************************************************************)
(* kernel_topk_indices of the C runtime (c/src/kernel.c:140): the indices  *)
(* of the k largest of n scores, as the router of a MoE layer picks its    *)
(* experts and the indexer of attention its blocks.  kth_largest (114) is  *)
(* a quickselect on an array of indices; a step here is an iteration of    *)
(* its inner loop or what is between two of those.  Scores are integers:   *)
(* the code compares floats, none of which is a NaN in a working model.    *)
(***************************************************************************)
EXTENDS Integers

CONSTANTS Lengths,   \* of arrays
          Scores

ASSUME Parameters == Lengths \subseteq Nat \ {0} /\ Scores \subseteq Int

VARIABLES length, score, wanted,   \* the arguments n, x and k
          idx,                \* the indices, permuted in place
          lo, hi,             \* where the boundary is still searched for
          pv, store, scan,    \* the pivot's score, end of the larger ones, loop index
          phase

vars == <<length, score, wanted, idx, lo, hi, pv, store, scan, phase>>

Pos == 0..(length - 1)

Swap(f, a, b) == [f EXCEPT ![a] = f[b], ![b] = f[a]]

\* With k >= n every index is returned as it is.
Init == /\ length \in Lengths
        /\ score \in [Pos -> Scores]
        /\ wanted \in 1..length
        /\ idx = [p \in Pos |-> p]
        /\ lo = 0 /\ hi = length
        /\ store = 0 /\ scan = 0
        /\ pv \in Scores
        /\ phase = IF wanted >= length THEN "done" ELSE "choose"

\* Mutant of Choose: the scan leaves the first element out.
ChooseOneOn == LET pivot == lo + (hi - lo) \div 2 IN
               /\ phase = "choose"
               /\ pv' = score[idx[pivot]]
               /\ idx' = Swap(idx, pivot, hi - 1)
               /\ store' = lo
               /\ scan' = IF lo + 1 < hi THEN lo + 1 ELSE lo
               /\ phase' = "scan"
               /\ UNCHANGED <<length, score, wanted, lo, hi>>

\* The middle element is the pivot, which waits at the end.
Choose == LET pivot == lo + (hi - lo) \div 2 IN
          /\ phase = "choose"
          /\ pv' = score[idx[pivot]]
          /\ idx' = Swap(idx, pivot, hi - 1)
          /\ store' = lo
          /\ scan' = lo
          /\ phase' = "scan"
          /\ UNCHANGED <<length, score, wanted, lo, hi>>

\* A larger element moves to the front.
Scan == /\ phase = "scan"
        /\ scan < hi - 1
        /\ IF score[idx[scan]] > pv
           THEN idx' = Swap(idx, scan, store) /\ store' = store + 1
           ELSE UNCHANGED <<idx, store>>
        /\ scan' = scan + 1
        /\ UNCHANGED <<length, score, wanted, lo, hi, pv, phase>>

\* The pivot takes its place; unless that is the boundary, go on in the part
\* that holds it.
Narrow == /\ phase = "scan"
          /\ scan = hi - 1
          /\ idx' = Swap(idx, store, hi - 1)
          /\ phase' = IF store = wanted - 1 THEN "done" ELSE "choose"
          /\ lo' = IF store < wanted - 1 THEN store + 1 ELSE lo
          /\ hi' = IF store > wanted - 1 THEN store ELSE hi
          /\ UNCHANGED <<length, score, wanted, pv, store, scan>>

Next == Choose \/ Scan \/ Narrow

Spec == Init /\ [][Next]_vars

-----------------------------------------------------------------------------
(* Correctness *)

TypeOK == /\ length \in Lengths
          /\ score \in [Pos -> Scores]
          /\ wanted \in 1..length
          /\ idx \in [Pos -> Pos]
          /\ lo \in 0..length /\ hi \in 0..length
          /\ store \in 0..length /\ scan \in 0..length
          /\ pv \in Scores
          /\ phase \in {"choose", "scan", "done"}

\* The indices that are copied out.
Chosen == {idx[p] : p \in 0..(wanted - 1)}

\* k different indices are returned and none left out has a larger score, with
\* any ties and any order of the scores (c/tests/test_kernel.c:104, "verify:
\* min(chosen) >= max(unchosen)").
SelectsLargest ==
  phase = "done" =>
    /\ \A p, q \in 0..(wanted - 1) : idx[p] = idx[q] => p = q
    /\ \A a \in Chosen : \A b \in Pos \ Chosen : score[a] >= score[b]

Returned == phase = "done"
=============================================================================
