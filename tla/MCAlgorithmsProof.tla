-------------------------- MODULE MCAlgorithmsProof --------------------------
(***************************************************************************)
(* Proofs about the algorithms that run in one thread, in three parts, and *)
(* of what the runs of MCAlgorithms check of them.                         *)
(*                                                                         *)
(* The selection (TopK): kernel_topk_indices returns k largest scores, for *)
(* arrays of any length and any scores.  SelectsLargest speaks of the end  *)
(* only; Partitioned says what holds on the way there: the array is a      *)
(* permutation of the indices, no score in front of lo or of hi is smaller *)
(* than one behind, and in a scan the part in front of store is larger     *)
(* than the pivot, the part between store and scan not.                    *)
(*                                                                         *)
(* The hash table (OpenTable): a key is in one slot, and no slot between   *)
(* its home and that one is empty, for any keys, hashes and initial size.  *)
(*                                                                         *)
(* The row readers (RowRead): the rows served and those left are apart, so *)
(* every run fits the block and every byte served is where it belongs, for *)
(* any table and requests.                                                 *)
(*                                                                         *)
(* The runs (MCAlgorithms): each component keeps the invariant proved of   *)
(* it here, in TextsProof, TensorIndexProof or GenerationProof while it    *)
(* runs, and no other touches its variables.                               *)
(***************************************************************************)
EXTENDS MCAlgorithms, TextsProof

\* Every index is in the array once.
Permutation(f) == /\ f \in [Pos -> Pos]
                  /\ \A p, q \in Pos : f[p] = f[q] => p = q
                  /\ \A a \in Pos : \E p \in Pos : f[p] = a

\* No score in front of b is smaller than one from b on.
Split(f, b) == \A p \in 0..(b - 1), q \in b..(length - 1) : score[f[p]] >= score[f[q]]

\* The boundary is between lo and hi, and both split the array.
Window == /\ 0 <= lo /\ lo < wanted /\ wanted <= hi /\ hi <= length
          /\ Split(idx, lo) /\ Split(idx, hi)

\* What a scan has seen is sorted about the pivot, which is at the end.
Scanned == /\ lo <= store /\ store <= scan /\ scan <= hi - 1
           /\ score[idx[hi - 1]] = pv
           /\ \A p \in lo..(store - 1) : score[idx[p]] > pv
           /\ \A p \in store..(scan - 1) : score[idx[p]] <= pv

Partitioned == /\ TypeOK
               /\ Permutation(idx)
               /\ phase # "done" => Window
               /\ phase = "scan" => Scanned
               /\ phase = "done" => Split(idx, wanted)

\* Swapping two elements permutes.
LEMMA SwapPermutes ==
  ASSUME length \in Nat, Permutation(idx), NEW a \in Pos, NEW b \in Pos
  PROVE  /\ Permutation(Swap(idx, a, b))
         /\ Swap(idx, a, b)[a] = idx[b]
         /\ Swap(idx, a, b)[b] = idx[a]
         /\ \A p \in Pos \ {a, b} : Swap(idx, a, b)[p] = idx[p]
<1> DEFINE g == Swap(idx, a, b)
<1>1. /\ g \in [Pos -> Pos]
      /\ g[a] = idx[b] /\ g[b] = idx[a]
      /\ \A p \in Pos \ {a, b} : g[p] = idx[p]
  BY DEF Permutation, Swap
<1>2. \A p, q \in Pos : g[p] = g[q] => p = q
  BY <1>1 DEF Permutation
<1>3. ASSUME NEW c \in Pos PROVE \E p \in Pos : g[p] = c
  BY <1>1 DEF Permutation
<1>4. QED BY <1>1, <1>2, <1>3 DEF Permutation

\* Initially the window is the whole array.
LEMMA InitPartitioned == Init => Partitioned
<1>1. SUFFICES ASSUME Init PROVE Partitioned
  OBVIOUS
<1>2. length \in Nat /\ length > 0
  BY <1>1, Parameters DEF Init
<1>3. TypeOK
  BY <1>1, <1>2 DEF Init, TypeOK, Pos
<1>4. Permutation(idx)
  BY <1>1, <1>2 DEF Init, Permutation, Pos
<1>5. Window
  BY <1>1, <1>2 DEF Init, Window, Split
<1>6. phase = "done" => Split(idx, wanted)
  BY <1>1, <1>2 DEF Init, Split
<1>7. QED BY <1>1, <1>3, <1>4, <1>5, <1>6 DEF Partitioned, Init

\* Swapping two elements of the window disturbs neither of its splits.
LEMMA SwapInWindow ==
  ASSUME length \in Nat, TypeOK, Window, Permutation(idx),
         NEW a \in lo..(hi - 1), NEW b \in lo..(hi - 1)
  PROVE  Split(Swap(idx, a, b), lo) /\ Split(Swap(idx, a, b), hi)
<1> DEFINE g == Swap(idx, a, b)
<1>1. length \in Nat /\ lo \in Nat /\ hi \in Nat /\ lo < hi /\ hi <= length
  BY DEF TypeOK, Window
<1>2. a \in Pos /\ b \in Pos
  BY <1>1 DEF Pos
<1>3. g[a] = idx[b] /\ g[b] = idx[a] /\ \A p \in Pos \ {a, b} : g[p] = idx[p]
  BY <1>2, SwapPermutes
<1> HIDE DEF g
<1>4. \A p \in lo..(hi - 1) : \E q \in lo..(hi - 1) : g[p] = idx[q]
  BY <1>1, <1>3 DEF Pos
<1>5. \A p \in Pos : p \notin lo..(hi - 1) => g[p] = idx[p]
  BY <1>3
<1>6. Split(idx, lo) /\ Split(idx, hi)
  BY DEF Window
<1>7. ASSUME NEW p \in 0..(lo - 1), NEW q \in lo..(length - 1)
      PROVE  score[g[p]] >= score[g[q]]
  <2>1. g[p] = idx[p]
    BY <1>1, <1>5 DEF Pos
  <2>2. \E r \in lo..(length - 1) : g[q] = idx[r]
    BY <1>1, <1>4, <1>5 DEF Pos
  <2>3. QED BY <1>6, <2>1, <2>2 DEF Split
<1>8. ASSUME NEW p \in 0..(hi - 1), NEW q \in hi..(length - 1)
      PROVE  score[g[p]] >= score[g[q]]
  <2>1. g[q] = idx[q]
    BY <1>1, <1>5 DEF Pos
  <2>2. \E r \in 0..(hi - 1) : g[p] = idx[r]
    BY <1>1, <1>4, <1>5 DEF Pos
  <2>3. QED BY <1>6, <2>1, <2>2 DEF Split
<1>9. QED BY <1>7, <1>8 DEF Split, g

\* What a step leaves of the types.
LEMMA KeepsTypes ==
  ASSUME TypeOK, UNCHANGED <<length, score, wanted>>, Permutation(idx'),
         lo' \in 0..length, hi' \in 0..length, store' \in 0..length, scan' \in 0..length,
         pv' \in Scores, phase' \in {"choose", "scan", "done"}
  PROVE  TypeOK'
<1>1. Pos' = Pos
  BY DEF Pos
<1>2. QED BY <1>1 DEF TypeOK, Permutation

\* The pivot of a window, moved to its end, begins a scan that has seen nothing.
LEMMA ChoosePartitions == Partitioned /\ Choose => Partitioned'
<1>1. SUFFICES ASSUME Partitioned, Choose PROVE Partitioned'
  OBVIOUS
<1> DEFINE pivot == lo + (hi - lo) \div 2
<1>2. /\ length \in Nat /\ lo \in Nat /\ hi \in Nat /\ TypeOK /\ Window /\ Permutation(idx)
      /\ lo < hi /\ hi <= length
  BY <1>1, Parameters DEF Partitioned, Choose, TypeOK, Window
<1>3. /\ idx' = Swap(idx, pivot, hi - 1)
      /\ pv' = score[idx[pivot]] /\ store' = lo /\ scan' = lo /\ phase' = "scan"
      /\ UNCHANGED <<length, score, wanted, lo, hi>>
  BY <1>1 DEF Choose
<1>4. pivot \in lo..(hi - 1) /\ hi - 1 \in lo..(hi - 1)
  BY <1>2
<1> HIDE DEF pivot
<1>5. pivot \in Pos /\ hi - 1 \in Pos
  BY <1>2, <1>4 DEF Pos
<1>6. Permutation(idx') /\ idx'[hi - 1] = idx[pivot]
  BY <1>2, <1>3, <1>5, SwapPermutes
<1>7. Split(idx', lo) /\ Split(idx', hi)
  BY <1>2, <1>3, <1>4, SwapInWindow
<1>8. pv' \in Scores
  BY <1>2, <1>3, <1>5 DEF TypeOK
<1>9. TypeOK'
  BY <1>2, <1>3, <1>6, <1>8, KeepsTypes
<1>10. Window'
  BY <1>2, <1>3, <1>7 DEF Window, Split
<1>11. Scanned'
  BY <1>2, <1>3, <1>6 DEF Scanned
<1>12. QED BY <1>3, <1>6, <1>9, <1>10, <1>11 DEF Partitioned, Permutation, Pos

\* An element larger than the pivot joins those in front of store.
LEMMA ScanPartitions == Partitioned /\ Scan => Partitioned'
<1>1. SUFFICES ASSUME Partitioned, Scan PROVE Partitioned'
  OBVIOUS
<1>2. /\ length \in Nat /\ lo \in Nat /\ hi \in Nat /\ store \in Nat /\ scan \in Nat
      /\ TypeOK /\ Window /\ Permutation(idx) /\ Scanned
      /\ lo <= store /\ store <= scan /\ scan < hi - 1 /\ hi <= length
      /\ scan' = scan + 1 /\ phase' = "scan"
      /\ UNCHANGED <<length, score, wanted, lo, hi, pv>>
  BY <1>1, Parameters DEF Partitioned, Scan, TypeOK, Window, Scanned
<1>3. scan \in Pos /\ store \in Pos /\ hi - 1 \in Pos
  BY <1>2 DEF Pos
<1>4. CASE score[idx[scan]] > pv
  <2>1. idx' = Swap(idx, scan, store) /\ store' = store + 1
    BY <1>1, <1>4 DEF Scan
  <2>2. /\ Permutation(idx')
        /\ idx'[scan] = idx[store] /\ idx'[store] = idx[scan]
        /\ \A p \in Pos \ {scan, store} : idx'[p] = idx[p]
    BY <1>2, <1>3, <2>1, SwapPermutes
  <2>3. Split(idx', lo) /\ Split(idx', hi)
    BY <1>2, <2>1, SwapInWindow
  <2>4. TypeOK'
    <3>1. pv \in Scores
      BY <1>2 DEF TypeOK
    <3>2. QED BY <1>2, <2>1, <2>2, <3>1, KeepsTypes
  <2>5. Window'
    BY <1>2, <2>3 DEF Window, Split
  <2>6. ASSUME NEW p \in lo..store PROVE score[idx'[p]] > pv
    <3>1. CASE p = store
      BY <1>4, <2>2, <3>1
    <3>2. CASE p \in lo..(store - 1)
      BY <1>2, <2>2, <3>2 DEF Scanned, Pos
    <3>3. QED BY <1>2, <3>1, <3>2
  <2>7. ASSUME NEW p \in (store + 1)..scan PROVE score[idx'[p]] <= pv
    <3>1. CASE p = scan
      BY <1>2, <2>2, <3>1 DEF Scanned
    <3>2. CASE p # scan
      BY <1>2, <2>2, <3>2 DEF Scanned, Pos
    <3>3. QED BY <3>1, <3>2
  <2>8. score[idx'[hi - 1]] = pv
    BY <1>2, <1>3, <2>2 DEF Scanned
  <2>9. Scanned'
    BY <1>2, <2>1, <2>6, <2>7, <2>8 DEF Scanned
  <2>10. QED BY <1>2, <2>2, <2>4, <2>5, <2>9 DEF Partitioned, Permutation, Pos
<1>5. CASE ~(score[idx[scan]] > pv)
  <2>1. UNCHANGED <<idx, store>>
    BY <1>1, <1>5 DEF Scan
  <2>2. TypeOK' /\ Permutation(idx)' /\ Window'
    <3>1. TypeOK'
      BY <1>2, <2>1 DEF TypeOK, Pos
    <3>2. Permutation(idx)'
      BY <1>2, <2>1 DEF Permutation, Pos
    <3>3. Window'
      BY <1>2, <2>1 DEF Window, Split
    <3>4. QED BY <3>1, <3>2, <3>3
  <2>3. score[idx[scan]] <= pv
    <3>1. score[idx[scan]] \in Int /\ pv \in Int
      BY <1>1, <1>2, <1>3, Parameters DEF TypeOK
    <3>2. QED BY <1>5, <3>1
  <2>4. Scanned'
    BY <1>2, <2>1, <2>3 DEF Scanned
  <2>5. QED BY <1>2, <2>2, <2>4 DEF Partitioned
<1>6. QED BY <1>4, <1>5

\* The pivot's place splits the array, and so does the one behind it.
LEMMA NarrowPartitions == Partitioned /\ Narrow => Partitioned'
<1>1. SUFFICES ASSUME Partitioned, Narrow PROVE Partitioned'
  OBVIOUS
<1>2. /\ length \in Nat /\ lo \in Nat /\ hi \in Nat /\ store \in Nat /\ wanted \in Nat
      /\ TypeOK /\ Window /\ Permutation(idx) /\ Scanned /\ scan = hi - 1
      /\ lo <= store /\ store < hi /\ hi <= length /\ lo < wanted /\ wanted <= hi
  BY <1>1, Parameters DEF Partitioned, Narrow, TypeOK, Window, Scanned
<1>3. /\ idx' = Swap(idx, store, hi - 1)
      /\ phase' = IF store = wanted - 1 THEN "done" ELSE "choose"
      /\ lo' = IF store < wanted - 1 THEN store + 1 ELSE lo
      /\ hi' = IF store > wanted - 1 THEN store ELSE hi
      /\ UNCHANGED <<length, score, wanted, pv, store, scan>>
  BY <1>1 DEF Narrow
<1>4. store \in Pos /\ hi - 1 \in Pos
  BY <1>2 DEF Pos
<1>5. /\ Permutation(idx')
      /\ idx'[store] = idx[hi - 1] /\ idx'[hi - 1] = idx[store]
      /\ \A p \in Pos \ {store, hi - 1} : idx'[p] = idx[p]
  BY <1>2, <1>3, <1>4, SwapPermutes
<1>6. TypeOK'
  <2>1. lo' \in 0..length /\ hi' \in 0..length
    BY <1>2, <1>3
  <2>2. store \in 0..length /\ scan \in 0..length /\ pv \in Scores
    BY <1>2 DEF TypeOK
  <2>3. QED BY <1>2, <1>3, <1>5, <2>1, <2>2, KeepsTypes
<1>7. Split(idx', lo) /\ Split(idx', hi)
  BY <1>2, <1>3, SwapInWindow
<1>8. pv \in Int /\ \A p \in Pos : score[idx'[p]] \in Int
  BY <1>1, <1>2, <1>5, Parameters DEF TypeOK, Permutation
<1>9. score[idx'[store]] = pv
  BY <1>2, <1>5 DEF Scanned
<1>10. \A p \in lo..(store - 1) : score[idx'[p]] > pv
  BY <1>2, <1>5 DEF Scanned, Pos
<1>11. ASSUME NEW p \in (store + 1)..(hi - 1) PROVE score[idx'[p]] <= pv
  <2>1. CASE p = hi - 1
    BY <1>2, <1>5, <2>1 DEF Scanned
  <2>2. CASE p # hi - 1
    BY <1>2, <1>5, <2>2 DEF Scanned, Pos
  <2>3. QED BY <2>1, <2>2
<1>12. ASSUME NEW p \in Pos, NEW q \in Pos, p <= store, q >= store
       PROVE  score[idx'[p]] >= score[idx'[q]]
  <2>1. CASE p < lo \/ q >= hi
    BY <1>2, <1>7, <1>12, <2>1 DEF Split, Pos
  <2>2. CASE p >= lo /\ q < hi
    <3>1. score[idx'[p]] >= pv
      BY <1>2, <1>8, <1>9, <1>10, <1>12, <2>2 DEF Pos
    <3>2. score[idx'[q]] <= pv
      BY <1>2, <1>8, <1>9, <1>11, <1>12, <2>2 DEF Pos
    <3>3. QED BY <1>8, <3>1, <3>2
  <2>3. QED BY <1>2, <2>1, <2>2 DEF Pos
<1>13. Split(idx', store) /\ Split(idx', store + 1)
  BY <1>2, <1>12 DEF Split, Pos
<1>14. CASE store = wanted - 1
  <2>1. Split(idx', wanted)
    BY <1>2, <1>13, <1>14
  <2>2. QED BY <1>3, <1>5, <1>6, <1>14, <2>1 DEF Partitioned, Permutation, Split, Pos
<1>15. CASE store # wanted - 1
  <2>1. 0 <= lo' /\ lo' < wanted /\ wanted <= hi' /\ hi' <= length
    BY <1>2, <1>3, <1>15
  <2>2. Split(idx', lo') /\ Split(idx', hi')
    BY <1>3, <1>7, <1>13
  <2>3. Window'
    BY <1>3, <2>1, <2>2 DEF Window, Split
  <2>4. QED BY <1>3, <1>5, <1>6, <1>15, <2>3 DEF Partitioned, Permutation, Pos
<1>16. QED BY <1>14, <1>15

\* No step destroys the partition.
LEMMA NextPartitioned == Partitioned /\ [Next]_vars => Partitioned'
<1>1. ASSUME Partitioned, UNCHANGED vars PROVE Partitioned'
  BY <1>1 DEF Partitioned, vars, TypeOK, Permutation, Window, Scanned, Split, Pos
<1>2. QED BY <1>1, ChoosePartitions, ScanPartitions, NarrowPartitions DEF Next

\* In every reachable state the array is a permutation of the indices that the
\* window splits (kth_largest, kernel.c:114).
THEOREM StaysPartitioned == Spec => []Partitioned
<1>1. Init => Partitioned
  BY InitPartitioned
<1>2. Partitioned /\ [Next]_vars => Partitioned'
  BY NextPartitioned
<1>3. QED BY <1>1, <1>2, PTL DEF Spec

LEMMA PartitionedSelects == Partitioned => SelectsLargest
<1>1. SUFFICES ASSUME Partitioned, phase = "done" PROVE SelectsLargest
  BY DEF SelectsLargest
<1>2. length \in Nat /\ wanted \in 1..length /\ Permutation(idx) /\ Split(idx, wanted)
  BY <1>1, Parameters DEF Partitioned, TypeOK
<1>3. \A p, q \in 0..(wanted - 1) : idx[p] = idx[q] => p = q
  <2>1. \A p \in 0..(wanted - 1) : p \in Pos
    BY <1>2 DEF Pos
  <2>2. QED BY <1>2, <2>1 DEF Permutation
<1>4. ASSUME NEW a \in Chosen, NEW b \in Pos \ Chosen PROVE score[a] >= score[b]
  <2>1. PICK p \in 0..(wanted - 1) : idx[p] = a
    BY DEF Chosen
  <2>2. PICK q \in Pos : idx[q] = b
    BY <1>2, <1>4 DEF Permutation
  <2>3. q \in wanted..(length - 1)
    BY <1>2, <1>4, <2>2 DEF Chosen, Pos
  <2>4. QED BY <1>2, <2>1, <2>2, <2>3 DEF Split
<1>5. QED BY <1>3, <1>4 DEF SelectsLargest

\* kernel_topk_indices returns k different indices, and none it leaves out has
\* a larger score, for every length, every k from 1 to length and any scores.
THEOREM ReturnsLargest == Spec => []SelectsLargest
BY PartitionedSelects, StaysPartitioned, PTL

-----------------------------------------------------------------------------
(* The hash table of cache.c.  HashInv is what makes probing work: between *)
(* the home of a key and its slot no slot is empty.                        *)

\* The slots a probe from a passes before it comes to b.
OnPath(a, b, q) == IF a <= b THEN a <= q /\ q < b ELSE a <= q \/ q < b

\* A table of n slots holds the keys K, each once and within reach.
Holds(t, n, K) ==
  /\ t \in [0..(n - 1) -> K \cup {Empty}]
  /\ \A s, j \in 0..(n - 1) : t[s] # Empty /\ t[s] = t[j] => s = j
  /\ \A k \in K : \E s \in 0..(n - 1) : t[s] = k
  /\ \A s, q \in 0..(n - 1) : t[s] # Empty /\ OnPath(Home(t[s], n), s, q) => t[q] # Empty

HashInv ==
  /\ hash \in [Keys -> Hashes]
  /\ nslots \in Nat /\ nslots >= 4
  /\ stored \subseteq Keys /\ IsFiniteSet(stored)
  /\ count = Cardinality(stored) /\ count <= (nslots * 3) \div 4
  /\ Holds(slots, nslots, stored)

-----------------------------------------------------------------------------
(* Slots around the table *)

LEMMA AroundTable ==
  ASSUME NEW n \in Nat \ {0}, NEW x \in Nat, x < 2 * n
  PROVE  x % n = IF x < n THEN x ELSE x - n
<1>1. PICK q \in Int, r \in Int : x = n * q + r /\ r = x % n /\ 0 <= r /\ r < n
  <2>1. x \div n \in Int /\ x % n \in Int
    OBVIOUS
  <2>2. x = n * (x \div n) + (x % n) /\ 0 <= x % n /\ x % n < n
    OBVIOUS
  <2> QED
    BY <2>1, <2>2
<1>2. CASE q = 0
  BY <1>1, <1>2
<1>3. CASE q = 1
  BY <1>1, <1>3
<1>4. CASE q >= 2
  <2>1. n * q >= n * 2 /\ n * q \in Int
    BY <1>4
  <2> QED
    BY <1>1, <2>1
<1>5. CASE q <= -1
  <2>1. n * q <= -n /\ n * q \in Int
    BY <1>5
  <2> QED
    BY <1>1, <2>1
<1> QED
  BY <1>2, <1>3, <1>4, <1>5

LEMMA AfterIs ==
  ASSUME NEW n \in Nat \ {0}, NEW s \in 0..(n - 1), NEW d \in 0..n
  PROVE  /\ After(s, d, n) = IF s + d < n THEN s + d ELSE s + d - n
         /\ After(s, d, n) \in 0..(n - 1)
<1>1. PICK x \in Nat : x = s + d
  OBVIOUS
<1>2. x < 2 * n
  BY <1>1
<1>3. x % n = IF x < n THEN x ELSE x - n
  BY <1>2, AroundTable
<1>4. After(s, d, n) = IF x < n THEN x ELSE x - n
  BY <1>1, <1>3 DEF After
<1> QED
  BY <1>1, <1>2, <1>4

LEMMA HomeIsSlot ==
  ASSUME TableParameters, hash \in [Keys -> Hashes], NEW k \in Keys, NEW n \in Nat \ {0}
  PROVE  Home(k, n) \in 0..(n - 1)
<1>1. hash[k] \in Nat
  BY DEF TableParameters
<1> QED
  BY <1>1 DEF Home

\* The slots before the one where a probe ends.
LEMMA Probed ==
  ASSUME NEW n \in Nat \ {0}, NEW a \in 0..(n - 1), NEW d \in 0..(n - 1), NEW q \in 0..(n - 1)
  PROVE  OnPath(a, After(a, d, n), q) <=> \E e \in 0..(d - 1) : q = After(a, e, n)
<1>1. After(a, d, n) = IF a + d < n THEN a + d ELSE a + d - n
  BY AfterIs
<1>2. \A e \in 0..(d - 1) : After(a, e, n) = IF a + e < n THEN a + e ELSE a + e - n
  <2> SUFFICES ASSUME NEW e \in 0..(d - 1)
               PROVE  After(a, e, n) = IF a + e < n THEN a + e ELSE a + e - n
    OBVIOUS
  <2>1. e \in 0..n
    OBVIOUS
  <2> QED
    BY <2>1, AfterIs
<1>3. ASSUME NEW e \in 0..(d - 1), q = After(a, e, n)
      PROVE  OnPath(a, After(a, d, n), q)
  <2>1. q = IF a + e < n THEN a + e ELSE a + e - n
    BY <1>2, <1>3
  <2> QED
    BY <1>1, <2>1 DEF OnPath
<1>4. ASSUME OnPath(a, After(a, d, n), q)
      PROVE  \E e \in 0..(d - 1) : q = After(a, e, n)
  <2> DEFINE e == IF q >= a THEN q - a ELSE q - a + n
  <2>1. e \in 0..(d - 1) /\ q = IF a + e < n THEN a + e ELSE a + e - n
    BY <1>1, <1>4 DEF OnPath
  <2> HIDE DEF e
  <2> QED
    BY <1>2, <2>1
<1> QED
  BY <1>3, <1>4

\* Every slot is some steps from any other.
LEMMA StepsTo ==
  ASSUME NEW n \in Nat \ {0}, NEW a \in 0..(n - 1), NEW q \in 0..(n - 1)
  PROVE  \E d \in 0..(n - 1) : q = After(a, d, n)
<1> DEFINE d == IF q >= a THEN q - a ELSE q - a + n
<1>1. d \in 0..(n - 1) /\ d \in 0..n /\ q = IF a + d < n THEN a + d ELSE a + d - n
  OBVIOUS
<1> HIDE DEF d
<1> QED
  BY <1>1, AfterIs

\* A probe for what is in the table ends there, having passed nothing of it.
LEMMA ProbeEnds ==
  ASSUME NEW n \in Nat \ {0}, NEW a \in 0..(n - 1), NEW t, NEW S,
         NEW s \in 0..(n - 1), t[s] \in S
  PROVE  \E p \in 0..(n - 1) : /\ p = FirstFrom(a, t, n, S)
                               /\ t[p] \in S
                               /\ \A q \in 0..(n - 1) : OnPath(a, p, q) => t[q] \notin S
<1> DEFINE D == {d \in 0..(n - 1) : t[After(a, d, n)] \in S}
           First(d) == /\ t[After(a, d, n)] \in S
                       /\ \A e \in 0..(d - 1) : t[After(a, e, n)] \notin S
<1>1. D # {} /\ D \subseteq Nat
  <2>1. PICK d \in 0..(n - 1) : s = After(a, d, n)
    BY StepsTo
  <2> QED
    BY <2>1
<1>2. PICK m \in D : \A x \in D : m <= x
  BY <1>1, LeastExists
<1>3. m \in 0..(n - 1) /\ First(m)
  <2>1. ASSUME NEW e \in 0..(m - 1), t[After(a, e, n)] \in S
        PROVE  FALSE
    <3>1. e \in D /\ ~ (m <= e)
      BY <2>1
    <3> QED
      BY <1>2, <3>1
  <2> QED
    BY <1>2, <2>1
<1>4. PICK d \in 0..(n - 1) : First(d) /\ FirstFrom(a, t, n, S) = After(a, d, n)
  BY <1>3 DEF FirstFrom
<1>5. After(a, d, n) \in 0..(n - 1)
  <2>1. d \in 0..n
    OBVIOUS
  <2> QED
    BY <2>1, AfterIs
<1> DEFINE p == After(a, d, n)
<1>6. ASSUME NEW q \in 0..(n - 1), OnPath(a, p, q)
      PROVE  t[q] \notin S
  <2>1. \E e \in 0..(d - 1) : q = After(a, e, n)
    BY <1>6, Probed
  <2> QED
    BY <1>4, <2>1
<1> QED
  BY <1>4, <1>5, <1>6

\* Fewer keys than slots leave one empty.
LEMMA SomeEmpty ==
  ASSUME NEW n \in Nat \ {0}, NEW t, NEW K, Holds(t, n, K), IsFiniteSet(K), Cardinality(K) < n
  PROVE  \E s \in 0..(n - 1) : t[s] = Empty
<1> SUFFICES ASSUME \A s \in 0..(n - 1) : t[s] # Empty
             PROVE  FALSE
  OBVIOUS
<1> DEFINE S == 0..(n - 1)
<1>1. IsFiniteSet(S) /\ Cardinality(S) = n
  <2>1. 0 \in Int /\ n - 1 \in Int /\ ~ (0 > n - 1) /\ (n - 1) - 0 + 1 = n
    OBVIOUS
  <2> QED
    BY <2>1, FS_Interval
<1>2. t \in [S -> K]
  <2>1. t \in [S -> K \cup {Empty}]
    BY DEF Holds
  <2>2. \A s \in S : t[s] \in K
    BY <2>1
  <2> QED
    BY <2>1, <2>2
<1> HIDE DEF S
<1>3. \E x, y \in S : x # y /\ t[x] = t[y]
  BY <1>1, <1>2, FS_PigeonHole
<1> QED
  BY <1>3 DEF Holds, S

\* A key that is not in the table goes to the first free slot from its home.
LEMMA PlaceHolds ==
  ASSUME TableParameters, hash \in [Keys -> Hashes], NEW n \in Nat \ {0}, NEW t, NEW K,
         Holds(t, n, K), K \subseteq Keys, IsFiniteSet(K), Cardinality(K) < n,
         NEW k \in Keys, k \notin K
  PROVE  Holds(Place(t, n, k), n, K \cup {k})
<1> DEFINE S == 0..(n - 1)
           a == Home(k, n)
<1>1. a \in S
  BY HomeIsSlot
<1>2. Empty \notin Keys
  BY DEF TableParameters
<1>3. PICK s \in S : t[s] = Empty
  BY SomeEmpty
<1>4. PICK p \in S : /\ p = FirstFrom(a, t, n, {Empty})
                     /\ t[p] = Empty
                     /\ \A q \in S : OnPath(a, p, q) => t[q] # Empty
  <2> HIDE DEF a
  <2>1. t[s] \in {Empty}
    BY <1>3
  <2>2. \E p \in 0..(n - 1) : /\ p = FirstFrom(a, t, n, {Empty})
                              /\ t[p] \in {Empty}
                              /\ \A q \in 0..(n - 1) : OnPath(a, p, q) => t[q] \notin {Empty}
    <3> DEFINE Ends(b) == \E p \in 0..(n - 1) : /\ p = FirstFrom(b, t, n, {Empty})
                                                /\ t[p] \in {Empty}
                                                /\ \A q \in 0..(n - 1) : OnPath(b, p, q) => t[q] \notin {Empty}
    <3>1. \A b \in S : Ends(b)
      BY <2>1, ProbeEnds
    <3> HIDE DEF Ends
    <3>2. Ends(a)
      BY <1>1, <3>1
    <3> QED
      BY <3>2 DEF Ends
  <2> QED
    BY <2>2
<1> DEFINE u == [t EXCEPT ![p] = k]
<1>5. Place(t, n, k) = u
  BY <1>4 DEF Place
<1>6. t \in [S -> K \cup {Empty}]
  BY DEF Holds
<1>7. /\ u \in [S -> (K \cup {k}) \cup {Empty}]
      /\ \A q \in S : u[q] = IF q = p THEN k ELSE t[q]
  BY <1>6
<1> HIDE DEF u, S
<1>8. \A x, y \in S : u[x] # Empty /\ u[x] = u[y] => x = y
  <2>1. \A x \in S : t[x] # k
    BY <1>2, <1>6
  <2> QED
    BY <1>7, <2>1 DEF Holds, S
<1>9. \A x \in K \cup {k} : \E y \in S : u[y] = x
  <2> SUFFICES ASSUME NEW x \in K
               PROVE  \E y \in S : u[y] = x
    BY <1>7
  <2>1. PICK y \in S : t[y] = x
    BY DEF Holds, S
  <2>2. y # p
    BY <1>2, <1>4, <2>1
  <2> QED
    BY <1>7, <2>1, <2>2
<1>10. ASSUME NEW x \in S, NEW q \in S, u[x] # Empty, OnPath(Home(u[x], n), x, q)
       PROVE  u[q] # Empty
  <2>1. CASE q = p
    BY <1>2, <1>7, <2>1
  <2>2. CASE q # p /\ x = p
    BY <1>4, <1>7, <1>10, <2>2
  <2>3. CASE q # p /\ x # p
    BY <1>7, <1>10, <2>3 DEF Holds, S
  <2> QED
    BY <2>1, <2>2, <2>3
<1> QED
  BY <1>5, <1>7, <1>8, <1>9, <1>10 DEF Holds, S

\* cache.c:52: a probe meets a key that is in the table before an empty slot.
LEMMA HashInvFinds == TableParameters /\ HashInv => FindsExactly
<1> SUFFICES ASSUME TableParameters, HashInv, NEW k \in Keys
             PROVE  Lookup(k) = k <=> k \in stored
  BY DEF FindsExactly
<1> DEFINE n == nslots
           a == Home(k, n)
<1>1. n \in Nat \ {0} /\ k # Empty /\ hash \in [Keys -> Hashes] /\ Holds(slots, n, stored)
  BY DEF HashInv, TableParameters
<1>2. IsFiniteSet(stored) /\ Cardinality(stored) < n
  <2>1. count \in Nat
    BY FS_CardinalityType DEF HashInv
  <2> QED
    BY <2>1 DEF HashInv
<1>3. a \in 0..(n - 1)
  BY <1>1, HomeIsSlot
<1>4. PICK s \in 0..(n - 1) : slots[s] = Empty
  BY <1>1, <1>2, SomeEmpty
<1> HIDE DEF n
<1>5. PICK p \in 0..(n - 1) :
        /\ p = FirstFrom(a, slots, n, {k, Empty})
        /\ slots[p] \in {k, Empty}
        /\ \A q \in 0..(n - 1) : OnPath(a, p, q) => slots[q] \notin {k, Empty}
  <2> HIDE DEF a
  <2>1. slots[s] \in {k, Empty}
    BY <1>4
  <2>2. \A T : slots[s] \in T =>
          \E q \in 0..(n - 1) : /\ q = FirstFrom(a, slots, n, T)
                               /\ slots[q] \in T
                               /\ \A r \in 0..(n - 1) : OnPath(a, q, r) => slots[r] \notin T
    BY <1>1, <1>3, ProbeEnds
  <2> QED
    BY <2>1, <2>2
<1>6. Lookup(k) = slots[p]
  BY <1>5 DEF Lookup, n
<1>7. ASSUME slots[p] = k
      PROVE  k \in stored
  BY <1>1, <1>7 DEF Holds
<1>8. ASSUME k \in stored
      PROVE  slots[p] = k
  <2>1. PICK j \in 0..(n - 1) : slots[j] = k
    BY <1>1, <1>8 DEF Holds
  <2>2. ~OnPath(a, p, j)
    BY <1>5, <2>1
  <2>3. ASSUME slots[p] = Empty
        PROVE  FALSE
    <3>1. ~OnPath(a, j, p)
      BY <1>1, <2>1, <2>3 DEF Holds
    <3>2. p # j
      BY <1>1, <2>1, <2>3
    <3> QED
      BY <1>1, <1>3, <2>2, <3>1, <3>2 DEF OnPath
  <2> QED
    BY <1>5, <2>3
<1> QED
  BY <1>6, <1>7, <1>8

LEMMA HashInvRemains == HashInv => SlotRemains
<1> SUFFICES ASSUME HashInv
             PROVE  SlotRemains
  OBVIOUS
<1>1. count \in Nat
  BY FS_CardinalityType DEF HashInv
<1>2. nslots \in Nat \ {0} /\ Cardinality(stored) < nslots
  BY <1>1 DEF HashInv
<1> QED
  BY <1>2, SomeEmpty DEF HashInv, SlotRemains, Slots

-----------------------------------------------------------------------------
(* Growing *)

EmptyTable(n) == [x \in 0..(n - 1) |-> Empty]

\* One turn of grow_table, which has come to slot s.
Rehash(f, s) == IF slots[s] = Empty THEN f ELSE Place(f, 2 * nslots, slots[s])

LEMMA GrowingExists ==
  ASSUME NEW m \in Nat
  PROVE  \E g : g = [s \in 0..m |-> IF s = 0 THEN EmptyTable(2 * nslots)
                                    ELSE Rehash(g[s - 1], s - 1)]
<1> DEFINE Body(g, s) == IF s = 0 THEN EmptyTable(2 * nslots) ELSE Rehash(g[s - 1], s - 1)
           S == {l \in Nat : \E g : g = [s \in 0..l |-> Body(g, s)]}
<1>1. 0 \in S
  <2> DEFINE g == [s \in 0..0 |-> EmptyTable(2 * nslots)]
  <2>1. g = [s \in 0..0 |-> Body(g, s)]
    OBVIOUS
  <2> QED
    BY <2>1
<1>2. ASSUME NEW l \in Nat, l \in S
      PROVE  l + 1 \in S
  <2>1. PICK f : f = [s \in 0..l |-> Body(f, s)]
    BY <1>2
  <2> DEFINE g == [s \in 0..(l + 1) |-> IF s = l + 1 THEN Rehash(f[l], l) ELSE f[s]]
  <2>2. ASSUME NEW s \in 0..(l + 1)
        PROVE  g[s] = Body(g, s)
    <3>1. CASE s = l + 1
      <4>1. s # 0 /\ s - 1 = l /\ l \in 0..(l + 1) /\ l # l + 1
        BY <3>1
      <4>2. g[s - 1] = f[l] /\ g[s] = Rehash(f[l], l)
        BY <3>1, <4>1
      <4> QED
        BY <4>1, <4>2
    <3>2. CASE s # l + 1 /\ s # 0
      <4>1. s \in 0..l /\ s - 1 \in 0..(l + 1) /\ s - 1 # l + 1
        BY <3>2
      <4>2. g[s] = f[s] /\ g[s - 1] = f[s - 1]
        BY <3>2, <4>1
      <4>3. f[s] = Body(f, s)
        BY <2>1, <4>1
      <4> QED
        BY <3>2, <4>2, <4>3
    <3>3. CASE s = 0
      <4>1. g[0] = f[0] /\ 0 \in 0..l
        BY <3>3
      <4>2. f[0] = Body(f, 0)
        BY <2>1, <4>1
      <4> QED
        BY <3>3, <4>1, <4>2
    <3> QED
      BY <3>1, <3>2, <3>3
  <2> HIDE DEF Body
  <2>3. g = [s \in 0..(l + 1) |-> Body(g, s)]
    BY <2>2
  <2> HIDE DEF g
  <2>4. \E h : h = [s \in 0..(l + 1) |-> Body(h, s)]
    BY <2>3
  <2> QED
    BY <2>4
<1> HIDE DEF S
<1>3. m \in S
  BY <1>1, <1>2, Induction
<1> QED
  BY <1>3 DEF S

\* The larger table holds the same keys.
LEMMA GrownHolds ==
  ASSUME TableParameters, HashInv
  PROVE  Holds(GrownTable, 2 * nslots, stored)
<1> DEFINE n == nslots
           g == CHOOSE g : g = [s \in 0..n |-> IF s = 0 THEN EmptyTable(2 * n)
                                               ELSE Rehash(g[s - 1], s - 1)]
           Before(s) == {slots[j] : j \in 0..(s - 1)} \ {Empty}
           S == {s \in Nat : s <= n => Holds(g[s], 2 * n, Before(s))}
<1>1. n \in Nat /\ n >= 4 /\ hash \in [Keys -> Hashes] /\ stored \subseteq Keys
      /\ IsFiniteSet(stored) /\ Holds(slots, n, stored) /\ Empty \notin Keys
  BY DEF HashInv, TableParameters
<1>2. g = [s \in 0..n |-> IF s = 0 THEN EmptyTable(2 * n) ELSE Rehash(g[s - 1], s - 1)]
  BY <1>1, GrowingExists
<1>3. GrownTable = g[n]
  BY DEF GrownTable, EmptyTable, Rehash
<1>4. Cardinality(stored) \in Nat /\ Cardinality(stored) < 2 * n
  <2>1. Cardinality(stored) \in Nat
    BY <1>1, FS_CardinalityType
  <2> QED
    BY <1>1, <2>1 DEF HashInv
<1>5. slots \in [0..(n - 1) -> stored \cup {Empty}]
  BY <1>1 DEF Holds
<1> HIDE DEF g
<1>6. g[0] = EmptyTable(2 * n) /\ \A s \in 1..n : g[s] = Rehash(g[s - 1], s - 1)
  BY <1>1, <1>2
<1>7. 0 \in S
  <2>1. Before(0) = {}
    OBVIOUS
  <2>2. Holds(EmptyTable(2 * n), 2 * n, {})
    BY DEF Holds, EmptyTable
  <2> HIDE DEF Before, n
  <2> QED
    BY <1>6, <2>1, <2>2
<1>8. ASSUME NEW s \in Nat, s \in S
      PROVE  s + 1 \in S
  <2> SUFFICES ASSUME s + 1 <= n
               PROVE  Holds(g[s + 1], 2 * n, Before(s + 1))
    OBVIOUS
  <2>1. /\ s \in 0..(n - 1) /\ s + 1 \in 1..n /\ (s + 1) - 1 = s
        /\ \A j \in 0..s : j \in 0..(s - 1) \/ j = s
        /\ \A j \in 0..(s - 1) : j \in 0..s /\ j \in 0..(n - 1) /\ j # s
        /\ s \in 0..s
    BY <1>1
  <2>2. g[s + 1] = Rehash(g[s], s)
    BY <1>6, <2>1
  <2>3. Holds(g[s], 2 * n, Before(s))
    BY <1>1, <1>8, <2>1
  <2>4. Before(s + 1) = IF slots[s] = Empty THEN Before(s) ELSE Before(s) \cup {slots[s]}
    <3>1. Before(s + 1) = {slots[j] : j \in 0..s} \ {Empty}
      BY <2>1
    <3>2. {slots[j] : j \in 0..s} = {slots[j] : j \in 0..(s - 1)} \cup {slots[s]}
      BY <2>1
    <3> QED
      BY <3>1, <3>2
  <2>5. CASE slots[s] = Empty
    BY <2>2, <2>3, <2>4, <2>5 DEF Rehash
  <2>6. CASE slots[s] # Empty
    <3>1. slots[s] \in stored /\ slots[s] \in Keys
      BY <1>1, <1>5, <2>1, <2>6
    <3>2. Before(s) \subseteq stored
      BY <1>5, <2>1
    <3>3. slots[s] \notin Before(s)
      BY <1>1, <2>1, <2>6 DEF Holds
    <3> HIDE DEF Before
    <3>4. IsFiniteSet(Before(s)) /\ Cardinality(Before(s)) <= Cardinality(stored)
      BY <1>1, <3>2, FS_Subset
    <3>5. Cardinality(Before(s)) \in Nat
      BY <3>4, FS_CardinalityType
    <3>6. Cardinality(Before(s)) < 2 * n /\ 2 * n \in Nat \ {0}
      BY <1>1, <1>4, <3>4, <3>5
    <3>7. Holds(Place(g[s], 2 * n, slots[s]), 2 * n, Before(s) \cup {slots[s]})
      <4> DEFINE m == 2 * n  t == g[s]  K == Before(s)  k == slots[s]
      <4>1. m \in Nat \ {0} /\ Holds(t, m, K) /\ K \subseteq Keys /\ IsFiniteSet(K)
            /\ Cardinality(K) < m /\ k \in Keys /\ k \notin K
        BY <1>1, <2>3, <3>1, <3>2, <3>3, <3>4, <3>6
      <4> HIDE DEF m, t, K, k
      <4>2. Holds(Place(t, m, k), m, K \cup {k})
        BY <1>1, <4>1, PlaceHolds
      <4> QED
        BY <4>2 DEF m, t, K, k
    <3> QED
      BY <2>2, <2>4, <2>6, <3>7 DEF Rehash
  <2> QED
    BY <2>5, <2>6
<1>9. n \in S
  <2> HIDE DEF S
  <2> QED
    BY <1>1, <1>7, <1>8, Induction
<1>10. Before(n) = stored
  BY <1>1, <1>5 DEF Holds
<1> HIDE DEF Before
<1> QED
  BY <1>1, <1>3, <1>9, <1>10

-----------------------------------------------------------------------------
(* Deleting *)

\* How many slots p is behind a.
Steps(a, p) == IF p >= a THEN p - a ELSE p - a + nslots

\* What the loop of remove_from_table has reached when it has passed d slots
\* behind first: the keys are within reach but for the hole, and those between
\* the hole and the d-th slot do not need it.
Shifted(acc, first, d, K) ==
  LET t == acc.table
      h == acc.hole
      S == 0..(nslots - 1)
  IN /\ t \in [S -> K \cup {Empty}]
     /\ \A s, j \in S : t[s] # Empty /\ t[s] = t[j] => s = j
     /\ \A x \in K : \E s \in S : t[s] = x
     /\ h \in S /\ t[h] = Empty /\ Steps(first, h) <= d
     /\ \A s \in S : Steps(first, s) > d => t[s] = slots[s]
     /\ \A s, q \in S : t[s] # Empty /\ OnPath(Home(t[s], nslots), s, q) => t[q] # Empty \/ q = h
     /\ \A s \in S : t[s] # Empty /\ Steps(first, h) < Steps(first, s) /\ Steps(first, s) <= d
                       => ~OnPath(Home(t[s], nslots), s, h)

LEMMA MayMoveIs ==
  ASSUME TableParameters, hash \in [Keys -> Hashes], nslots \in Nat \ {0},
         NEW x \in Keys, NEW h \in 0..(nslots - 1), NEW slot \in 0..(nslots - 1)
  PROVE  MayMove(x, h, slot) <=> \/ Steps(h, Home(x, nslots)) = 0
                               \/ Steps(h, Home(x, nslots)) > Steps(h, slot)
<1>1. ASSUME NEW s \in 0..(nslots - 1)
      PROVE  (s - h + nslots) % nslots = Steps(h, s)
  <2>1. PICK y \in Nat : y = s - h + nslots
    OBVIOUS
  <2>2. y < 2 * nslots
    BY <2>1
  <2>3. y % nslots = IF y < nslots THEN y ELSE y - nslots
    BY <2>2, AroundTable
  <2> QED
    BY <2>1, <2>3 DEF Steps
<1>2. Home(x, nslots) \in 0..(nslots - 1)
  BY HomeIsSlot
<1> QED
  BY <1>1, <1>2 DEF MayMove

\* One turn of the loop.
LEMMA ShiftBackKeeps ==
  ASSUME TableParameters, hash \in [Keys -> Hashes], nslots \in Nat \ {0},
         NEW K, K \subseteq Keys, NEW first \in 0..(nslots - 1), NEW d \in 1..(nslots - 1),
         NEW slot \in 0..(nslots - 1), Steps(first, slot) = d, slots[slot] # Empty,
         NEW acc, Shifted(acc, first, d - 1, K)
  PROVE  Shifted(ShiftBack(acc, slot), first, d, K)
<1> DEFINE S == 0..(nslots - 1)
           t == acc.table
           h == acc.hole
           x == t[slot]
           home == Home(x, nslots)
<1>1. /\ t \in [S -> K \cup {Empty}]
      /\ \A s, j \in S : t[s] # Empty /\ t[s] = t[j] => s = j
      /\ \A y \in K : \E s \in S : t[s] = y
      /\ h \in S /\ t[h] = Empty /\ Steps(first, h) <= d - 1
      /\ \A s \in S : Steps(first, s) > d - 1 => t[s] = slots[s]
      /\ \A s, q \in S : t[s] # Empty /\ OnPath(Home(t[s], nslots), s, q) => t[q] # Empty \/ q = h
      /\ \A s \in S : t[s] # Empty /\ Steps(first, h) < Steps(first, s)
                        /\ Steps(first, s) <= d - 1
                        => ~OnPath(Home(t[s], nslots), s, h)
  BY DEF Shifted
<1>2. \A s \in S : Steps(first, s) \in 0..(nslots - 1)
  BY DEF Steps
<1>3. Empty \notin Keys
  BY DEF TableParameters
<1>4. x = slots[slot] /\ x # Empty /\ x \in Keys /\ x \in K
  <2>1. d > d - 1
    OBVIOUS
  <2>2. x = slots[slot]
    BY <1>1, <2>1
  <2> QED
    BY <1>1, <2>2
<1>5. h # slot
  BY <1>1, <1>4
<1>6. home \in S
  BY <1>4, HomeIsSlot
<1>7. MayMove(x, h, slot) <=> Steps(h, home) = 0 \/ Steps(h, home) > Steps(h, slot)
  BY <1>1, <1>4, MayMoveIs
<1> HIDE DEF x, home, t, h
<1>8. CASE ~MayMove(x, h, slot)
  <2>1. ShiftBack(acc, slot) = acc
    BY <1>8 DEF ShiftBack, x, t, h
  <2>2. ~OnPath(home, slot, h)
    BY <1>1, <1>5, <1>6, <1>7, <1>8 DEF Steps, OnPath
  <2>3. ASSUME NEW s \in S, t[s] # Empty, Steps(first, h) < Steps(first, s), Steps(first, s) <= d
        PROVE  ~OnPath(Home(t[s], nslots), s, h)
    <3>1. CASE s = slot
      BY <2>2, <3>1 DEF x, home
    <3>2. CASE s # slot
      <4>1. Steps(first, s) # d
        BY <3>2 DEF Steps
      <4>2. Steps(first, s) <= d - 1
        BY <1>2, <2>3, <4>1
      <4> QED
        BY <1>1, <2>3, <4>2
    <3> QED
      BY <3>1, <3>2
  <2>4. Steps(first, h) <= d /\ \A s \in S : Steps(first, s) > d => Steps(first, s) > d - 1
    <3>1. Steps(first, h) \in Int /\ Steps(first, h) <= d - 1
      BY <1>1, <1>2
    <3>2. Steps(first, h) <= d
      BY <3>1
    <3>3. \A s \in S : Steps(first, s) \in Int
      BY <1>2
    <3>4. \A y \in Int : y > d => y > d - 1
      OBVIOUS
    <3> QED
      BY <3>2, <3>3, <3>4
  <2> QED
    BY <1>1, <2>1, <2>3, <2>4 DEF Shifted, t, h
<1>9. CASE MayMove(x, h, slot)
  <2> DEFINE u == [t EXCEPT ![h] = x, ![slot] = Empty]
  <2>1. ShiftBack(acc, slot) = [table |-> u, hole |-> slot]
    BY <1>9 DEF ShiftBack, x, t, h
  <2>2. /\ u \in [S -> K \cup {Empty}]
        /\ u[slot] = Empty /\ u[h] = x
        /\ \A s \in S : s # slot /\ s # h => u[s] = t[s]
    BY <1>1, <1>4, <1>5
  <2> HIDE DEF u
  <2>3. \A q \in S : OnPath(home, h, q) => OnPath(home, slot, q) /\ q # h
    BY <1>1, <1>5, <1>6, <1>7, <1>9 DEF Steps, OnPath
  <2>4. \A s, j \in S : u[s] # Empty /\ u[s] = u[j] => s = j
    <3>1. \A s \in S : t[s] = x => s = slot
      BY <1>1, <1>4 DEF x
    <3> QED
      BY <1>1, <2>2, <3>1
  <2>5. \A y \in K : \E s \in S : u[s] = y
    <3> SUFFICES ASSUME NEW y \in K, y # x
                 PROVE  \E s \in S : u[s] = y
      BY <1>1, <2>2
    <3>1. PICK s \in S : t[s] = y
      BY <1>1
    <3>2. s # slot /\ s # h
      BY <1>1, <1>3, <3>1 DEF x
    <3> QED
      BY <2>2, <3>1, <3>2
  <2>6. \A s \in S : Steps(first, s) > d => u[s] = slots[s]
    <3> SUFFICES ASSUME NEW s \in S, Steps(first, s) > d
                 PROVE  u[s] = slots[s]
      OBVIOUS
    <3>1. Steps(first, s) \in Int /\ Steps(first, h) \in Int /\ Steps(first, h) <= d - 1
      BY <1>1, <1>2
    <3>2. Steps(first, s) > d - 1 /\ Steps(first, s) # d /\ Steps(first, s) # Steps(first, h)
      BY <3>1
    <3>3. s # slot /\ s # h
      BY <3>2
    <3> QED
      BY <1>1, <2>2, <3>2, <3>3
  <2>7. ASSUME NEW s \in S, NEW q \in S, u[s] # Empty, OnPath(Home(u[s], nslots), s, q), q # slot
        PROVE  u[q] # Empty
    <3>1. CASE q = h
      BY <1>4, <2>2, <3>1
    <3>2. CASE q # h /\ s = h
      <4>1. OnPath(home, slot, q)
        BY <2>2, <2>3, <2>7, <3>2 DEF home
      <4>2. t[q] # Empty
        BY <1>1, <1>4, <3>2, <4>1 DEF home, x
      <4> QED
        BY <2>2, <2>7, <3>2, <4>2
    <3>3. CASE q # h /\ s # h
      <4>1. s # slot /\ u[s] = t[s] /\ u[q] = t[q]
        BY <2>2, <2>7, <3>3
      <4> QED
        BY <1>1, <2>7, <3>3, <4>1
    <3> QED
      BY <3>1, <3>2, <3>3
  <2>8. \A s \in S : ~ (Steps(first, slot) < Steps(first, s) /\ Steps(first, s) <= d)
    BY <1>2
  <2>9. Steps(first, slot) <= d
    OBVIOUS
  <2> QED
    BY <2>1, <2>2, <2>4, <2>5, <2>6, <2>7, <2>8, <2>9 DEF Shifted
<1> QED
  BY <1>8, <1>9

\* When the loop has come to an empty slot the table is whole again.
LEMMA ShiftedHolds ==
  ASSUME nslots \in Nat \ {0}, TableParameters, hash \in [Keys -> Hashes],
         NEW K, K \subseteq Keys, NEW first \in 0..(nslots - 1), NEW c \in 1..(nslots - 1),
         NEW end \in 0..(nslots - 1), Steps(first, end) = c, slots[end] = Empty,
         NEW acc, Shifted(acc, first, c - 1, K)
  PROVE  Holds(acc.table, nslots, K)
<1> DEFINE S == 0..(nslots - 1)
           t == acc.table
           h == acc.hole
<1>1. /\ t \in [S -> K \cup {Empty}]
      /\ \A s, j \in S : t[s] # Empty /\ t[s] = t[j] => s = j
      /\ \A y \in K : \E s \in S : t[s] = y
      /\ h \in S /\ t[h] = Empty /\ Steps(first, h) <= c - 1
      /\ \A s \in S : Steps(first, s) > c - 1 => t[s] = slots[s]
      /\ \A s, q \in S : t[s] # Empty /\ OnPath(Home(t[s], nslots), s, q) => t[q] # Empty \/ q = h
      /\ \A s \in S : t[s] # Empty /\ Steps(first, h) < Steps(first, s)
                        /\ Steps(first, s) <= c - 1
                        => ~OnPath(Home(t[s], nslots), s, h)
  BY DEF Shifted
<1> HIDE DEF t, h
<1>2. \A s \in S : Steps(first, s) \in 0..(nslots - 1)
  BY DEF Steps
<1>3. t[end] = Empty /\ end # h
  <2>1. c > c - 1 /\ ~ (c <= c - 1)
    OBVIOUS
  <2> QED
    BY <1>1, <2>1
<1>4. ASSUME NEW s \in S, t[s] # Empty, OnPath(Home(t[s], nslots), s, h)
      PROVE  FALSE
  <2> DEFINE a == Home(t[s], nslots)
  <2>1. a \in S
    <3>1. t[s] \in Keys
      BY <1>1, <1>4
    <3> QED
      BY <3>1, HomeIsSlot
  <2>2. s # h /\ s # end
    BY <1>1, <1>3, <1>4
  <2>3. ~ (Steps(first, h) < Steps(first, s) /\ Steps(first, s) <= c - 1)
    BY <1>1, <1>4
  <2>4. ~OnPath(a, s, end)
    BY <1>1, <1>3, <1>4
  <2>5. OnPath(a, s, h)
    BY <1>4
  <2> HIDE DEF a
  <2>6. Steps(first, s) < Steps(first, h) \/ Steps(first, s) > c
    BY <1>1, <2>2, <2>3 DEF Steps
  <2> QED
    BY <1>1, <2>1, <2>2, <2>4, <2>5, <2>6 DEF Steps, OnPath
<1> QED
  BY <1>1, <1>4 DEF Holds, t
LEMMA ShiftingExists ==
  ASSUME NEW begin, NEW first, NEW m \in Nat
  PROVE  \E g : g = [s \in 0..m |-> IF s = 0 THEN begin
                                    ELSE ShiftBack(g[s - 1], After(first, s, nslots))]
<1> DEFINE Body(g, s) == IF s = 0 THEN begin ELSE ShiftBack(g[s - 1], After(first, s, nslots))
           S == {l \in Nat : \E g : g = [s \in 0..l |-> Body(g, s)]}
<1>1. 0 \in S
  <2> DEFINE g == [s \in 0..0 |-> begin]
  <2>1. g = [s \in 0..0 |-> Body(g, s)]
    OBVIOUS
  <2> QED
    BY <2>1
<1>2. ASSUME NEW l \in Nat, l \in S
      PROVE  l + 1 \in S
  <2>1. PICK f : f = [s \in 0..l |-> Body(f, s)]
    BY <1>2
  <2> DEFINE g == [s \in 0..(l + 1) |-> IF s = l + 1
                                         THEN ShiftBack(f[l], After(first, l + 1, nslots))
                                         ELSE f[s]]
  <2>2. ASSUME NEW s \in 0..(l + 1)
        PROVE  g[s] = Body(g, s)
    <3>1. CASE s = l + 1
      <4>1. s # 0 /\ s - 1 = l /\ l \in 0..(l + 1) /\ l # l + 1
        BY <3>1
      <4>2. g[s - 1] = f[l] /\ g[s] = ShiftBack(f[l], After(first, l + 1, nslots))
        BY <3>1, <4>1
      <4> QED
        BY <4>1, <4>2
    <3>2. CASE s # l + 1 /\ s # 0
      <4>1. s \in 0..l /\ s - 1 \in 0..(l + 1) /\ s - 1 # l + 1
        BY <3>2
      <4>2. g[s] = f[s] /\ g[s - 1] = f[s - 1]
        BY <3>2, <4>1
      <4>3. f[s] = Body(f, s)
        BY <2>1, <4>1
      <4> QED
        BY <3>2, <4>2, <4>3
    <3>3. CASE s = 0
      <4>1. g[0] = f[0] /\ 0 \in 0..l
        BY <3>3
      <4>2. f[0] = Body(f, 0)
        BY <2>1, <4>1
      <4> QED
        BY <3>3, <4>1, <4>2
    <3> QED
      BY <3>1, <3>2, <3>3
  <2> HIDE DEF Body
  <2>3. g = [s \in 0..(l + 1) |-> Body(g, s)]
    BY <2>2
  <2> HIDE DEF g
  <2>4. \E h : h = [s \in 0..(l + 1) |-> Body(h, s)]
    BY <2>3
  <2> QED
    BY <2>4
<1> HIDE DEF S
<1>3. m \in S
  BY <1>1, <1>2, Induction
<1> QED
  BY <1>3 DEF S

\* remove_from_table takes one key out and leaves the others within reach.
LEMMA RemovedHolds ==
  ASSUME TableParameters, HashInv, NEW k \in stored
  PROVE  Holds(Removed(k), nslots, stored \ {k})
<1> DEFINE n == nslots
           S == 0..(n - 1)
           K == stored \ {k}
           a == Home(k, n)
           first == FirstFrom(a, slots, n, {k, Empty})
           Ends(d) == /\ slots[After(first, d, n)] \in {Empty, k}
                      /\ \A e \in 1..(d - 1) : slots[After(first, e, n)] \notin {Empty, k}
           c == CHOOSE d \in 1..n : Ends(d)
           begin == [table |-> [slots EXCEPT ![first] = Empty], hole |-> first]
           g == CHOOSE g : g = [d \in 0..(c - 1) |->
                                  IF d = 0 THEN begin
                                  ELSE ShiftBack(g[d - 1], After(first, d, n))]
<1>1. /\ n \in Nat /\ n \in Nat \ {0} /\ n >= 4 /\ k # Empty /\ k \in Keys /\ Empty \notin Keys
      /\ hash \in [Keys -> Hashes] /\ stored \subseteq Keys /\ K \subseteq Keys
      /\ Holds(slots, n, stored)
  BY DEF HashInv, TableParameters
<1>2. /\ slots \in [S -> stored \cup {Empty}]
      /\ \A s, j \in S : slots[s] # Empty /\ slots[s] = slots[j] => s = j
      /\ \A x \in stored : \E s \in S : slots[s] = x
      /\ \A s, q \in S : slots[s] # Empty /\ OnPath(Home(slots[s], n), s, q) => slots[q] # Empty
  BY <1>1 DEF Holds
<1>3. Removed(k) = g[c - 1].table
  BY DEF Removed
<1>4. PICK e \in S : slots[e] = Empty
  <2>1. Cardinality(stored) \in Nat
    BY FS_CardinalityType DEF HashInv
  <2>2. Cardinality(stored) < n /\ IsFiniteSet(stored)
    BY <2>1 DEF HashInv
  <2> HIDE DEF n
  <2> QED
    BY <1>1, <2>2, SomeEmpty
<1>5. first \in S /\ slots[first] = k
  <2>1. Lookup(k) = k
    BY <1>1, HashInvFinds DEF FindsExactly
  <2>2. a \in S
    BY <1>1, HomeIsSlot
  <2>3. slots[e] \in {k, Empty} /\ n \in Nat \ {0}
    BY <1>1, <1>4
  <2> HIDE DEF a, n, K, g, c, begin, first, Ends
  <2>4. \E p \in 0..(n - 1) :
          /\ p = FirstFrom(a, slots, n, {k, Empty})
          /\ slots[p] \in {k, Empty}
          /\ \A q \in 0..(n - 1) : OnPath(a, p, q) => slots[q] \notin {k, Empty}
    BY <2>2, <2>3, ProbeEnds
  <2> QED
    BY <2>1, <2>4 DEF Lookup, a, n, first
<1> HIDE DEF first, n, g
<1>6. ASSUME NEW d \in 0..n
      PROVE  /\ After(first, d, n) \in S
             /\ d < n => Steps(first, After(first, d, n)) = d
  <2>1. /\ After(first, d, n) = IF first + d < n THEN first + d ELSE first + d - n
        /\ After(first, d, n) \in S
    BY <1>1, <1>5, AfterIs
  <2> QED
    BY <1>1, <1>5, <2>1 DEF Steps, n
<1>7. c \in 1..(n - 1) /\ Ends(c)
  <2> DEFINE D == {d \in 1..n : slots[After(first, d, n)] \in {Empty, k}}
  <2>1. PICK d \in 0..(n - 1) : e = After(first, d, n)
    BY <1>1, <1>4, <1>5, StepsTo
  <2>2. d # 0
    <3>1. After(first, 0, n) = first
      <4>1. 0 \in 0..n /\ first + 0 = first /\ first < n
        BY <1>1, <1>5
      <4> QED
        BY <1>1, <1>5, <4>1, AfterIs
    <3> QED
      BY <1>1, <1>4, <1>5, <2>1, <3>1
  <2>3. d \in D /\ D \subseteq Nat
    BY <1>1, <1>4, <2>1, <2>2
  <2>4. PICK m \in D : \A x \in D : m <= x
    BY <2>3, LeastExists
  <2>5. Ends(m) /\ m \in 1..n
    <3>1. ASSUME NEW x \in 1..(m - 1), slots[After(first, x, n)] \in {Empty, k}
          PROVE  FALSE
      <4>1. x \in D /\ ~ (m <= x)
        BY <1>1, <3>1
      <4> QED
        BY <2>4, <4>1
    <3> QED
      BY <2>4, <3>1
  <2>6. c \in 1..n /\ Ends(c)
    BY <2>5
  <2> HIDE DEF c
  <2>7. c # n
    <3> SUFFICES ASSUME c = n
                 PROVE  FALSE
      OBVIOUS
    <3>1. d \in 1..(c - 1)
      BY <1>1, <2>2
    <3> QED
      BY <1>4, <2>1, <2>6, <3>1
  <2> QED
    BY <1>1, <2>6, <2>7
<1> HIDE DEF c
<1>8. \A d \in 1..(c - 1) : slots[After(first, d, n)] # Empty
  BY <1>7
<1> DEFINE end == After(first, c, n)
<1>9. end \in S /\ Steps(first, end) = c /\ slots[end] = Empty
  <2>1. c \in 0..n /\ c < n /\ c # 0
    BY <1>1, <1>7
  <2>2. end \in S /\ Steps(first, end) = c
    BY <1>6, <2>1
  <2>3. Steps(first, first) = 0
    BY <1>1, <1>5 DEF Steps
  <2>4. slots[end] # k
    BY <1>1, <1>2, <1>5, <2>1, <2>2, <2>3
  <2> QED
    BY <1>7, <2>2, <2>4
<1> HIDE DEF end, begin
<1>10. c - 1 \in Nat
  BY <1>7
<1>11. g = [d \in 0..(c - 1) |-> IF d = 0 THEN begin
                                 ELSE ShiftBack(g[d - 1], After(first, d, n))]
  BY <1>10, ShiftingExists DEF g, n
<1>12. g[0] = begin /\ \A d \in 1..(c - 1) : g[d] = ShiftBack(g[d - 1], After(first, d, n))
  BY <1>10, <1>11
<1>13. Shifted(begin, first, 0, K)
  <2> DEFINE t == [slots EXCEPT ![first] = Empty]
  <2>1. begin.table = t /\ begin.hole = first
    BY DEF begin
  <2>2. /\ t \in [S -> K \cup {Empty}]
        /\ t[first] = Empty
        /\ \A s \in S : s # first => t[s] = slots[s]
    BY <1>2, <1>5
  <2> HIDE DEF t
  <2>3. Steps(first, first) = 0
    BY <1>1, <1>5 DEF Steps
  <2>4. \A s \in S : Steps(first, s) \in Nat
    BY <1>1, <1>5 DEF Steps, n
  <2>5. \A s, j \in S : t[s] # Empty /\ t[s] = t[j] => s = j
    BY <1>2, <2>2
  <2>6. \A x \in K : \E s \in S : t[s] = x
    BY <1>2, <1>5, <2>2
  <2>7. \A s \in S : Steps(first, s) > 0 => t[s] = slots[s]
    BY <2>2, <2>3
  <2>8. \A s, q \in S : t[s] # Empty /\ OnPath(Home(t[s], n), s, q) => t[q] # Empty \/ q = first
    BY <1>2, <2>2
  <2>9. \A s \in S : ~ (Steps(first, first) < Steps(first, s) /\ Steps(first, s) <= 0)
    BY <2>3, <2>4
  <2>10. Steps(first, first) <= 0
    BY <2>3
  <2> QED
    BY <1>5, <2>1, <2>2, <2>5, <2>6, <2>7, <2>8, <2>9, <2>10 DEF Shifted, n
<1> DEFINE G == {d \in Nat : d <= c - 1 => Shifted(g[d], first, d, K)}
<1>14. 0 \in G
  BY <1>12, <1>13
<1>15. ASSUME NEW d \in Nat, d \in G
       PROVE  d + 1 \in G
  <2> SUFFICES ASSUME d + 1 <= c - 1
               PROVE  Shifted(g[d + 1], first, d + 1, K)
    OBVIOUS
  <2>1. d + 1 \in 1..(c - 1) /\ (d + 1) - 1 = d /\ d <= c - 1 /\ d + 1 \in 0..n /\ d + 1 < n
        /\ d + 1 \in 1..(n - 1)
    BY <1>1, <1>7
  <2>2. g[d + 1] = ShiftBack(g[d], After(first, d + 1, n)) /\ Shifted(g[d], first, d, K)
    BY <1>12, <1>15, <2>1
  <2>3. PICK slot \in S : /\ slot = After(first, d + 1, n)
                          /\ Steps(first, slot) = d + 1 /\ slots[slot] # Empty
    BY <1>6, <1>8, <2>1
  <2>4. PICK m \in 1..(n - 1) : m = d + 1 /\ m - 1 = d
    BY <2>1
  <2>5. Shifted(g[d], first, m - 1, K)
    BY <2>2, <2>4
  <2> HIDE DEF K
  <2>6. Shifted(ShiftBack(g[d], slot), first, m, K)
    BY <1>1, <1>5, <2>3, <2>4, <2>5, ShiftBackKeeps DEF n
  <2> QED
    BY <2>2, <2>3, <2>4, <2>6
<1>16. c - 1 \in G
  <2> HIDE DEF G
  <2> QED
    BY <1>10, <1>14, <1>15, Induction
<1>17. Shifted(g[c - 1], first, c - 1, K)
  BY <1>10, <1>16
<1> HIDE DEF K
<1>18. Holds(g[c - 1].table, n, K)
  BY <1>1, <1>5, <1>7, <1>9, <1>17, ShiftedHolds DEF n
<1> QED
  BY <1>3, <1>18 DEF K, n

-----------------------------------------------------------------------------
(* The steps *)

LEMMA InitHashInv == TableParameters /\ TableInit => HashInv
<1> SUFFICES ASSUME TableParameters, TableInit
             PROVE  HashInv
  OBVIOUS
<1>1. InitSlots \in Nat /\ InitSlots >= 4
  BY DEF TableParameters
<1>2. Holds(slots, nslots, stored)
  BY DEF TableInit, Holds
<1>3. IsFiniteSet(stored) /\ Cardinality(stored) = 0
  BY FS_EmptySet DEF TableInit
<1> QED
  BY <1>1, <1>2, <1>3 DEF TableInit, HashInv

LEMMA InsertKeeps == ASSUME TableParameters, HashInv, NEW k \in Keys, Insert(k) PROVE HashInv'
<1>1. /\ nslots \in Nat /\ nslots >= 4 /\ hash \in [Keys -> Hashes] /\ stored \subseteq Keys
      /\ IsFiniteSet(stored) /\ count = Cardinality(stored) /\ Holds(slots, nslots, stored)
  BY DEF HashInv
<1>2. count \in Nat /\ count <= (nslots * 3) \div 4 /\ count < nslots /\ count < 2 * nslots
  <2>1. count \in Nat
    BY <1>1, FS_CardinalityType
  <2> QED
    BY <1>1, <2>1 DEF HashInv
<1>3. IsFiniteSet(stored') /\ count' = Cardinality(stored') /\ stored' \subseteq Keys
      /\ hash' = hash
  BY <1>1, FS_AddElement DEF Insert
<1>4. CASE MustGrow
  <2>1. nslots' = 2 * nslots /\ slots' = Place(GrownTable, 2 * nslots, k)
        /\ count' = count + 1 /\ stored' = stored \cup {k} /\ k \notin stored
    BY <1>4 DEF Insert
  <2>2. PICK m \in Nat \ {0} : m = 2 * nslots
    BY <1>1
  <2>3. Holds(GrownTable, m, stored)
    BY <2>2, GrownHolds
  <2>4. Holds(Place(GrownTable, m, k), m, stored \cup {k})
    BY <1>1, <1>2, <2>1, <2>2, <2>3, PlaceHolds
  <2>5. count' <= (nslots' * 3) \div 4 /\ nslots' \in Nat /\ nslots' >= 4
    BY <1>1, <1>2, <2>1
  <2>6. Holds(slots', nslots', stored')
    BY <2>1, <2>2, <2>4
  <2>7. Holds(slots, nslots, stored)'
    BY <1>3, <2>6 DEF Holds, Home
  <2> QED
    BY <1>1, <1>3, <2>5, <2>7 DEF HashInv
<1>5. CASE ~MustGrow
  <2>1. nslots' = nslots /\ slots' = Place(slots, nslots, k)
        /\ count' = count + 1 /\ stored' = stored \cup {k} /\ k \notin stored
    BY <1>5 DEF Insert
  <2>2. nslots \in Nat \ {0}
    BY <1>1
  <2>3. Holds(Place(slots, nslots, k), nslots, stored \cup {k})
    BY <1>1, <1>2, <2>1, <2>2, PlaceHolds
  <2>4. count' <= (nslots' * 3) \div 4
    BY <1>1, <1>2, <1>5, <2>1 DEF MustGrow
  <2>5. Holds(slots, nslots, stored)'
    BY <1>3, <2>1, <2>3 DEF Holds, Home
  <2> QED
    BY <1>1, <1>3, <2>1, <2>4, <2>5 DEF HashInv
<1> QED
  BY <1>4, <1>5

LEMMA DeleteKeeps == ASSUME TableParameters, HashInv, NEW k \in Keys, Delete(k) PROVE HashInv'
<1>1. k \in stored /\ slots' = Removed(k) /\ count' = count - 1 /\ stored' = stored \ {k}
      /\ hash' = hash /\ nslots' = nslots
  BY DEF Delete
<1>2. /\ nslots \in Nat /\ nslots >= 4 /\ hash \in [Keys -> Hashes] /\ stored \subseteq Keys
      /\ IsFiniteSet(stored) /\ count = Cardinality(stored) /\ count <= (nslots * 3) \div 4
  BY DEF HashInv
<1>3. IsFiniteSet(stored') /\ count' = Cardinality(stored')
  BY <1>1, <1>2, FS_RemoveElement
<1>4. count \in Nat /\ count' <= (nslots' * 3) \div 4
  <2>1. count \in Nat
    BY <1>2, FS_CardinalityType
  <2> QED
    BY <1>1, <1>2, <2>1
<1>5. Holds(Removed(k), nslots, stored \ {k})
  BY <1>1, RemovedHolds
<1>6. Holds(slots, nslots, stored)'
  BY <1>1, <1>5 DEF Holds, Home
<1> QED
  BY <1>1, <1>2, <1>3, <1>4, <1>6 DEF HashInv

LEMMA NextHashInv == ASSUME TableParameters, HashInv, [TableNext]_tableVars PROVE HashInv'
<1>1. CASE UNCHANGED tableVars
  BY <1>1 DEF tableVars, HashInv, Holds, Home
<1> QED
  BY <1>1, InsertKeeps, DeleteKeeps DEF TableNext

LEMMA HashTypes == HashInv => TableTypeOK
<1> SUFFICES ASSUME HashInv
             PROVE  TableTypeOK
  OBVIOUS
<1>1. count \in Nat
  BY FS_CardinalityType DEF HashInv
<1>2. count \in 0..nslots
  BY <1>1 DEF HashInv
<1>3. slots \in [Slots -> Keys \cup {Empty}]
  <2>1. slots \in [Slots -> stored \cup {Empty}] /\ stored \subseteq Keys
    BY DEF HashInv, Holds, Slots
  <2> QED
    BY <2>1
<1> QED
  BY <1>2, <1>3 DEF HashInv, TableTypeOK

\* The invariant of the hash table of cache.c, for any keys and hashes.
THEOREM HashInvariant ==
  ASSUME TableParameters
  PROVE  TableSpec => []HashInv
<1>1. TableInit => HashInv
  BY InitHashInv
<1>2. HashInv /\ [TableNext]_tableVars => HashInv'
  BY NextHashInv
<1> QED
  BY <1>1, <1>2, PTL DEF TableSpec

-----------------------------------------------------------------------------
(* The row readers (RowRead).  The rows served so far and those left are      *)
(* separated by a gap, so the runs of the rows left are runs of all rows that *)
(* were requested.                                                            *)

Asked == RowsOf(Positions)
Pending == RowsOf(left)
Read == RowsOf(Positions \ left)

\* All but reader.c put what continues a run behind what came before.
InPlace == reader # ReaderC \/ reader \notin ShortReads

\* The request list is one, and its rows are either left or served.
RequestInv == /\ reader \in Readers
              /\ rows \in Requests
              /\ left \subseteq Positions
              /\ block \in [0..(BlockBytes(Asked) - 1) -> Int]
              /\ out \in [Positions -> [0..(RowBytes - 1) -> Int]]
              /\ pc \in {"run", "pread", "scatter", "ok", "failed"}
              /\ pc = "ok" => left = {}

\* The rows left are behind those served, and not adjacent to them.
GapInv == \A d \in Read, p \in Pending : d + 1 < p

\* During a run: it is the first of the rows left, and what has arrived is in
\* the block.
RunInv ==
  /\ start \in 0..NumRows /\ expect \in 0..NumRows
  /\ off \in 0..(NumRows * RowBytes)
  /\ pc \in {"pread", "scatter"} =>
       /\ left # {}
       /\ start = Min(Pending) /\ expect = RunEnd(start, Pending)
       /\ off <= RunBytes
       /\ reader \notin ShortReads => off \in {0, RunBytes}
       /\ InPlace =>
            \A j \in 0..(off - 1) : block[j] = start * RowBytes + j
  /\ pc = "scatter" => off = RunBytes

\* The statistics: what the runs served so far have cost, and the current one.
CountsInv ==
  /\ calls \in Nat /\ total \in Nat
  /\ pc \in {"run", "pread", "ok"} => total = RowBytes * Cardinality(Read)
  /\ pc = "scatter" => total = RowBytes * Cardinality(Read) + RunBytes
  /\ pc # "failed" =>
       LET cost == Cardinality(RunStarts(Read))
                   + (IF pc = "scatter" \/ (pc = "pread" /\ off > 0) THEN 1 ELSE 0)
       IN  calls >= cost /\ (reader \notin ShortReads => calls = cost)

\* What has been served is what was requested, unless reader.c reads short.
ServedInv ==
  InPlace =>
    \A p \in Positions \ left, b \in 0..(RowBytes - 1) : out[p][b] = rows[p] * RowBytes + b

ReadInv == RequestInv /\ GapInv /\ RunInv /\ CountsInv /\ ServedInv

-----------------------------------------------------------------------------
(* Arithmetic *)

\* Multiplication keeps the order.
LEMMA ProductsOrdered ==
  ASSUME NEW a \in Nat, NEW b \in Nat, NEW m \in Nat, a <= b
  PROVE  a * m <= b * m /\ b * m - a * m = (b - a) * m /\ a * m \in Nat
<1>1. PICK d \in Nat : b = a + d
  BY b - a \in Nat, b = a + (b - a)
<1>2. b * m = a * m + d * m
  BY <1>1
<1>3. d * m \in Nat /\ a * m \in Nat
  OBVIOUS
<1>4. b - a = d
  BY <1>1
<1> QED
  BY <1>2, <1>3, <1>4

-----------------------------------------------------------------------------
(* Runs *)

LEMMA RowsAreNumbers ==
  ASSUME ReadParameters, RequestInv
  PROVE  /\ NumRows \in Nat \ {0} /\ RowBytes \in Nat \ {0} /\ Row \subseteq Nat
         /\ Positions \in SUBSET Nat /\ Positions # {}
         /\ \A p \in Positions : rows[p] \in Row
         /\ Asked = Read \cup Pending
         /\ Read \subseteq Row /\ Pending \subseteq Row /\ Asked \subseteq Row /\ Asked # {}
<1>1. NumRows \in Nat \ {0} /\ RowBytes \in Nat \ {0} /\ MaxRequests \in Nat \ {0}
  BY DEF ReadParameters
<1>2. Row \subseteq Nat
  BY <1>1 DEF Row
<1>3. PICK n \in 1..MaxRequests : rows \in [1..n -> Row]
  BY DEF RequestInv, Requests
<1>4. Len(rows) = n /\ n \in Nat /\ n >= 1
  BY <1>1, <1>3
<1>5. Positions = 1..n
  BY <1>4 DEF Positions
<1>6. \A p \in Positions : rows[p] \in Row
  BY <1>3, <1>5
<1>7. 1 \in Positions
  BY <1>4, <1>5
<1>8. left \subseteq Positions
  BY DEF RequestInv
<1>9. Asked = Read \cup Pending
  BY <1>8 DEF Asked, Read, Pending, RowsOf
<1>10. Asked \subseteq Row /\ rows[1] \in Asked
  BY <1>6, <1>7 DEF Asked, RowsOf
<1> QED
  BY <1>1, <1>2, <1>4, <1>5, <1>6, <1>7, <1>9, <1>10

LEMMA RunEndEnds ==
  ASSUME NumRows \in Nat, NEW W, W \subseteq Row, NEW first \in Row
  PROVE  /\ RunEnd(first, W) \in (first + 1)..NumRows
         /\ RunEnd(first, W) \notin W
         /\ \A r \in (first + 1)..(RunEnd(first, W) - 1) : r \in W
<1> DEFINE S == {r \in (first + 1)..NumRows : r \notin W}
           e == RunEnd(first, W)
<1>1. S \subseteq Nat /\ NumRows \in S
  BY DEF Row
<1>2. e \in S /\ \A r \in S : e <= r
  BY <1>1, MinIsLeast DEF RunEnd
<1>3. ASSUME NEW r \in (first + 1)..(e - 1)
      PROVE  r \in W
  BY <1>2, <1>3 DEF Row
<1> QED
  BY <1>2, <1>3

\* A run of rows with nothing requested in front of it is the run of any set
\* that adds to the rows requested only rows in front of it.
LEMMA RunEndSame ==
  ASSUME NumRows \in Nat, NEW S, NEW T, NEW first \in Row, T \subseteq S,
         \A r \in S \ T : r < first
  PROVE  RunEnd(first, S) = RunEnd(first, T)
<1>1. {r \in (first + 1)..NumRows : r \notin S} = {r \in (first + 1)..NumRows : r \notin T}
  BY DEF Row
<1> QED
  BY <1>1 DEF RunEnd

\* The run that begins with the first of the rows left is a run of all.
LEMMA FirstRun ==
  ASSUME ReadParameters, RequestInv, GapInv, left # {},
         NEW s, NEW e, s = Min(Pending), e = RunEnd(s, Pending)
  PROVE  /\ s \in Pending /\ s \in Row /\ e \in (s + 1)..NumRows /\ e \notin Pending
         /\ \A p \in Pending : s <= p
         /\ s..(e - 1) \subseteq Pending
         /\ \A d \in Read : d + 1 < s
         /\ s \in RunStarts(Asked) /\ e = RunEnd(s, Asked)
<1>1. Pending # {} /\ Pending \subseteq Nat
  BY RowsAreNumbers DEF Pending, RowsOf
<1>2. s \in Pending /\ s \in Row /\ \A p \in Pending : s <= p
  BY <1>1, RowsAreNumbers, MinIsLeast
<1>3. /\ e \in (s + 1)..NumRows /\ e \notin Pending
      /\ \A r \in (s + 1)..(e - 1) : r \in Pending
  BY <1>2, RowsAreNumbers, RunEndEnds
<1>4. s..(e - 1) \subseteq Pending
  <2> SUFFICES ASSUME NEW r \in s..(e - 1)
               PROVE  r \in Pending
    OBVIOUS
  <2>1. r = s \/ r \in (s + 1)..(e - 1)
    BY <1>2, <1>3 DEF Row
  <2> QED
    BY <1>2, <1>3, <2>1
<1>5. \A d \in Read : d + 1 < s
  BY <1>2 DEF GapInv
<1>6. s - 1 \notin Asked
  <2>1. s - 1 \notin Pending
    BY <1>2, RowsAreNumbers DEF Row
  <2>2. s - 1 \notin Read
    BY <1>2, <1>5, RowsAreNumbers DEF Row
  <2> QED
    BY <2>1, <2>2, RowsAreNumbers
<1>7. e = RunEnd(s, Asked)
  <2>1. \A r \in Asked \ Pending : r < s
    BY <1>2, <1>5, RowsAreNumbers DEF Row
  <2> QED
    BY <1>2, <2>1, RowsAreNumbers, RunEndSame
<1>8. s \in RunStarts(Asked)
  BY <1>2, <1>6, RowsAreNumbers DEF RunStarts
<1> QED
  BY <1>2, <1>3, <1>4, <1>5, <1>7, <1>8

\* No run is longer than the longest.
LEMMA RunsFit ==
  ASSUME ReadParameters, NEW W, W \subseteq Row, NEW s \in RunStarts(W)
  PROVE  /\ (RunEnd(s, W) - s) * RowBytes <= BlockBytes(W)
         /\ BlockBytes(W) \in Nat
<1> DEFINE lengths == {RunEnd(r, W) - r : r \in RunStarts(W)}
           longest == Max(lengths)
<1>1. NumRows \in Nat /\ RowBytes \in Nat
  BY DEF ReadParameters
<1>2. \A r \in RunStarts(W) : RunEnd(r, W) - r \in 0..NumRows
  <2> SUFFICES ASSUME NEW r \in RunStarts(W)
               PROVE  RunEnd(r, W) - r \in 0..NumRows
    OBVIOUS
  <2>1. r \in Row
    BY DEF RunStarts
  <2>2. RunEnd(r, W) \in (r + 1)..NumRows
    BY <1>1, <2>1, RunEndEnds
  <2> QED
    BY <1>1, <2>1, <2>2 DEF Row
<1>3. lengths \subseteq 0..NumRows /\ RunEnd(s, W) - s \in lengths
  BY <1>2
<1> DEFINE these == RunEnd(s, W) - s
<1>4. longest \in 0..NumRows /\ these \in 0..NumRows /\ these <= longest
  <2> HIDE DEF lengths
  <2> QED
    BY <1>1, <1>3, MaxIsGreatest
<1>5. BlockBytes(W) = RowBytes * longest
  BY DEF BlockBytes
<1> HIDE DEF these, longest
<1>6. these * RowBytes <= longest * RowBytes /\ longest * RowBytes \in Nat
  BY <1>1, <1>4, ProductsOrdered
<1>7. RowBytes * longest = longest * RowBytes
  BY <1>1, <1>4
<1> QED
  BY <1>5, <1>6, <1>7 DEF these

-----------------------------------------------------------------------------
(* The invariant *)

LEMMA InitReadInv == ReadParameters /\ ReadInit => ReadInv
<1> SUFFICES ASSUME ReadParameters, ReadInit
             PROVE  ReadInv
  OBVIOUS
<1>1. NumRows \in Nat /\ RowBytes \in Nat /\ Junk \in Int
  BY DEF ReadParameters, Junk
<1>2. RequestInv
  BY <1>1 DEF ReadInit, RequestInv, Asked
<1>3. Read = {} /\ 0 \in 0..NumRows
  BY <1>1 DEF ReadInit, Read, RowsOf
<1>4. GapInv /\ ServedInv
  BY <1>3 DEF ReadInit, GapInv, ServedInv, InPlace
<1>5. 0 \in 0..(NumRows * RowBytes)
  <2>1. NumRows * RowBytes \in Nat
    BY <1>1
  <2> QED
    BY <2>1
<1>6. RunInv
  BY <1>3, <1>5 DEF ReadInit, RunInv
<1>7. Cardinality(Read) = 0 /\ Cardinality(RunStarts(Read)) = 0
  <2>1. RunStarts(Read) = {}
    BY <1>3 DEF RunStarts
  <2> QED
    BY <1>3, <2>1, FS_EmptySet
<1>8. CountsInv
  <2>1. pc = "run" /\ calls = 0 /\ total = 0 /\ RowBytes * 0 = 0
    BY <1>1 DEF ReadInit
  <2> QED
    BY <1>7, <2>1 DEF CountsInv
<1> QED
  BY <1>2, <1>4, <1>6, <1>8 DEF ReadInv

LEMMA RunStartsFinite ==
  ASSUME ReadParameters, RequestInv
  PROVE  /\ IsFiniteSet(Read) /\ Cardinality(Read) \in Nat
         /\ IsFiniteSet(RunStarts(Read)) /\ Cardinality(RunStarts(Read)) \in Nat
<1>1. IsFiniteSet(Row)
  BY FS_Interval DEF ReadParameters, Row
<1>2. Read \subseteq Row /\ RunStarts(Read) \subseteq Row
  BY RowsAreNumbers DEF RunStarts
<1> QED
  BY <1>1, <1>2, FS_Subset, FS_CardinalityType

\* A step that serves nothing and starts no run disturbs only the run.
LEMMA NothingServed ==
  ASSUME ReadInv, UNCHANGED <<reader, rows, left, out>>,
         block' \in [0..(BlockBytes(Asked) - 1) -> Int],
         pc' \in {"run", "pread", "scatter", "failed"} \/ (pc' = "ok" /\ left = {})
  PROVE  RequestInv' /\ GapInv' /\ ServedInv'
<1>1. Asked' = Asked /\ Read' = Read /\ Pending' = Pending /\ Positions' = Positions
  BY DEF Asked, Read, Pending, RowsOf, Positions
<1>2. RequestInv'
  BY <1>1 DEF ReadInv, RequestInv
<1>3. GapInv' /\ ServedInv'
  BY <1>1 DEF ReadInv, GapInv, ServedInv, InPlace
<1> QED
  BY <1>2, <1>3

LEMMA NextRunKeeps ==
  ASSUME ReadParameters, ReadInv, NextRun
  PROVE  ReadInv'
<1>1. Asked' = Asked /\ Read' = Read /\ Pending' = Pending
  BY DEF NextRun, Asked, Read, Pending, RowsOf, Positions
<1>2. RequestInv' /\ GapInv' /\ ServedInv'
  BY NothingServed DEF NextRun, ReadInv, RequestInv
<1>3. left # {} /\ start' = Min(Pending) /\ expect' = RunEnd(start', Pending) /\ off' = 0
  BY DEF NextRun, Pending
<1>4. PICK s, e : s = start' /\ e = expect'
  OBVIOUS
<1>5. s \in Row /\ e \in (s + 1)..NumRows
  BY <1>3, <1>4, FirstRun DEF ReadInv
<1>6. NumRows \in Nat /\ RowBytes \in Nat /\ NumRows * RowBytes \in Nat
  BY DEF ReadParameters
<1>7. /\ s \in 0..NumRows /\ e \in 0..NumRows /\ 0 \in 0..(NumRows * RowBytes)
      /\ 0 <= (e - s) * RowBytes
  <2>1. s \in Nat /\ e \in Nat /\ e - s \in Nat
    BY <1>5, <1>6 DEF Row
  <2>2. (e - s) * RowBytes \in Nat
    BY <1>6, <2>1
  <2> QED
    BY <1>5, <1>6, <2>1, <2>2 DEF Row
<1>8. RunInv'
  <2>1. pc' = "pread" /\ left' = left /\ reader' = reader
    BY DEF NextRun
  <2> QED
    BY <1>1, <1>3, <1>4, <1>7, <2>1 DEF RunInv, RunBytes, InPlace
<1>9. CountsInv'
  BY <1>1, <1>3 DEF NextRun, ReadInv, CountsInv
<1> QED
  BY <1>2, <1>8, <1>9 DEF ReadInv

LEMMA CurrentRun ==
  ASSUME ReadParameters, ReadInv, pc \in {"pread", "scatter"}
  PROVE  /\ start \in Pending /\ start \in Row /\ expect \in (start + 1)..NumRows
         /\ expect \notin Pending /\ start..(expect - 1) \subseteq Pending
         /\ \A p \in Pending : start <= p
         /\ \A d \in Read : d + 1 < start
         /\ RunBytes \in Nat \ {0}
         /\ RunBytes <= BlockBytes(Asked) /\ BlockBytes(Asked) \in Nat
         /\ RunBytes <= NumRows * RowBytes
<1>1. /\ start \in Pending /\ start \in Row /\ expect \in (start + 1)..NumRows
      /\ expect \notin Pending /\ start..(expect - 1) \subseteq Pending
      /\ \A p \in Pending : start <= p
      /\ \A d \in Read : d + 1 < start
      /\ start \in RunStarts(Asked) /\ expect = RunEnd(start, Asked)
  BY FirstRun DEF ReadInv, RunInv
<1>2. NumRows \in Nat /\ RowBytes \in Nat \ {0} /\ Asked \subseteq Row
  BY RowsAreNumbers DEF ReadInv
<1>3. RunBytes <= BlockBytes(Asked) /\ BlockBytes(Asked) \in Nat
  BY <1>1, <1>2, RunsFit DEF RunBytes
<1>4. PICK m : m = expect - start
  OBVIOUS
<1>5. m \in Nat /\ 1 <= m /\ m <= NumRows
  BY <1>1, <1>2, <1>4 DEF Row
<1>6. /\ 1 * RowBytes <= m * RowBytes /\ m * RowBytes <= NumRows * RowBytes
      /\ m * RowBytes \in Nat
  BY <1>2, <1>5, ProductsOrdered
<1>7. RunBytes = m * RowBytes /\ 1 * RowBytes = RowBytes
  BY <1>2, <1>4 DEF RunBytes
<1> QED
  BY <1>1, <1>2, <1>3, <1>6, <1>7

LEMMA PreadKeeps ==
  ASSUME ReadParameters, ReadInv, Pread
  PROVE  ReadInv'
<1>1. PICK n \in 1..(RunBytes - off) :
        /\ reader \in ShortReads \/ n = RunBytes - off
        /\ block' = Arrived(n)
        /\ IF reader = StoragePy /\ n < RunBytes
           THEN pc' = "failed" /\ UNCHANGED <<off, calls>>
           ELSE off' = off + n /\ calls' = calls + 1 /\ UNCHANGED pc
  BY DEF Pread
<1>2. /\ pc = "pread" /\ off < RunBytes
      /\ UNCHANGED <<reader, rows, left, start, expect, out, total>>
  BY DEF Pread
<1>3. /\ NumRows \in Nat /\ RowBytes \in Nat /\ NumRows * RowBytes \in Nat
      /\ start \in Nat /\ start * RowBytes \in Int
  <2>1. NumRows \in Nat /\ RowBytes \in Nat /\ start \in Nat
    BY <1>2, CurrentRun DEF ReadParameters, Row
  <2> QED
    BY <2>1
<1>4. /\ RunBytes \in Nat /\ RunBytes <= BlockBytes(Asked) /\ BlockBytes(Asked) \in Nat
      /\ RunBytes <= NumRows * RowBytes
  BY <1>2, CurrentRun
<1>5. off \in Nat /\ n \in Nat /\ n >= 1 /\ off + n <= RunBytes
  BY <1>3, <1>4 DEF ReadInv, RunInv
<1>6. block \in [0..(BlockBytes(Asked) - 1) -> Int]
  BY DEF ReadInv, RequestInv
<1>7. block' \in [0..(BlockBytes(Asked) - 1) -> Int]
  <2>1. Dest \in Int
    BY <1>5 DEF Dest
  <2>2. \A j \in 0..(BlockBytes(Asked) - 1) :
          start * RowBytes + off + (j - Dest) \in Int /\ block[j] \in Int
    BY <1>3, <1>5, <1>6, <2>1
  <2> QED
    BY <1>1, <1>6, <2>2 DEF Arrived
<1>8. RequestInv' /\ GapInv' /\ ServedInv'
  BY <1>1, <1>2, <1>7, NothingServed
<1>9. Read' = Read /\ Pending' = Pending /\ RunBytes' = RunBytes
  BY <1>2 DEF Read, Pending, RowsOf, Positions, RunBytes
<1>10. CASE reader = StoragePy /\ n < RunBytes
  <2>1. pc' = "failed" /\ UNCHANGED <<off, calls, start, expect, total>>
    BY <1>1, <1>2, <1>10
  <2> QED
    BY <1>8, <2>1 DEF ReadInv, RunInv, CountsInv, InPlace
<1>11. CASE ~ (reader = StoragePy /\ n < RunBytes)
  <2>1. off' = off + n /\ calls' = calls + 1 /\ pc' = "pread"
    BY <1>1, <1>2, <1>11
  <2>2. reader \notin ShortReads => off = 0 /\ off + n = RunBytes
    BY <1>1, <1>2, <1>4, <1>5 DEF ReadInv, RunInv
  <2>3. ASSUME InPlace, NEW j \in 0..(off + n - 1)
        PROVE  block'[j] = start * RowBytes + j
    <3>1. Dest = off
      BY <2>2, <2>3 DEF Dest, InPlace
    <3>2. j \in DOMAIN block
      BY <1>4, <1>5, <1>6
    <3>3. CASE j < off
      <4>1. j \notin off..(off + n - 1) /\ j \in 0..(off - 1)
        BY <1>5, <3>3
      <4>2. block'[j] = block[j]
        BY <1>1, <3>1, <3>2, <4>1 DEF Arrived
      <4> QED
        BY <1>2, <2>3, <4>1, <4>2 DEF ReadInv, RunInv
    <3>4. CASE ~ (j < off)
      <4>1. j \in off..(off + n - 1)
        BY <1>5, <3>4
      <4>2. block'[j] = start * RowBytes + off + (j - off)
        BY <1>1, <3>1, <3>2, <4>1 DEF Arrived
      <4>3. PICK x : x = start * RowBytes
        OBVIOUS
      <4> QED
        BY <1>3, <1>5, <4>2, <4>3
    <3> QED
      BY <3>3, <3>4
  <2>4. off' \in 0..(NumRows * RowBytes) /\ off' <= RunBytes' /\ off' > 0
    BY <1>3, <1>4, <1>5, <1>9, <2>1
  <2>5. reader' \notin ShortReads => off' \in {0, RunBytes'}
    BY <1>2, <1>9, <2>1, <2>2
  <2>6. InPlace =>
          \A j \in 0..(off' - 1) : block'[j] = start' * RowBytes + j
    <3> SUFFICES ASSUME InPlace, NEW j \in 0..(off' - 1)
                 PROVE  block'[j] = start' * RowBytes + j
      OBVIOUS
    <3>1. start' = start /\ off' - 1 = off + n - 1
      BY <1>2, <1>5, <2>1
    <3>2. j \in 0..(off + n - 1)
      BY <3>1
    <3> QED
      BY <2>3, <3>1, <3>2
  <2>7. RunInv'
    BY <1>2, <1>9, <2>1, <2>4, <2>5, <2>6 DEF ReadInv, RunInv, InPlace
  <2>8. CountsInv'
    <3>1. PICK c : c = Cardinality(RunStarts(Read))
      OBVIOUS
    <3>2. /\ calls \in Nat /\ total \in Nat /\ total = RowBytes * Cardinality(Read)
          /\ calls >= c + (IF off > 0 THEN 1 ELSE 0)
          /\ reader \notin ShortReads => calls = c + (IF off > 0 THEN 1 ELSE 0)
      BY <1>2, <3>1 DEF ReadInv, CountsInv
    <3>3. c \in Nat
      BY <3>1, RunStartsFinite DEF ReadInv
    <3>4. calls + 1 >= c + 1 /\ (reader \notin ShortReads => calls + 1 = c + 1)
      BY <2>2, <3>2, <3>3
    <3> QED
      BY <1>2, <1>9, <2>1, <2>4, <3>1, <3>2, <3>4 DEF CountsInv
  <2> QED
    BY <1>8, <2>7, <2>8 DEF ReadInv
<1> QED
  BY <1>10, <1>11

LEMMA PreadFailsKeeps ==
  ASSUME ReadInv, PreadFails
  PROVE  ReadInv'
<1>1. /\ pc' = "failed" /\ calls' \in {calls, calls + 1}
      /\ UNCHANGED <<reader, rows, left, block, start, expect, off, out, total>>
  BY DEF PreadFails
<1>2. BlockBytes(Asked)' = BlockBytes(Asked)
  BY <1>1 DEF Asked, RowsOf, Positions
<1>3. RequestInv' /\ GapInv' /\ ServedInv'
  BY <1>1, NothingServed DEF ReadInv, RequestInv
<1>4. RunInv' /\ CountsInv'
  BY <1>1 DEF ReadInv, RunInv, CountsInv, InPlace
<1> QED
  BY <1>3, <1>4 DEF ReadInv

LEMMA RunCompleteKeeps ==
  ASSUME ReadParameters, ReadInv, RunComplete
  PROVE  ReadInv'
<1>1. /\ pc = "pread" /\ off = RunBytes /\ total' = total + RunBytes /\ pc' = "scatter"
      /\ UNCHANGED <<reader, rows, left, block, start, expect, off, out, calls>>
  BY DEF RunComplete
<1>2. Read' = Read /\ Pending' = Pending /\ RunBytes' = RunBytes
  BY <1>1 DEF Read, Pending, RowsOf, Positions, RunBytes
<1>3. RequestInv' /\ GapInv' /\ ServedInv'
  BY <1>1, NothingServed DEF ReadInv, RequestInv
<1>4. RunInv'
  BY <1>1, <1>2 DEF ReadInv, RunInv, InPlace
<1>5. RunBytes \in Nat /\ off > 0
  BY <1>1, CurrentRun
<1>6. CountsInv'
  BY <1>1, <1>2, <1>5 DEF ReadInv, CountsInv
<1> QED
  BY <1>3, <1>4, <1>6 DEF ReadInv

LEMMA FinishedKeeps ==
  ASSUME ReadInv, Finished
  PROVE  ReadInv'
<1>1. /\ pc = "run" /\ left = {} /\ pc' = "ok"
      /\ UNCHANGED <<reader, rows, left, block, start, expect, off, out, calls, total>>
  BY DEF Finished
<1>2. Read' = Read
  BY <1>1 DEF Read, RowsOf, Positions
<1>3. RequestInv' /\ GapInv' /\ ServedInv'
  BY <1>1, NothingServed DEF ReadInv, RequestInv
<1>4. RunInv' /\ CountsInv'
  BY <1>1, <1>2 DEF ReadInv, RunInv, CountsInv, InPlace
<1> QED
  BY <1>3, <1>4 DEF ReadInv

\* The rows of a run add to the rows read, and one run start to theirs.
LEMMA RunAdds ==
  ASSUME ReadParameters, ReadInv, pc = "scatter"
  PROVE  /\ RowsOf(Served) = start..(expect - 1)
         /\ RowsOf(left \ Served) = {p \in Pending : expect < p}
         /\ RowsOf(Positions \ (left \ Served)) = Read \cup (start..(expect - 1))
         /\ Cardinality(Read \cup (start..(expect - 1))) = Cardinality(Read) + (expect - start)
         /\ Cardinality(RunStarts(Read \cup (start..(expect - 1))))
              = Cardinality(RunStarts(Read)) + 1
<1> DEFINE these == start..(expect - 1)
<1>1. /\ start \in Nat /\ expect \in Nat /\ start < expect
      /\ start \in Pending /\ expect \notin Pending
      /\ these \subseteq Pending
      /\ \A p \in Pending : start <= p
      /\ \A d \in Read : d + 1 < start
  BY CurrentRun DEF Row
<1>2. /\ Pending \subseteq Nat /\ Read \subseteq Nat
      /\ left \subseteq Positions
      /\ \A p \in Positions : rows[p] \in Nat
  BY RowsAreNumbers DEF ReadInv, RequestInv
<1>3. \A p \in left : rows[p] \in Pending
  BY DEF Pending, RowsOf
<1>4. RowsOf(Served) = these
  <2>1. \A p \in Served : rows[p] \in these
    BY <1>1, <1>2, <1>3 DEF Served
  <2>2. ASSUME NEW r \in these
        PROVE  \E p \in Served : r = rows[p]
    BY <1>1 DEF Pending, RowsOf, Served
  <2> QED
    BY <2>1, <2>2 DEF RowsOf
<1>5. RowsOf(left \ Served) = {p \in Pending : expect < p}
  <2>1. ASSUME NEW p \in left \ Served
        PROVE  rows[p] \in Pending /\ expect < rows[p]
    BY <1>1, <1>2, <1>3 DEF Served
  <2>2. ASSUME NEW r \in Pending, expect < r
        PROVE  \E p \in left \ Served : r = rows[p]
    BY <1>1, <1>2, <2>2 DEF Pending, RowsOf, Served
  <2> QED
    BY <2>1, <2>2 DEF RowsOf
<1>6. RowsOf(Positions \ (left \ Served)) = Read \cup these
  <2>1. Positions \ (left \ Served) = (Positions \ left) \cup Served
    BY <1>2 DEF Served
  <2> QED
    BY <1>4, <2>1 DEF RowsOf, Read
<1>7. /\ IsFiniteSet(Read) /\ IsFiniteSet(RunStarts(Read))
      /\ Cardinality(Read) \in Nat /\ Cardinality(RunStarts(Read)) \in Nat
  BY RunStartsFinite DEF ReadInv
<1>8. IsFiniteSet(these) /\ Cardinality(these) = expect - start
  <2>1. start \in Int /\ expect - 1 \in Int /\ ~ (start > expect - 1)
    BY <1>1
  <2>2. (expect - 1) - start + 1 = expect - start
    BY <1>1
  <2> QED
    BY <2>1, <2>2, FS_Interval
<1>9. Cardinality(Read \cup these) = Cardinality(Read) + (expect - start)
  <2>1. Read \cap these = {}
    BY <1>1, <1>2
  <2>2. Cardinality(Read \cap these) = 0
    BY <2>1, FS_EmptySet
  <2> HIDE DEF these
  <2>3. Cardinality(Read \cup these) = Cardinality(Read) + Cardinality(these) - Cardinality(Read \cap these)
    BY <1>7, <1>8, FS_Union
  <2> QED
    BY <1>1, <1>7, <1>8, <2>2, <2>3
<1>10. RunStarts(Read \cup these) = RunStarts(Read) \cup {start}
  <2>1. ASSUME NEW r \in Read
        PROVE  r - 1 \notin these
    BY <1>1, <1>2
  <2>2. ASSUME NEW r \in these
        PROVE  r - 1 \in Read \cup these <=> r # start
    BY <1>1, <1>2
  <2> QED
    BY <1>1, <2>1, <2>2 DEF RunStarts
<1>11. start \notin RunStarts(Read)
  BY <1>1, <1>2 DEF RunStarts
<1>12. Cardinality(RunStarts(Read \cup these)) = Cardinality(RunStarts(Read)) + 1
  BY <1>7, <1>10, <1>11, FS_AddElement
<1> QED
  BY <1>4, <1>5, <1>6, <1>9, <1>12

LEMMA ScatterKeeps ==
  ASSUME ReadParameters, ReadInv, Scatter
  PROVE  ReadInv'
<1> DEFINE these == start..(expect - 1)
<1>1. /\ pc = "scatter" /\ pc' = "run" /\ left' = left \ Served
      /\ UNCHANGED <<reader, rows, block, start, expect, off, calls, total>>
  BY DEF Scatter
<1>2. out' = [p \in Positions |->
                IF p \in Served
                THEN [b \in 0..(RowBytes - 1) |-> block[(rows[p] - start) * RowBytes + b]]
                ELSE out[p]]
  BY DEF Scatter
<1>3. Asked' = Asked /\ Positions' = Positions
  BY <1>1 DEF Asked, RowsOf, Positions
<1>4. Read' = Read \cup these /\ Pending' = {p \in Pending : expect < p}
  <2>1. Read' = RowsOf(Positions \ (left \ Served)) /\ Pending' = RowsOf(left \ Served)
    BY <1>1, <1>3 DEF Read, Pending, RowsOf
  <2> QED
    BY <1>1, <2>1, RunAdds
<1>5. /\ start \in Nat /\ expect \in Nat /\ start < expect
      /\ \A d \in Read : d + 1 < start
      /\ RunBytes \in Nat /\ RunBytes <= BlockBytes(Asked) /\ BlockBytes(Asked) \in Nat
  BY <1>1, CurrentRun DEF Row
<1>6. /\ RowBytes \in Nat \ {0} /\ left \subseteq Positions
      /\ Pending \subseteq Nat /\ Read \subseteq Nat /\ \A p \in Positions : rows[p] \in Nat
  BY RowsAreNumbers DEF ReadInv, RequestInv
\* A served row's bytes are in the part of the block that was read.
<1>7. ASSUME NEW p \in Served, NEW b \in 0..(RowBytes - 1)
      PROVE  /\ (rows[p] - start) * RowBytes + b \in 0..(RunBytes - 1)
             /\ start * RowBytes + ((rows[p] - start) * RowBytes + b) = rows[p] * RowBytes + b
  <2>1. rows[p] \in Nat /\ start <= rows[p] /\ rows[p] < expect
    <3>1. p \in left /\ rows[p] < expect
      BY <1>7 DEF Served
    <3>2. rows[p] \in Pending
      BY <3>1 DEF Pending, RowsOf
    <3> QED
      BY <1>1, <1>6, <3>1, <3>2, CurrentRun
  <2>2. PICK k, m : k = rows[p] - start /\ m = expect - start
    OBVIOUS
  <2>3. k \in Nat /\ m \in Nat /\ k + 1 \in Nat /\ k + 1 <= m /\ rows[p] = start + k
    BY <1>5, <2>1, <2>2
  <2>4. (k + 1) * RowBytes <= m * RowBytes /\ (k + 1) * RowBytes \in Nat
    BY <1>6, <2>3, ProductsOrdered
  <2>5. (k + 1) * RowBytes = k * RowBytes + RowBytes /\ k * RowBytes \in Nat
    BY <1>6, <2>3
  <2>6. RunBytes = m * RowBytes
    BY <2>2 DEF RunBytes
  <2>7. k * RowBytes + b \in 0..(RunBytes - 1)
    BY <1>5, <1>6, <2>4, <2>5, <2>6
  <2>8. rows[p] * RowBytes = start * RowBytes + k * RowBytes /\ start * RowBytes \in Nat
    BY <1>5, <1>6, <2>3
  <2>9. start * RowBytes + (k * RowBytes + b) = rows[p] * RowBytes + b
    BY <2>5, <2>8
  <2> QED
    BY <2>2, <2>7, <2>9
<1>8. block \in [0..(BlockBytes(Asked) - 1) -> Int]
      /\ out \in [Positions -> [0..(RowBytes - 1) -> Int]]
  BY DEF ReadInv, RequestInv
<1>9. out' \in [Positions -> [0..(RowBytes - 1) -> Int]]
  <2>1. ASSUME NEW p \in Served
        PROVE  [b \in 0..(RowBytes - 1) |-> block[(rows[p] - start) * RowBytes + b]]
                 \in [0..(RowBytes - 1) -> Int]
    <3>1. ASSUME NEW b \in 0..(RowBytes - 1)
          PROVE  block[(rows[p] - start) * RowBytes + b] \in Int
      <4>1. PICK j : j = (rows[p] - start) * RowBytes + b
        OBVIOUS
      <4>2. j \in 0..(BlockBytes(Asked) - 1)
        BY <1>5, <1>7, <4>1
      <4> QED
        BY <1>8, <4>1, <4>2
    <3> QED
      BY <3>1
  <2> QED
    BY <1>2, <1>8, <2>1
<1>10. RequestInv'
  BY <1>1, <1>3, <1>6, <1>8, <1>9 DEF ReadInv, RequestInv
<1>11. GapInv'
  BY <1>4, <1>5, <1>6 DEF GapInv
<1>12. RunInv'
  BY <1>1 DEF ReadInv, RunInv
<1>13. CountsInv'
  <2>1. PICK c, d : c = Cardinality(Read) /\ d = Cardinality(RunStarts(Read))
    OBVIOUS
  <2>2. c \in Nat /\ d \in Nat
    BY <2>1, RunStartsFinite DEF ReadInv
  <2>3. /\ calls \in Nat /\ total \in Nat /\ total = RowBytes * c + RunBytes
        /\ calls >= d + 1 /\ (reader \notin ShortReads => calls = d + 1)
    BY <1>1, <2>1 DEF ReadInv, CountsInv
  <2>4. Cardinality(Read') = c + (expect - start) /\ Cardinality(RunStarts(Read')) = d + 1
    <3>1. Cardinality(Read \cup these) = c + (expect - start)
          /\ Cardinality(RunStarts(Read \cup these)) = d + 1
      BY <1>1, <2>1, RunAdds
    <3> QED
      BY <1>4, <3>1
  <2>5. PICK m : m = expect - start
    OBVIOUS
  <2>6. m \in Nat /\ RunBytes = m * RowBytes
    BY <1>5, <2>5 DEF RunBytes
  <2>7. RowBytes * (c + m) = RowBytes * c + m * RowBytes
    BY <1>6, <2>2, <2>6
  <2>8. total = RowBytes * Cardinality(Read')
    BY <2>3, <2>4, <2>5, <2>6, <2>7
  <2>9. /\ calls' \in Nat /\ total' \in Nat /\ pc' = "run" /\ reader' = reader
        /\ total' = RowBytes * Cardinality(Read')
        /\ calls' >= d + 1 /\ (reader \notin ShortReads => calls' = d + 1)
    BY <1>1, <2>3, <2>8
  <2>10. Cardinality(RunStarts(Read')) + 0 = d + 1
    BY <2>2, <2>4
  <2> QED
    BY <2>9, <2>10 DEF CountsInv
<1>14. ServedInv'
  <2> SUFFICES ASSUME InPlace,
                      NEW p \in Positions \ (left \ Served), NEW b \in 0..(RowBytes - 1)
               PROVE  out'[p][b] = rows[p] * RowBytes + b
    BY <1>1, <1>3 DEF ServedInv, InPlace
  <2>1. CASE p \in Served
    <3>1. PICK j : j = (rows[p] - start) * RowBytes + b
      OBVIOUS
    <3>2. out'[p][b] = block[j]
      BY <1>2, <2>1, <3>1
    <3>3. off = RunBytes
      BY <1>1 DEF ReadInv, RunInv
    <3>4. j \in 0..(off - 1) /\ start * RowBytes + j = rows[p] * RowBytes + b
      BY <1>7, <2>1, <3>1, <3>3
    <3>5. block[j] = start * RowBytes + j
      BY <1>1, <3>4 DEF ReadInv, RunInv
    <3> QED
      BY <3>2, <3>4, <3>5
  <2>2. CASE p \notin Served
    <3>1. out'[p] = out[p] /\ p \in Positions \ left
      BY <1>2, <2>2
    <3> QED
      BY <3>1 DEF ReadInv, ServedInv
  <2> QED
    BY <2>1, <2>2
<1> QED
  BY <1>10, <1>11, <1>12, <1>13, <1>14 DEF ReadInv

LEMMA NextReadInv == ReadParameters /\ ReadInv /\ [ReadNext]_readVars => ReadInv'
<1> SUFFICES ASSUME ReadParameters, ReadInv, [ReadNext]_readVars
             PROVE  ReadInv'
  OBVIOUS
<1>1. CASE UNCHANGED readVars
  <2>1. Asked' = Asked /\ Read' = Read /\ Pending' = Pending /\ Positions' = Positions
    BY <1>1 DEF readVars, Asked, Read, Pending, RowsOf, Positions
  <2>2. RequestInv' /\ GapInv' /\ ServedInv'
    BY <1>1, <2>1 DEF readVars, ReadInv, RequestInv, GapInv, ServedInv, InPlace
  <2>3. RunInv' /\ CountsInv'
    BY <1>1, <2>1 DEF readVars, ReadInv, RunInv, CountsInv, RunBytes, InPlace
  <2> QED
    BY <2>2, <2>3 DEF ReadInv
<1> QED
  BY <1>1, NextRunKeeps, PreadKeeps, PreadFailsKeeps, RunCompleteKeeps, ScatterKeeps,
     FinishedKeeps DEF ReadNext

-----------------------------------------------------------------------------
(* What follows *)

LEMMA ReadTypes == ReadInv => ReadTypeOK
BY DEF ReadInv, RequestInv, RunInv, CountsInv, ReadTypeOK, Asked

LEMMA BlockHoldsRun == ReadParameters /\ ReadInv => RunFitsBlock
<1> SUFFICES ASSUME ReadParameters, ReadInv, pc = "pread"
             PROVE  RunBytes <= Cardinality(DOMAIN block)
  BY DEF RunFitsBlock
<1>1. /\ RunBytes \in Nat \ {0} /\ RunBytes <= BlockBytes(Asked)
      /\ BlockBytes(Asked) \in Nat
  BY CurrentRun
<1>2. PICK n : n = BlockBytes(Asked)
  OBVIOUS
<1>3. DOMAIN block = 0..(n - 1)
  BY <1>2 DEF ReadInv, RequestInv
<1>4. Cardinality(0..(n - 1)) = n
  <2>1. n \in Nat /\ n - 1 \in Int /\ ~ (0 > n - 1) /\ (n - 1) - 0 + 1 = n
    BY <1>1, <1>2
  <2> QED
    BY <2>1, FS_Interval
<1> QED
  BY <1>1, <1>2, <1>3, <1>4

LEMMA AllServed == ReadInv /\ pc = "ok" => Read = RowsOf(Positions) /\ left = {}
BY DEF ReadInv, RequestInv, Read

LEMMA RowsArrive == ReadInv /\ InPlace => ReadsRequestedRows
BY AllServed DEF ReadInv, ServedInv, ReadsRequestedRows

LEMMA CountsAreRight == ReadParameters /\ ReadInv => ReadsEachRowOnce
<1> SUFFICES ASSUME ReadParameters, ReadInv, pc = "ok"
             PROVE  /\ total = RowBytes * Cardinality(Read)
                    /\ calls >= Cardinality(RunStarts(Read))
                    /\ reader \notin ShortReads => calls = Cardinality(RunStarts(Read))
  BY AllServed DEF ReadsEachRowOnce
<1>1. PICK c : c = Cardinality(RunStarts(Read))
  OBVIOUS
<1>2. c \in Nat
  BY <1>1, RunStartsFinite DEF ReadInv
<1>3. /\ total = RowBytes * Cardinality(Read)
      /\ calls >= c + 0 /\ (reader \notin ShortReads => calls = c + 0)
  BY <1>1 DEF ReadInv, CountsInv
<1> QED
  BY <1>1, <1>2, <1>3

\* For any table, requests and reader: ReadInv always holds.
THEOREM ReadInvariant ==
  ASSUME ReadParameters
  PROVE  ReadSpec => []ReadInv
<1>1. ReadInit => ReadInv
  BY InitReadInv
<1>2. ReadInv /\ [ReadNext]_readVars => ReadInv'
  BY NextReadInv
<1> QED
  BY <1>1, <1>2, PTL DEF ReadSpec

\* Every variable keeps its range: offsets stay within the table, the block and
\* the output keep their sizes.
THEOREM ReadTypeCorrect ==
  ASSUME ReadParameters
  PROVE  ReadSpec => []ReadTypeOK
<1>1. ReadInv => ReadTypeOK
  BY ReadTypes
<1> QED
  BY <1>1, ReadInvariant, PTL

\* reader.c:40 for any requests: the block allocated in the first pass over the
\* runs holds every run of the second.
THEOREM RunsFitBlock ==
  ASSUME ReadParameters
  PROVE  ReadSpec => []RunFitsBlock
<1>1. ReadInv => RunFitsBlock
  BY BlockHoldsRun
<1> QED
  BY <1>1, ReadInvariant, PTL

\* reader.c:8 for any requests, in any order and with any duplicates: a read that
\* succeeds has put each row where it was requested, however pread splits a run,
\* in rowio.c and storage.py always, in reader.c if no pread is short.
THEOREM ReturnsRequestedRows ==
  ASSUME ReadParameters
  PROVE  ReadSpec => [](InPlace => ReadsRequestedRows)
<1>1. ReadInv => (InPlace => ReadsRequestedRows)
  BY RowsArrive
<1> QED
  BY <1>1, ReadInvariant, PTL

\* For any requests: the bytes counted are those of the distinct rows, and a run
\* costs one pread if none is short, and at least one otherwise.
THEOREM RowsAreReadOnce ==
  ASSUME ReadParameters
  PROVE  ReadSpec => []ReadsEachRowOnce
<1>1. ReadInv => ReadsEachRowOnce
  BY CountsAreRight
<1> QED
  BY <1>1, ReadInvariant, PTL

-----------------------------------------------------------------------------
(* The runs of MCAlgorithms *)

\* Nothing of a component that does not run has one of these values.
ReadsInv == IF part = "reads" THEN ReadInv ELSE pc = Off

LEMMA InitReadsInv == AllInit => ReadsInv
BY InitReadInv, ParametersFit DEF AllInit, ReadsInv, ReadsOff

LEMMA NextReadsInv == ReadsInv /\ [AllNext]_allVars => ReadsInv'
<1> SUFFICES ASSUME ReadsInv, [AllNext]_allVars
             PROVE  ReadsInv'
  OBVIOUS
<1>1. part' = part
  BY DEF AllNext, allVars
<1>2. part = "reads" => [ReadNext]_readVars
  BY DEF AllNext, allVars, readVars
<1>3. part # "reads" => pc' = pc
  BY DEF AllNext, allVars, readVars
<1> QED
  BY <1>1, <1>2, <1>3, NextReadInv, ParametersFit DEF ReadsInv

\* The invariant of the row readers holds of the behaviours in which they run.
THEOREM ReadsInvariant == AllSpec => []ReadsInv
BY InitReadsInv, NextReadsInv, PTL DEF AllSpec

\* reader.c:8 for any requests: the rows of a read that succeeds arrive where
\* they were asked for, if only rowio.c and storage.py meet short reads.
THEOREM RowsArriveAsRequested ==
  ASSUME ReaderC \notin ShortReads
  PROVE  AllSpec => []ReadsRequestedRows
<1>1. InPlace
  BY DEF InPlace
<1>2. ReadsInv => ReadsRequestedRows
  BY <1>1, RowsArrive, OffIsNoPlace DEF ReadsInv, ReadsRequestedRows
<1> QED
  BY <1>2, ReadsInvariant, PTL

\* reader.c:40: no run of any requests is longer than the block.
THEOREM RunsFitTheBlock == AllSpec => []RunFitsBlock
<1>1. ReadsInv => RunFitsBlock
  BY BlockHoldsRun, ParametersFit, OffIsNoPlace DEF ReadsInv, RunFitsBlock
<1> QED
  BY <1>1, ReadsInvariant, PTL

\* Merged runs read every distinct row of any requests once.
THEOREM DistinctRowsAreReadOnce == AllSpec => []ReadsEachRowOnce
<1>1. ReadsInv => ReadsEachRowOnce
  BY CountsAreRight, ParametersFit, OffIsNoPlace DEF ReadsInv, ReadsEachRowOnce
<1> QED
  BY <1>1, ReadsInvariant, PTL

IndexInv == part = "index" => Index!IndexInv

LEMMA InitIndexInv == AllInit => IndexInv
<1>1. Index!Parameters /\ Index!Init => Index!IndexInv
  BY Index!InitIndexInv
<1> QED
  BY <1>1, ParametersFit DEF AllInit, IndexInv

LEMMA NextIndexInv == IndexInv /\ [AllNext]_allVars => IndexInv'
<1> SUFFICES ASSUME IndexInv, [AllNext]_allVars
             PROVE  IndexInv'
  OBVIOUS
<1>1. part' = part
  BY DEF AllNext, allVars
<1>2. part = "index" => [Index!Next]_(Index!vars)
  BY DEF AllNext, allVars, indexVars, Index!vars
<1>3. Index!Parameters /\ Index!IndexInv /\ [Index!Next]_(Index!vars) => Index!IndexInv'
  BY Index!NextIndexInv
<1> QED
  BY <1>1, <1>2, <1>3, ParametersFit DEF IndexInv

\* The invariant of both indices holds of the behaviours in which they run.
THEOREM IndexInvariant == AllSpec => []IndexInv
BY InitIndexInv, NextIndexInv, PTL DEF AllSpec

\* safetensors.c:189 and storage.py:137 for any files and headers whose
\* products of dimensions do not wrap: an index that opens is sound.
THEOREM IndicesAreSound ==
  ASSUME Index!NoWrap
  PROVE  AllSpec => []IndexIsSound
<1>1. Index!Parameters /\ Index!NoWrap /\ Index!IndexInv => Index!IndexIsSound
  BY Index!OpenIndexIsSound
<1>2. IndexInv => IndexIsSound
  BY <1>1, ParametersFit DEF IndexInv, IndexIsSound
<1> QED
  BY <1>2, IndexInvariant, PTL

\* safetensors.c:289 for any files and jobs: descriptors are open while they
\* are read from, and none is left open in the end.
THEOREM DescriptorsStayOpen == AllSpec => []DescriptorsClosed
<1>1. Index!Parameters /\ Index!IndexInv => Index!DescriptorsClosed
  BY Index!NoneLeftOpen
<1>2. IndexInv => DescriptorsClosed
  BY <1>1, ParametersFit DEF IndexInv, DescriptorsClosed
<1> QED
  BY <1>2, IndexInvariant, PTL

ProbingInv == part = "probing" => HashInv

\* The invariant of the hash table holds of the behaviours in which it is used.
THEOREM ProbingInvariant == AllSpec => []ProbingInv
<1>1. AllInit => ProbingInv
  BY InitHashInv, ParametersFit DEF AllInit, ProbingInv
<1>2. ASSUME ProbingInv, [AllNext]_allVars
      PROVE  ProbingInv'
  <2>1. part' = part
    BY <1>2 DEF AllNext, allVars
  <2>2. part = "probing" => [TableNext]_tableVars
    BY <1>2 DEF AllNext, allVars, tableVars
  <2> QED
    BY <1>2, <2>1, <2>2, NextHashInv, ParametersFit DEF ProbingInv
<1> QED
  BY <1>1, <1>2, PTL DEF AllSpec

\* cache.c:80 for any keys, hashes and size of the table: a free slot remains.
THEOREM ProbesEnd == AllSpec => []ProbingEnds
<1>1. ProbingInv => ProbingEnds
  BY HashInvRemains DEF ProbingInv, ProbingEnds
<1> QED
  BY <1>1, ProbingInvariant, PTL

\* cache.c:52 for any keys, hashes and size of the table: through collisions,
\* growth and deletions a probe finds what the table holds and nothing else.
THEOREM ProbesFindWhatIsStored == AllSpec => []FindsWhatIsStored
<1>1. ProbingInv => FindsWhatIsStored
  BY HashInvFinds, ParametersFit DEF ProbingInv, FindsWhatIsStored
<1> QED
  BY <1>1, ProbingInvariant, PTL

SelectionInv == IF part = "top" THEN Partitioned ELSE phase = Off

\* The invariant of the quickselect holds of the behaviours in which it runs.
THEOREM SelectionInvariant == AllSpec => []SelectionInv
<1>1. AllInit => SelectionInv
  BY InitPartitioned DEF AllInit, SelectionInv, TopOff
<1>2. ASSUME SelectionInv, [AllNext]_allVars
      PROVE  SelectionInv'
  <2>1. part' = part
    BY <1>2 DEF AllNext, allVars
  <2>2. part = "top" => [Next]_vars
    BY <1>2 DEF AllNext, allVars, vars
  <2>3. part # "top" => phase' = phase
    BY <1>2 DEF AllNext, allVars, vars
  <2> QED
    BY <1>2, <2>1, <2>2, <2>3, NextPartitioned DEF SelectionInv
<1> QED
  BY <1>1, <1>2, PTL DEF AllSpec

\* kernel.c:141 for any length, scores and k: the k indices that are returned
\* are different, and no other index has a larger score.
THEOREM SelectedAreLargest == AllSpec => []SelectsLargest
<1>1. SelectionInv => SelectsLargest
  BY PartitionedSelects, OffIsNoPlace DEF SelectionInv, SelectsLargest
<1> QED
  BY <1>1, SelectionInvariant, PTL

ParsingInv == IF part = "parse" THEN ParseInv ELSE at = Off

\* The invariant of the two JSON readers holds of the behaviours in which they run.
THEOREM ParsingInvariant == AllSpec => []ParsingInv
<1>1. AllInit => ParsingInv
  BY InitParseInv, ParametersFit DEF AllInit, ParsingInv, ParseOff
<1>2. ASSUME ParsingInv, [AllNext]_allVars
      PROVE  ParsingInv'
  <2>1. part' = part
    BY <1>2 DEF AllNext, allVars
  <2>2. part = "parse" => [JsonNext]_jsonVars
    BY <1>2 DEF AllNext, allVars, jsonVars
  <2>3. part # "parse" => at' = at
    BY <1>2 DEF AllNext, allVars, jsonVars
  <2> QED
    BY <1>2, <2>1, <2>2, <2>3, NextParseInv, ParametersFit DEF ParsingInv
<1> QED
  BY <1>1, <1>2, PTL DEF AllSpec

\* tokenizer.c:318 for texts of any length and depth: behind a value that json.c
\* accepts, js_skip_value stands where json.c does.
THEOREM ValuesAreSkippedWhole == AllSpec => []SkipsWholeValues
<1>1. ParseInv => SkipsWholeValues
  BY JsonInvImplies DEF ParseInv
<1>2. at = Off => SkipsWholeValues
  BY OffIsNoPlace DEF SkipsWholeValues
<1>3. ParsingInv => SkipsWholeValues
  BY <1>1, <1>2 DEF ParsingInv
<1> QED
  BY <1>3, ParsingInvariant, PTL

\* json.h:40 and json.c:294 for texts of any length and depth: what is accepted is
\* a value of the grammar and the tree is that value, what is rejected no value
\* begins with, it is freed and reported once, and the terminator of a string
\* fits its buffer.
THEOREM TextsAreParsedAndFreed == AllSpec => []ParsesAndFrees
<1>1. ParseInv => ParsesAndFrees
  BY ParseInvImplies
<1>2. at = Off => ParsesAndFrees
  BY OffIsNoPlace DEF ParsesAndFrees, ParsesTheLanguage, FreesAndReports, InString
<1>3. ParsingInv => ParsesAndFrees
  BY <1>1, <1>2 DEF ParsingInv
<1> QED
  BY <1>3, ParsingInvariant, PTL

EncodingInv == IF part = "encode" THEN EncodeInv ELSE encoder = Off

\* The invariant of the encoder holds of the behaviours in which it runs.
THEOREM EncodingInvariant == AllSpec => []EncodingInv
<1>1. AllInit => EncodingInv
  BY InitEncodeInv, ParametersFit DEF AllInit, EncodingInv, EncodeOff
<1>2. ASSUME EncodingInv, [AllNext]_allVars
      PROVE  EncodingInv'
  <2>1. part' = part
    BY <1>2 DEF AllNext, allVars
  <2>2. part = "encode" => [EncodeNext]_encodeVars
    BY <1>2 DEF AllNext, allVars, encodeVars
  <2>3. part # "encode" => encoder' = encoder
    BY <1>2 DEF AllNext, allVars, encodeVars
  <2> QED
    BY <1>2, <2>1, <2>2, <2>3, NextEncodeInv, ParametersFit DEF EncodingInv
<1> QED
  BY <1>1, <1>2, PTL DEF AllSpec

\* tokenizer.c:2 for any vocabulary, merges, added tokens and text: what
\* tokenizer_encode returns is what the split regex and byte-pair encoding give,
\* and it spells the text.
THEOREM TextsAreEncodedAsSpecified == AllSpec => []EncodesAsSpecified
<1>1. EncodeInv => EncodesAsSpecified
  BY DEF EncodeInv
<1>2. encoder = Off => EncodesAsSpecified
  BY OffIsNoPlace DEF EncodesAsSpecified
<1>3. EncodingInv => EncodesAsSpecified
  BY <1>1, <1>2 DEF EncodingInv
<1> QED
  BY <1>3, EncodingInvariant, PTL

DecodingInv == /\ part = "cache" => Cache!DecInv
               /\ part = "loop" => Loop!LoopInv

\* The invariants of the decoder and of the loop hold of the behaviours in which
\* they run.
THEOREM DecodingInvariant ==
  ASSUME Cache!Within, Loop!Within
  PROVE  AllSpec => []DecodingInv
<1>1. AllInit => DecodingInv
  <2>1. Cache!Parameters /\ Cache!Init => Cache!DecInv
    BY Cache!InitDecInv
  <2>2. Loop!Parameters /\ Loop!GenParameters /\ Loop!GenInit => Loop!LoopInv
    BY Loop!InitLoopInv
  <2> QED
    BY <2>1, <2>2, ParametersFit DEF AllInit, DecodingInv
<1>2. ASSUME DecodingInv, [AllNext]_allVars
      PROVE  DecodingInv'
  <2>1. part' = part
    BY <1>2 DEF AllNext, allVars
  <2>2. part = "cache" => [Cache!Next]_(Cache!vars)
    BY <1>2 DEF AllNext, allVars, decoderVars, Cache!vars
  <2>3. part = "loop" => [Loop!GenNext]_(Loop!gvars)
    BY <1>2 DEF AllNext, allVars, decoderVars, loopVars, Loop!gvars, Loop!vars, Loop!loop
  <2>4. Cache!Parameters /\ Cache!Within /\ Cache!DecInv /\ [Cache!Next]_(Cache!vars)
          => Cache!DecInv'
    BY Cache!NextDecInv
  <2>5. Loop!Parameters /\ Loop!GenParameters /\ Loop!Within /\ Loop!LoopInv
          /\ [Loop!GenNext]_(Loop!gvars) => Loop!LoopInv'
    BY Loop!NextLoopInv
  <2> QED
    BY <1>2, <2>1, <2>2, <2>3, <2>4, <2>5, ParametersFit DEF DecodingInv
<1> QED
  BY <1>1, <1>2, PTL DEF AllSpec

\* test_model.c:319 for any tokens, kernels and blocks, and any cut of the tokens
\* into calls within the window: outputs are those of one prefill.
THEOREM DecodesAsOnePrefill ==
  ASSUME Cache!Within, Loop!Within
  PROVE  AllSpec => []DecodeMatchesPrefill
<1>1. Cache!DecInv => Cache!DecodeMatchesPrefill
  BY DEF Cache!DecInv
<1>2. Loop!LoopInv => Loop!DecodeMatchesPrefill
  BY DEF Loop!LoopInv, Loop!DecInv
<1>3. DecodingInv => DecodeMatchesPrefill
  BY <1>1, <1>2 DEF DecodingInv, DecodeMatchesPrefill
<1> QED
  BY <1>3, DecodingInvariant, PTL

\* main.c:325 and generation.py:138 for any weights, stops and prompts: what the
\* decoder has been fed is the prompt and what was generated but the last token.
\* main.c:361 and cli.py:157 for any command line and any memory behind the array:
\* what generate prints begins with the answer of the last run, and is that answer
\* if there was one run.
THEOREM FeedsAndPrintsTheGenerated ==
  ASSUME Cache!Within, Loop!Within
  PROVE  AllSpec => []GeneratedIsFedAndPrinted
<1>1. Loop!LoopInv => Loop!FedWhatWasGenerated
  BY Loop!LoopInvFeeds
<1>2. Loop!LoopInv => Loop!PrintsTheAnswer
  BY Loop!LoopInvPrints
<1>3. DecodingInv => GeneratedIsFedAndPrinted
  BY <1>1, <1>2 DEF DecodingInv, GeneratedIsFedAndPrinted
<1> QED
  BY <1>3, DecodingInvariant, PTL

SamplingInv == part = "loop" => Loop!SampleInv

\* main.c:143 and generation.py:86 for any weights, draws and top_p: sampled
\* tokens are likely, if the C runtime samples with a nucleus.
THEOREM SampledStayLikely ==
  ASSUME Loop!WithNucleus
  PROVE  AllSpec => []SamplesLikely
<1>1. AllInit => SamplingInv
  <2>1. Loop!GenInit => Loop!SampleInv
    BY Loop!InitSampleInv
  <2> QED
    BY <2>1 DEF AllInit, SamplingInv
<1>2. ASSUME SamplingInv, [AllNext]_allVars
      PROVE  SamplingInv'
  <2>1. part' = part
    BY <1>2 DEF AllNext, allVars
  <2>2. part = "loop" => [Loop!GenNext]_(Loop!gvars)
    BY <1>2 DEF AllNext, allVars, decoderVars, loopVars, Loop!gvars, Loop!vars, Loop!loop
  <2>3. Loop!Parameters /\ Loop!GenParameters /\ Loop!WithNucleus /\ Loop!SampleInv
          /\ [Loop!GenNext]_(Loop!gvars) => Loop!SampleInv'
    BY Loop!NextSampleInv
  <2> QED
    BY <1>2, <2>1, <2>2, <2>3, ParametersFit DEF SamplingInv
<1>3. SamplingInv => SamplesLikely
  BY DEF SamplingInv, SamplesLikely, Loop!SampleInv
<1> QED
  BY <1>1, <1>2, <1>3, PTL DEF AllSpec

\* The types of the row readers, the hash table and the selection.
THEOREM AllTypesAreKept == AllSpec => []AllTypeOK
<1>1. ReadInv => ReadTypeOK
  BY ReadTypes
<1>2. Partitioned => TypeOK
  BY DEF Partitioned
<1>3. ReadsInv /\ ProbingInv /\ SelectionInv => AllTypeOK
  BY <1>1, <1>2, HashTypes DEF ReadsInv, ProbingInv, SelectionInv, AllTypeOK
<1> QED
  BY <1>3, ReadsInvariant, ProbingInvariant, SelectionInvariant, PTL

=============================================================================
