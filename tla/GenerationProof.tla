-------------------------- MODULE GenerationProof --------------------------
(***************************************************************************)
(* Proofs about Decoder and Generation, for any tokens, prompts, kernels   *)
(* and blocks.                                                             *)
(*                                                                         *)
(* The decoder: however the tokens since a reset were cut into calls, the  *)
(* caches hold what a function of the history says (StateInv), so every    *)
(* output is that of one prefill (DecodeMatchesPrefill), as long as the C  *)
(* runtime stays within its window and its prompts.                        *)
(*                                                                         *)
(* The loop: what the decoder has been fed is the prompt and what was      *)
(* generated but its last token (FedWhatWasGenerated), and the tokens      *)
(* sampled are likely ones (SamplesLikely).                                *)
(***************************************************************************)
EXTENDS Generation, SequenceTheorems, FiniteSetTheorems, WellFoundedInduction, TLAPS

\* Where the C runtime keeps to its window, its tables of angles and prompts
\* of two tokens.
Within == C \in Engines => MaxHistory <= Cap /\ MaxPrefill <= RopeRows /\ MinPrefill >= 2

\* The last rows up to position p, and the entry of a position.
RowsTo(p, n) == [i \in 1..n |-> RowAt(p - n + i)]
EntryAt(h, p) == IF p >= 1 THEN Entry(p, h[p]) ELSE EosEntry

KeyOf(k) == [row |-> k, rope |-> RotatedTo(k)]

\* What the caches hold after a history of n tokens.
StateInv ==
  LET n == Len(history)
  IN /\ keys = [k \in 1..n |-> KeyOf(k)]
     /\ vals = [k \in 1..n |-> k] /\ idx = [k \in 1..n |-> k]
     /\ conv = RowsTo(n, ConvKernel - 1)
     /\ rec = [s \in 1..n |-> RowsTo(s, ConvKernel)]
     /\ ple = RowsTo(n, PleStateLen)
     /\ Prev = <<EntryAt(history, n - 1), EntryAt(history, n)>>

DecInv == /\ engine \in Engines
          /\ blockScores \in [Blocks -> Blocks]
          /\ history \in Seq(Tokens) /\ Len(history) <= MaxHistory
          /\ failed \in BOOLEAN
          /\ ~failed => StateInv
          /\ DecodeMatchesPrefill

-----------------------------------------------------------------------------
(* Sequences given by their elements *)

LEMMA FunIsSeq ==
  ASSUME NEW S, NEW n \in Nat, NEW f \in [1..n -> S]
  PROVE  f \in Seq(S) /\ Len(f) = n
OBVIOUS

LEMMA Joined ==
  ASSUME NEW S, NEW s \in Seq(S), NEW t \in Seq(S), NEW f \in Seq(S),
         Len(f) = Len(s) + Len(t),
         \A i \in 1..Len(s) : s[i] = f[i],
         \A i \in 1..Len(t) : t[i] = f[Len(s) + i]
  PROVE  s \o t = f
<1>2. /\ s \o t \in Seq(S) /\ Len(s \o t) = Len(f)
      /\ \A i \in 1..Len(f) : (s \o t)[i] = IF i <= Len(s) THEN s[i] ELSE t[i - Len(s)]
  BY ConcatProperties
<1>3. ASSUME NEW i \in 1..Len(f) PROVE (s \o t)[i] = f[i]
  <2>1. CASE i <= Len(s)
    BY <1>2, <2>1
  <2>2. CASE ~(i <= Len(s))
    <3>1. i - Len(s) \in 1..Len(t) /\ Len(s) + (i - Len(s)) = i
      BY <2>2, LenProperties
    <3> QED
      BY <1>2, <2>2, <3>1
  <2> QED
    BY <2>1, <2>2
<1> QED
  BY <1>2, <1>3, SeqEqual

LEMMA Cut ==
  ASSUME NEW S, NEW s, NEW m \in Int, NEW l \in Int, NEW f \in Seq(S),
         Len(f) = l - m + 1,
         \A i \in 1..Len(f) : s[m + i - 1] = f[i]
  PROVE  SubSeq(s, m, l) = f
<1>2. \A i \in m..l : s[i] \in S
  <2> TAKE i \in m..l
  <2>1. i - m + 1 \in 1..Len(f) /\ m + (i - m + 1) - 1 = i
    OBVIOUS
  <2> QED
    BY <2>1, ElementOfSeq
<1>3. /\ SubSeq(s, m, l) \in Seq(S) /\ Len(SubSeq(s, m, l)) = Len(f)
      /\ \A i \in 1..Len(f) : SubSeq(s, m, l)[i] = s[m + i - 1]
  BY <1>2, SubSeqProperties, LenProperties
<1> QED
  BY <1>3, SeqEqual

-----------------------------------------------------------------------------
(* Rows *)

LEMMA RowsToType ==
  ASSUME NEW p \in Int, NEW n \in Nat
  PROVE  /\ RowsTo(p, n) \in [1..n -> Nat] /\ RowsTo(p, n) \in Seq(Nat)
         /\ Len(RowsTo(p, n)) = n
         /\ \A i \in 1..n : RowsTo(p, n)[i] = RowAt(p - n + i)
<1>1. RowsTo(p, n) \in [1..n -> Nat]
  BY DEF RowsTo, RowAt, NoRow
<1> QED
  BY <1>1, FunIsSeq DEF RowsTo

\* The state of a convolution with the rows of a call behind it.
LEMMA RowsJoin ==
  ASSUME NEW p \in Nat, NEW n \in Nat, NEW m \in Nat,
         NEW new \in Seq(Nat), Len(new) = m, \A i \in 1..m : new[i] = p + i
  PROVE  RowsTo(p, n) \o new = RowsTo(p + m, n + m)
<1>3. \A i \in 1..n : RowsTo(p, n)[i] = RowsTo(p + m, n + m)[i]
  <2> TAKE i \in 1..n
  <2>1. p - n + i = (p + m) - (n + m) + i /\ i \in 1..(n + m)
    OBVIOUS
  <2> QED
    BY <2>1 DEF RowsTo
<1>4. \A i \in 1..m : new[i] = RowsTo(p + m, n + m)[n + i]
  <2> TAKE i \in 1..m
  <2>1. (p + m) - (n + m) + (n + i) = p + i /\ n + i \in 1..(n + m) /\ p + i >= 1
    OBVIOUS
  <2> QED
    BY <2>1 DEF RowsTo, RowAt
<1>5. RowsTo(p + m, n + m) \in Seq(Nat) /\ Len(RowsTo(p + m, n + m)) = n + m
  <2>1. p + m \in Int /\ n + m \in Nat
    OBVIOUS
  <2> QED
    BY <2>1, RowsToType
<1>6. RowsTo(p, n) \in Seq(Nat) /\ Len(RowsTo(p, n)) = n
  <2>1. p \in Int
    OBVIOUS
  <2> QED
    BY <2>1, RowsToType
<1>7. /\ Len(RowsTo(p + m, n + m)) = Len(RowsTo(p, n)) + Len(new)
      /\ \A i \in 1..Len(RowsTo(p, n)) : RowsTo(p, n)[i] = RowsTo(p + m, n + m)[i]
      /\ \A i \in 1..Len(new) : new[i] = RowsTo(p + m, n + m)[Len(RowsTo(p, n)) + i]
  BY <1>3, <1>4, <1>5, <1>6
<1> QED
  BY <1>5, <1>6, <1>7, Joined

LEMMA NewRowsJoin ==
  ASSUME NEW n \in Nat, NEW m \in Nat, NEW p \in Nat, p = Len(history)
  PROVE  RowsTo(p, n) \o NewRows(m) = RowsTo(p + m, n + m)
<1>1. NewRows(m) \in [1..m -> Nat] /\ \A i \in 1..m : NewRows(m)[i] = p + i
  BY DEF NewRows
<1>2. NewRows(m) \in Seq(Nat) /\ Len(NewRows(m)) = m
  BY <1>1, FunIsSeq
<1> QED
  BY <1>1, <1>2, RowsJoin

LEMMA LastRows ==
  ASSUME NEW p \in Int, NEW n \in Nat, NEW k \in 0..n
  PROVE  LastOf(RowsTo(p, n), k) = RowsTo(p, k)
<1>1. Len(RowsTo(p, n)) = n
  BY RowsToType
<1>2. k \in Nat
  OBVIOUS
<1>3. PICK m \in Int : m = n - k + 1
  OBVIOUS
<1>4. RowsTo(p, k) \in Seq(Nat) /\ Len(RowsTo(p, k)) = n - m + 1
  BY <1>2, <1>3, RowsToType
<1>5. \A i \in 1..Len(RowsTo(p, k)) : RowsTo(p, n)[m + i - 1] = RowsTo(p, k)[i]
  <2> TAKE i \in 1..Len(RowsTo(p, k))
  <2>1. i \in 1..k /\ m + i - 1 \in 1..n /\ p - n + (m + i - 1) = p - k + i
    BY <1>3, <1>4
  <2> QED
    BY <2>1 DEF RowsTo
<1>6. SubSeq(RowsTo(p, n), m, n) = RowsTo(p, k)
  BY <1>4, <1>5, Cut
<1> QED
  BY <1>1, <1>3, <1>6 DEF LastOf

\* The rows a token convolves with: its own and those before it.
-----------------------------------------------------------------------------
(* Attention *)

LEMMA Division ==
  ASSUME NEW a \in Nat, NEW c \in Nat \ {0}
  PROVE  /\ a \div c \in Nat
         /\ (a \div c) * c <= a
         /\ a < ((a \div c) + 1) * c
OBVIOUS

\* Quotients compare as numbers with multiples.
LEMMA QuotientLess ==
  ASSUME NEW a \in Nat, NEW b \in Nat, NEW c \in Nat \ {0}
  PROVE  a < b * c <=> a \div c < b
<1>1. PICK d \in Nat : d = a \div c
  BY Division
<1>2. d * c <= a /\ a < (d + 1) * c
  BY <1>1, Division
<1>3. ASSUME a < b * c, ~(d < b) PROVE FALSE
  <2>1. b <= d
    BY <1>3
  <2>2. b * c <= d * c
    BY <2>1
  <2>3. b * c \in Int /\ d * c \in Int
    OBVIOUS
  <2> QED
    BY <1>2, <1>3, <2>2, <2>3
<1>4. ASSUME d < b PROVE a < b * c
  <2>1. d + 1 <= b
    BY <1>4
  <2>2. (d + 1) * c <= b * c
    BY <2>1
  <2>3. b * c \in Int /\ (d + 1) * c \in Int
    OBVIOUS
  <2> QED
    BY <1>2, <2>2, <2>3
<1> QED
  BY <1>1, <1>3, <1>4

LEMMA QuotientOrder ==
  ASSUME NEW a \in Nat, NEW b \in Nat, a <= b, NEW c \in Nat \ {0}
  PROVE  a \div c <= b \div c
<1>1. PICK d \in Nat : d = b \div c
  BY Division
<1>2. b < (d + 1) * c
  BY <1>1, Division
<1>3. a < (d + 1) * c
  <2>1. (d + 1) * c \in Int
    OBVIOUS
  <2> QED
    BY <1>2, <2>1
<1>4. a \div c < d + 1 /\ a \div c \in Nat
  BY <1>3, QuotientLess, Division
<1> QED
  BY <1>1, <1>4

LEMMA QuotientOfMultiple ==
  ASSUME NEW b \in Nat, NEW c \in Nat \ {0}
  PROVE  (b * c) \div c = b
<1>1. PICK d \in Nat : d = (b * c) \div c
  <2>1. b * c \in Nat
    OBVIOUS
  <2> QED
    BY <2>1, Division
<1>2. b * c \in Nat
  OBVIOUS
<1>3. b * c < (b + 1) * c
  OBVIOUS
<1>4. d < b + 1
  BY <1>1, <1>2, <1>3, QuotientLess
<1>5. ~(d < b)
  BY <1>1, <1>2, QuotientLess
<1> QED
  BY <1>1, <1>4, <1>5

Block(k) == ((k - 1) \div Compress) + 1
Best(p) ==
  {b \in 1..(p \div Compress) :
     Cardinality({c \in 1..(p \div Compress) : blockScores[c] > blockScores[b]})
       < Budget \div Compress}

\* Up to the budget no block is too many.
LEMMA AllAreBest ==
  ASSUME Parameters, blockScores \in [Blocks -> Blocks],
         NEW p \in Nat, p <= Budget, p <= MaxHistory
  PROVE  Best(p) = 1..(p \div Compress)
<1>1. Compress \in Nat \ {0} /\ Budget \in Nat
  BY DEF Parameters
<1>2. PICK w \in Nat : w = p \div Compress
  BY <1>1, Division
<1>3. PICK m \in Nat : m = Budget \div Compress
  BY <1>1, Division
<1>4. w <= m
  BY <1>1, <1>2, <1>3, QuotientOrder
<1>5. ASSUME NEW b \in 1..w
      PROVE  Cardinality({c \in 1..w : blockScores[c] > blockScores[b]}) < m
  <2> DEFINE better == {c \in 1..w : blockScores[c] > blockScores[b]}
  <2>1. IsFiniteSet(1..w) /\ Cardinality(1..w) = w
    BY FS_Interval
  <2>2. IsFiniteSet((1..w) \ {b}) /\ Cardinality((1..w) \ {b}) = w - 1
    BY <2>1, FS_RemoveElement
  <2>3. b \notin better
    <3>1. blockScores[b] \in Nat
      <4>1. MaxHistory \in Nat
        BY DEF Parameters
      <4>2. PICK x \in Nat : x = MaxHistory \div Compress
        BY <1>1, <4>1, Division
      <4>3. w <= x
        BY <1>1, <1>2, <4>1, <4>2, QuotientOrder
      <4> QED
        BY <4>2, <4>3 DEF Blocks
    <3> QED
      BY <3>1
  <2>4. better \subseteq (1..w) \ {b}
    BY <2>3
  <2>5. Cardinality(better) \in Nat /\ Cardinality(better) <= w - 1
    <3> HIDE DEF better
    <3>1. IsFiniteSet(better) /\ Cardinality(better) <= Cardinality((1..w) \ {b})
      BY <2>2, <2>4, FS_Subset
    <3> QED
      BY <2>2, <3>1, FS_CardinalityType
  <2> QED
    BY <1>4, <2>5
<1> QED
  BY <1>2, <1>3, <1>5 DEF Best

\* A query attends to the same rows whatever lies behind it.
LEMMA AttendsAsExpected ==
  ASSUME Parameters, blockScores \in [Blocks -> Blocks],
         NEW q \in Nat, NEW total \in Nat, q <= total, total <= MaxHistory,
         idx' = [k \in 1..total |-> k]
  PROVE  Attended(q, total) = ExpectedRows(q)
<1>1. Compress \in Nat \ {0} /\ Budget \in Nat /\ MaxHistory \in Nat
  BY DEF Parameters
<1>2. PICK w \in Nat : w = q \div Compress
  BY <1>1, Division
<1>3. PICK n \in Nat : n = total \div Compress
  BY <1>1, Division
<1>4. w <= n /\ 1..n \subseteq Blocks
  <2>1. w <= n
    BY <1>1, <1>2, <1>3, QuotientOrder
  <2>2. PICK x \in Nat : x = MaxHistory \div Compress
    BY <1>1, Division
  <2>3. n <= x
    BY <1>1, <1>3, <2>2, QuotientOrder
  <2> QED
    BY <2>1, <2>2, <2>3 DEF Blocks
<1>5. ASSUME NEW b \in 1..n
      PROVE  Score(b) = blockScores[b]
  <2>1. PICK s \in Nat : s = (b - 1) * Compress
    BY <1>1
  <2>2. s + 1 \in 1..total
    <3>1. b * Compress <= total
      <4>1. n * Compress <= total
        BY <1>1, <1>3, Division
      <4>2. b * Compress <= n * Compress
        BY <1>1
      <4> QED
        BY <1>1, <4>1, <4>2
    <3>2. s + Compress = b * Compress
      BY <1>1, <2>1
    <3>3. b * Compress \in Int
      BY <1>1
    <3> QED
      BY <1>1, <3>1, <3>2, <3>3
  <2>3. idx'[s + 1] - 1 = s
    BY <2>2
  <2>4. s \div Compress = b - 1
    BY <1>1, <2>1, QuotientOfMultiple
  <2> QED
    BY <2>1, <2>3, <2>4 DEF Score
<1>6. \A b \in 1..n : b * Compress <= q <=> b <= w
  <2> TAKE b \in 1..n
  <2>1. q < b * Compress <=> w < b
    BY <1>1, <1>2, QuotientLess
  <2>2. b * Compress \in Int
    BY <1>1
  <2> QED
    BY <2>1, <2>2
<1>7. \A k \in 1..q : /\ Block(k) \in Nat \ {0}
                      /\ k > w * Compress <=> Block(k) > w
  <2> TAKE k \in 1..q
  <2>0. k - 1 \in Nat
    OBVIOUS
  <2>1. PICK d \in Nat : d = (k - 1) \div Compress
    BY <1>1, <2>0, Division
  <2>2. k - 1 < w * Compress <=> d < w
    BY <1>1, <2>0, <2>1, QuotientLess
  <2>3. w * Compress \in Int
    BY <1>1
  <2> QED
    BY <2>1, <2>2, <2>3 DEF Block
<1>8. ExpectedRows(q) = {k \in 1..q : k > w * Compress \/ Block(k) \in Best(q)}
  BY <1>2 DEF ExpectedRows, Best, Block
<1>9. CASE total <= Budget
  <2>1. Best(q) = 1..w
    BY <1>1, <1>2, <1>9, AllAreBest
  <2>2. Attended(q, total) = 1..q
    BY <1>1, <1>9 DEF Attended
  <2>3. ExpectedRows(q) = 1..q
    BY <1>7, <1>8, <2>1
  <2> QED
    BY <2>2, <2>3
<1>10. CASE total > Budget
  <2>1. \A b \in 1..w : b \in TopBlocks(q, total) <=> b \in Best(q)
    <3> TAKE b \in 1..w
    <3> DEFINE visible(x) == x * Compress <= q
               worse == {c \in 1..n : IF visible(b) = visible(c) THEN Score(c) > Score(b)
                                      ELSE visible(c)}
    <3>1. worse = {c \in 1..w : blockScores[c] > blockScores[b]}
      BY <1>4, <1>5, <1>6
    <3>2. b \in TopBlocks(q, total) <=> Cardinality(worse) < Budget \div Compress
      BY <1>3, <1>4 DEF TopBlocks
    <3>3. b \in Best(q) <=> Cardinality({c \in 1..w : blockScores[c] > blockScores[b]})
                              < Budget \div Compress
      BY <1>2 DEF Best
    <3> QED
      BY <3>1, <3>2, <3>3
  <2>2. Attended(q, total) = {k \in 1..q : k > w * Compress \/ Block(k) \in TopBlocks(q, total)}
    BY <1>2, <1>10 DEF Attended, Block
  <2>3. \A k \in 1..q : k > w * Compress \/ Block(k) \in 1..w
    BY <1>7
  <2> QED
    BY <1>8, <2>1, <2>2, <2>3
<1> QED
  BY <1>1, <1>9, <1>10

-----------------------------------------------------------------------------
(* A call *)

LEMMA StateLengths ==
  ASSUME StateInv, NEW n \in Nat, n = Len(history)
  PROVE  /\ keys = [k \in 1..n |-> KeyOf(k)] /\ Len(keys) = n
         /\ vals = [k \in 1..n |-> k] /\ Len(vals) = n
         /\ idx = [k \in 1..n |-> k] /\ Len(idx) = n
BY DEF StateInv

LEMMA NothingDropped ==
  ASSUME Parameters, Within, engine \in Engines, NEW m \in Nat, NEW n \in Nat,
         Len(vals) = n, n + m <= MaxHistory
  PROVE  Dropped(m) = 0
<1>1. CASE engine = C
  <2>1. Cap \in Nat /\ MaxHistory \in Nat /\ MaxHistory <= Cap
    BY <1>1 DEF Parameters, Within
  <2>2. PICK d \in Int : d = n + m - Cap
    BY <2>1
  <2>3. d <= 0
    BY <2>1, <2>2
  <2>4. Max({0, d}) = 0
    <3>1. \A x \in {0, d} : (\A y \in {0, d} : x >= y) <=> x = 0
      BY <2>3
    <3> QED
      BY <3>1 DEF Max
  <2> QED
    BY <1>1, <2>2, <2>4 DEF Dropped
<1>2. CASE engine # C
  BY <1>2 DEF Dropped
<1> QED
  BY <1>1, <1>2

\* The window holds the rows of the whole history, rotated to where they are.
LEMMA WindowGrows ==
  ASSUME Parameters, Within, engine \in Engines, StateInv, NEW n \in Nat, n = Len(history),
         NEW m \in Nat, n + m <= MaxHistory, engine = C => m <= RopeRows, AppendRows(m)
  PROVE  /\ keys' = [k \in 1..(n + m) |-> KeyOf(k)]
         /\ vals' = [k \in 1..(n + m) |-> k]
         /\ idx' = [k \in 1..(n + m) |-> k]
         /\ \A t \in 1..m : Rotation(t, m) = RotatedTo(n + t)
<1>1. /\ keys = [k \in 1..n |-> KeyOf(k)] /\ Len(keys) = n
      /\ vals = [k \in 1..n |-> k] /\ Len(vals) = n
      /\ idx = [k \in 1..n |-> k] /\ Len(idx) = n
  BY StateLengths
<1>2. Dropped(m) = 0
  BY <1>1, NothingDropped
<1>9. Dropped(m) + 1 = 1
  BY <1>2
<1>3. ASSUME NEW t \in 1..m
      PROVE  Rotation(t, m) = RotatedTo(n + t)
  <2>1. ~(engine = C /\ t + RopeRows <= m)
    BY DEF Parameters
  <2> QED
    BY <1>1, <2>1 DEF Rotation, RotatedTo
<1>4. NewRows(m) = [t \in 1..m |-> n + t]
  BY DEF NewRows
<1>5. ASSUME NEW s, s = [k \in 1..n |-> k]
      PROVE  SubSeq(s, 1, n) \o [t \in 1..m |-> n + t] = [k \in 1..(n + m) |-> k]
  <2>1. s \in Seq(Nat) /\ Len(s) = n
    <3>1. s \in [1..n -> Nat]
      BY <1>5
    <3> QED
      BY <3>1, FunIsSeq
  <2>2. SubSeq(s, 1, n) = s
    BY <2>1, SubSeqFull
  <2> DEFINE new == [t \in 1..m |-> n + t]
             f == [k \in 1..(n + m) |-> k]
  <2>3. new \in Seq(Nat) /\ Len(new) = m
    <3>1. new \in [1..m -> Nat]
      OBVIOUS
    <3> QED
      BY <3>1, FunIsSeq
  <2>4. f \in Seq(Nat) /\ Len(f) = n + m
    <3>1. f \in [1..(n + m) -> Nat] /\ n + m \in Nat
      OBVIOUS
    <3> HIDE DEF f
    <3> QED
      BY <3>1, FunIsSeq
  <2>5. /\ \A i \in 1..n : s[i] = f[i]
        /\ \A i \in 1..m : new[i] = f[n + i]
    BY <1>5
  <2> HIDE DEF new, f
  <2>6. /\ Len(f) = Len(s) + Len(new)
        /\ \A i \in 1..Len(s) : s[i] = f[i]
        /\ \A i \in 1..Len(new) : new[i] = f[Len(s) + i]
    BY <2>1, <2>3, <2>4, <2>5
  <2>7. s \o new = f
    BY <2>1, <2>3, <2>4, <2>6, Joined
  <2> QED
    BY <2>2, <2>7 DEF new, f
<1>6. vals' = [k \in 1..(n + m) |-> k]
  BY <1>1, <1>4, <1>5, <1>9 DEF AppendRows
<1>7. idx' = [k \in 1..(n + m) |-> k]
  BY <1>1, <1>4, <1>5, <1>9 DEF AppendRows
<1>8. keys' = [k \in 1..(n + m) |-> KeyOf(k)]
  <2> DEFINE S == [row : Nat, rope : [cos : Nat, sin : Nat]]
             new == [t \in 1..m |-> KeyOf(n + t)]
             f == [k \in 1..(n + m) |-> KeyOf(k)]
  <2>1. keys' = SubSeq(keys, 1, Len(keys) - Dropped(m)) \o new
    BY <1>3 DEF AppendRows, KeyOf
  <2>2. keys \in Seq(S)
    <3>1. keys \in [1..n -> S]
      BY <1>1 DEF KeyOf, RotatedTo
    <3> HIDE DEF S
    <3> QED
      BY <3>1, FunIsSeq
  <2>3. SubSeq(keys, 1, Len(keys) - Dropped(m)) = keys
    <3> HIDE DEF S
    <3> QED
      BY <1>1, <1>2, <2>2, SubSeqFull
  <2>4. new \in Seq(S) /\ Len(new) = m
    <3>1. new \in [1..m -> S]
      BY DEF KeyOf, RotatedTo
    <3> HIDE DEF S
    <3> QED
      BY <3>1, FunIsSeq
  <2>5. f \in Seq(S) /\ Len(f) = n + m
    <3>1. f \in [1..(n + m) -> S] /\ n + m \in Nat
      BY DEF KeyOf, RotatedTo
    <3> HIDE DEF S, f
    <3> QED
      BY <3>1, FunIsSeq
  <2>6. /\ \A i \in 1..n : keys[i] = f[i]
        /\ \A i \in 1..m : new[i] = f[n + i]
    BY <1>1
  <2> HIDE DEF S, new, f
  <2>7. /\ Len(f) = Len(keys) + Len(new)
        /\ \A i \in 1..Len(keys) : keys[i] = f[i]
        /\ \A i \in 1..Len(new) : new[i] = f[Len(keys) + i]
    BY <1>1, <2>2, <2>4, <2>5, <2>6
  <2>8. keys \o new = f
    BY <1>1, <2>2, <2>4, <2>5, <2>7, Joined
  <2> QED
    BY <2>1, <2>3, <2>8 DEF f
<1> QED
  BY <1>3, <1>6, <1>7, <1>8

\* The convolution of linear attention takes the rows before each token, and
\* the recurrent state folds them in one after the other.
LEMMA RecurrentGrows ==
  ASSUME Parameters, StateInv, NEW n \in Nat, n = Len(history), NEW m \in Nat, DeltaNet(m)
  PROVE  /\ conv' = RowsTo(n + m, ConvKernel - 1)
         /\ rec' = [s \in 1..(n + m) |-> RowsTo(s, ConvKernel)]
<1>1. PICK k \in Nat : k = ConvKernel - 1
  BY DEF Parameters
<1>2. ConvKernel = k + 1 /\ k + 1 \in Nat
  BY <1>1 DEF Parameters
<1>3. conv = RowsTo(n, k) /\ rec = [s \in 1..n |-> RowsTo(s, k + 1)]
  BY <1>1, <1>2 DEF StateInv
<1>4. conv \o NewRows(m) = RowsTo(n + m, k + m)
  BY <1>3, NewRowsJoin
<1>5. LastOf(RowsTo(n + m, k + m), k) = RowsTo(n + m, k)
  <2>1. n + m \in Int /\ k + m \in Nat /\ k \in 0..(k + m)
    OBVIOUS
  <2> QED
    BY <2>1, LastRows
<1>6. conv' = RowsTo(n + m, ConvKernel - 1)
  BY <1>1, <1>4, <1>5 DEF DeltaNet
<1>7. ASSUME NEW t \in 1..m
      PROVE  ConvWindow(t, m) = RowsTo(n + t, k + 1)
  <2>1. PICK p \in Int : p = n + m
    OBVIOUS
  <2>2. PICK w \in Nat : w = k + m
    OBVIOUS
  <2>3. PICK q \in Nat : q = k + 1
    OBVIOUS
  <2>4. PICK l \in Int : l = t + q - 1
    BY <2>3
  <2>5. PICK r \in Int : r = n + t
    OBVIOUS
  <2>6. t \in Int /\ t >= 1 /\ l <= w /\ q = l - t + 1 /\ r = p - w + l
    BY <2>1, <2>2, <2>3, <2>4, <2>5
  <2>7. SubSeq(RowsTo(p, w), t, l) = RowsTo(r, q)
    <3>1. RowsTo(r, q) \in Seq(Nat) /\ Len(RowsTo(r, q)) = l - t + 1
      BY <2>6, RowsToType
    <3>2. \A i \in 1..Len(RowsTo(r, q)) : RowsTo(p, w)[t + i - 1] = RowsTo(r, q)[i]
      <4> TAKE i \in 1..Len(RowsTo(r, q))
      <4>1. i \in 1..q /\ t + i - 1 \in 1..w /\ p - w + (t + i - 1) = r - q + i
        BY <2>6, <3>1
      <4> QED
        BY <4>1 DEF RowsTo
    <3> QED
      BY <2>6, <3>1, <3>2, Cut
  <2> QED
    BY <1>2, <1>4, <2>1, <2>2, <2>3, <2>4, <2>5, <2>7 DEF ConvWindow
<1>8. rec' = [s \in 1..(n + m) |-> RowsTo(s, ConvKernel)]
  <2> DEFINE S == Seq(Nat)
             new == [t \in 1..m |-> RowsTo(n + t, k + 1)]
             f == [s \in 1..(n + m) |-> RowsTo(s, k + 1)]
  <2>1. rec' = rec \o new
    BY <1>7 DEF DeltaNet
  <2>2. \A s \in Int : RowsTo(s, k + 1) \in S
    BY <1>2, RowsToType
  <2>3. rec \in Seq(S) /\ Len(rec) = n
    <3> HIDE DEF S
    <3>1. rec \in [1..n -> S]
      BY <1>3, <2>2
    <3> QED
      BY <3>1, FunIsSeq
  <2>4. new \in Seq(S) /\ Len(new) = m
    <3> HIDE DEF S
    <3>1. new \in [1..m -> S]
      BY <2>2
    <3> QED
      BY <3>1, FunIsSeq
  <2>5. f \in Seq(S) /\ Len(f) = n + m
    <3> HIDE DEF S
    <3>1. f \in [1..(n + m) -> S] /\ n + m \in Nat
      BY <2>2
    <3> HIDE DEF f
    <3> QED
      BY <3>1, FunIsSeq
  <2>6. /\ \A i \in 1..n : rec[i] = f[i]
        /\ \A i \in 1..m : new[i] = f[n + i]
    BY <1>3
  <2> HIDE DEF S, new, f
  <2>7. /\ Len(f) = Len(rec) + Len(new)
        /\ \A i \in 1..Len(rec) : rec[i] = f[i]
        /\ \A i \in 1..Len(new) : new[i] = f[Len(rec) + i]
    BY <2>3, <2>4, <2>5, <2>6
  <2>8. rec \o new = f
    BY <2>3, <2>4, <2>5, <2>7, Joined
  <2> QED
    BY <1>2, <2>1, <2>8 DEF f
<1> QED
  BY <1>6, <1>8

-----------------------------------------------------------------------------
(* N-grams *)

LEMMA LeastExists ==
  ASSUME NEW S, S \subseteq Nat, S # {}
  PROVE  \E m \in S : \A x \in S : m <= x
<1> DEFINE R == OpToRel(<, Nat)
<1>1. IsWellFoundedOn(R, Nat)
  BY NatLessThanWellFounded
<1>2. \A x, y \in Nat : x < y => <<x, y>> \in R
  BY DEF OpToRel
<1> HIDE DEF R
<1>3. PICK m \in S : \A x \in S : ~ (<<x, m>> \in R)
  BY <1>1, WFMin
<1>4. ASSUME NEW x \in S PROVE ~ (x < m)
  BY <1>2, <1>3
<1>5. \A x \in S : m \in Nat /\ x \in Nat /\ ~ (x < m)
  BY <1>4
<1> QED
  BY <1>5

LEMMA MaxIsGreatest ==
  ASSUME NEW n \in Nat, NEW S, S \subseteq 0..n, S # {}
  PROVE  Max(S) \in S /\ \A x \in S : x <= Max(S)
<1> DEFINE T == {k \in Nat : n - k \in S}
<1>1. PICK s \in S : TRUE
  OBVIOUS
<1>2. s \in 0..n /\ n - (n - s) = s /\ n - s \in Nat
  BY <1>1
<1>3. T \subseteq Nat /\ T # {}
  BY <1>1, <1>2
<1>4. PICK k \in T : \A y \in T : k <= y
  <2> HIDE DEF T
  <2> QED
    BY <1>3, LeastExists
<1>5. \A x \in S : x \in 0..n /\ n - x \in T
  <2> SUFFICES ASSUME NEW x \in S
               PROVE  x \in 0..n /\ n - x \in T
    OBVIOUS
  <2>1. x \in 0..n /\ n - x \in Nat /\ n - (n - x) = x
    OBVIOUS
  <2> QED
    BY <2>1
<1>6. n - k \in S /\ k \in Nat
  OBVIOUS
<1>7. \A x \in S : n - k >= x
  BY <1>4, <1>5, <1>6
<1>8. Max(S) \in S /\ \A x \in S : Max(S) >= x
  BY <1>6, <1>7 DEF Max
<1>9. \A x \in S : x \in 0..n
  BY <1>5
<1> QED
  BY <1>8, <1>9

LEMMA LastTwo ==
  ASSUME NEW S, NEW s \in Seq(S), Len(s) >= 2
  PROVE  LastOf(s, 2) = <<s[Len(s) - 1], s[Len(s)]>>
<1>1. PICK l \in Nat : l = Len(s)
  BY LenProperties
<1>2. PICK m \in Int : m = l - 1
  OBVIOUS
<1>3. \A i \in m..l : s[i] \in S
  BY <1>1, <1>2, ElementOfSeq
<1>4. /\ SubSeq(s, m, l) \in Seq(S)
      /\ Len(SubSeq(s, m, l)) = IF m <= l THEN l - m + 1 ELSE 0
      /\ \A i \in 1..(l - m + 1) : SubSeq(s, m, l)[i] = s[m + i - 1]
  BY <1>3, SubSeqProperties
<1>5. Len(SubSeq(s, m, l)) = 2 /\ SubSeq(s, m, l)[1] = s[m] /\ SubSeq(s, m, l)[2] = s[l]
  BY <1>2, <1>4
<1>6. SubSeq(s, m, l) = <<s[m], s[l]>>
  <2>1. s[m] \in S /\ s[l] \in S
    BY <1>1, <1>2, <1>3
  <2>2. <<s[m], s[l]>> \in Seq(S)
    BY <2>1
  <2>3. PICK z : z = <<s[m], s[l]>>
    OBVIOUS
  <2>4. z \in Seq(S) /\ Len(z) = 2 /\ z[1] = s[m] /\ z[2] = s[l]
    BY <2>2, <2>3
  <2>5. \A i \in 1..Len(z) : SubSeq(s, m, l)[i] = z[i]
    BY <1>5, <2>4
  <2>6. SubSeq(s, m, l) = z
    BY <1>4, <1>5, <2>4, <2>5, SeqEqual
  <2> QED
    BY <2>3, <2>6
<1>7. LastOf(s, 2) = SubSeq(s, m, l)
  BY <1>1, <1>2 DEF LastOf
<1> QED
  BY <1>1, <1>2, <1>6, <1>7

Entries == [at : Int, tok : Tokens]

LEMMA EntryType ==
  ASSUME Parameters, NEW h \in Seq(Tokens), NEW p \in Int, p <= Len(h)
  PROVE  EntryAt(h, p) \in Entries
BY ElementOfSeq DEF EntryAt, EosEntry, Entry, Entries, Parameters

\* What is before a call and its tokens are the last entries of the history.
LEMMA EntriesOfCall ==
  ASSUME Parameters, StateInv, history \in Seq(Tokens), NEW toks \in Seq(Tokens)
  PROVE  LET n == Len(history)
             m == Len(toks)
             h == history \o toks
         IN /\ h \in Seq(Tokens) /\ Len(h) = n + m
            /\ Fed(toks) \in Seq(Entries) /\ Len(Fed(toks)) = m
            /\ Prev \in Seq(Entries) /\ Len(Prev) = 2
            /\ Prev \o Fed(toks) \in Seq(Entries) /\ Len(Prev \o Fed(toks)) = m + 2
            /\ \A t \in 1..m : Fed(toks)[t] = EntryAt(h, n + t)
            /\ \A i \in 1..(m + 2) : (Prev \o Fed(toks))[i] = EntryAt(h, n - 2 + i)
<1> PICK n \in Nat : n = Len(history)
  BY LenProperties
<1> PICK m \in Nat : m = Len(toks)
  BY LenProperties
<1> PICK h : h = history \o toks
  OBVIOUS
<1>1. /\ h \in Seq(Tokens) /\ Len(h) = n + m
      /\ \A i \in 1..(n + m) : h[i] = IF i <= n THEN history[i] ELSE toks[i - n]
  BY ConcatProperties
<1>2. \A p \in Int : p <= n => EntryAt(h, p) = EntryAt(history, p)
  BY <1>1 DEF EntryAt
<1>3. \A t \in 1..m : h[n + t] = toks[t]
  <2> TAKE t \in 1..m
  <2>1. n + t \in 1..(n + m) /\ ~(n + t <= n) /\ (n + t) - n = t
    OBVIOUS
  <2> QED
    BY <1>1, <2>1
<1>4. DOMAIN toks = 1..m
  BY LenProperties
<1>5. Fed(toks) = [t \in 1..m |-> EntryAt(h, n + t)]
  BY <1>3, <1>4 DEF Fed, EntryAt
<1>6. Fed(toks) \in Seq(Entries) /\ Len(Fed(toks)) = m
  <2>1. ASSUME NEW t \in 1..m PROVE EntryAt(h, n + t) \in Entries
    <3>1. n + t \in Int /\ n + t <= Len(h)
      BY <1>1
    <3> QED
      BY <1>1, <3>1, EntryType
  <2>2. Fed(toks) \in [1..m -> Entries]
    BY <1>5, <2>1
  <2> HIDE DEF Fed
  <2> QED
    BY <2>2, FunIsSeq
<1>7. \A t \in 1..m : Fed(toks)[t] = EntryAt(h, n + t)
  BY <1>5
<1>8. Prev = <<EntryAt(h, n - 1), EntryAt(h, n)>>
  BY <1>2 DEF StateInv
<1>9. Prev \in Seq(Entries) /\ Len(Prev) = 2
  <2>1. /\ n - 1 \in Int /\ n - 1 <= Len(h)
        /\ n \in Int /\ n <= Len(h)
    BY <1>1
  <2>2. EntryAt(h, n - 1) \in Entries /\ EntryAt(h, n) \in Entries
    BY <1>1, <2>1, EntryType
  <2> QED
    BY <1>8, <2>2
<1> DEFINE hist == Prev \o Fed(toks)
<1>10. /\ hist \in Seq(Entries) /\ Len(hist) = m + 2
       /\ \A i \in 1..(m + 2) : hist[i] = IF i <= 2 THEN Prev[i] ELSE Fed(toks)[i - 2]
  <2>1. /\ hist \in Seq(Entries)
        /\ Len(hist) = Len(Prev) + Len(Fed(toks))
        /\ \A i \in 1..(Len(Prev) + Len(Fed(toks))) :
             hist[i] = IF i <= Len(Prev) THEN Prev[i] ELSE Fed(toks)[i - Len(Prev)]
    BY <1>6, <1>9, ConcatProperties
  <2> HIDE DEF hist
  <2>2. 2 + m = m + 2
    OBVIOUS
  <2> QED
    BY <1>6, <1>9, <2>1, <2>2
<1> HIDE DEF hist
<1>11. ASSUME NEW i \in 1..(m + 2)
       PROVE  hist[i] = EntryAt(h, n - 2 + i)
  <2>1. CASE i = 1
    BY <1>8, <1>10, <2>1
  <2>2. CASE i = 2
    BY <1>8, <1>10, <2>2
  <2>3. CASE i > 2
    <3>1. i - 2 \in 1..m /\ n + (i - 2) = n - 2 + i
      BY <2>3
    <3> QED
      BY <1>7, <1>10, <2>3, <3>1
  <2>4. i = 1 \/ i = 2 \/ i > 2
    OBVIOUS
  <2> QED
    BY <2>1, <2>2, <2>3, <2>4
<1> QED
  BY <1>1, <1>6, <1>7, <1>9, <1>10, <1>11 DEF hist

\* Every call leaves the last two tokens for the next, a decode step too.
LEMMA EmbeddingMoves ==
  ASSUME Parameters, StateInv, history \in Seq(Tokens), NEW toks \in Seq(Tokens), toks # <<>>,
         NEW decode \in BOOLEAN, engine = C /\ ~decode => Len(toks) >= 2,
         Embedding(toks, decode), history' = history \o toks
  PROVE  LET p == Len(history) + Len(toks)
         IN /\ ple' = RowsTo(p, PleStateLen)
            /\ Prev' = <<EntryAt(history', p - 1), EntryAt(history', p)>>
<1> PICK n \in Nat : n = Len(history)
  OBVIOUS
<1> PICK m \in Nat \ {0} : m = Len(toks)
  OBVIOUS
<1> PICK h : h = history'
  OBVIOUS
<1>0. h = history \o toks /\ m \in Nat
  OBVIOUS
<1>1. /\ Fed(toks) \in Seq(Entries) /\ Len(Fed(toks)) = m
      /\ Prev \o Fed(toks) \in Seq(Entries) /\ Len(Prev \o Fed(toks)) = m + 2
      /\ \A t \in 1..m : Fed(toks)[t] = EntryAt(h, n + t)
      /\ \A i \in 1..(m + 2) : (Prev \o Fed(toks))[i] = EntryAt(h, n - 2 + i)
  BY <1>0, EntriesOfCall
<1>2. LastOf(Prev \o Fed(toks), 2) = <<EntryAt(h, n + m - 1), EntryAt(h, n + m)>>
  <2> DEFINE hist == Prev \o Fed(toks)
  <2>1. LastOf(hist, 2) = <<hist[m + 1], hist[m + 2]>>
    <3> HIDE DEF hist
    <3>1. hist \in Seq(Entries) /\ Len(hist) >= 2 /\ Len(hist) - 1 = m + 1 /\ Len(hist) = m + 2
      BY <1>1 DEF hist
    <3> QED
      BY <3>1, LastTwo
  <2>2. /\ m + 1 \in 1..(m + 2) /\ n - 2 + (m + 1) = n + m - 1
        /\ m + 2 \in 1..(m + 2) /\ n - 2 + (m + 2) = n + m
    OBVIOUS
  <2> DEFINE AsKept(i) == hist[i] = EntryAt(h, n - 2 + i)
  <2>3. \A i \in 1..(m + 2) : AsKept(i)
    BY <1>1
  <2> HIDE DEF AsKept
  <2>4. AsKept(m + 1) /\ AsKept(m + 2)
    BY ONLY <2>2, <2>3
  <2> HIDE DEF hist
  <2>5. hist[m + 1] = EntryAt(h, n + m - 1)
    BY <2>2, <2>4 DEF AsKept
  <2>6. hist[m + 2] = EntryAt(h, n + m)
    BY <2>2, <2>4 DEF AsKept
  <2>7. LastOf(hist, 2) = <<EntryAt(h, n + m - 1), EntryAt(h, n + m)>>
    BY ONLY <2>1, <2>5, <2>6
  <2> QED
    BY <2>7 DEF hist
<1>3. ASSUME m >= 2
      PROVE  LastOf(Fed(toks), 2) = <<EntryAt(h, n + m - 1), EntryAt(h, n + m)>>
  <2>1. LastOf(Fed(toks), 2) = <<Fed(toks)[m - 1], Fed(toks)[m]>>
    BY <1>1, <1>3, LastTwo
  <2>2. m - 1 \in 1..m /\ n + (m - 1) = n + m - 1 /\ m \in 1..m
    BY <1>3
  <2> QED
    BY <1>1, <2>1, <2>2
<1>4. NextPrev(toks, decode) = <<EntryAt(h, n + m - 1), EntryAt(h, n + m)>>
  <2>1. CASE engine = C /\ ~decode
    <3>1. Len(toks) \in Nat /\ m = Len(toks)
      OBVIOUS
    <3>2. m >= 2 /\ Len(toks) # 1
      BY ONLY engine = C /\ ~decode => Len(toks) >= 2, <2>1, <3>1
    <3> QED
      BY <1>3, <2>1, <3>2 DEF NextPrev
  <2>2. CASE ~(engine = C /\ ~decode)
    BY <1>2, <2>2 DEF NextPrev
  <2> QED
    BY <2>1, <2>2
<1>5. Prev' = <<EntryAt(h, n + m - 1), EntryAt(h, n + m)>>
  BY <1>4 DEF Embedding, Prev
<1>6. ple' = RowsTo(n + m, PleStateLen)
  <2>1. PICK k \in Nat : k = PleStateLen
    <3>1. PICK d \in Nat : d = PleKernel - 1
      BY DEF Parameters
    <3>2. d * 3 \in Nat
      OBVIOUS
    <3> QED
      BY <3>1, <3>2 DEF PleStateLen, NGram
  <2>2. ple \o NewRows(m) = RowsTo(n + m, k + m)
    <3>1. ple = RowsTo(n, k) /\ m \in Nat
      BY <2>1 DEF StateInv
    <3> QED
      BY <3>1, NewRowsJoin
  <2>3. LastOf(RowsTo(n + m, k + m), k) = RowsTo(n + m, k)
    <3>1. n + m \in Int /\ k + m \in Nat /\ k \in 0..(k + m)
      OBVIOUS
    <3> QED
      BY <3>1, LastRows
  <2> QED
    BY <2>1, <2>2, <2>3 DEF Embedding
<1> QED
  BY <1>5, <1>6

\* ExpectedGram of the history h.
GramAt(h, p, q) == IF q < p /\ \A s \in (p - q)..(p - 1) : h[s] # Eos
                   THEN Entry(p - q, h[p - q]) ELSE EosEntry

\* An n-gram reaches back to the token before, but not beyond an eos.
LEMMA GramsAsExpected ==
  ASSUME Parameters, StateInv, history \in Seq(Tokens), NEW toks \in Seq(Tokens),
         NEW t \in 1..Len(toks), NEW q \in 0..2
  PROVE  Context(Prev \o Fed(toks), t + 2, q) = GramAt(history \o toks, Len(history) + t, q)
<1> PICK n \in Nat : n = Len(history)
  OBVIOUS
<1> PICK m \in Nat : m = Len(toks)
  OBVIOUS
<1> PICK p \in Nat : p = n + t
  OBVIOUS
<1> PICK h : h = history \o toks
  OBVIOUS
<1> PICK hist : hist = Prev \o Fed(toks)
  OBVIOUS
<1> PICK b \in 3..(m + 2) : b = t + 2
  OBVIOUS
<1>0. p = n - 2 + b /\ b \in Int /\ b <= m + 2 /\ b >= 3 /\ q \in Int /\ q >= 0 /\ q <= 2
  OBVIOUS
<1>12. \A s \in (b - q)..(b - 1) : /\ s \in Int /\ b - q <= s /\ s <= b - 1
                                   /\ s \in 1..(b - 1) /\ n - 2 + s \in Int
  BY <1>0
<1>1. \A i \in 1..(m + 2) : hist[i] = EntryAt(h, n - 2 + i)
  BY EntriesOfCall
<1> DEFINE B == {0} \cup {s \in 1..(b - 1) : hist[s].tok = Eos}
<1>2. B \subseteq 0..(b - 1) /\ B # {} /\ b - 1 \in Nat
  OBVIOUS
<1>3. Max(B) \in B /\ \A x \in B : x <= Max(B)
  <2> HIDE DEF B
  <2> QED
    BY <1>2, MaxIsGreatest
<1>4. PICK boundary \in 0..(b - 1) : boundary = Max(B)
  BY <1>2, <1>3
<1>5. b - boundary > q <=> \A s \in (b - q)..(b - 1) : hist[s].tok # Eos
  <2>1. ASSUME b - boundary > q, NEW s \in (b - q)..(b - 1), hist[s].tok = Eos
        PROVE  FALSE
    <3>1. s \in 1..(b - 1) /\ s \in Int /\ s >= b - q
      BY <1>12, <2>1
    <3>2. s \in B
      BY <2>1, <3>1
    <3>3. s <= boundary
      BY <1>3, <1>4, <3>2
    <3> QED
      BY <1>0, <2>1, <3>1, <3>3
  <2>2. ASSUME \A s \in (b - q)..(b - 1) : hist[s].tok # Eos
        PROVE  b - boundary > q
    <3>1. boundary = 0 \/ hist[boundary].tok = Eos
      BY <1>3, <1>4
    <3>2. ~(boundary \in (b - q)..(b - 1)) \/ boundary = 0
      BY <2>2, <3>1
    <3> QED
      BY <3>2
  <2> QED
    BY <2>1, <2>2
<1>6. ASSUME NEW s \in (b - q)..(b - 1), NEW r \in Int, r = n - 2 + s
      PROVE  hist[s].tok = IF r >= 1 THEN h[r] ELSE Eos
  <2>1. s \in 1..(m + 2)
    BY <1>0, <1>12
  <2>2. hist[s] = EntryAt(h, r)
    BY <1>1, <1>6, <2>1
  <2> QED
    BY <1>6, <2>2 DEF EntryAt, Entry, EosEntry
<1>7. (\A s \in (b - q)..(b - 1) : hist[s].tok # Eos)
        <=> q < p /\ \A s \in (p - q)..(p - 1) : h[s] # Eos
  <2>1. ASSUME \A s \in (b - q)..(b - 1) : hist[s].tok # Eos
        PROVE  q < p /\ \A s \in (p - q)..(p - 1) : h[s] # Eos
    <3>1. q < p
      <4>1. CASE q = 0
        BY <4>1
      <4>2. CASE q # 0
        <5>1. PICK s \in (b - q)..(b - 1) : s = b - q
          BY <4>2
        <5>2. PICK r \in Int : r = n - 2 + s
          BY <1>12
        <5>3. r >= 1
          BY <1>6, <2>1, <5>2
        <5> QED
          BY <1>0, <5>1, <5>2, <5>3
      <4> QED
        BY <4>1, <4>2
    <3>2. ASSUME NEW r \in (p - q)..(p - 1)
          PROVE  h[r] # Eos
      <4>1. PICK s \in (b - q)..(b - 1) : r = n - 2 + s
        <5>1. r - n + 2 \in (b - q)..(b - 1) /\ r = n - 2 + (r - n + 2)
          BY <1>0
        <5> QED
          BY <5>1
      <4>2. r >= 1 /\ r \in Int
        BY <3>1
      <4>3. hist[s].tok = h[r]
        BY <1>6, <4>1, <4>2
      <4> QED
        BY <2>1, <4>1, <4>3
    <3> QED
      BY <3>1, <3>2
  <2>2. ASSUME q < p, \A s \in (p - q)..(p - 1) : h[s] # Eos,
               NEW s \in (b - q)..(b - 1)
        PROVE  hist[s].tok # Eos
    <3>1. PICK r \in Int : r = n - 2 + s
      BY <1>12, <2>2
    <3>2. r \in (p - q)..(p - 1) /\ r >= 1
      BY <1>0, <1>12, <2>2, <3>1
    <3>3. hist[s].tok = h[r]
      BY <1>6, <3>1, <3>2
    <3> QED
      BY <2>2, <3>2, <3>3
  <2> QED
    BY <2>1, <2>2
<1>8. b - q >= 1 /\ b - q \in 1..(m + 2) /\ n - 2 + (b - q) = p - q
  BY <1>0
<1>9. Context(hist, b, q) = IF b - boundary > q THEN hist[b - q] ELSE EosEntry
  BY <1>4, <1>8 DEF Context
<1>10. q < p => hist[b - q] = Entry(p - q, h[p - q])
  <2>1. hist[b - q] = EntryAt(h, p - q)
    BY <1>1, <1>8
  <2>2. q < p => p - q >= 1
    OBVIOUS
  <2> QED
    BY <2>1, <2>2 DEF EntryAt
<1>11. GramAt(h, p, q) = IF q < p /\ \A s \in (p - q)..(p - 1) : h[s] # Eos
                         THEN Entry(p - q, h[p - q]) ELSE EosEntry
  BY DEF GramAt
<1>13. Context(hist, b, q) = GramAt(h, p, q)
  BY <1>5, <1>7, <1>9, <1>10, <1>11
<1> QED
  BY <1>13

-----------------------------------------------------------------------------
(* The invariant of the decoder *)

\* The calls that MinPrefill and MaxPrefill leave the C runtime.
Usual(toks, decode) == /\ toks \in Seq(Tokens) /\ toks # <<>>
                       /\ IF decode THEN Len(toks) = 1 ELSE Allowed(toks)

LEMMA PleAsExpected ==
  ASSUME Parameters, NEW n \in Nat, NEW m \in Nat, n = Len(history),
         ple = RowsTo(n, PleStateLen), NEW t \in 1..m, NEW p \in Nat, p = n + t
  PROVE  PleOut(t, m) = [j \in 0..(PleKernel - 1) |-> RowAt(p - j * NGram)]
<1>1. PICK l \in Nat : l = PleKernel - 1
  BY DEF Parameters
<1>2. PICK k \in Nat : k = 3 * l
  OBVIOUS
<1>3. PleStateLen = k
  BY <1>1, <1>2 DEF PleStateLen, NGram
<1>4. ple \o NewRows(m) = RowsTo(n + m, k + m)
  <2>1. RowsTo(n, k) \o NewRows(m) = RowsTo(n + m, k + m)
    BY NewRowsJoin
  <2> QED
    BY <1>3, <2>1
<1>5. ASSUME NEW j \in 0..l
      PROVE  (ple \o NewRows(m))[k + t - j * 3] = RowAt(p - j * 3)
  <2>1. k + t - j * 3 \in 1..(k + m)
    BY <1>2
  <2>2. (n + m) - (k + m) + (k + t - j * 3) = p - j * 3
    BY <1>2
  <2> QED
    BY <1>4, <2>1, <2>2 DEF RowsTo
<1> QED
  BY <1>1, <1>3, <1>5 DEF PleOut, NGram

LEMMA OutputAsExpected ==
  ASSUME Parameters, Within, DecInv, ~failed, NEW toks, NEW decode \in BOOLEAN,
         Usual(toks, decode), Forward(toks, decode),
         NEW n \in Nat, n = Len(history), NEW m \in Nat, m = Len(toks), NEW t \in 1..m
  PROVE  Output(toks, t) = Expected(n + t)' /\ StateInv'
<1>0. PICK p \in Nat : p = n + t
  OBVIOUS
<1>1. /\ engine \in Engines /\ blockScores \in [Blocks -> Blocks]
      /\ history \in Seq(Tokens) /\ StateInv /\ toks \in Seq(Tokens)
  BY DEF DecInv, Usual
<1>2. /\ engine = C => m <= RopeRows
      /\ engine = C /\ ~decode => m >= 2
      /\ m \in Nat \ {0}
  <2>1. CASE decode
    <3>1. m = 1
      BY <2>1 DEF Usual
    <3>2. RopeRows \in Nat \ {0}
      BY DEF Parameters
    <3> QED
      BY <2>1, <3>1, <3>2
  <2>2. CASE ~decode
    BY <1>1, <2>2 DEF Usual, Allowed, Within, Parameters
  <2> QED
    BY <2>1, <2>2
<1>3. /\ AppendRows(m) /\ Embedding(toks, decode) /\ DeltaNet(m)
      /\ n + m <= MaxHistory /\ history' = history \o toks
      /\ engine' = engine /\ blockScores' = blockScores
  BY DEF Forward
<1>4. /\ keys' = [k \in 1..(n + m) |-> KeyOf(k)]
      /\ vals' = [k \in 1..(n + m) |-> k]
      /\ idx' = [k \in 1..(n + m) |-> k]
      /\ \A u \in 1..m : Rotation(u, m) = RotatedTo(n + u)
  BY <1>1, <1>2, <1>3, WindowGrows
<1>5. /\ conv' = RowsTo(n + m, ConvKernel - 1)
      /\ rec' = [s \in 1..(n + m) |-> RowsTo(s, ConvKernel)]
  BY <1>1, <1>3, RecurrentGrows
<1>6. /\ ple' = RowsTo(n + m, PleStateLen)
      /\ Prev' = <<EntryAt(history', n + m - 1), EntryAt(history', n + m)>>
  <2>1. Embedding(toks, decode) /\ history' = history \o toks
    BY <1>3
  <2>2. engine = C /\ ~decode => m >= 2
    BY <1>2
  <2>3. StateInv /\ history \in Seq(Tokens) /\ toks \in Seq(Tokens) /\ toks # <<>>
    BY <1>1, <1>2
  <2> DEFINE last == Len(history) + Len(toks)
  <2>4. /\ ple' = RowsTo(last, PleStateLen)
        /\ Prev' = <<EntryAt(history', last - 1), EntryAt(history', last)>>
    BY <2>1, <2>2, <2>3, EmbeddingMoves
  <2> QED
    BY <2>4
<1>7. Len(history') = n + m
  BY <1>1, <1>3, ConcatProperties
<1>8. StateInv'
  BY <1>4, <1>5, <1>6, <1>7 DEF StateInv
<1>9. AttentionOut(t) = {[key |-> KeyOf(k), value |-> k] : k \in ExpectedRows(p)}
  <2>1. Len(vals) = n /\ Len(vals') = n + m
    <3>1. Len(vals) = n
      BY <1>1, StateLengths
    <3>2. vals' \in [1..(n + m) -> Nat] /\ n + m \in Nat
      BY <1>4
    <3> QED
      BY <3>1, <3>2, FunIsSeq
  <2>2. Attended(n + t, n + m) = ExpectedRows(n + t)
    <3>1. n + t \in Nat /\ n + m \in Nat /\ n + t <= n + m
      OBVIOUS
    <3> QED
      BY <1>1, <1>3, <1>4, <3>1, AttendsAsExpected
  <2>3. \A k \in ExpectedRows(n + t) : k \in 1..(n + m)
    BY DEF ExpectedRows
  <2>4. \A k \in ExpectedRows(p) : keys'[k] = KeyOf(k) /\ vals'[k] = k
    BY <1>0, <1>4, <2>3
  <2>5. Attended(Len(vals) + t, Len(vals')) = ExpectedRows(p)
    BY <1>0, <2>1, <2>2
  <2> QED
    BY <2>4, <2>5 DEF AttentionOut
<1>10. ExpectedRows(p)' = ExpectedRows(p)
  BY <1>3 DEF ExpectedRows
<1>11. SubSeq(rec', 1, Len(rec) + t) = [s \in 1..p |-> RowsTo(s, ConvKernel)]
  <2> DEFINE f == [s \in 1..p |-> RowsTo(s, ConvKernel)]
             S == Seq(Nat)
  <2>1. \A s \in Int : RowsTo(s, ConvKernel) \in S
    BY RowsToType DEF Parameters
  <2> HIDE DEF S
  <2>2. Len(rec) = n
    <3>1. rec \in [1..n -> S]
      BY <1>1, <2>1 DEF StateInv
    <3> QED
      BY <3>1, FunIsSeq
  <2>3. f \in Seq(S) /\ Len(f) = p
    <3>1. f \in [1..p -> S]
      BY <2>1
    <3> HIDE DEF f
    <3> QED
      BY <3>1, FunIsSeq
  <2>4. \A s \in 1..p : rec'[1 + s - 1] = f[s]
    <3> TAKE s \in 1..p
    <3>1. 1 + s - 1 = s /\ s \in 1..(n + m)
      BY <1>0
    <3> QED
      BY <1>5, <3>1
  <2> HIDE DEF f
  <2>6. SubSeq(rec', 1, p) = f
    <3>1. p \in Int /\ Len(f) = p - 1 + 1 /\ \A s \in 1..Len(f) : rec'[1 + s - 1] = f[s]
      BY <2>3, <2>4
    <3> QED
      BY <2>3, <3>1, Cut
  <2> QED
    BY <1>0, <2>2, <2>6 DEF f
<1>12. GramsOut(toks, t) = [q \in 0..(NGram - 1) |-> ExpectedGram(p, q)']
  <2>1. ASSUME NEW q \in 0..2
        PROVE  Context(Prev \o Fed(toks), t + 2, q) = ExpectedGram(p, q)'
    <3>1. StateInv /\ history \in Seq(Tokens) /\ toks \in Seq(Tokens)
      BY <1>1
    <3>2. history' = history \o toks
      BY <1>3
    <3>3. Context(Prev \o Fed(toks), t + 2, q) = ExpectedGram(n + t, q)'
      <4>1. Context(Prev \o Fed(toks), t + 2, q) = GramAt(history \o toks, Len(history) + t, q)
        BY <3>1, GramsAsExpected
      <4>2. ExpectedGram(n + t, q)' = GramAt(history', n + t, q)
        BY DEF ExpectedGram, GramAt, Entry, EosEntry
      <4> QED
        BY <3>2, <4>1, <4>2
    <3> QED
      BY <1>0, <3>3
  <2>2. NGram - 1 = 2 /\ t + NGram - 1 = t + 2
    BY DEF NGram
  <2> QED
    BY <2>1, <2>2 DEF GramsOut
<1>13. PleOut(t, m) = [j \in 0..(PleKernel - 1) |-> RowAt(p - j * NGram)]
  <2>1. ple = RowsTo(n, PleStateLen)
    BY <1>1 DEF StateInv
  <2> QED
    BY <1>0, <2>1, PleAsExpected
<1>14. Output(toks, t) = [query |-> RotatedTo(p),
                          attention |-> {[key |-> KeyOf(k), value |-> k] : k \in ExpectedRows(p)},
                          recurrent |-> [s \in 1..p |-> RowsTo(s, ConvKernel)],
                          grams |-> [q \in 0..(NGram - 1) |-> ExpectedGram(p, q)'],
                          ple |-> [j \in 0..(PleKernel - 1) |-> RowAt(p - j * NGram)]]
  BY <1>0, <1>4, <1>9, <1>11, <1>12, <1>13 DEF Output
<1>15. Expected(p)' = [query |-> RotatedTo(p),
                       attention |-> {[key |-> KeyOf(k), value |-> k] : k \in ExpectedRows(p)'},
                       recurrent |-> [s \in 1..p |-> RowsTo(s, ConvKernel)],
                       grams |-> [q \in 0..(NGram - 1) |-> ExpectedGram(p, q)'],
                       ple |-> [j \in 0..(PleKernel - 1) |-> RowAt(p - j * NGram)]]
  BY DEF Expected, RotatedTo, RowAt, NGram, NoRow, KeyOf, RowsTo
<1> QED
  BY <1>0, <1>8, <1>10, <1>14, <1>15

\* The caches before the first call and after model_reset_caches.
Fresh == /\ keys = <<>> /\ vals = <<>> /\ idx = <<>>
         /\ conv = Zeros(ConvKernel - 1) /\ rec = <<>>
         /\ ple = Zeros(PleStateLen)
         /\ prevCtx = <<EosEntry, EosEntry>> /\ hasPrev = FALSE
         /\ history = <<>> /\ outs = <<>> /\ failed = FALSE
FreshInv == /\ StateInv /\ DecodeMatchesPrefill /\ failed \in BOOLEAN
            /\ history \in Seq(Tokens) /\ Len(history) <= MaxHistory

LEMMA FreshHolds == Parameters /\ Fresh => FreshInv
<1> SUFFICES ASSUME Parameters, Fresh
             PROVE  FreshInv
  OBVIOUS
<1>1. MaxHistory \in Nat /\ ConvKernel \in Nat \ {0} /\ PleKernel \in Nat \ {0}
  BY DEF Parameters
<1>2. history = <<>> /\ Len(history) = 0 /\ history \in Seq(Tokens)
  BY DEF Fresh
<1>3. \A k \in Nat : Zeros(k) = RowsTo(0, k)
  <2> TAKE k \in Nat
  <2>1. \A j \in 1..k : RowAt(0 - k + j) = NoRow
    BY DEF RowAt
  <2> QED
    BY <2>1 DEF Zeros, RowsTo
<1>4. ConvKernel - 1 \in Nat /\ PleStateLen \in Nat
  <2>1. PICK l \in Nat : l = PleKernel - 1
    BY <1>1
  <2> QED
    BY <1>1, <2>1 DEF PleStateLen, NGram
<1>5. StateInv
  <2>1. conv = RowsTo(0, ConvKernel - 1) /\ ple = RowsTo(0, PleStateLen)
    BY <1>3, <1>4 DEF Fresh
  <2>2. Prev = <<EntryAt(history, 0 - 1), EntryAt(history, 0)>>
    BY DEF Fresh, Prev, EntryAt
  <2>3. /\ keys = [k \in 1..0 |-> KeyOf(k)]
        /\ vals = [k \in 1..0 |-> k] /\ idx = [k \in 1..0 |-> k]
        /\ rec = [s \in 1..0 |-> RowsTo(s, ConvKernel)]
    BY DEF Fresh
  <2> QED
    BY <1>2, <2>1, <2>2, <2>3 DEF StateInv
<1>6. DecodeMatchesPrefill
  BY DEF Fresh, DecodeMatchesPrefill
<1>7. failed \in BOOLEAN
  BY DEF Fresh
<1> QED
  BY <1>1, <1>2, <1>5, <1>6, <1>7 DEF FreshInv

LEMMA InitDecInv == ASSUME Parameters, Init PROVE DecInv
<1>1. Fresh
  BY DEF Init, Fresh
<1>2. engine \in Engines /\ blockScores \in [Blocks -> Blocks]
  BY DEF Init
<1> QED
  BY <1>1, <1>2, FreshHolds DEF DecInv, FreshInv

LEMMA ForwardKeeps ==
  ASSUME Parameters, Within, DecInv, NEW toks, NEW decode \in BOOLEAN,
         Usual(toks, decode), Forward(toks, decode)
  PROVE  DecInv'
<1> PICK n \in Nat : n = Len(history)
  BY LenProperties DEF DecInv
<1> PICK m \in Nat : m = Len(toks)
  BY LenProperties DEF Usual
<1>1. /\ ~failed /\ toks \in Seq(Tokens) /\ history \in Seq(Tokens) /\ 1 \in 1..m
      /\ DOMAIN toks = 1..m
  <2>1. toks \in Seq(Tokens) /\ toks # <<>>
    BY DEF Usual
  <2>2. m # 0
    BY <2>1
  <2> QED
    BY <2>1, <2>2 DEF Forward, DecInv
<1>2. /\ history' = history \o toks /\ n + m <= MaxHistory
      /\ engine' = engine /\ blockScores' = blockScores /\ failed' = failed
      /\ outs' = [t \in DOMAIN toks |-> Output(toks, t)]
  BY DEF Forward
<1>3. history' \in Seq(Tokens) /\ Len(history') = n + m
  BY <1>1, <1>2, ConcatProperties
<1>4. \A t \in 1..m : Output(toks, t) = Expected(n + t)' /\ StateInv'
  BY <1>1, OutputAsExpected
<1>5. outs' = [t \in 1..m |-> Expected(n + t)']
  BY <1>1, <1>2, <1>4
<1>6. DecodeMatchesPrefill'
  <2>1. DOMAIN outs' = 1..m /\ Len(outs') = m
    BY <1>5
  <2>2. \A t \in 1..m : outs'[t] = Expected(n + t)'
    BY <1>5
  <2>3. \A t \in 1..m : Len(history') - Len(outs') + t = n + t
    BY <1>3, <2>1
  <2> QED
    BY <2>1, <2>2, <2>3 DEF DecodeMatchesPrefill
<1>7. Blocks' = Blocks
  BY DEF Blocks
<1> QED
  BY <1>1, <1>2, <1>3, <1>4, <1>6, <1>7 DEF DecInv

LEMMA ForwardFailsKeeps ==
  ASSUME DecInv, NEW toks, NEW decode, ForwardFails(toks, decode)
  PROVE  DecInv'
<1>1. /\ failed' = TRUE /\ outs' = <<>>
      /\ engine' = engine /\ blockScores' = blockScores /\ history' = history
  BY DEF ForwardFails
<1>2. DecodeMatchesPrefill'
  BY <1>1 DEF DecodeMatchesPrefill
<1> QED
  BY <1>1, <1>2 DEF DecInv, Blocks

LEMMA ResetKeeps == Parameters /\ DecInv /\ Reset => DecInv'
<1>1. Reset => Fresh'
  BY DEF Reset, Fresh, EosEntry, Entry, Zeros, PleStateLen, NGram, NoRow
<1>2. Parameters' <=> Parameters
  BY DEF Parameters
<1>3. (Parameters /\ Fresh => FreshInv)'
  BY FreshHolds, PTL
<1>4. FreshInv' /\ engine' \in Engines /\ blockScores' \in [Blocks -> Blocks] => DecInv'
  BY DEF FreshInv, DecInv, Blocks
<1> QED
  BY <1>1, <1>2, <1>3, <1>4 DEF DecInv, Reset

LEMMA StutterKeeps == DecInv /\ UNCHANGED vars => DecInv'
<1> SUFFICES ASSUME DecInv, UNCHANGED vars
             PROVE  DecInv'
  OBVIOUS
<1>1. StateInv => StateInv'
  BY DEF vars, StateInv, Prev, EntryAt, KeyOf, RowsTo, PleStateLen, NGram
<1>2. \A p : Expected(p)' = Expected(p)
  <2> TAKE p
  <2>1. ExpectedRows(p)' = ExpectedRows(p)
    BY DEF vars, ExpectedRows
  <2>2. \A q : ExpectedGram(p, q)' = ExpectedGram(p, q)
    BY DEF vars, ExpectedGram, Entry, EosEntry
  <2> QED
    BY <2>1, <2>2 DEF Expected, RotatedTo, RowAt, NGram, NoRow
<1>3. DecodeMatchesPrefill'
  BY <1>2 DEF vars, DecInv, DecodeMatchesPrefill
<1> QED
  BY <1>1, <1>3 DEF vars, DecInv, Blocks

LEMMA NextDecInv ==
  ASSUME Parameters, Within, DecInv, [Next]_vars
  PROVE  DecInv'
<1>1. CASE UNCHANGED vars
  BY <1>1, StutterKeeps
<1>2. ASSUME NEW toks \in Prompts, Allowed(toks), Forward(toks, FALSE) \/ ForwardFails(toks, FALSE)
      PROVE  DecInv'
  <2>1. PICK n \in 1..MaxHistory : toks \in [1..n -> Tokens]
    BY DEF Prompts
  <2>2. n \in Nat
    BY DEF Parameters
  <2>3. toks \in Seq(Tokens) /\ Len(toks) = n
    BY <2>1, <2>2, FunIsSeq
  <2>4. Usual(toks, FALSE)
    BY <1>2, <2>3 DEF Usual
  <2> QED
    BY <1>2, <2>4, ForwardKeeps, ForwardFailsKeeps
<1>3. ASSUME NEW tok \in Tokens, Forward(<<tok>>, TRUE) \/ ForwardFails(<<tok>>, TRUE)
      PROVE  DecInv'
  <2>1. Usual(<<tok>>, TRUE)
    BY DEF Usual
  <2> QED
    BY <1>3, <2>1, ForwardKeeps, ForwardFailsKeeps
<1>4. CASE Reset
  BY <1>4, ResetKeeps
<1> QED
  BY <1>1, <1>2, <1>3, <1>4 DEF Next

-----------------------------------------------------------------------------
(* Theorems about the decoder *)

\* What the caches hold is a function of the tokens since the reset, for any
\* tokens, kernels, blocks and cut into calls.
THEOREM DecoderInvariant ==
  ASSUME Parameters, Within
  PROVE  Spec => []DecInv
<1>1. Init => DecInv
  BY InitDecInv
<1>2. DecInv /\ [Next]_vars => DecInv'
  BY NextDecInv
<1> QED
  BY <1>1, <1>2, PTL DEF Spec

\* c/tests/test_model.c:319 for any tokens and any cut of them into calls: the
\* output at a position is that of a prefill of the whole.
THEOREM DecodesAsPrefill ==
  ASSUME Parameters, Within
  PROVE  Spec => []DecodeMatchesPrefill
<1>1. DecInv => DecodeMatchesPrefill
  BY DEF DecInv
<1> QED
  BY <1>1, DecoderInvariant, PTL

-----------------------------------------------------------------------------
(* The generation loop.  It feeds the decoder the prompt, then the tokens it *)
(* has generated one at a time, the last of them only if another is wanted.  *)

FedInv ==
  /\ phase = "prefill" => history = <<>> /\ generated = <<>>
  /\ phase = "sample" => history = prompt \o generated
  /\ phase \in {"decode", "end", "printed"} =>
       /\ generated # <<>>
       /\ history = prompt \o SubSeq(generated, 1, Len(generated) - 1)

\* Only the last token may be a stop, and then the run is at its end.
StopInv ==
  /\ \A i \in 1..(Len(generated) - 1) : generated[i] \notin opts.stops
  /\ phase \in {"sample", "decode"} =>
       \A i \in 1..Len(generated) : generated[i] \notin opts.stops

\* A single run counts the tokens it has.
CountInv ==
  /\ run \in Nat \ {0} /\ genTokens \in Nat
  /\ opts.runs = 1 =>
       /\ genTokens = Len(generated)
       /\ phase \in {"reset", "prefill"} => genTokens = 0

\* generated[] of main.c begins with the tokens of the run, and is written no
\* further than tokens have been counted.
CellsInv ==
  /\ cells \in Seq(Tokens) /\ Len(generated) <= Len(cells) /\ Len(cells) <= genTokens
  /\ \A i \in 1..Len(generated) : cells[i] = generated[i]

\* cli.py prints while it generates, main.c afterwards.
PrintInv ==
  /\ engine = Python /\ opts.command = "generate" => printed = generated
  /\ PrintsTheAnswer

LoopInv == /\ DecInv
           /\ opts \in Options /\ opts.engine = engine
           /\ prompt \in PromptsFed /\ generated \in Seq(Tokens)
           /\ phase \in {"reset", "prefill", "sample", "decode", "end", "printed", "failed"}
           /\ FedInv /\ StopInv /\ CountInv /\ CellsInv /\ PrintInv

-----------------------------------------------------------------------------
(* Sampling *)

LEMMA LeastIsMin ==
  ASSUME NEW S, S \subseteq Nat, S # {}
  PROVE  Min(S) \in S /\ \A x \in S : Min(S) <= x
BY LeastExists DEF Min

\* Some token has the greatest weight.
LEMMA HeaviestExists ==
  ASSUME NEW S, IsFiniteSet(S), S # {}, NEW w \in [S -> Nat]
  PROVE  \E t \in S : \A s \in S : w[s] <= w[t]
<1> DEFINE Heavier(t) == {s \in S : w[s] > w[t]}
           N == {n \in Nat : \E t \in S : n = Cardinality(Heavier(t))}
<1>1. \A t \in S : Heavier(t) \in SUBSET S
  OBVIOUS
<1>2. \A t \in S : IsFiniteSet(Heavier(t)) /\ Cardinality(Heavier(t)) \in Nat
  <2> HIDE DEF Heavier
  <2> QED
    BY <1>1, FS_Subset, FS_CardinalityType
<1>3. N \subseteq Nat /\ N # {}
  BY <1>2
<1>4. PICK n \in N : \A x \in N : n <= x
  <2> HIDE DEF N
  <2> QED
    BY <1>3, LeastExists
<1>5. PICK t \in S : n = Cardinality(Heavier(t))
  OBVIOUS
<1>6. ASSUME NEW s \in S, w[s] > w[t]
      PROVE  FALSE
  <2>1. Heavier(s) \subseteq Heavier(t) /\ s \in Heavier(t) /\ s \notin Heavier(s)
    BY <1>6
  <2>2. Cardinality(Heavier(s)) \in N
    BY <1>2
  <2> HIDE DEF Heavier, N
  <2>3. /\ Cardinality(Heavier(s)) <= Cardinality(Heavier(t))
        /\ Cardinality(Heavier(s)) # Cardinality(Heavier(t))
    BY <1>2, <2>1, FS_Subset
  <2> QED
    BY <1>2, <1>4, <1>5, <2>2, <2>3
<1> QED
  BY <1>6

\* The units of the weights.
Units(w, S) == UNION {{t} \X (1..w[t]) : t \in S}

LEMMA UnitsFinite ==
  ASSUME GenParameters, NEW w \in [Tokens -> Nat], NEW S \in SUBSET Tokens
  PROVE  /\ IsFiniteSet(Units(w, S)) /\ Mass(w, S) = Cardinality(Units(w, S))
         /\ Mass(w, S) \in Nat
<1>1. CASE Tokens = {}
  <2>1. Units(w, S) = {}
    BY <1>1 DEF Units
  <2> QED
    BY <2>1, FS_EmptySet DEF Mass, Units
<1>2. CASE Tokens # {}
  <2>1. IsFiniteSet(Tokens)
    BY DEF GenParameters
  <2>2. PICK t \in Tokens : \A s \in Tokens : w[s] <= w[t]
    BY <1>2, <2>1, HeaviestExists
  <2>3. w[t] \in Int /\ 1 \in Int
    OBVIOUS
  <2>4. IsFiniteSet(1..w[t])
    BY <2>3, FS_Interval
  <2>5. IsFiniteSet(Tokens \X (1..w[t]))
    BY <2>1, <2>4, FS_Product
  <2>6. Units(w, S) \in SUBSET (Tokens \X (1..w[t]))
    <3> SUFFICES ASSUME NEW u \in Units(w, S)
                 PROVE  u \in Tokens \X (1..w[t])
      OBVIOUS
    <3>1. PICK s \in S : u \in {s} \X (1..w[s])
      BY DEF Units
    <3>2. w[s] \in Nat /\ w[s] <= w[t]
      BY <2>2
    <3> QED
      BY <3>1, <3>2
  <2> QED
    BY <2>5, <2>6, FS_Subset, FS_CardinalityType DEF Mass, Units
<1> QED
  BY <1>1, <1>2

\* More tokens have no less mass; those of no weight add none.
LEMMA MassGrows ==
  ASSUME GenParameters, NEW w \in [Tokens -> Nat],
         NEW S \in SUBSET Tokens, NEW T \in SUBSET Tokens,
         \A t \in S : w[t] > 0 => t \in T
  PROVE  Mass(w, S) <= Mass(w, T)
<1>1. Units(w, S) \subseteq Units(w, T)
  <2> SUFFICES ASSUME NEW u \in Units(w, S)
               PROVE  u \in Units(w, T)
    OBVIOUS
  <2>1. PICK s \in S : u \in {s} \X (1..w[s])
    BY DEF Units
  <2>2. w[s] \in Nat
    OBVIOUS
  <2>3. w[s] > 0
    BY <2>1, <2>2
  <2> QED
    BY <2>1, <2>3 DEF Units
<1> QED
  BY <1>1, UnitsFinite, FS_Subset

LEMMA TotalIsPositive ==
  ASSUME GenParameters, NEW w \in Weights
  PROVE  Total(w) \in Nat \ {0}
<1>1. w \in [Tokens -> Nat] /\ \E t \in Tokens : w[t] > 0
  BY DEF GenParameters
<1>2. PICK t \in Tokens : w[t] > 0
  BY <1>1
<1>3. 1 \in 1..w[t]
  BY <1>1, <1>2
<1>4. <<t, 1>> \in Units(w, Tokens)
  BY <1>3 DEF Units
<1> QED
  BY <1>1, <1>4, UnitsFinite, FS_EmptySet DEF Total

Heavier(w, t) == {s \in Tokens : w[s] > w[t]}

\* The tokens heavier than t precede it.
LEMMA HeavierPrecede ==
  ASSUME GenParameters, NEW w \in [Tokens -> Nat], NEW t \in Tokens
  PROVE  /\ Mass(w, Heavier(w, t)) \in Nat /\ MassBefore(w, t) \in Nat
         /\ Mass(w, Heavier(w, t)) <= MassBefore(w, t)
<1> DEFINE before == {s \in Tokens : Precedes(w, s, t)}
<1>1. Heavier(w, t) \in SUBSET Tokens /\ before \in SUBSET Tokens
  BY DEF Heavier
<1>2. \A s \in Heavier(w, t) : s \in before
  BY DEF Heavier, Precedes
<1>3. MassBefore(w, t) = Mass(w, before)
  BY DEF MassBefore
<1> HIDE DEF before
<1> QED
  BY <1>1, <1>2, <1>3, UnitsFinite, MassGrows

\* Everything of positive weight precedes a token of none.
LEMMA AllPrecedeNothing ==
  ASSUME GenParameters, NEW w \in [Tokens -> Nat], NEW t \in Tokens, w[t] = 0
  PROVE  Total(w) <= MassBefore(w, t)
<1> DEFINE before == {s \in Tokens : Precedes(w, s, t)}
<1>1. Tokens \in SUBSET Tokens /\ before \in SUBSET Tokens
  OBVIOUS
<1>2. \A s \in Tokens : w[s] > 0 => s \in before
  BY DEF Precedes
<1>3. MassBefore(w, t) = Mass(w, before)
  BY DEF MassBefore
<1> HIDE DEF before
<1> QED
  BY <1>1, <1>2, <1>3, MassGrows DEF Total

\* The weights whose token is likely, which SamplesLikely is about.
Likely(w, t) == /\ w[t] > 0
                /\ 10 * Mass(w, Heavier(w, t)) <= opts.topP * Total(w)
                /\ opts.greedy => Mass(w, Heavier(w, t)) = 0

\* The C runtime without a nucleus may take a token of no weight.
WithNucleus == \A o \in Options : o.engine = C /\ ~o.greedy => o.topP < 10

LEMMA SampledAreTokens ==
  ASSUME Parameters, GenParameters, NEW w \in Weights, NEW u
  PROVE  Sampled(w, u) \subseteq Tokens
<1> USE DEF Sampled
<1>1. Tokens \subseteq Nat /\ Tokens # {} /\ IsFiniteSet(Tokens) /\ w \in [Tokens -> Nat]
  BY DEF Parameters, GenParameters
<1>2. CASE opts.greedy
  <2> DEFINE best == {t \in Tokens : \A s \in Tokens : w[t] >= w[s]}
  <2>1. PICK t \in Tokens : \A s \in Tokens : w[s] <= w[t]
    BY <1>1, HeaviestExists
  <2>2. t \in best
    BY <1>1, <2>1
  <2>3. best \subseteq Nat /\ best # {}
    BY <1>1, <2>2
  <2>4. best \subseteq Tokens /\ Sampled(w, u) = {Min(best)}
    BY <1>2
  <2> HIDE DEF best
  <2> QED
    BY <2>3, <2>4, LeastIsMin
<1>3. CASE ~opts.greedy /\ engine = Python
  BY <1>3
<1>4. CASE ~opts.greedy /\ engine # Python /\ opts.topP < 10
  <2>1. Nucleus(w) \subseteq Tokens
    BY DEF Nucleus
  <2> QED
    BY <1>4, <2>1 DEF Walk
<1>5. CASE ~opts.greedy /\ engine # Python /\ ~(opts.topP < 10)
  <2> DEFINE upTo(t) == Mass(w, {s \in Tokens : s <= t})
             reached == {t \in Tokens :
                           u * Total(w) * Total(w) <= Draws * Max(Range(w)) * upTo(t)}
  <2>1. reached \subseteq Tokens
    OBVIOUS
  <2>2. Sampled(w, u) = IF reached = {} THEN {Min(Tokens)} ELSE {Min(reached)}
    BY <1>5 DEF WalkAll
  <2> HIDE DEF reached
  <2>3. reached # {} => Min(reached) \in reached
    BY <1>1, <2>1, LeastIsMin
  <2>4. Min(Tokens) \in Tokens
    BY <1>1, LeastIsMin
  <2> QED
    BY <2>1, <2>2, <2>3, <2>4
<1> QED
  BY <1>2, <1>3, <1>4, <1>5

\* sample_token and _sample return likely tokens.
LEMMA SampledAreLikely ==
  ASSUME Parameters, GenParameters, WithNucleus, engine \in Engines,
         opts \in Options, opts.engine = engine,
         NEW w \in Weights, NEW u, NEW t \in Sampled(w, u)
  PROVE  Likely(w, t)
<1>1. /\ w \in [Tokens -> Nat] /\ Tokens \subseteq Nat /\ IsFiniteSet(Tokens) /\ Tokens # {}
      /\ opts.topP \in 1..10 /\ opts.greedy \in BOOLEAN
  BY DEF Parameters, GenParameters
<1>2. t \in Tokens /\ w[t] \in Nat
  BY <1>1, SampledAreTokens
<1>3. PICK p \in 1..10 : p = opts.topP
  BY <1>1
<1>4. PICK h \in Nat : h = Mass(w, Heavier(w, t))
  BY <1>1, <1>2, HeavierPrecede
<1>5. PICK b \in Nat : b = MassBefore(w, t)
  BY <1>1, <1>2, HeavierPrecede
<1>6. PICK total \in Nat \ {0} : total = Total(w)
  BY TotalIsPositive
<1>7. h <= b
  BY <1>1, <1>2, <1>4, <1>5, HeavierPrecede
<1>8. w[t] = 0 => total <= b
  BY <1>1, <1>2, <1>5, <1>6, AllPrecedeNothing
<1>9. CASE opts.greedy
  <2> DEFINE best == {s \in Tokens : \A r \in Tokens : w[s] >= w[r]}
  <2>1. PICK s \in Tokens : \A r \in Tokens : w[r] <= w[s]
    BY <1>1, HeaviestExists
  <2>2. s \in best
    BY <1>1, <2>1
  <2>3. best \subseteq Nat /\ best # {}
    BY <1>1, <2>2
  <2>4. t = Min(best)
    BY <1>9 DEF Sampled
  <2>5. t \in best
    <3> HIDE DEF best
    <3> QED
      BY <2>3, <2>4, LeastIsMin
  <2>6. \A r \in Tokens : w[r] \in Nat /\ w[t] >= w[r]
    BY <1>1, <2>5
  <2>7. Heavier(w, t) = {}
    BY <1>2, <2>6 DEF Heavier
  <2>8. h = 0
    <3>1. Units(w, {}) = {}
      BY DEF Units
    <3> QED
      BY <1>4, <2>7, <3>1, FS_EmptySet DEF Mass, Units
  <2>9. w[t] > 0
    <3>1. PICK r \in Tokens : w[r] > 0
      BY DEF GenParameters
    <3>2. w[t] \in Nat /\ w[r] \in Nat /\ w[t] >= w[r]
      BY <1>2, <2>6
    <3> QED
      BY <3>1, <3>2
  <2>10. 10 * h <= p * total
    BY <2>8
  <2> QED
    BY <1>3, <1>4, <1>6, <2>8, <2>9, <2>10 DEF Likely
<1>10. ASSUME ~opts.greedy, w[t] > 0, 10 * b <= p * total
       PROVE  Likely(w, t)
  <2>1. 10 * h <= p * total
    <3>1. 10 * h <= 10 * b
      BY <1>7
    <3>2. 10 * h \in Int /\ 10 * b \in Int /\ p * total \in Int
      OBVIOUS
    <3> QED
      BY <1>10, <3>1, <3>2
  <2> QED
    BY <1>3, <1>4, <1>6, <1>10, <2>1 DEF Likely
<1>11. CASE ~opts.greedy /\ engine = Python
  <2>1. w[t] > 0 /\ (p < 10 => t \in Nucleus(w))
    BY <1>3, <1>11 DEF Sampled
  <2>2. CASE p < 10
    <3>1. 10 * MassBefore(w, t) <= opts.topP * Total(w)
      <4>1. Nucleus(w) = {s \in Tokens : 10 * MassBefore(w, s) <= opts.topP * Total(w)}
        BY <1>11 DEF Nucleus, Python, C
      <4> QED
        BY <2>1, <2>2, <4>1
    <3>2. 10 * b <= p * total
      BY <1>3, <1>5, <1>6, <3>1
    <3> QED
      BY <1>10, <1>11, <2>1, <3>2
  <2>3. CASE p = 10
    <3>1. Mass(w, Heavier(w, t)) <= Total(w)
      <4>1. Heavier(w, t) \in SUBSET Tokens /\ Tokens \in SUBSET Tokens
        BY DEF Heavier
      <4> QED
        BY <1>1, <4>1, MassGrows DEF Total
    <3>2. h <= total
      BY <1>4, <1>6, <3>1
    <3>3. 10 * h <= p * total
      BY <2>3, <3>2
    <3> QED
      BY <1>3, <1>4, <1>6, <1>11, <2>1, <3>3 DEF Likely
  <2> QED
    BY <1>3, <2>2, <2>3
<1>12. CASE ~opts.greedy /\ engine # Python
  <2>1. engine = C /\ p < 10
    BY <1>3, <1>12 DEF Parameters, WithNucleus
  <2>2. t \in Nucleus(w)
    BY <1>3, <1>12, <2>1 DEF Sampled, Walk
  <2> DEFINE within == {s \in Tokens : 10 * MassTo(w, s) <= opts.topP * Total(w)}
  <2>3. CASE within # {}
    <3>1. 10 * MassTo(w, t) <= opts.topP * Total(w)
      BY <1>12, <2>2, <2>3 DEF Nucleus
    <3>2. 10 * (b + w[t]) <= p * total
      BY <1>3, <1>5, <1>6, <3>1 DEF MassTo
    <3>3. 10 * b <= p * total
      <4>1. PICK v \in Nat : v = w[t]
        BY <1>2
      <4>2. 10 * (b + v) = 10 * b + 10 * v /\ 10 * v >= 0
        OBVIOUS
      <4>3. PICK q \in Int : q = p * total
        OBVIOUS
      <4> QED
        BY <3>2, <4>1, <4>2, <4>3
    <3>4. w[t] > 0
      <4> SUFFICES ASSUME w[t] = 0
                   PROVE  FALSE
        BY <1>2
      <4>1. total <= b
        BY <1>8
      <4>2. p * total < 10 * total
        BY <2>1
      <4>3. 10 * total <= 10 * b
        BY <4>1
      <4>4. PICK q \in Int : q = p * total
        OBVIOUS
      <4> QED
        BY <3>3, <4>2, <4>3, <4>4
    <3> QED
      BY <1>10, <1>12, <3>3, <3>4
  <2>4. CASE within = {}
    <3>1. MassBefore(w, t) = 0 /\ w[t] > 0
      BY <2>1, <2>2, <2>4 DEF Nucleus
    <3>2. 10 * b <= p * total
      <4>1. b = 0
        BY <1>5, <3>1
      <4>2. p * total >= 0
        OBVIOUS
      <4> QED
        BY <4>1, <4>2
    <3> QED
      BY <1>10, <1>12, <3>1, <3>2
  <2> QED
    BY <2>3, <2>4
<1> QED
  BY <1>1, <1>9, <1>11, <1>12

-----------------------------------------------------------------------------
(* The loop *)

LEMMA InitLoopInv == ASSUME Parameters, GenParameters, GenInit PROVE LoopInv
<1>1. DecInv
  BY InitDecInv DEF GenInit
<1>2. /\ opts \in Options /\ opts.engine = engine /\ prompt \in PromptsFed
      /\ generated = <<>> /\ cells = <<>> /\ genTokens = 0 /\ run = 1 /\ printed = <<>>
      /\ phase = "reset"
  BY DEF GenInit
<1>3. Len(generated) = 0 /\ generated \in Seq(Tokens)
  BY <1>2
<1>4. CellsInv
  BY <1>2, <1>3 DEF CellsInv
<1>5. PrintInv
  BY <1>2 DEF PrintInv, PrintsTheAnswer, Answered
<1> QED
  BY <1>1, <1>2, <1>3, <1>4, <1>5 DEF LoopInv, FedInv, StopInv, CountInv

LEMMA StartRunKeeps == ASSUME Parameters, GenParameters, LoopInv, StartRun PROVE LoopInv'
<1>1. /\ phase = "reset" /\ phase' = "prefill" /\ generated' = <<>>
      /\ UNCHANGED <<opts, prompt, logits, cells, genTokens, run, printed>>
  BY DEF StartRun
<1>2. DecInv' /\ history' = <<>> /\ engine' = engine
  BY ResetKeeps DEF StartRun, LoopInv, Reset
<1>3. Len(generated') = 0 /\ generated' \in Seq(Tokens)
  BY <1>1
<1>4. CountInv'
  BY <1>1, <1>3 DEF LoopInv, CountInv
<1>5. FedInv' /\ StopInv'
  BY <1>1, <1>2, <1>3 DEF FedInv, StopInv
<1>6. CellsInv'
  <2>1. Len(cells) \in Nat
    BY DEF LoopInv, CellsInv
  <2> QED
    BY <1>1, <1>3, <2>1 DEF LoopInv, CellsInv
<1>7. PrintInv'
  <2>1. ASSUME engine = Python, opts.command = "generate"
        PROVE  printed = <<>>
    <3>1. opts.runs = 1
      BY <2>1 DEF LoopInv, GenParameters
    <3>2. Len(generated) = 0
      BY <1>1, <3>1 DEF LoopInv, CountInv
    <3>3. generated = <<>>
      BY <3>2 DEF LoopInv
    <3> QED
      BY <2>1, <3>3 DEF LoopInv, PrintInv
  <2> QED
    BY <1>1, <1>2, <2>1 DEF PrintInv, PrintsTheAnswer, Answered
<1> QED
  BY <1>1, <1>2, <1>3, <1>4, <1>5, <1>6, <1>7 DEF LoopInv

LEMMA PrefillKeeps == ASSUME Parameters, GenParameters, Within, LoopInv, Prefill PROVE LoopInv'
<1>1. /\ phase = "prefill" /\ phase' \in {"sample", "failed"}
      /\ UNCHANGED <<opts, prompt, logits, generated, cells, genTokens, run, printed>>
  BY DEF Prefill
<1>2. prompt \in Seq(Tokens) /\ Len(prompt) \in MinPrefill..MaxPrefill
  BY DEF LoopInv, GenParameters
<1>3. Usual(prompt, FALSE)
  <2>1. prompt # <<>>
    BY <1>2 DEF Parameters
  <2> QED
    BY <1>2, <2>1 DEF Usual, Allowed
<1>4. DecInv' /\ engine' = engine
  <2>1. CASE Forward(prompt, FALSE)
    BY <1>3, <2>1, ForwardKeeps DEF LoopInv, Forward
  <2>2. CASE ForwardFails(prompt, FALSE)
    BY <2>2, ForwardFailsKeeps DEF LoopInv, ForwardFails
  <2> QED
    BY <2>1, <2>2 DEF Prefill
<1>5. generated = <<>> /\ history = <<>> /\ Len(generated) = 0
  BY <1>1 DEF LoopInv, FedInv
<1>6. FedInv'
  <2>1. phase' = "sample" => history' = <<>> \o prompt
    BY <1>5 DEF Prefill, Forward
  <2>2. <<>> \o prompt = prompt /\ prompt \o <<>> = prompt
    BY <1>2
  <2> QED
    BY <1>1, <1>5, <2>1, <2>2 DEF FedInv
<1>7. StopInv' /\ CountInv'
  BY <1>1, <1>5 DEF LoopInv, StopInv, CountInv
<1>8. CellsInv'
  BY <1>1 DEF LoopInv, CellsInv
<1>9. PrintInv'
  BY <1>1, <1>4 DEF LoopInv, PrintInv, PrintsTheAnswer, Answered
<1> QED
  BY <1>1, <1>4, <1>6, <1>7, <1>8, <1>9 DEF LoopInv

\* Writing a token keeps generated[] what CellsInv says.
LEMMA KeepCells ==
  ASSUME NEW n \in Nat, NEW token \in Tokens, Keep(token), CellsInv,
         n = Len(generated), genTokens \in Nat,
         Len(generated') = n + 1, generated'[n + 1] = token,
         \A k \in 1..n : generated'[k] = generated[k]
  PROVE  CellsInv'
<1>1. PICK m \in Nat : m = Len(cells)
  BY LenProperties DEF CellsInv
<1>2. /\ cells \in Seq(Tokens) /\ n <= m /\ m <= genTokens
      /\ \A i \in 1..n : cells[i] = generated[i]
  BY <1>1 DEF CellsInv
<1>3. genTokens' = genTokens + 1
  BY DEF Keep
<1>4. CASE n < m
  <2>1. cells' = [cells EXCEPT ![n + 1] = token]
    BY <1>1, <1>4 DEF Keep
  <2>2. n + 1 \in 1..m /\ cells \in [1..m -> Tokens]
    BY <1>1, <1>2, <1>4
  <2>3. cells' \in [1..m -> Tokens]
    BY <2>1, <2>2
  <2>4. cells' \in Seq(Tokens) /\ Len(cells') = m
    BY <2>3, FunIsSeq
  <2>5. \A i \in 1..(n + 1) : cells'[i] = IF i = n + 1 THEN token ELSE cells[i]
    BY <1>4, <2>1, <2>2
  <2> QED
    BY <1>2, <1>3, <1>4, <2>4, <2>5 DEF CellsInv
<1>5. CASE n = m
  <2>1. cells' = Append(cells, token)
    BY <1>1, <1>5 DEF Keep
  <2>2. /\ cells' \in Seq(Tokens) /\ Len(cells') = m + 1 /\ cells'[m + 1] = token
        /\ \A i \in 1..m : cells'[i] = cells[i]
    BY <1>1, <1>2, <2>1, AppendProperties
  <2> QED
    BY <1>2, <1>3, <1>5, <2>2 DEF CellsInv
<1> QED
  BY <1>2, <1>4, <1>5

LEMMA SampleKeeps == ASSUME Parameters, GenParameters, LoopInv, Sample PROVE LoopInv'
<1>1. phase = "sample" /\ UNCHANGED <<vars, opts, prompt, run>>
  BY DEF Sample
<1>2. PICK w \in Weights, u \in 1..(Draws - 1) :
        \E token \in Sampled(w, u) :
          /\ logits' = w
          /\ Keep(token)
          /\ phase' = IF token \in opts.stops \/ Len(generated) + 1 = MaxTokens
                      THEN "end" ELSE "decode"
  BY DEF Sample
<1> PICK token \in Sampled(w, u) :
      /\ Keep(token)
      /\ phase' = IF token \in opts.stops \/ Len(generated) + 1 = MaxTokens
                  THEN "end" ELSE "decode"
  BY <1>2
<1>3. token \in Tokens
  BY SampledAreTokens
<1>0. PICK n \in Nat : n = Len(generated)
  BY LenProperties DEF LoopInv
<1>4. generated \in Seq(Tokens) /\ history = prompt \o generated
  BY <1>0, <1>1 DEF LoopInv, FedInv
<1>5. /\ generated' \in Seq(Tokens) /\ Len(generated') = n + 1 /\ generated' # <<>>
      /\ generated'[n + 1] = token /\ \A k \in 1..n : generated'[k] = generated[k]
  <2>1. generated' = Append(generated, token)
    BY DEF Keep
  <2> QED
    BY <1>0, <1>3, <1>4, <2>1, AppendProperties
<1>6. SubSeq(generated', 1, (n + 1) - 1) = generated
  <2>1. Len(generated) = n - 1 + 1 /\ \A k \in 1..Len(generated) : generated'[1 + k - 1] = generated[k]
    BY <1>0, <1>5
  <2>2. SubSeq(generated', 1, n) = generated
    BY <1>0, <1>4, <2>1, Cut
  <2> QED
    BY <1>0, <2>2
<1>7. FedInv'
  BY <1>0, <1>1, <1>4, <1>5, <1>6 DEF FedInv, vars
<1>8. StopInv'
  <2>1. \A k \in 1..n : generated[k] \notin opts.stops
    BY <1>0, <1>1 DEF LoopInv, StopInv
  <2>2. phase' = "decode" => token \notin opts.stops
    BY <1>0, <1>2
  <2>3. phase' # "sample"
    BY <1>0, <1>2
  <2> QED
    BY <1>0, <1>1, <1>5, <2>1, <2>2, <2>3 DEF StopInv
<1>9. CountInv'
  <2>1. genTokens' = genTokens + 1 /\ phase' \in {"end", "decode"}
    BY DEF Keep
  <2> QED
    BY <1>0, <1>1, <1>5, <2>1 DEF LoopInv, CountInv
<1>11. CellsInv'
  BY <1>0, <1>3, <1>5, KeepCells DEF LoopInv, CountInv
<1>12. PrintInv'
  <2>1. phase' # "printed" /\ engine' = engine /\ opts' = opts
    BY <1>1 DEF vars
  <2>2. engine = Python /\ opts.command = "generate" => printed' = generated'
    BY DEF Keep, LoopInv, PrintInv
  <2> QED
    BY <2>1, <2>2 DEF PrintInv, PrintsTheAnswer, Answered
<1>10. DecInv'
  BY <1>0, <1>1, StutterKeeps DEF LoopInv
<1> QED
  BY <1>0, <1>1, <1>2, <1>5, <1>7, <1>8, <1>9, <1>10, <1>11, <1>12 DEF LoopInv, vars

LEMMA DecodeKeeps == ASSUME Parameters, GenParameters, Within, LoopInv, Decode PROVE LoopInv'
<1>1. /\ phase = "decode" /\ phase' \in {"sample", "failed"}
      /\ UNCHANGED <<opts, prompt, generated, cells, genTokens, run, printed>>
  BY DEF Decode
<1>0. PICK n \in Nat : n = Len(generated)
  BY LenProperties DEF LoopInv
<1> DEFINE last == <<generated[n]>>
           front == SubSeq(generated, 1, n - 1)
<1>2. /\ generated \in Seq(Tokens) /\ generated # <<>> /\ history = prompt \o front
      /\ \A k \in 1..n : generated[k] \notin opts.stops
  BY <1>0, <1>1 DEF LoopInv, FedInv, StopInv
<1>3. n >= 1 /\ generated[n] \in Tokens
  BY <1>0, <1>2
<1>4. Usual(last, TRUE)
  BY <1>0, <1>3 DEF Usual
<1>5. DecInv' /\ engine' = engine
  <2>1. CASE Forward(last, TRUE)
    BY <1>0, <1>4, <2>1, ForwardKeeps DEF LoopInv, Forward
  <2>2. CASE ForwardFails(last, TRUE)
    BY <1>0, <2>2, ForwardFailsKeeps DEF LoopInv, ForwardFails
  <2> QED
    BY <1>0, <2>1, <2>2 DEF Decode
<1>6. /\ front \in Seq(Tokens) /\ Len(front) = n - 1
      /\ \A k \in 1..(n - 1) : front[k] = generated[k]
  BY <1>0, <1>2, <1>3
<1>7. last \in Seq(Tokens) /\ Len(last) = 1 /\ last[1] = generated[n]
  BY <1>0, <1>3
<1>8. phase' = "sample" => history' = history \o last
  BY <1>0 DEF Decode, Forward
<1>9. front \o last = generated
  <2> HIDE DEF front, last
  <2>1. /\ Len(generated) = Len(front) + Len(last)
        /\ \A k \in 1..Len(front) : front[k] = generated[k]
        /\ \A k \in 1..Len(last) : last[k] = generated[Len(front) + k]
    BY <1>0, <1>3, <1>6, <1>7
  <2> QED
    BY <1>0, <1>2, <1>6, <1>7, <2>1, Joined
<1>10. (prompt \o front) \o last = prompt \o (front \o last)
  <2>1. prompt \in Seq(Tokens)
    BY <1>0 DEF LoopInv, GenParameters
  <2> HIDE DEF front, last
  <2> QED
    BY <1>0, <1>6, <1>7, <2>1, ConcatAssociative
<1>11. FedInv'
  <2> HIDE DEF front, last
  <2> QED
    BY <1>0, <1>1, <1>2, <1>8, <1>9, <1>10 DEF FedInv
<1>12. StopInv' /\ CountInv'
  BY <1>0, <1>1, <1>2 DEF LoopInv, StopInv, CountInv
<1>13. CellsInv'
  BY <1>1 DEF LoopInv, CellsInv
<1>14. PrintInv'
  BY <1>1, <1>5 DEF LoopInv, PrintInv, PrintsTheAnswer, Answered
<1> QED
  BY <1>0, <1>1, <1>5, <1>11, <1>12, <1>13, <1>14 DEF LoopInv

LEMMA NextRunKeeps == ASSUME GenParameters, LoopInv, NextRun PROVE LoopInv'
<1>1. /\ phase = "end" /\ run < opts.runs /\ run' = run + 1 /\ phase' = "reset"
      /\ UNCHANGED <<vars, opts, prompt, logits, generated, cells, genTokens, printed>>
  BY DEF NextRun
<1>2. opts.runs # 1 /\ run \in Nat \ {0}
  BY <1>1 DEF LoopInv, CountInv
<1>3. CountInv'
  BY <1>1, <1>2 DEF LoopInv, CountInv
<1>4. DecInv' /\ engine' = engine
  BY <1>1, StutterKeeps DEF LoopInv, vars
<1>5. FedInv' /\ StopInv' /\ CellsInv'
  BY <1>1 DEF LoopInv, FedInv, StopInv, CellsInv
<1>6. PrintInv'
  BY <1>1, <1>4 DEF LoopInv, PrintInv, PrintsTheAnswer, Answered
<1> QED
  BY <1>1, <1>3, <1>4, <1>5, <1>6 DEF LoopInv

\* An array of total entries begins with the n tokens of a run.
BeginsWithRun(array, S, n, total) ==
  /\ n \in Nat \ {0} /\ total \in Nat /\ n <= total
  /\ array \in Seq(S) /\ Len(array) = total
  /\ generated \in Seq(Tokens) /\ Len(generated) = n
  /\ \A k \in 1..n : array[k] = generated[k]
  /\ \A k \in 1..(n - 1) : generated[k] \notin opts.stops

\* What main.c prints of such an array: all of the answer, and no more if the
\* array has no more entries.
LEMMA PrintsAnswer ==
  ASSUME NEW array, NEW S, NEW n, NEW total, BeginsWithRun(array, S, n, total)
  PROVE  /\ Len(Answer) <= Len(WithoutStops(array))
         /\ \A k \in DOMAIN Answer : WithoutStops(array)[k] = Answer[k]
         /\ total = n => WithoutStops(array) = Answer
<1> USE DEF BeginsWithRun
<1> DEFINE kept == {0} \cup {k \in 1..Len(array) : array[k] \notin opts.stops}
           stopped == opts.chat /\ generated[n] \in opts.stops
           l == IF stopped THEN n - 1 ELSE n
<1>1. /\ Answer \in Seq(Tokens) /\ Len(Answer) = l /\ l \in 0..n
      /\ \A k \in 1..l : Answer[k] = generated[k]
  <2>1. generated # <<>>
    OBVIOUS
  <2>2. CASE stopped
    <3>1. Answer = SubSeq(generated, 1, n - 1) /\ l = n - 1
      BY <2>1, <2>2 DEF Answer
    <3> QED
      BY <3>1
  <2>3. CASE ~stopped
    BY <2>1, <2>3 DEF Answer
  <2> HIDE DEF stopped
  <2> QED
    BY <2>2, <2>3
<1>2. PICK top \in 0..total : /\ WithoutStops(array) = SubSeq(array, 1, top)
                             /\ l <= top /\ (total = n => top = l)
  <2>1. CASE ~opts.chat
    <3>1. WithoutStops(array) = array /\ l = n
      BY <2>1 DEF WithoutStops
    <3>2. SubSeq(array, 1, total) = array
      BY Cut
    <3> QED
      BY <3>1, <3>2
  <2>2. CASE opts.chat
    <3>1. WithoutStops(array) = SubSeq(array, 1, Max(kept))
      BY <2>2 DEF WithoutStops
    <3>2. kept \subseteq 0..total /\ kept # {}
      OBVIOUS
    <3>3. Max(kept) \in kept /\ \A x \in kept : x <= Max(kept)
      <4> HIDE DEF kept
      <4> QED
        BY <3>2, MaxIsGreatest
    <3>4. l \in kept
      <4>1. CASE stopped
        BY <4>1
      <4>2. CASE ~stopped
        BY <2>2, <4>2
      <4> QED
        BY <4>1, <4>2
    <3>5. ASSUME total = n, stopped
          PROVE  n \notin kept
      BY <3>5
    <3>6. PICK top \in 0..total : top = Max(kept) /\ top \in kept /\ \A x \in kept : x <= top
      <4> HIDE DEF kept
      <4> QED
        BY <3>2, <3>3
    <3>7. total = n => top = l
      <4> HIDE DEF kept
      <4>1. CASE stopped
        BY <3>4, <3>5, <3>6, <4>1
      <4>2. CASE ~stopped
        BY <3>4, <3>6, <4>2
      <4> QED
        BY <4>1, <4>2
    <3> QED
      <4> HIDE DEF kept, l
      <4> QED
        BY <3>1, <3>4, <3>6, <3>7
  <2> QED
    BY <2>1, <2>2
<1> HIDE DEF kept, stopped, l
<1>3. /\ WithoutStops(array) \in Seq(S) /\ Len(WithoutStops(array)) = top
      /\ \A k \in 1..top : WithoutStops(array)[k] = array[k]
  BY <1>2
<1>4. \A k \in 1..l : WithoutStops(array)[k] = Answer[k]
  BY <1>1, <1>2, <1>3
<1>5. ASSUME total = n
      PROVE  WithoutStops(array) = Answer
  <2>1. top = l
    BY <1>2, <1>5
  <2>2. Answer \in Seq(S \cup Tokens) /\ WithoutStops(array) \in Seq(S \cup Tokens)
    BY <1>1, <1>3
  <2> QED
    BY <1>1, <1>3, <1>4, <2>1, <2>2, SeqEqual
<1> QED
  BY <1>1, <1>2, <1>3, <1>4, <1>5

LEMMA PrintTokensKeeps ==
  ASSUME Parameters, GenParameters, LoopInv, PrintTokens
  PROVE  LoopInv'
<1>1. /\ phase = "end" /\ phase' = "printed" /\ run = opts.runs
      /\ UNCHANGED <<vars, opts, prompt, logits, generated, cells, genTokens, run>>
  BY DEF PrintTokens
<1>0. PICK n \in Nat : n = Len(generated)
  BY LenProperties DEF LoopInv
<1>2. /\ generated \in Seq(Tokens) /\ generated # <<>>
      /\ \A k \in 1..(n - 1) : generated[k] \notin opts.stops
  BY <1>0, <1>1 DEF LoopInv, FedInv, StopInv
<1>3. n \in Nat \ {0}
  BY <1>0, <1>2
<1>4. PrintInv'
  <2>1. UNCHANGED <<engine, opts, generated, Answer>>
    BY <1>1 DEF vars, Answer
  <2>2. CASE engine = C /\ opts.command = "generate"
    <3>1. PICK m \in Nat : m = Len(cells)
      BY LenProperties DEF LoopInv, CellsInv
    <3>2. PICK total \in Nat : total = genTokens
      BY DEF LoopInv, CountInv
    <3>3. /\ cells \in Seq(Tokens) /\ n <= m /\ m <= total
          /\ \A k \in 1..n : cells[k] = generated[k]
      BY <1>0, <3>1, <3>2 DEF LoopInv, CellsInv
    <3>4. PICK beyond \in [1..(total - m) -> Tokens \cup {NoToken}] :
            printed' = WithoutStops(cells \o beyond)
      BY <2>2, <3>1, <3>2 DEF PrintTokens
    <3> DEFINE array == cells \o beyond
    <3>5. /\ array \in Seq(Tokens \cup {NoToken}) /\ Len(array) = total
          /\ \A k \in 1..n : array[k] = generated[k]
      <4>1. total - m \in Nat
        BY <3>3
      <4>2. beyond \in Seq(Tokens \cup {NoToken}) /\ Len(beyond) = total - m
        BY <4>1, FunIsSeq
      <4>3. cells \in Seq(Tokens \cup {NoToken})
        BY <3>3
      <4>4. /\ array \in Seq(Tokens \cup {NoToken}) /\ Len(array) = m + (total - m)
            /\ \A k \in 1..m : array[k] = cells[k]
        BY <3>1, <4>2, <4>3, ConcatProperties
      <4> HIDE DEF array
      <4> QED
        BY <3>3, <4>4
    <3>6. printed' = WithoutStops(array)
      BY <3>4
    <3> HIDE DEF array
    <3>7. /\ Len(Answer) <= Len(printed')
          /\ \A k \in DOMAIN Answer : printed'[k] = Answer[k]
          /\ total = n => printed' = Answer
      <4>1. BeginsWithRun(array, Tokens \cup {NoToken}, n, total)
        BY <1>0, <1>2, <1>3, <3>3, <3>5 DEF BeginsWithRun
      <4> QED
        BY <3>6, <4>1, PrintsAnswer
    <3>8. opts.runs = 1 => total = n
      BY <1>0, <3>2 DEF LoopInv, CountInv
    <3> QED
      BY <2>1, <2>2, <3>7, <3>8 DEF PrintInv, PrintsTheAnswer, C, Python
  <2>3. CASE engine = Python /\ opts.command = "generate"
    <3>1. printed' = generated
      BY <2>3 DEF PrintTokens, LoopInv, PrintInv, C, Python
    <3>2. ~opts.chat
      BY <2>3 DEF LoopInv, GenParameters, C, Python
    <3>3. Answer = generated
      BY <3>2 DEF Answer
    <3> QED
      BY <1>0, <2>1, <3>1, <3>3 DEF PrintInv, PrintsTheAnswer
  <2>4. CASE opts.command # "generate"
    BY <2>1, <2>4 DEF PrintInv, PrintsTheAnswer, Answered
  <2>5. engine \in {C, Python}
    BY DEF LoopInv, DecInv, Parameters
  <2> QED
    BY <2>2, <2>3, <2>4, <2>5
<1>5. DecInv' /\ engine' = engine
  BY <1>0, <1>1, StutterKeeps DEF LoopInv, vars
<1>6. FedInv' /\ StopInv' /\ CountInv'
  BY <1>0, <1>1 DEF LoopInv, FedInv, StopInv, CountInv, vars
<1>7. CellsInv'
  BY <1>1 DEF LoopInv, CellsInv
<1> QED
  BY <1>0, <1>1, <1>4, <1>5, <1>6, <1>7 DEF LoopInv

LEMMA NextLoopInv ==
  ASSUME Parameters, GenParameters, Within, LoopInv, [GenNext]_gvars
  PROVE  LoopInv'
<1>1. CASE UNCHANGED gvars
  <2>1. UNCHANGED vars /\ UNCHANGED loop
    BY <1>1 DEF gvars
  <2>2. DecInv' /\ engine' = engine
    BY <2>1, StutterKeeps DEF LoopInv, vars
  <2>3. FedInv' /\ StopInv' /\ CountInv' /\ CellsInv'
    BY <2>1 DEF loop, LoopInv, FedInv, StopInv, CountInv, CellsInv, vars
  <2>4. PrintInv'
    BY <2>1 DEF loop, vars, LoopInv, PrintInv, PrintsTheAnswer, Answered, Answer
  <2> QED
    BY <2>1, <2>2, <2>3, <2>4 DEF LoopInv, loop
<1> QED
  BY <1>1, StartRunKeeps, PrefillKeeps, SampleKeeps, DecodeKeeps, NextRunKeeps,
     PrintTokensKeeps DEF GenNext

\* What SamplesLikely needs: the options are those of the engine.
SampleInv == /\ engine \in Engines /\ opts \in Options /\ opts.engine = engine
             /\ generated \in Seq(Tokens)
             /\ SamplesLikely

LEMMA NextSampleInv ==
  ASSUME Parameters, GenParameters, WithNucleus, SampleInv, [GenNext]_gvars
  PROVE  SampleInv'
<1>1. UNCHANGED <<engine, opts>> /\ generated' \in Seq(Tokens)
  <2>1. CASE UNCHANGED gvars
    BY <2>1 DEF gvars, vars, loop, SampleInv
  <2>2. CASE StartRun
    BY <2>2 DEF StartRun, Reset
  <2>3. CASE Prefill
    BY <2>3 DEF Prefill, Forward, ForwardFails, SampleInv
  <2>4. CASE Sample
    <3>1. PICK w \in Weights, u \in 1..(Draws - 1) :
            \E token \in Sampled(w, u) : generated' = Append(generated, token)
      BY <2>4 DEF Sample, Keep
    <3> QED
      BY <2>4, <3>1, SampledAreTokens, AppendProperties DEF Sample, SampleInv, vars
  <2>5. CASE Decode
    BY <2>5 DEF Decode, Forward, ForwardFails, SampleInv
  <2>6. CASE NextRun \/ PrintTokens
    BY <2>6 DEF NextRun, PrintTokens, SampleInv, vars
  <2> QED
    BY <2>1, <2>2, <2>3, <2>4, <2>5, <2>6 DEF GenNext
<1>2. SamplesLikely'
  <2>1. CASE UNCHANGED gvars
    BY <2>1 DEF gvars, vars, loop, SampleInv, SamplesLikely, Total, Mass
  <2>2. CASE Sample
    <3>1. PICK w \in Weights, u \in 1..(Draws - 1) :
            \E token \in Sampled(w, u) : logits' = w /\ generated' = Append(generated, token)
      BY <2>2 DEF Sample, Keep
    <3>2. PICK token \in Sampled(w, u) : logits' = w /\ generated' = Append(generated, token)
      BY <3>1
    <3>3. Likely(w, token)
      BY SampledAreLikely DEF SampleInv
    <3>4. generated'[Len(generated')] = token
      BY <3>2, SampledAreTokens, AppendProperties DEF SampleInv
    <3>5. opts' = opts
      BY <1>1
    <3> QED
      BY <3>2, <3>3, <3>4, <3>5 DEF SamplesLikely, Likely, Heavier, Total, Mass
  <2>3. CASE StartRun \/ Prefill \/ Decode \/ NextRun \/ PrintTokens
    <3>1. phase' \notin {"decode", "end"}
      BY <2>3 DEF StartRun, Prefill, Decode, NextRun, PrintTokens
    <3> QED
      BY <3>1 DEF SamplesLikely
  <2> QED
    BY <2>1, <2>2, <2>3 DEF GenNext
<1> QED
  BY <1>1, <1>2 DEF SampleInv

-----------------------------------------------------------------------------
(* Theorems about the loop *)

\* The loop keeps the decoder's invariant and feeds it what it generated, for
\* any tokens, prompts, weights, draws, options and stops.
THEOREM LoopInvariant ==
  ASSUME Parameters, GenParameters, Within
  PROVE  GenSpec => []LoopInv
<1>1. GenInit => LoopInv
  BY InitLoopInv
<1>2. LoopInv /\ [GenNext]_gvars => LoopInv'
  BY NextLoopInv
<1> QED
  BY <1>1, <1>2, PTL DEF GenSpec

LEMMA LoopInvFeeds == ASSUME LoopInv PROVE FedWhatWasGenerated
BY DEF LoopInv, FedInv, StopInv, FedWhatWasGenerated

\* main.c:325 and generation.py:138: the decoder is fed the prompt and what was
\* generated but its last token.
THEOREM FeedsWhatItGenerates ==
  ASSUME Parameters, GenParameters, Within
  PROVE  GenSpec => []FedWhatWasGenerated
<1>1. LoopInv => FedWhatWasGenerated
  BY LoopInvFeeds
<1> QED
  BY <1>1, LoopInvariant, PTL

LEMMA LoopInvPrints == ASSUME LoopInv PROVE PrintsTheAnswer
BY DEF LoopInv, PrintInv

\* main.c:361 and cli.py:157, for any options: what generate prints begins with
\* what the last run generated, in a chat without its stop, and after one run
\* that is all.
THEOREM PrintsWhatItGenerates ==
  ASSUME Parameters, GenParameters, Within
  PROVE  GenSpec => []PrintsTheAnswer
<1>1. LoopInv => PrintsTheAnswer
  BY LoopInvPrints
<1> QED
  BY <1>1, LoopInvariant, PTL

\* In the loop the decoder computes what a prefill of everything would.
THEOREM LoopDecodesAsPrefill ==
  ASSUME Parameters, GenParameters, Within
  PROVE  GenSpec => []DecodeMatchesPrefill
<1>1. LoopInv => DecodeMatchesPrefill
  BY DEF LoopInv, DecInv
<1> QED
  BY <1>1, LoopInvariant, PTL

LEMMA InitSampleInv == ASSUME GenInit PROVE SampleInv
BY DEF GenInit, Init, SampleInv, SamplesLikely

\* The options stay those of the engine, and the tokens sampled likely.
THEOREM SampleInvariant ==
  ASSUME Parameters, GenParameters, WithNucleus
  PROVE  GenSpec => []SampleInv
<1>1. GenInit => SampleInv
  BY InitSampleInv
<1>2. SampleInv /\ [GenNext]_gvars => SampleInv'
  BY NextSampleInv
<1> QED
  BY <1>1, <1>2, PTL DEF GenSpec

\* main.c:143 and generation.py:86 for any weights, draws and top_p: a sampled
\* token has positive weight and the likelier ones no more than top_p.
THEOREM SamplesAreLikely ==
  ASSUME Parameters, GenParameters, WithNucleus
  PROVE  GenSpec => []SamplesLikely
<1>1. SampleInv => SamplesLikely
  BY DEF SampleInv
<1> QED
  BY <1>1, SampleInvariant, PTL
=============================================================================
