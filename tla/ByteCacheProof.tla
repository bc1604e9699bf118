--------------------------- MODULE ByteCacheProof ---------------------------
(***************************************************************************)
(* Proofs about ByteCache for any caches, keys, sizes, budget and          *)
(* partitions.                                                             *)
(***************************************************************************)
EXTENDS ByteCache, FiniteSetTheorems, FunctionTheorems, SequenceTheorems,
        WellFoundedInduction, TLAPS

-----------------------------------------------------------------------------
(* Induction over the naturals, for sets *)

LEMMA Induction ==
  ASSUME NEW S, 0 \in S, \A n \in Nat : n \in S => n + 1 \in S
  PROVE  Nat \subseteq S
<1> DEFINE R == OpToRel(<, Nat)
           T == Nat \ S
<1>1. IsWellFoundedOn(R, Nat)
  BY NatLessThanWellFounded
<1>2. \A x, y \in Nat : x < y => <<x, y>> \in R
  BY DEF OpToRel
<1> HIDE DEF R
<1> SUFFICES ASSUME T # {}
             PROVE  FALSE
  OBVIOUS
<1>3. PICK m \in T : \A x \in T : ~ (<<x, m>> \in R)
  <2> HIDE DEF T
  <2>1. T \subseteq Nat
    BY DEF T
  <2> QED
    BY <1>1, <2>1, WFMin
<1>4. m \in Nat /\ m # 0
  OBVIOUS
<1>5. m - 1 \in Nat /\ m - 1 < m /\ (m - 1) + 1 = m
  BY <1>4
<1>6. m - 1 \in S
  BY <1>2, <1>3, <1>4, <1>5
<1> QED
  BY <1>5, <1>6

-----------------------------------------------------------------------------
(* Sums of sizes *)

BytesIn(k, size) == {k} \X (1..size[k])
BytesSet(S, size) == UNION {BytesIn(k, size) : k \in S}

LEMMA BytesOfOne ==
  ASSUME NEW size, NEW k, size[k] \in Nat
  PROVE  IsFiniteSet(BytesIn(k, size)) /\ Cardinality(BytesIn(k, size)) = size[k]
<1>1. IsFiniteSet({k}) /\ Cardinality({k}) = 1
  BY FS_Singleton
<1>2. PICK n : n = size[k]
  OBVIOUS
<1>3. IsFiniteSet(1..n) /\ Cardinality(1..n) = n
  <2>1. n \in Nat /\ n \in Int /\ 1 \in Int /\ n - 1 + 1 = n
    BY <1>2
  <2>2. /\ IsFiniteSet(1..n)
        /\ Cardinality(1..n) = IF 1 > n THEN 0 ELSE n - 1 + 1
    BY ONLY <2>1, FS_Interval
  <2> QED
    BY ONLY <2>1, <2>2
<1>4. /\ IsFiniteSet({k} \X (1..n))
      /\ Cardinality({k} \X (1..n)) = Cardinality({k}) * Cardinality(1..n)
  BY <1>1, <1>3, FS_Product
<1>5. 1 * n = n
  BY <1>2
<1> QED
  BY <1>1, <1>2, <1>3, <1>4, <1>5 DEF BytesIn

LEMMA BytesFinite ==
  ASSUME NEW size, NEW S, IsFiniteSet(S), \A k \in S : size[k] \in Nat
  PROVE  IsFiniteSet(BytesSet(S, size)) /\ BytesOf(S, size) = Cardinality(BytesSet(S, size))
         /\ BytesOf(S, size) \in Nat
<1> DEFINE T == {BytesIn(k, size) : k \in S}
           f == [k \in S |-> BytesIn(k, size)]
<1>1. f \in Surjection(S, T)
  BY DEF Surjection
<1>2. IsFiniteSet(T)
  <2> HIDE DEF f, T
  <2> QED
    BY <1>1, FS_Surjection
<1>3. \A U \in T : IsFiniteSet(U)
  BY BytesOfOne
<1>4. IsFiniteSet(UNION T)
  <2> HIDE DEF T
  <2> QED
    BY <1>2, <1>3, FS_UNION
<1> QED
  BY <1>4, FS_CardinalityType DEF BytesSet, BytesOf, BytesIn

LEMMA BytesAdd ==
  ASSUME NEW size, NEW S, IsFiniteSet(S), NEW x, x \notin S,
         \A k \in S \cup {x} : size[k] \in Nat
  PROVE  BytesOf(S \cup {x}, size) = BytesOf(S, size) + size[x]
<1>1. BytesSet(S \cup {x}, size) = BytesSet(S, size) \cup BytesIn(x, size)
  BY DEF BytesSet
<1>2. BytesSet(S, size) \cap BytesIn(x, size) = {}
  BY DEF BytesSet, BytesIn
<1>3. IsFiniteSet(S \cup {x})
  BY FS_AddElement
<1>4. /\ IsFiniteSet(BytesSet(S, size)) /\ BytesOf(S, size) = Cardinality(BytesSet(S, size))
      /\ BytesOf(S, size) \in Nat
      /\ BytesOf(S \cup {x}, size) = Cardinality(BytesSet(S \cup {x}, size))
  BY <1>3, BytesFinite
<1>5. IsFiniteSet(BytesIn(x, size)) /\ Cardinality(BytesIn(x, size)) = size[x] /\ size[x] \in Nat
  BY BytesOfOne
<1>6. Cardinality(BytesSet(S, size) \cap BytesIn(x, size)) = 0
  BY <1>2, FS_EmptySet
<1>7. Cardinality(BytesSet(S, size) \cup BytesIn(x, size))
        = Cardinality(BytesSet(S, size)) + Cardinality(BytesIn(x, size))
          - Cardinality(BytesSet(S, size) \cap BytesIn(x, size))
  BY <1>4, <1>5, FS_Union
<1>8. PICK a, b : a = BytesOf(S, size) /\ b = size[x]
  OBVIOUS
<1>9. a + b - 0 = a + b
  BY <1>4, <1>5, <1>8
<1> QED
  BY <1>1, <1>4, <1>5, <1>6, <1>7, <1>8, <1>9

LEMMA BytesRemove ==
  ASSUME NEW size, NEW S, IsFiniteSet(S), NEW x \in S, \A k \in S : size[k] \in Nat
  PROVE  BytesOf(S \ {x}, size) = BytesOf(S, size) - size[x]
<1>1. IsFiniteSet(S \ {x}) /\ (S \ {x}) \cup {x} = S
  BY FS_RemoveElement
<1>2. BytesOf((S \ {x}) \cup {x}, size) = BytesOf(S \ {x}, size) + size[x]
  BY <1>1, BytesAdd
<1>3. BytesOf(S \ {x}, size) \in Nat /\ size[x] \in Nat
  BY <1>1, BytesFinite
<1> QED
  BY <1>1, <1>2, <1>3

LEMMA BytesSame ==
  ASSUME NEW S, NEW f, NEW g, \A k \in S : f[k] = g[k]
  PROVE  BytesOf(S, f) = BytesOf(S, g)
<1>1. {{k} \X (1..f[k]) : k \in S} = {{k} \X (1..g[k]) : k \in S}
  OBVIOUS
<1> QED
  BY <1>1 DEF BytesOf

LEMMA BytesOfNone == ASSUME NEW f PROVE BytesOf({}, f) = 0
<1>1. UNION {{k} \X (1..f[k]) : k \in {}} = {}
  OBVIOUS
<1> QED
  BY <1>1, FS_EmptySet DEF BytesOf

-----------------------------------------------------------------------------
(* Recency lists *)

\* A list of keys, each at most once.
IsList(l) == l \in Seq(Keys) /\ \A i, j \in DOMAIN l : l[i] = l[j] => i = j

LEMMA ListIsFinite ==
  ASSUME NEW l, IsList(l)
  PROVE  /\ Len(l) \in Nat /\ DOMAIN l = 1..Len(l) /\ ToSet(l) \subseteq Keys
         /\ IsFiniteSet(ToSet(l)) /\ Cardinality(ToSet(l)) = Len(l)
<1>1. Len(l) \in Nat /\ DOMAIN l = 1..Len(l) /\ ToSet(l) \subseteq Keys
  BY DEF IsList, ToSet
<1>2. l \in Bijection(1..Len(l), ToSet(l))
  BY <1>1 DEF IsList, ToSet, Bijection, Injection, Surjection, IsInjective
<1>3. IsFiniteSet(1..Len(l)) /\ Cardinality(1..Len(l)) = Len(l)
  <2>1. PICK n \in Nat : n = Len(l)
    BY <1>1
  <2>2. /\ IsFiniteSet(1..n)
        /\ Cardinality(1..n) = IF 1 > n THEN 0 ELSE n - 1 + 1
    BY FS_Interval
  <2>3. (IF 1 > n THEN 0 ELSE n - 1 + 1) = n
    OBVIOUS
  <2> QED
    BY <2>1, <2>2, <2>3
<1>4. ExistsBijection(1..Len(l), ToSet(l))
  BY <1>2 DEF ExistsBijection
<1> QED
  BY <1>1, <1>3, <1>4, FS_Bijection

LEMMA Unlink ==
  ASSUME NEW l, IsList(l), NEW i \in DOMAIN l, NEW r, r = RemoveAt(l, i)
  PROVE  IsList(r) /\ Len(r) = Len(l) - 1 /\ ToSet(r) = ToSet(l) \ {l[i]}
<1>1. l \in Seq(Keys) /\ Len(l) \in Nat /\ DOMAIN l = 1..Len(l) /\ i \in 1..Len(l)
  BY DEF IsList
<1>2. r = SubSeq(l, 1, i - 1) \o SubSeq(l, i + 1, Len(l))
  BY DEF RemoveAt
<1>3. /\ r \in Seq(Keys) /\ Len(r) = Len(l) - 1
      /\ \A j \in 1..(Len(l) - 1) : r[j] = IF j < i THEN l[j] ELSE l[j + 1]
  <2> DEFINE a == SubSeq(l, 1, i - 1)
             b == SubSeq(l, i + 1, Len(l))
  <2>1. a \in Seq(Keys) /\ Len(a) = i - 1 /\ \A j \in 1..(i - 1) : a[j] = l[j]
    BY <1>1
  <2>2. /\ b \in Seq(Keys) /\ Len(b) = Len(l) - i
        /\ \A j \in 1..(Len(l) - i) : b[j] = l[i + j]
    BY <1>1
  <2>3. r = a \o b
    BY <1>2
  <2> HIDE DEF a, b
  <2>4. /\ r \in Seq(Keys) /\ Len(r) = Len(a) + Len(b)
        /\ \A j \in 1..(Len(a) + Len(b)) :
             r[j] = IF j <= Len(a) THEN a[j] ELSE b[j - Len(a)]
    <3>1. /\ a \o b \in Seq(Keys) /\ Len(a \o b) = Len(a) + Len(b)
          /\ \A j \in 1..(Len(a) + Len(b)) :
               (a \o b)[j] = IF j <= Len(a) THEN a[j] ELSE b[j - Len(a)]
      BY <2>1, <2>2, ConcatProperties
    <3> QED
      BY <2>3, <3>1
  <2>5. Len(a) + Len(b) = Len(l) - 1
    BY <1>1, <2>1, <2>2
  <2>6. ASSUME NEW j \in 1..(Len(l) - 1)
        PROVE  r[j] = IF j < i THEN l[j] ELSE l[j + 1]
    <3>1. CASE j < i
      <4>1. j \in 1..(i - 1) /\ j <= Len(a)
        BY <1>1, <2>1, <3>1
      <4> QED
        BY <2>1, <2>4, <2>5, <3>1, <4>1
    <3>2. CASE ~ (j < i)
      <4>1. j - (i - 1) \in 1..(Len(l) - i) /\ i + (j - (i - 1)) = j + 1
            /\ ~ (j <= Len(a)) /\ j - Len(a) = j - (i - 1)
        BY <1>1, <2>1, <3>2
      <4>2. r[j] = b[j - (i - 1)]
        BY <2>4, <2>5, <4>1
      <4> QED
        BY <2>2, <3>2, <4>1, <4>2
    <3> QED
      BY <3>1, <3>2
  <2> QED
    BY <2>4, <2>5, <2>6
<1>4. DOMAIN r = 1..(Len(l) - 1)
  BY <1>1, <1>3
<1>5. IsList(r)
  <2> SUFFICES ASSUME NEW j \in 1..(Len(l) - 1), NEW n \in 1..(Len(l) - 1), r[j] = r[n]
               PROVE  j = n
    BY <1>3, <1>4 DEF IsList
  <2>1. PICK x, y : x = (IF j < i THEN j ELSE j + 1) /\ y = (IF n < i THEN n ELSE n + 1)
    OBVIOUS
  <2>2. x \in DOMAIN l /\ y \in DOMAIN l /\ r[j] = l[x] /\ r[n] = l[y]
    BY <1>1, <1>3, <2>1
  <2>3. x = y
    BY <2>2 DEF IsList
  <2> QED
    BY <1>1, <2>1, <2>3
<1>6. ASSUME NEW j \in 1..(Len(l) - 1)
      PROVE  r[j] \in ToSet(l) \ {l[i]}
  <2>1. PICK x : x = IF j < i THEN j ELSE j + 1
    OBVIOUS
  <2>2. x \in DOMAIN l /\ x # i /\ r[j] = l[x]
    BY <1>1, <1>3, <2>1
  <2>3. l[x] # l[i]
    BY <2>2 DEF IsList
  <2> QED
    BY <2>2, <2>3 DEF ToSet
<1>7. ASSUME NEW j \in DOMAIN l, j # i
      PROVE  \E n \in 1..(Len(l) - 1) : r[n] = l[j]
  <2>1. CASE j < i
    <3>1. j \in 1..(Len(l) - 1) /\ r[j] = l[j]
      BY <1>1, <1>3, <2>1
    <3> QED
      BY <3>1
  <2>2. CASE j > i
    <3>1. j - 1 \in 1..(Len(l) - 1) /\ ~ (j - 1 < i) /\ (j - 1) + 1 = j
      BY <1>1, <2>2
    <3>2. r[j - 1] = l[j]
      BY <1>3, <3>1
    <3> QED
      BY <3>1, <3>2
  <2> QED
    BY <1>1, <1>7, <2>1, <2>2
<1>8. ToSet(r) = ToSet(l) \ {l[i]}
  <2>1. ASSUME NEW x \in ToSet(r) PROVE x \in ToSet(l) \ {l[i]}
    BY <1>4, <1>6 DEF ToSet
  <2>2. ASSUME NEW x \in ToSet(l) \ {l[i]} PROVE x \in ToSet(r)
    <3>1. PICK j \in DOMAIN l : x = l[j] /\ j # i
      BY DEF ToSet
    <3> QED
      BY <1>4, <1>7, <3>1 DEF ToSet
  <2> QED
    BY <2>1, <2>2
<1> QED
  BY <1>3, <1>5, <1>8

LEMMA Link ==
  ASSUME NEW l, IsList(l), NEW k \in Keys, k \notin ToSet(l), NEW r, r = <<k>> \o l
  PROVE  IsList(r) /\ Len(r) = Len(l) + 1 /\ ToSet(r) = ToSet(l) \cup {k}
<1>1. l \in Seq(Keys) /\ Len(l) \in Nat /\ DOMAIN l = 1..Len(l)
  BY DEF IsList
<1>2. /\ r \in Seq(Keys) /\ Len(r) = Len(l) + 1
      /\ r[1] = k /\ \A j \in 2..(Len(l) + 1) : r[j] = l[j - 1] /\ j - 1 \in 1..Len(l)
  BY <1>1
<1>3. DOMAIN r = 1..(Len(l) + 1)
  BY <1>1, <1>2
<1>4. \A j \in DOMAIN r : j = 1 \/ j \in 2..(Len(l) + 1)
  BY <1>1, <1>3
<1>5. \A j \in DOMAIN l : j + 1 \in 2..(Len(l) + 1) /\ r[j + 1] = l[j] /\ j + 1 \in DOMAIN r
  <2> SUFFICES ASSUME NEW j \in DOMAIN l
               PROVE  j + 1 \in 2..(Len(l) + 1) /\ r[j + 1] = l[j] /\ j + 1 \in DOMAIN r
    OBVIOUS
  <2>1. j + 1 \in 2..(Len(l) + 1) /\ (j + 1) - 1 = j /\ j + 1 \in DOMAIN r
    BY <1>1, <1>3
  <2> QED
    BY <1>2, <2>1
<1>6. ToSet(r) = ToSet(l) \cup {k}
  <2>1. \A j \in DOMAIN r : r[j] \in ToSet(l) \cup {k}
    BY <1>1, <1>2, <1>4 DEF ToSet
  <2>2. 1 \in DOMAIN r
    BY <1>1, <1>3
  <2>3. k \in ToSet(r)
    BY <1>2, <2>2 DEF ToSet
  <2>4. ASSUME NEW x \in ToSet(l) PROVE x \in ToSet(r)
    <3>1. PICK j \in DOMAIN l : x = l[j]
      BY DEF ToSet
    <3> QED
      BY <1>5, <3>1 DEF ToSet
  <2>5. \A x \in ToSet(r) : x \in ToSet(l) \cup {k}
    BY <2>1 DEF ToSet
  <2> QED
    BY <2>3, <2>4, <2>5
<1>7. \A i \in 2..(Len(l) + 1) : r[i] # k
  BY <1>1, <1>2 DEF ToSet
<1>8. ASSUME NEW i \in DOMAIN r, NEW j \in DOMAIN r, r[i] = r[j]
      PROVE  i = j
  <2>1. CASE i = 1 \/ j = 1
    BY <1>2, <1>4, <1>7, <1>8, <2>1
  <2>2. CASE i \in 2..(Len(l) + 1) /\ j \in 2..(Len(l) + 1)
    <3>1. l[i - 1] = l[j - 1] /\ i - 1 \in DOMAIN l /\ j - 1 \in DOMAIN l
      BY <1>1, <1>2, <1>8, <2>2
    <3>2. i - 1 = j - 1
      BY <3>1 DEF IsList
    <3> QED
      BY <1>1, <2>2, <3>2
  <2> QED
    BY <1>4, <2>1, <2>2
<1> QED
  BY <1>2, <1>6, <1>8 DEF IsList

-----------------------------------------------------------------------------
(* The victim *)

Start == [key |-> NoKey, score |-> <<0, 1>>]
Turn(best, k) == IF MayGo(k) THEN Better(best, k) ELSE best

\* The loop computes what its turns do, one after the other.
LEMMA LoopExists ==
  ASSUME NEW s, NEW n \in Nat
  PROVE  \E f : f = [i \in 0..n |-> IF i = 0 THEN Start ELSE Turn(f[i - 1], s[i])]
<1> DEFINE Body(f, i) == IF i = 0 THEN Start ELSE Turn(f[i - 1], s[i])
           S == {m \in Nat : \E f : f = [i \in 0..m |-> Body(f, i)]}
<1>1. 0 \in S
  <2> DEFINE f == [i \in 0..0 |-> Start]
  <2>1. f = [i \in 0..0 |-> Body(f, i)]
    OBVIOUS
  <2> QED
    BY <2>1
<1>2. ASSUME NEW m \in Nat, m \in S
      PROVE  m + 1 \in S
  <2>1. PICK f : f = [i \in 0..m |-> Body(f, i)]
    BY <1>2
  <2> DEFINE g == [i \in 0..(m + 1) |-> IF i = m + 1 THEN Turn(f[m], s[m + 1]) ELSE f[i]]
  <2>2. ASSUME NEW i \in 0..(m + 1)
        PROVE  g[i] = Body(g, i)
    <3>1. CASE i = m + 1
      <4>1. i # 0 /\ i - 1 = m /\ m \in 0..(m + 1) /\ m # m + 1
        BY <3>1
      <4>2. g[i - 1] = f[m] /\ g[i] = Turn(f[m], s[i])
        BY <3>1, <4>1
      <4> QED
        BY <4>1, <4>2
    <3>2. CASE i # m + 1 /\ i # 0
      <4>1. i \in 0..m /\ i - 1 \in 0..(m + 1) /\ i - 1 # m + 1
        BY <3>2
      <4>2. g[i] = f[i] /\ g[i - 1] = f[i - 1]
        BY <3>2, <4>1
      <4>3. f[i] = Body(f, i)
        BY <2>1, <4>1
      <4> QED
        BY <3>2, <4>2, <4>3
    <3>3. CASE i = 0
      <4>1. g[0] = f[0] /\ 0 \in 0..m
        BY <3>3
      <4>2. f[0] = Body(f, 0)
        BY <2>1, <4>1
      <4> QED
        BY <3>3, <4>1, <4>2
    <3> QED
      BY <3>1, <3>2, <3>3
  <2> HIDE DEF Body
  <2>3. g = [i \in 0..(m + 1) |-> Body(g, i)]
    BY <2>2
  <2> HIDE DEF g
  <2>4. \E h : h = [i \in 0..(m + 1) |-> Body(h, i)]
    BY <2>3
  <2> QED
    BY <2>4
<1> HIDE DEF S
<1>3. n \in S
  BY <1>1, <1>2, Induction
<1> QED
  BY <1>3 DEF S

LEMMA BestOfLoop ==
  ASSUME NEW s, Len(s) \in Nat
  PROVE  \E f : /\ BestOf(s) = f[Len(s)].key
                /\ f[0] = Start
                /\ \A i \in 1..Len(s) : f[i] = Turn(f[i - 1], s[i])
<1> DEFINE f == CHOOSE f : f = [i \in 0..Len(s) |-> IF i = 0 THEN Start ELSE Turn(f[i - 1], s[i])]
<1>1. f = [i \in 0..Len(s) |-> IF i = 0 THEN Start ELSE Turn(f[i - 1], s[i])]
  BY LoopExists
<1>2. BestOf(s) = f[Len(s)].key
  BY DEF BestOf, Start, Turn
<1> HIDE DEF f
<1>3. f[0] = Start
  BY <1>1
<1>4. \A i \in 1..Len(s) : f[i] = Turn(f[i - 1], s[i])
  BY <1>1
<1> QED
  BY <1>2, <1>3, <1>4

\* The loop finds an entry that may go if there is one.
LEMMA LoopFinds ==
  ASSUME NoKey \notin Keys, NEW s \in Seq(Keys)
  PROVE  /\ BestOf(s) = NoKey => \A j \in 1..Len(s) : ~MayGo(s[j])
         /\ BestOf(s) # NoKey => \E j \in 1..Len(s) : BestOf(s) = s[j] /\ MayGo(s[j])
<1>1. PICK f : /\ BestOf(s) = f[Len(s)].key
               /\ f[0] = Start
               /\ \A i \in 1..Len(s) : f[i] = Turn(f[i - 1], s[i])
  BY BestOfLoop
<1> DEFINE Found(i) == /\ f[i].key = NoKey => \A j \in 1..i : ~MayGo(s[j])
                       /\ f[i].key # NoKey => \E j \in 1..i : f[i].key = s[j] /\ MayGo(s[j])
           S == {i \in Nat : i <= Len(s) => Found(i)}
<1>2. 0 \in S
  BY <1>1 DEF Start
<1>3. ASSUME NEW i \in Nat, i \in S
      PROVE  i + 1 \in S
  <2> SUFFICES ASSUME i + 1 <= Len(s)
               PROVE  Found(i + 1)
    OBVIOUS
  <2>1. i <= Len(s) /\ i + 1 \in 1..Len(s) /\ (i + 1) - 1 = i
    OBVIOUS
  <2>2. Found(i)
    BY <1>3, <2>1
  <2>3. f[i + 1] = Turn(f[i], s[i + 1]) /\ s[i + 1] \in Keys
    BY <1>1, <2>1
  <2>4. \A j \in 1..(i + 1) : j \in 1..i \/ j = i + 1
    OBVIOUS
  <2>5. CASE ~MayGo(s[i + 1])
    <3>1. f[i + 1] = f[i]
      BY <2>3, <2>5 DEF Turn
    <3> QED
      BY <2>2, <2>4, <2>5, <3>1
  <2>6. CASE MayGo(s[i + 1])
    <3>1. f[i + 1] = Better(f[i], s[i + 1])
      BY <2>3, <2>6 DEF Turn
    <3>2. \/ f[i + 1].key = s[i + 1]
          \/ f[i + 1] = f[i] /\ f[i].key # NoKey
      BY <3>1 DEF Better
    <3>3. CASE f[i + 1].key = s[i + 1]
      <4>1. f[i + 1].key # NoKey /\ i + 1 \in 1..(i + 1)
        BY <2>3, <3>3
      <4> QED
        BY <2>6, <3>3, <4>1
    <3>4. CASE f[i + 1] = f[i] /\ f[i].key # NoKey
      BY <2>2, <3>4
    <3> QED
      BY <3>2, <3>3, <3>4
  <2> QED
    BY <2>5, <2>6
<1>4. Len(s) \in S
  <2> HIDE DEF S
  <2> QED
    BY <1>2, <1>3, Induction
<1> QED
  BY <1>1, <1>4

\* A put asks for a victim of entries that have counters and sizes.
Scored == /\ NoKey \notin Keys /\ Caches \subseteq [impl : {C, Py}, policy : Policies,
                                                    hots : SUBSET BOOLEAN, maxItems : Nat]
          /\ cache \in Caches
          /\ IsList(list)
          /\ nbytes \in [Keys -> Nat] /\ freq \in [Keys -> Nat] /\ hot \in [Keys -> BOOLEAN]

LEMMA ScoreIsFraction ==
  ASSUME Scored, NEW k \in Keys
  PROVE  Score(k)[1] \in Nat /\ Score(k)[2] \in Nat \ {0}
<1>1. cache.policy \in Policies
  BY DEF Scored
<1>2. nbytes[k] \in Nat /\ freq[k] \in Nat
  BY DEF Scored
<1>3. CASE cache.policy = "lru"
  BY <1>3 DEF Score
<1>4. CASE cache.policy = "lfu"
  BY <1>2, <1>4 DEF Score
<1>5. CASE cache.policy = "adaptive"
  <2>1. /\ Score(k)[1] = freq[k] + (IF hot[k] THEN 4 ELSE 0)
        /\ Score(k)[2] = IF nbytes[k] = 0 THEN 1 ELSE nbytes[k]
    BY <1>5 DEF Score
  <2> QED
    BY <1>2, <2>1
<1> QED
  BY <1>1, <1>3, <1>4, <1>5 DEF Policies

LEMMA LessIsTransitive ==
  ASSUME NEW a, NEW b, NEW c,
         a[1] \in Nat, a[2] \in Nat \ {0}, b[1] \in Nat, b[2] \in Nat \ {0},
         c[1] \in Nat, c[2] \in Nat \ {0}, Less(a, b), Less(b, c)
  PROVE  Less(a, c)
<1>1. PICK m \in Nat, n \in Nat \ {0}, p \in Nat, q \in Nat \ {0}, r \in Nat, t \in Nat \ {0} :
        m = a[1] /\ n = a[2] /\ p = b[1] /\ q = b[2] /\ r = c[1] /\ t = c[2]
  OBVIOUS
<1>2. m * q < p * n /\ p * t < r * q
  BY <1>1 DEF Less
<1>3. (m * q) * t < (p * n) * t /\ (p * t) * n < (r * q) * n
  BY <1>2
<1>4. (p * n) * t = (p * t) * n /\ (m * q) * t = (m * t) * q /\ (r * q) * n = (r * n) * q
  OBVIOUS
<1>5. (m * t) * q < (r * n) * q
  BY <1>3, <1>4
<1>6. m * t < r * n
  BY <1>5
<1> QED
  BY <1>1, <1>6 DEF Less

\* Of finitely many entries one has a least score.
LEMMA LeastScoreExists ==
  ASSUME Scored, NEW S, S \subseteq Keys, IsFiniteSet(S), S # {}
  PROVE  \E m \in S : \A x \in S : ~Less(Score(x), Score(m))
<1> DEFINE HasLeast(T) == \E m \in T : \A x \in T : ~Less(Score(x), Score(m))
           P == {n \in Nat : \A T \in SUBSET S : Cardinality(T) = n /\ T # {} => HasLeast(T)}
<1>1. \A T \in SUBSET S : IsFiniteSet(T) /\ Cardinality(T) \in Nat
  BY FS_Subset, FS_CardinalityType
<1>2. 0 \in P
  BY <1>1, FS_EmptySet
<1>3. ASSUME NEW n \in Nat, n \in P
      PROVE  n + 1 \in P
  <2> SUFFICES ASSUME NEW T \in SUBSET S, Cardinality(T) = n + 1, T # {}
               PROVE  HasLeast(T)
    OBVIOUS
  <2>1. PICK x \in T : TRUE
    OBVIOUS
  <2> DEFINE U == T \ {x}
  <2>2. U \in SUBSET S /\ Cardinality(U) = n
    <3>1. Cardinality(U) = Cardinality(T) - 1
      BY <1>1, <2>1, FS_RemoveElement
    <3> QED
      BY <3>1
  <2>3. ~Less(Score(x), Score(x))
    <3>1. Score(x)[1] * Score(x)[2] \in Nat
      BY <2>1, ScoreIsFraction
    <3> QED
      BY <3>1 DEF Less
  <2>4. CASE U = {}
    BY <2>1, <2>3, <2>4
  <2>5. CASE U # {}
    <3>1. PICK m \in U : \A y \in U : ~Less(Score(y), Score(m))
      BY <1>3, <2>2, <2>5
    <3>2. CASE Less(Score(x), Score(m))
      <4>1. ASSUME NEW y \in U
            PROVE  ~Less(Score(y), Score(x))
        <5> SUFFICES ASSUME Less(Score(y), Score(x))
                     PROVE  FALSE
          OBVIOUS
        <5>1. /\ Score(x)[1] \in Nat /\ Score(x)[2] \in Nat \ {0}
              /\ Score(y)[1] \in Nat /\ Score(y)[2] \in Nat \ {0}
              /\ Score(m)[1] \in Nat /\ Score(m)[2] \in Nat \ {0}
          BY ScoreIsFraction
        <5>2. Less(Score(y), Score(m))
          BY <3>2, <5>1, LessIsTransitive
        <5> QED
          BY <3>1, <5>2
      <4> QED
        BY <2>1, <2>3, <4>1
    <3>3. CASE ~Less(Score(x), Score(m))
      <4>1. \A y \in T : ~Less(Score(y), Score(m))
        BY <3>1, <3>3
      <4> QED
        BY <3>1, <4>1
    <3> QED
      BY <3>2, <3>3
  <2> QED
    BY <2>4, <2>5
<1>4. PICK n \in Nat : n = Cardinality(S)
  BY <1>1
<1>5. n \in P
  <2> HIDE DEF P
  <2> QED
    BY <1>2, <1>3, Induction
<1> QED
  BY <1>4, <1>5

LEMMA LastPlace ==
  ASSUME NEW n \in Nat, NEW S, S \subseteq 1..n, S # {}
  PROVE  Max(S) \in S /\ \A x \in S : x <= Max(S)
<1> DEFINE P == {k \in Nat : \A T \in SUBSET (1..k) : T # {} => \E m \in T : \A x \in T : m >= x}
<1>1. 0 \in P
  <2>1. 1..0 = {}
    OBVIOUS
  <2> QED
    BY <2>1
<1>2. ASSUME NEW k \in Nat, k \in P
      PROVE  k + 1 \in P
  <2> SUFFICES ASSUME NEW T \in SUBSET (1..(k + 1)), T # {}
               PROVE  \E m \in T : \A x \in T : m >= x
    OBVIOUS
  <2>1. CASE k + 1 \in T
    BY <2>1
  <2>2. CASE k + 1 \notin T
    <3>1. T \in SUBSET (1..k)
      BY <2>2
    <3> QED
      BY <1>2, <3>1
  <2> QED
    BY <2>1, <2>2
<1>3. n \in P
  <2> HIDE DEF P
  <2> QED
    BY <1>1, <1>2, Induction
<1>4. \E m \in S : \A x \in S : m >= x
  BY <1>3
<1> QED
  BY <1>4 DEF Max

\* A victim is found exactly when an entry may go, and it is one.
LEMMA VictimMayGo ==
  ASSUME Scored
  PROVE  /\ Victim = NoKey => \A k \in Listed : ~MayGo(k)
         /\ Victim # NoKey => Victim \in Listed /\ MayGo(Victim)
<1>1. /\ Len(list) \in Nat /\ DOMAIN list = 1..Len(list) /\ Listed \subseteq Keys
      /\ IsFiniteSet(Listed) /\ list \in Seq(Keys)
  BY ListIsFinite DEF Scored, Listed, IsList
<1>2. CASE cache.impl = Py
  <2> DEFINE candidates == {k \in Listed : MayGo(k)}
             cold == {k \in candidates : ~hot[k]}
             coldest == IF cold = {} THEN candidates ELSE cold
             least == {k \in coldest : \A x \in coldest : ~Less(Score(x), Score(k))}
             places == {i \in DOMAIN list : list[i] \in least}
  <2>1. Victim = IF least = {} THEN NoKey ELSE list[Max(places)]
    BY <1>2 DEF Victim, VictimInPy
  <2>2. least \subseteq candidates /\ candidates \subseteq Listed
    OBVIOUS
  <2>3. candidates # {} => least # {}
    <3>1. IsFiniteSet(coldest) /\ coldest \subseteq Keys
      <4>1. coldest \subseteq Listed
        OBVIOUS
      <4> HIDE DEF coldest
      <4> QED
        BY <1>1, <4>1, FS_Subset
    <3>2. coldest # {} => \E m \in coldest : \A x \in coldest : ~Less(Score(x), Score(m))
      <4> HIDE DEF coldest
      <4> QED
        BY <3>1, LeastScoreExists
    <3> QED
      BY <3>2
  <2>4. least # {} => Max(places) \in places
    <3>1. least # {} => places # {}
      <4> HIDE DEF least
      <4> QED
        BY <2>2 DEF Listed, ToSet
    <3>2. places \subseteq 1..Len(list)
      BY <1>1
    <3> HIDE DEF places
    <3> QED
      BY <1>1, <3>1, <3>2, LastPlace
  <2>5. least # {} => Victim \in least
    <3> HIDE DEF least
    <3> QED
      BY <2>1, <2>4
  <2>6. NoKey \notin Listed
    BY <1>1 DEF Scored
  <2> HIDE DEF least
  <2> QED
    BY <2>1, <2>2, <2>3, <2>5, <2>6
<1>3. CASE cache.impl # Py
  <2> DEFINE s == Reverse(list)
  <2>1. Victim = BestOf(s)
    BY <1>3 DEF Victim, VictimInC
  <2>2. /\ s \in Seq(Keys) /\ Len(s) = Len(list)
        /\ \A j \in 1..Len(list) : s[j] = list[Len(list) - j + 1]
    BY <1>1 DEF Reverse
  <2>3. \A j \in 1..Len(list) : s[j] \in Listed
    <3> SUFFICES ASSUME NEW j \in 1..Len(list)
                 PROVE  s[j] \in Listed
      OBVIOUS
    <3>1. Len(list) - j + 1 \in DOMAIN list
      BY <1>1
    <3> QED
      BY <2>2, <3>1 DEF Listed, ToSet
  <2>4. \A k \in Listed : \E j \in 1..Len(list) : k = s[j]
    <3> SUFFICES ASSUME NEW i \in DOMAIN list
                 PROVE  \E j \in 1..Len(list) : list[i] = s[j]
      BY DEF Listed, ToSet
    <3>1. Len(list) - i + 1 \in 1..Len(list) /\ Len(list) - (Len(list) - i + 1) + 1 = i
      BY <1>1
    <3>2. s[Len(list) - i + 1] = list[i]
      BY <2>2, <3>1
    <3> QED
      BY <3>1, <3>2
  <2> HIDE DEF s
  <2>5. /\ BestOf(s) = NoKey => \A j \in 1..Len(s) : ~MayGo(s[j])
        /\ BestOf(s) # NoKey => \E j \in 1..Len(s) : BestOf(s) = s[j] /\ MayGo(s[j])
    BY <2>2, LoopFinds DEF Scored
  <2> QED
    BY <2>1, <2>2, <2>3, <2>4, <2>5
<1> QED
  BY <1>2, <1>3

-----------------------------------------------------------------------------
(* The invariant *)

\* Entries of cache c: a list, their fields, and counters that agree with them.
EntriesOK(c, l, size, pin, h, f, used, sum) ==
  /\ IsList(l)
  /\ size \in [Keys -> Sizes \cup {0}] /\ f \in [Keys -> 0..MaxFreq]
  /\ pin \in [Keys -> BOOLEAN] /\ h \in [Keys -> BOOLEAN] /\ used \in [Parts -> Nat]
  /\ sum = BytesOf(ToSet(l), size)
  /\ c.impl = Py => \A p \in Parts : used[p] = BytesOf({k \in ToSet(l) : PartitionOf[k] = p}, size)
  /\ MaxBytes > 0 => sum <= MaxBytes
  /\ c.maxItems > 0 => Len(l) <= c.maxItems

EntriesInv == /\ cache \in Caches
              /\ EntriesOK(cache, list, nbytes, pinned, hot, freq, usage, bytes)

\* expert_cache.py counts the pinned entries when an operation ends.
PinnedInv == /\ pinnedCount \in Nat
             /\ Unlocked \/ cache.impl = C => pinnedCount = Cardinality(PinnedKeys)

PuttingInv == \/ putting = NoPut
              \/ /\ putting \in [key : Keys, size : Sizes, pin : BOOLEAN, hot : BOOLEAN]
                 /\ putting.key \notin Listed
                 /\ MaxBytes > 0 => putting.size <= MaxBytes

\* What it saved was as good as what there is, and lacks no entry.
SavedInv ==
  IF Unlocked \/ cache.impl = C THEN saved = <<>>
  ELSE /\ saved = <<saved[1], saved[2], saved[3], saved[4], saved[5], saved[6], saved[7]>>
       /\ EntriesOK(cache, saved[1], saved[2], saved[3], saved[4], saved[5], saved[6], saved[7])
       /\ Listed \subseteq ToSet(saved[1])

CacheInv == EntriesInv /\ PinnedInv /\ PuttingInv /\ SavedInv

LEMMA EntriesAreNumbers ==
  ASSUME Parameters, EntriesInv
  PROVE  /\ Scored
         /\ Len(list) \in Nat /\ DOMAIN list = 1..Len(list) /\ Listed \subseteq Keys
         /\ IsFiniteSet(Listed) /\ Cardinality(Listed) = Len(list)
         /\ \A k \in Keys : nbytes[k] \in Nat /\ PartitionOf[k] \in Parts
         /\ bytes \in Nat /\ MaxBytes \in Nat
         /\ cache.maxItems \in Nat /\ cache.impl \in {C, Py} /\ cache.hots \subseteq BOOLEAN
         /\ IsFiniteSet(PinnedKeys) /\ Cardinality(PinnedKeys) \in Nat
<1>1. Sizes \subseteq Nat /\ MaxFreq \in Nat /\ MaxBytes \in Nat
  BY DEF Parameters
<1>2. nbytes \in [Keys -> Nat] /\ freq \in [Keys -> Nat] /\ IsList(list)
  <2>1. nbytes \in [Keys -> Sizes \cup {0}] /\ freq \in [Keys -> 0..MaxFreq] /\ IsList(list)
    BY DEF EntriesInv, EntriesOK
  <2>2. Sizes \cup {0} \subseteq Nat /\ 0..MaxFreq \subseteq Nat
    BY <1>1
  <2> QED
    BY <2>1, <2>2
<1>3. Scored
  BY <1>2 DEF Parameters, EntriesInv, EntriesOK, Scored
<1>4. /\ Len(list) \in Nat /\ DOMAIN list = 1..Len(list) /\ Listed \subseteq Keys
      /\ IsFiniteSet(Listed) /\ Cardinality(Listed) = Len(list)
  BY <1>2, ListIsFinite DEF Listed
<1>5. bytes \in Nat
  <2>1. \A k \in Listed : nbytes[k] \in Nat
    BY <1>2, <1>4
  <2>2. BytesOf(Listed, nbytes) \in Nat
    BY <1>4, <2>1, BytesFinite
  <2> QED
    BY <2>2 DEF EntriesInv, EntriesOK, Listed
<1>6. cache.maxItems \in Nat /\ cache.impl \in {C, Py} /\ cache.hots \subseteq BOOLEAN
  BY <1>3 DEF Scored
<1>7. \A k \in Keys : nbytes[k] \in Nat /\ PartitionOf[k] \in Parts
  BY <1>2 DEF Parts
<1>8. IsFiniteSet(PinnedKeys) /\ Cardinality(PinnedKeys) \in Nat
  <2>1. PinnedKeys \subseteq Listed
    BY DEF PinnedKeys
  <2> QED
    BY <1>4, <2>1, FS_Subset, FS_CardinalityType
<1> QED
  BY <1>1, <1>3, <1>4, <1>5, <1>6, <1>7, <1>8

LEMMA PlaceIsThere ==
  ASSUME NEW k \in Listed
  PROVE  PlaceOf(k) \in DOMAIN list /\ list[PlaceOf(k)] = k
BY DEF Listed, ToSet, PlaceOf

\* Dropping an entry leaves the others and the counters of theirs.
LEMMA DropKeeps ==
  ASSUME Parameters, EntriesInv, NEW k \in Listed, Drop(k), cache' = cache
  PROVE  /\ EntriesInv' /\ Listed' = Listed \ {k} /\ PinnedKeys' = PinnedKeys \ {k}
         /\ \A x \in Listed \ {k} : nbytes'[x] = nbytes[x] /\ pinned'[x] = pinned[x]
<1>1. /\ IsList(list) /\ k \in Keys /\ Listed \subseteq Keys /\ IsFiniteSet(Listed)
      /\ nbytes[k] \in Nat /\ bytes \in Nat /\ MaxBytes \in Nat
      /\ Len(list) \in Nat /\ cache.maxItems \in Nat /\ 0 \in 0..MaxFreq
      /\ \A x \in Keys : nbytes[x] \in Nat /\ PartitionOf[x] \in Parts
  BY EntriesAreNumbers DEF EntriesInv, EntriesOK, Parameters
<1>2. IsList(list') /\ Len(list') = Len(list) - 1 /\ Listed' = Listed \ {k}
  <2>1. list' = RemoveAt(list, PlaceOf(k))
    BY DEF Drop, Without
  <2> QED
    BY <1>1, <2>1, PlaceIsThere, Unlink DEF Listed
<1>3. /\ nbytes' = [nbytes EXCEPT ![k] = 0] /\ pinned' = [pinned EXCEPT ![k] = FALSE]
      /\ hot' = [hot EXCEPT ![k] = FALSE] /\ freq' = [freq EXCEPT ![k] = 0]
      /\ bytes' = bytes - nbytes[k] /\ usage' = Adjusted(k, -nbytes[k])
  BY DEF Drop
<1>4. /\ nbytes \in [Keys -> Sizes \cup {0}] /\ freq \in [Keys -> 0..MaxFreq]
      /\ pinned \in [Keys -> BOOLEAN] /\ hot \in [Keys -> BOOLEAN] /\ usage \in [Parts -> Nat]
      /\ bytes = BytesOf(Listed, nbytes)
      /\ cache.impl = Py => \A p \in Parts : usage[p] = BytesOf(InPartition(p), nbytes)
      /\ MaxBytes > 0 => bytes <= MaxBytes
      /\ cache.maxItems > 0 => Len(list) <= cache.maxItems
  BY DEF EntriesInv, EntriesOK, Listed, InPartition
<1>5. /\ nbytes' \in [Keys -> Sizes \cup {0}] /\ freq' \in [Keys -> 0..MaxFreq]
      /\ pinned' \in [Keys -> BOOLEAN] /\ hot' \in [Keys -> BOOLEAN]
  BY <1>1, <1>3, <1>4
<1>6. \A x \in Keys \ {k} : nbytes'[x] = nbytes[x] /\ pinned'[x] = pinned[x]
  BY <1>3, <1>4
<1>7. PinnedKeys' = PinnedKeys \ {k}
  BY <1>1, <1>2, <1>6 DEF PinnedKeys
<1>8. \A S \in SUBSET Listed : BytesOf(S \ {k}, nbytes') = BytesOf(S \ {k}, nbytes)
  <2> SUFFICES ASSUME NEW S \in SUBSET Listed
               PROVE  BytesOf(S \ {k}, nbytes') = BytesOf(S \ {k}, nbytes)
    OBVIOUS
  <2>1. \A x \in S \ {k} : nbytes'[x] = nbytes[x]
    BY <1>1, <1>6
  <2> QED
    BY <2>1, BytesSame
<1>9. \A S \in SUBSET Listed : k \in S => BytesOf(S \ {k}, nbytes) = BytesOf(S, nbytes) - nbytes[k]
  <2> SUFFICES ASSUME NEW S \in SUBSET Listed, k \in S
               PROVE  BytesOf(S \ {k}, nbytes) = BytesOf(S, nbytes) - nbytes[k]
    OBVIOUS
  <2>1. IsFiniteSet(S) /\ \A x \in S : nbytes[x] \in Nat
    BY <1>1, FS_Subset
  <2> QED
    BY <2>1, BytesRemove
<1>10. bytes' = BytesOf(Listed', nbytes')
  BY <1>2, <1>3, <1>4, <1>8, <1>9
<1>11. bytes' <= bytes
  BY <1>1, <1>3
<1>12. \A S \in SUBSET Listed : BytesOf(S \ {k}, nbytes') \in Nat
  <2> SUFFICES ASSUME NEW S \in SUBSET Listed
               PROVE  BytesOf(S \ {k}, nbytes) \in Nat
    BY <1>8
  <2>1. S \ {k} \in SUBSET Listed
    OBVIOUS
  <2>2. IsFiniteSet(S \ {k}) /\ \A x \in S \ {k} : nbytes[x] \in Nat
    BY <1>1, <2>1, FS_Subset
  <2> QED
    BY <2>2, BytesFinite
<1>13. /\ usage' \in [Parts -> Nat]
       /\ cache.impl = Py => \A p \in Parts : usage'[p] = BytesOf(InPartition(p) \ {k}, nbytes')
  <2>1. CASE cache.impl # Py
    BY <1>3, <1>4, <2>1 DEF Adjusted
  <2>2. CASE cache.impl = Py
    <3>1. usage' = [usage EXCEPT ![PartitionOf[k]] = @ + (-nbytes[k])]
      BY <1>3, <2>2 DEF Adjusted
    <3>2. ASSUME NEW p \in Parts
          PROVE  /\ usage'[p] = BytesOf(InPartition(p) \ {k}, nbytes')
                 /\ usage'[p] \in Nat
      <4>1. InPartition(p) \in SUBSET Listed /\ usage[p] = BytesOf(InPartition(p), nbytes)
            /\ usage[p] \in Nat
        BY <1>4, <2>2 DEF InPartition
      <4>2. CASE p = PartitionOf[k]
        <5>1. k \in InPartition(p)
          BY <4>2 DEF InPartition
        <5>2. usage'[p] = usage[p] + (-nbytes[k])
          BY <1>4, <3>1, <4>2
        <5>3. usage'[p] = usage[p] - nbytes[k]
          BY <1>1, <4>1, <5>2
        <5> QED
          BY <1>8, <1>9, <1>12, <4>1, <5>1, <5>3
      <4>3. CASE p # PartitionOf[k]
        <5>1. InPartition(p) \ {k} = InPartition(p)
          BY <4>3 DEF InPartition
        <5>2. usage'[p] = usage[p]
          BY <1>4, <3>1, <4>3
        <5> QED
          BY <1>8, <4>1, <5>1, <5>2
      <4> QED
        BY <4>2, <4>3
    <3>3. DOMAIN usage' = Parts /\ usage' = [p \in Parts |-> usage'[p]]
      BY <1>4, <3>1
    <3> QED
      BY <3>2, <3>3
  <2> QED
    BY <2>1, <2>2
<1>14. \A p \in Parts : InPartition(p) \ {k} = {x \in Listed' : PartitionOf[x] = p}
  BY <1>2 DEF InPartition
<1>15. EntriesOK(cache, list', nbytes', pinned', hot', freq', usage', bytes')
  <2>1. /\ MaxBytes > 0 => bytes' <= MaxBytes
        /\ cache.maxItems > 0 => Len(list') <= cache.maxItems
    BY <1>1, <1>2, <1>3, <1>4
  <2>2. cache.impl = Py =>
          \A p \in Parts : usage'[p] = BytesOf({x \in ToSet(list') : PartitionOf[x] = p}, nbytes')
    BY <1>13, <1>14 DEF Listed
  <2> QED
    BY <1>2, <1>5, <1>10, <1>13, <2>1, <2>2 DEF EntriesOK, Listed
<1>16. EntriesInv'
  BY <1>15 DEF EntriesInv
<1> QED
  BY <1>1, <1>2, <1>6, <1>7, <1>16

\* What an operation that leaves the entries of the list alone keeps.
LEMMA MarksKeep ==
  ASSUME Parameters, EntriesInv,
         cache' = cache, list' = list, nbytes' = nbytes, usage' = usage, bytes' = bytes,
         pinned' \in [Keys -> BOOLEAN], hot' \in [Keys -> BOOLEAN], freq' = freq
  PROVE  EntriesInv' /\ Listed' = Listed
BY DEF EntriesInv, EntriesOK, Listed

\* An entry at the front, in place of none or of itself.
LEMMA FrontKeeps ==
  ASSUME Parameters, EntriesInv, NEW k \in Listed
  PROVE  /\ IsList(ToFront(k)) /\ Len(ToFront(k)) = Len(list) /\ ToSet(ToFront(k)) = Listed
<1>1. IsList(list) /\ k \in Keys /\ Len(list) \in Nat
  BY EntriesAreNumbers DEF EntriesInv, EntriesOK
<1>2. IsList(Without(k)) /\ Len(Without(k)) = Len(list) - 1 /\ ToSet(Without(k)) = Listed \ {k}
  <2>1. Without(k) = RemoveAt(list, PlaceOf(k))
    BY DEF Without
  <2> QED
    BY <1>1, <2>1, PlaceIsThere, Unlink DEF Listed
<1>3. /\ IsList(ToFront(k)) /\ Len(ToFront(k)) = Len(Without(k)) + 1
      /\ ToSet(ToFront(k)) = ToSet(Without(k)) \cup {k}
  <2>1. ToFront(k) = <<k>> \o Without(k) /\ k \notin ToSet(Without(k))
    BY <1>2 DEF ToFront
  <2> QED
    BY <1>1, <1>2, <2>1, Link
<1> QED
  BY <1>1, <1>2, <1>3

\* Linking a new entry, when there is room for it.
LEMMA InsertKeeps ==
  ASSUME Parameters, EntriesInv, PutInsert, putting.key \in Keys, putting.key \notin Listed,
         putting.size \in Sizes, putting.pin \in BOOLEAN, putting.hot \in BOOLEAN
  PROVE  /\ EntriesInv' /\ Listed' = Listed \cup {putting.key}
         /\ PinnedKeys' = IF putting.pin THEN PinnedKeys \cup {putting.key} ELSE PinnedKeys
<1> DEFINE k == putting.key
           n == putting.size
<1>1. /\ IsList(list) /\ k \in Keys /\ Listed \subseteq Keys /\ IsFiniteSet(Listed)
      /\ n \in Nat /\ bytes \in Nat /\ MaxBytes \in Nat
      /\ Len(list) \in Nat /\ cache.maxItems \in Nat /\ 1 \in 0..MaxFreq
      /\ \A x \in Keys : nbytes[x] \in Nat /\ PartitionOf[x] \in Parts
  <2>1. IsList(list)
    BY DEF EntriesInv, EntriesOK
  <2>2. n \in Nat /\ MaxBytes \in Nat /\ 1 \in 0..MaxFreq
    <3>1. Sizes \subseteq Nat /\ MaxBytes \in Nat /\ MaxFreq \in Nat \ {0} /\ n \in Sizes
      BY DEF Parameters
    <3>2. n \in Nat
      <4> HIDE DEF n
      <4> QED
        BY <3>1
    <3>3. \A m \in Nat \ {0} : 1 \in 0..m
      OBVIOUS
    <3> QED
      BY <3>1, <3>2, <3>3
  <2> QED
    BY <2>1, <2>2, EntriesAreNumbers
<1>2. IsList(list') /\ Len(list') = Len(list) + 1 /\ Listed' = Listed \cup {k}
  <2>1. list' = <<k>> \o list /\ k \notin ToSet(list)
    BY DEF PutInsert, Listed
  <2> QED
    BY <1>1, <2>1, Link DEF Listed
<1>3. /\ nbytes' = [nbytes EXCEPT ![k] = n] /\ pinned' = [pinned EXCEPT ![k] = putting.pin]
      /\ hot' = [hot EXCEPT ![k] = putting.hot] /\ freq' = [freq EXCEPT ![k] = 1]
      /\ bytes' = bytes + n /\ usage' = Adjusted(k, n) /\ cache' = cache
  BY DEF PutInsert
<1>4. /\ nbytes \in [Keys -> Sizes \cup {0}] /\ freq \in [Keys -> 0..MaxFreq]
      /\ pinned \in [Keys -> BOOLEAN] /\ hot \in [Keys -> BOOLEAN] /\ usage \in [Parts -> Nat]
      /\ bytes = BytesOf(Listed, nbytes)
      /\ cache.impl = Py => \A p \in Parts : usage[p] = BytesOf(InPartition(p), nbytes)
      /\ cache \in Caches
  BY DEF EntriesInv, EntriesOK, Listed, InPartition
<1>5. /\ nbytes' \in [Keys -> Sizes \cup {0}] /\ freq' \in [Keys -> 0..MaxFreq]
      /\ pinned' \in [Keys -> BOOLEAN] /\ hot' \in [Keys -> BOOLEAN]
  BY <1>1, <1>3, <1>4
<1>6. /\ \A x \in Keys \ {k} : nbytes'[x] = nbytes[x] /\ pinned'[x] = pinned[x]
      /\ nbytes'[k] = n /\ pinned'[k] = putting.pin
  BY <1>1, <1>3, <1>4
<1>7. PinnedKeys' = IF putting.pin THEN PinnedKeys \cup {k} ELSE PinnedKeys
  <2>1. PinnedKeys' = {x \in Listed' : pinned'[x]}
    BY DEF PinnedKeys
  <2>2. k \notin Listed /\ Listed \subseteq Keys \ {k}
    BY <1>1
  <2> HIDE DEF k, n
  <2> QED
    BY <1>2, <1>6, <2>1, <2>2 DEF PinnedKeys
<1>8. \A S \in SUBSET Listed : BytesOf(S, nbytes') = BytesOf(S, nbytes)
  <2> SUFFICES ASSUME NEW S \in SUBSET Listed
               PROVE  BytesOf(S, nbytes') = BytesOf(S, nbytes)
    OBVIOUS
  <2>1. \A x \in S : nbytes'[x] = nbytes[x]
    BY <1>1, <1>6
  <2> QED
    BY <2>1, BytesSame
<1>9. \A S \in SUBSET Listed : BytesOf(S \cup {k}, nbytes') = BytesOf(S, nbytes) + n
  <2> SUFFICES ASSUME NEW S \in SUBSET Listed
               PROVE  BytesOf(S \cup {k}, nbytes') = BytesOf(S, nbytes) + n
    OBVIOUS
  <2>1. IsFiniteSet(S) /\ k \notin S
    BY <1>1, FS_Subset
  <2>2. \A x \in S \cup {k} : nbytes'[x] \in Nat
    BY <1>1, <1>6
  <2>3. BytesOf(S \cup {k}, nbytes') = BytesOf(S, nbytes') + nbytes'[k]
    <3> HIDE DEF k
    <3> QED
      BY <2>1, <2>2, BytesAdd
  <2> QED
    BY <1>6, <1>8, <2>3
<1>10. bytes' = BytesOf(Listed', nbytes')
  BY <1>2, <1>3, <1>4, <1>9
<1>11. \A S \in SUBSET Listed : BytesOf(S, nbytes) \in Nat
  <2> SUFFICES ASSUME NEW S \in SUBSET Listed
               PROVE  BytesOf(S, nbytes) \in Nat
    OBVIOUS
  <2>1. IsFiniteSet(S) /\ \A x \in S : nbytes[x] \in Nat
    BY <1>1, FS_Subset
  <2> QED
    BY <2>1, BytesFinite
<1>12. /\ usage' \in [Parts -> Nat]
       /\ cache.impl = Py =>
            \A p \in Parts : usage'[p] = BytesOf({x \in Listed' : PartitionOf[x] = p}, nbytes')
  <2>1. CASE cache.impl # Py
    BY <1>3, <1>4, <2>1 DEF Adjusted
  <2>2. CASE cache.impl = Py
    <3>1. usage' = [usage EXCEPT ![PartitionOf[k]] = @ + n]
      BY <1>3, <2>2 DEF Adjusted
    <3>2. ASSUME NEW p \in Parts
          PROVE  /\ usage'[p] = BytesOf({x \in Listed' : PartitionOf[x] = p}, nbytes')
                 /\ usage'[p] \in Nat
      <4>1. InPartition(p) \in SUBSET Listed /\ usage[p] = BytesOf(InPartition(p), nbytes)
            /\ usage[p] \in Nat
        BY <1>4, <2>2 DEF InPartition
      <4>2. CASE p = PartitionOf[k]
        <5>1. {x \in Listed' : PartitionOf[x] = p} = InPartition(p) \cup {k}
          BY <1>2, <4>2 DEF InPartition
        <5>2. usage'[p] = usage[p] + n
          BY <1>4, <3>1, <4>2
        <5>3. usage[p] + n \in Nat
          BY <1>1, <4>1
        <5> QED
          BY <1>9, <4>1, <5>1, <5>2, <5>3
      <4>3. CASE p # PartitionOf[k]
        <5>1. {x \in Listed' : PartitionOf[x] = p} = InPartition(p)
          BY <1>2, <4>3 DEF InPartition
        <5>2. usage'[p] = usage[p]
          BY <1>4, <3>1, <4>3
        <5> QED
          BY <1>8, <4>1, <5>1, <5>2
      <4> QED
        BY <4>2, <4>3
    <3>3. DOMAIN usage' = Parts /\ usage' = [p \in Parts |-> usage'[p]]
      BY <1>4, <3>1
    <3> QED
      BY <3>2, <3>3
  <2> QED
    BY <2>1, <2>2
<1>13. EntriesOK(cache, list', nbytes', pinned', hot', freq', usage', bytes')
  <2>1. /\ MaxBytes > 0 => ~ (bytes + n > MaxBytes)
        /\ cache.maxItems > 0 => ~ (Len(list) + 1 > cache.maxItems)
    BY DEF PutInsert, NoRoom
  <2>2. /\ MaxBytes > 0 => bytes' <= MaxBytes
        /\ cache.maxItems > 0 => Len(list') <= cache.maxItems
    BY <1>1, <1>2, <1>3, <2>1
  <2> QED
    BY <1>2, <1>5, <1>10, <1>12, <2>2 DEF EntriesOK, Listed
<1>14. EntriesInv'
  BY <1>3, <1>4, <1>13 DEF EntriesInv
<1> QED
  BY <1>2, <1>7, <1>14

-----------------------------------------------------------------------------
(* Every operation keeps it *)

\* The parts of the invariant that a step with no put under way starts from.
LEMMA InvUnlocked ==
  ASSUME CacheInv, Unlocked
  PROVE  EntriesInv /\ pinnedCount = Cardinality(PinnedKeys) /\ saved = <<>>
BY DEF CacheInv, PinnedInv, SavedInv

LEMMA GetKeeps == ASSUME Parameters, CacheInv, NEW k \in Keys, Get(k) PROVE CacheInv'
<1>1. /\ EntriesInv /\ pinnedCount = Cardinality(PinnedKeys) /\ saved = <<>> /\ Unlocked
      /\ k \in Listed /\ pinnedCount \in Nat
  BY InvUnlocked DEF CacheInv, PinnedInv, Get
<1>2. list' = ToFront(k) /\ freq' = [freq EXCEPT ![k] = @ + 1] /\ freq[k] < MaxFreq
      /\ UNCHANGED <<cache, nbytes, pinned, hot, usage, bytes, pinnedCount, putting, saved>>
  BY DEF Get
<1>3. IsList(list') /\ Len(list') = Len(list) /\ Listed' = Listed /\ ToSet(list') = ToSet(list)
  BY <1>1, <1>2, FrontKeeps DEF Listed
<1>4. freq' \in [Keys -> 0..MaxFreq]
  <2>1. freq \in [Keys -> 0..MaxFreq] /\ MaxFreq \in Nat
    BY <1>1 DEF EntriesInv, EntriesOK, Parameters
  <2>2. freq[k] + 1 \in 0..MaxFreq
    BY <1>2, <2>1
  <2> QED
    BY <1>2, <2>1, <2>2
<1>5. EntriesInv'
  <2>1. EntriesOK(cache, list, nbytes, pinned, hot, freq, usage, bytes) /\ cache \in Caches
    BY <1>1 DEF EntriesInv
  <2>2. EntriesOK(cache, list', nbytes, pinned, hot, freq', usage, bytes)
    BY <1>3, <1>4, <2>1 DEF EntriesOK
  <2> QED
    BY <1>2, <2>1, <2>2 DEF EntriesInv
<1>6. PinnedKeys' = PinnedKeys
  BY <1>2, <1>3 DEF PinnedKeys
<1> QED
  BY <1>1, <1>2, <1>5, <1>6 DEF CacheInv, PinnedInv, PuttingInv, SavedInv, Unlocked

LEMMA MarkHotKeeps ==
  ASSUME Parameters, CacheInv, NEW k \in Keys, NEW h \in cache.hots, MarkHot(k, h)
  PROVE  CacheInv'
<1>1. /\ EntriesInv /\ pinnedCount = Cardinality(PinnedKeys) /\ saved = <<>> /\ Unlocked
      /\ pinnedCount \in Nat
  BY InvUnlocked DEF CacheInv, PinnedInv, MarkHot
<1>2. hot' = [hot EXCEPT ![k] = h]
      /\ UNCHANGED <<cache, list, nbytes, pinned, freq, usage, bytes, pinnedCount, putting, saved>>
  BY DEF MarkHot
<1>3. hot' \in [Keys -> BOOLEAN] /\ pinned' \in [Keys -> BOOLEAN]
  <2>1. h \in BOOLEAN
    BY <1>1, EntriesAreNumbers
  <2> QED
    BY <1>1, <1>2, <2>1 DEF EntriesInv, EntriesOK
<1>4. EntriesInv' /\ Listed' = Listed
  BY <1>1, <1>2, <1>3, MarksKeep
<1>5. PinnedKeys' = PinnedKeys
  BY <1>2, <1>4 DEF PinnedKeys
<1> QED
  BY <1>1, <1>2, <1>4, <1>5 DEF CacheInv, PinnedInv, PuttingInv, SavedInv, Unlocked

LEMMA PinKeeps == ASSUME Parameters, CacheInv, NEW k \in Keys, Pin(k) PROVE CacheInv'
<1>1. /\ EntriesInv /\ pinnedCount = Cardinality(PinnedKeys) /\ saved = <<>> /\ Unlocked
      /\ pinnedCount \in Nat
  BY InvUnlocked DEF CacheInv, PinnedInv, Pin
<1>2. pinned' = [pinned EXCEPT ![k] = TRUE] /\ k \in Listed /\ ~pinned[k]
      /\ pinnedCount' = pinnedCount + 1
      /\ UNCHANGED <<cache, list, nbytes, hot, freq, usage, bytes, putting, saved>>
  BY DEF Pin
<1>3. hot' \in [Keys -> BOOLEAN] /\ pinned' \in [Keys -> BOOLEAN] /\ pinned \in [Keys -> BOOLEAN]
  BY <1>1, <1>2 DEF EntriesInv, EntriesOK
<1>4. EntriesInv' /\ Listed' = Listed
  BY <1>1, <1>2, <1>3, MarksKeep
<1>5. PinnedKeys' = PinnedKeys \cup {k} /\ k \notin PinnedKeys
  BY <1>2, <1>3, <1>4 DEF PinnedKeys
<1>6. Cardinality(PinnedKeys') = Cardinality(PinnedKeys) + 1
  BY <1>1, <1>5, EntriesAreNumbers, FS_AddElement
<1>7. pinnedCount' \in Nat /\ pinnedCount' = Cardinality(PinnedKeys')
  BY <1>1, <1>2, <1>6
<1> QED
  BY <1>1, <1>2, <1>4, <1>7 DEF CacheInv, PinnedInv, PuttingInv, SavedInv, Unlocked

LEMMA UnpinKeeps == ASSUME Parameters, CacheInv, NEW k \in Keys, Unpin(k) PROVE CacheInv'
<1>1. /\ EntriesInv /\ pinnedCount = Cardinality(PinnedKeys) /\ saved = <<>> /\ Unlocked
      /\ pinnedCount \in Nat
  BY InvUnlocked DEF CacheInv, PinnedInv, Unpin
<1>2. pinned' = [pinned EXCEPT ![k] = FALSE] /\ k \in Listed /\ pinned[k]
      /\ pinnedCount' = pinnedCount - 1
      /\ UNCHANGED <<cache, list, nbytes, hot, freq, usage, bytes, putting, saved>>
  BY DEF Unpin
<1>3. hot' \in [Keys -> BOOLEAN] /\ pinned' \in [Keys -> BOOLEAN] /\ pinned \in [Keys -> BOOLEAN]
  BY <1>1, <1>2 DEF EntriesInv, EntriesOK
<1>4. EntriesInv' /\ Listed' = Listed
  BY <1>1, <1>2, <1>3, MarksKeep
<1>5. PinnedKeys' = PinnedKeys \ {k} /\ k \in PinnedKeys
  BY <1>2, <1>3, <1>4 DEF PinnedKeys
<1>6. /\ Cardinality(PinnedKeys') = Cardinality(PinnedKeys) - 1
      /\ Cardinality(PinnedKeys') \in Nat
  BY <1>1, <1>5, EntriesAreNumbers, FS_RemoveElement, FS_CardinalityType
<1>7. pinnedCount' \in Nat /\ pinnedCount' = Cardinality(PinnedKeys')
  BY <1>1, <1>2, <1>6
<1> QED
  BY <1>1, <1>2, <1>4, <1>7 DEF CacheInv, PinnedInv, PuttingInv, SavedInv, Unlocked

\* cache.c counts a dropped pinned entry off; expert_cache.py does not yet.
LEMMA DropCounts ==
  ASSUME Parameters, EntriesInv, NEW k \in Listed, Drop(k), cache' = cache,
         pinnedCount \in Nat, cache.impl = C => pinnedCount = Cardinality(PinnedKeys)
  PROVE  pinnedCount' \in Nat /\ (cache.impl = C => pinnedCount' = Cardinality(PinnedKeys'))
<1>1. PinnedKeys' = PinnedKeys \ {k} /\ IsFiniteSet(PinnedKeys)
  BY DropKeeps, EntriesAreNumbers
<1>2. pinnedCount' = IF cache.impl = C /\ pinned[k] THEN pinnedCount - 1 ELSE pinnedCount
  BY DEF Drop
<1>3. CASE cache.impl = C /\ pinned[k]
  <2>1. k \in PinnedKeys
    BY <1>3 DEF PinnedKeys
  <2>2. /\ Cardinality(PinnedKeys') = Cardinality(PinnedKeys) - 1
        /\ Cardinality(PinnedKeys') \in Nat
    BY <1>1, <2>1, FS_RemoveElement, FS_CardinalityType
  <2> QED
    BY <1>2, <1>3, <2>2
<1>4. CASE cache.impl # C
  BY <1>2, <1>4
<1>5. CASE ~pinned[k]
  <2>1. PinnedKeys' = PinnedKeys
    BY <1>1, <1>5 DEF PinnedKeys
  <2> QED
    BY <1>2, <1>5, <2>1
<1> QED
  BY <1>3, <1>4, <1>5

LEMMA PutBeginKeeps ==
  ASSUME Parameters, CacheInv, NEW k \in Keys, NEW size \in Sizes, NEW pin \in BOOLEAN,
         NEW h \in cache.hots, PutBegin(k, size, pin, h)
  PROVE  CacheInv'
<1>1. /\ EntriesInv /\ pinnedCount = Cardinality(PinnedKeys) /\ Unlocked /\ pinnedCount \in Nat
      /\ cache' = cache /\ cache \in Caches /\ cache.impl \in {C, Py}
      /\ MaxBytes > 0 => size <= MaxBytes
  BY InvUnlocked, EntriesAreNumbers DEF CacheInv, PinnedInv, PutBegin, EntriesInv
<1>2. /\ EntriesInv' /\ Listed' \subseteq Listed \ {k}
      /\ pinnedCount' \in Nat /\ (cache.impl = C => pinnedCount' = Cardinality(PinnedKeys'))
  <2>1. CASE k \in Listed
    <3>1. Drop(k)
      BY <2>1 DEF PutBegin
    <3> QED
      BY <1>1, <2>1, <3>1, DropKeeps, DropCounts
  <2>2. CASE k \notin Listed
    <3>1. UNCHANGED <<entries, pinnedCount, cache>>
      BY <1>1, <2>2 DEF PutBegin
    <3>2. EntriesInv' /\ Listed' = Listed /\ PinnedKeys' = PinnedKeys
      BY <1>1, <3>1 DEF entries, EntriesInv, Listed, PinnedKeys
    <3> QED
      BY <1>1, <2>2, <3>1, <3>2
  <2> QED
    BY <2>1, <2>2
<1>3. putting' = [key |-> k, size |-> size,
                  pin |-> pin \/ (k \in Listed /\ pinned[k]),
                  hot |-> h \/ (k \in Listed /\ hot[k])]
  BY DEF PutBegin
<1>4. putting' \in [key : Keys, size : Sizes, pin : BOOLEAN, hot : BOOLEAN] /\ putting'.key = k
      /\ putting'.size = size
  <2>1. (pin \/ (k \in Listed /\ pinned[k])) \in BOOLEAN
        /\ (h \/ (k \in Listed /\ hot[k])) \in BOOLEAN
    OBVIOUS
  <2> QED
    BY <1>3, <2>1
<1>5. ~Unlocked'
  BY <1>4 DEF Unlocked, NoPut, Parameters
<1>6. PinnedInv' /\ PuttingInv'
  BY <1>1, <1>2, <1>4, <1>5 DEF PinnedInv, PuttingInv
<1>7. SavedInv'
  <2>1. CASE cache.impl = C
    <3>1. saved' = <<>>
      BY <2>1 DEF PutBegin, C, Py
    <3> QED
      BY <1>1, <2>1, <3>1 DEF SavedInv
  <2>2. CASE cache.impl = Py
    <3>1. saved' = <<list, nbytes, pinned, hot, freq, usage, bytes>> /\ Py # C
      BY <2>2 DEF PutBegin, entries, C, Py
    <3>2. /\ saved'[1] = list /\ saved'[2] = nbytes /\ saved'[3] = pinned /\ saved'[4] = hot
          /\ saved'[5] = freq /\ saved'[6] = usage /\ saved'[7] = bytes
      BY <3>1
    <3>3. EntriesOK(cache, list, nbytes, pinned, hot, freq, usage, bytes)
      BY <1>1 DEF EntriesInv
    <3>4. Listed' \subseteq ToSet(list)
      BY <1>2 DEF Listed
    <3> QED
      BY <1>1, <1>5, <2>2, <3>1, <3>2, <3>3, <3>4 DEF SavedInv
  <2> QED
    BY <1>1, <2>1, <2>2
<1> QED
  BY <1>2, <1>6, <1>7 DEF CacheInv

LEMMA PutEvictKeeps == ASSUME Parameters, CacheInv, PutEvict PROVE CacheInv'
<1>1. /\ EntriesInv /\ ~Unlocked /\ Drop(Victim) /\ Victim # NoKey
      /\ UNCHANGED <<cache, putting, saved>>
      /\ pinnedCount \in Nat /\ cache.impl \in {C, Py}
      /\ cache.impl = C => pinnedCount = Cardinality(PinnedKeys)
  BY EntriesAreNumbers DEF CacheInv, PinnedInv, PutEvict
<1>2. Victim \in Listed
  BY <1>1, EntriesAreNumbers, VictimMayGo
<1>3. /\ EntriesInv' /\ Listed' \subseteq Listed
      /\ pinnedCount' \in Nat /\ (cache.impl = C => pinnedCount' = Cardinality(PinnedKeys'))
  <2> DEFINE v == Victim
  <2>1. v \in Listed /\ Drop(v)
    BY <1>1, <1>2
  <2> HIDE DEF v
  <2> QED
    BY <1>1, <2>1, DropKeeps, DropCounts
<1>4. PinnedInv' /\ PuttingInv'
  BY <1>1, <1>3 DEF CacheInv, PinnedInv, PuttingInv, Unlocked
<1>5. SavedInv'
  BY <1>1, <1>3 DEF CacheInv, SavedInv, Unlocked
<1> QED
  BY <1>3, <1>4, <1>5 DEF CacheInv

LEMMA PutGiveUpKeeps == ASSUME Parameters, CacheInv, PutGiveUp PROVE CacheInv'
<1>1. /\ EntriesInv /\ ~Unlocked /\ cache' = cache /\ putting' = NoPut /\ saved' = <<>>
      /\ cache \in Caches /\ cache.impl \in {C, Py}
      /\ pinnedCount' = IF cache.impl = Py THEN Cardinality({k \in ToSet(list') : pinned'[k]})
                        ELSE pinnedCount
      /\ Restored
  BY EntriesAreNumbers DEF CacheInv, EntriesInv, PutGiveUp
<1>2. EntriesInv'
  <2>1. CASE cache.impl = Py
    <3>1. /\ EntriesOK(cache, saved[1], saved[2], saved[3], saved[4], saved[5], saved[6], saved[7])
          /\ Py # C
      BY <1>1, <2>1 DEF CacheInv, SavedInv, C, Py
    <3>2. /\ list' = saved[1] /\ nbytes' = saved[2] /\ pinned' = saved[3] /\ hot' = saved[4]
          /\ freq' = saved[5] /\ usage' = saved[6] /\ bytes' = saved[7]
      BY <1>1, <2>1 DEF Restored
    <3> QED
      BY <1>1, <3>1, <3>2 DEF EntriesInv
  <2>2. CASE cache.impl # Py
    <3>1. /\ list' = list /\ nbytes' = nbytes /\ pinned' = pinned /\ hot' = hot
          /\ freq' = freq /\ usage' = usage /\ bytes' = bytes
      BY <1>1, <2>2 DEF Restored, entries
    <3> QED
      BY <1>1, <3>1 DEF EntriesInv
  <2> QED
    BY <2>1, <2>2
<1>3. pinnedCount' = Cardinality(PinnedKeys')
  <2>1. CASE cache.impl = Py
    BY <1>1, <2>1 DEF PinnedKeys, Listed
  <2>2. CASE cache.impl = C
    <3>1. list' = list /\ pinned' = pinned /\ C # Py
      BY <1>1, <2>2 DEF Restored, entries, C, Py
    <3>2. PinnedKeys' = PinnedKeys /\ pinnedCount = Cardinality(PinnedKeys)
      BY <2>2, <3>1 DEF PinnedKeys, Listed, CacheInv, PinnedInv
    <3> QED
      BY <1>1, <2>2, <3>1, <3>2
  <2> QED
    BY <1>1, <2>1, <2>2
<1>4. Cardinality(PinnedKeys') \in Nat
  <2>1. IsList(list')
    BY <1>2 DEF EntriesInv, EntriesOK
  <2>2. IsFiniteSet(ToSet(list')) /\ PinnedKeys' \subseteq ToSet(list')
    BY <2>1, ListIsFinite DEF PinnedKeys, Listed
  <2> QED
    BY <2>2, FS_Subset, FS_CardinalityType
<1> QED
  BY <1>1, <1>2, <1>3, <1>4 DEF CacheInv, PinnedInv, PuttingInv, SavedInv, Unlocked

LEMMA PutInsertKeeps == ASSUME Parameters, CacheInv, PutInsert PROVE CacheInv'
<1>1. /\ EntriesInv /\ ~Unlocked /\ cache' = cache /\ putting' = NoPut /\ saved' = <<>>
      /\ cache \in Caches /\ cache.impl \in {C, Py}
      /\ pinnedCount' = IF cache.impl = Py THEN Cardinality({k \in ToSet(list') : pinned'[k]})
                        ELSE IF putting.pin THEN pinnedCount + 1 ELSE pinnedCount
  BY EntriesAreNumbers DEF CacheInv, EntriesInv, PutInsert
<1>2. /\ putting.key \in Keys /\ putting.key \notin Listed /\ putting.size \in Sizes
      /\ putting.pin \in BOOLEAN /\ putting.hot \in BOOLEAN
  BY <1>1 DEF CacheInv, PuttingInv, Unlocked
<1>3. /\ EntriesInv' /\ Listed' = Listed \cup {putting.key}
      /\ PinnedKeys' = IF putting.pin THEN PinnedKeys \cup {putting.key} ELSE PinnedKeys
  BY <1>1, <1>2, InsertKeeps
<1>4. Cardinality(PinnedKeys') \in Nat
  <2>1. IsList(list')
    BY <1>3 DEF EntriesInv, EntriesOK
  <2>2. IsFiniteSet(ToSet(list')) /\ PinnedKeys' \subseteq ToSet(list')
    BY <2>1, ListIsFinite DEF PinnedKeys, Listed
  <2> QED
    BY <2>2, FS_Subset, FS_CardinalityType
<1>5. pinnedCount' = Cardinality(PinnedKeys')
  <2>1. CASE cache.impl = Py
    BY <1>1, <2>1 DEF PinnedKeys, Listed
  <2>2. CASE cache.impl = C
    <3>1. C # Py
      BY DEF C, Py
    <3>2. pinnedCount = Cardinality(PinnedKeys)
      BY <2>2 DEF CacheInv, PinnedInv
    <3>3. IsFiniteSet(PinnedKeys) /\ putting.key \notin PinnedKeys
      BY <1>1, <1>2, EntriesAreNumbers DEF PinnedKeys
    <3>4. Cardinality(PinnedKeys \cup {putting.key}) = Cardinality(PinnedKeys) + 1
      BY <3>3, FS_AddElement
    <3> QED
      BY <1>1, <1>3, <2>2, <3>1, <3>2, <3>4
  <2> QED
    BY <1>1, <2>1, <2>2
<1> QED
  BY <1>1, <1>3, <1>4, <1>5 DEF CacheInv, PinnedInv, PuttingInv, SavedInv, Unlocked

LEMMA InitCacheInv == ASSUME Parameters, Init PROVE CacheInv
<1>1. /\ cache \in Caches /\ list = <<>> /\ nbytes = [k \in Keys |-> 0]
      /\ pinned = [k \in Keys |-> FALSE] /\ hot = [k \in Keys |-> FALSE]
      /\ freq = [k \in Keys |-> 0] /\ usage = [p \in Parts |-> 0]
      /\ bytes = 0 /\ pinnedCount = 0 /\ putting = NoPut /\ saved = <<>>
  BY DEF Init
<1>2. IsList(list) /\ ToSet(list) = {} /\ Len(list) = 0
  <2>1. list \in Seq(Keys) /\ DOMAIN list = {} /\ Len(list) = 0
    BY <1>1
  <2> QED
    BY <2>1 DEF IsList, ToSet
<1>3. BytesOf({}, nbytes) = 0
  BY BytesOfNone
<1>4. cache.maxItems \in Nat /\ MaxBytes \in Nat /\ 0 \in 0..MaxFreq
  <2>1. MaxFreq \in Nat /\ MaxBytes \in Nat
    BY DEF Parameters
  <2>2. cache.maxItems \in Nat
    BY <1>1 DEF Parameters
  <2> QED
    BY <2>1, <2>2
<1>5. cache.impl = Py =>
        \A p \in Parts : usage[p] = BytesOf({k \in ToSet(list) : PartitionOf[k] = p}, nbytes)
  <2>1. \A p \in Parts : {k \in ToSet(list) : PartitionOf[k] = p} = {} /\ usage[p] = 0
    BY <1>1, <1>2
  <2> QED
    BY <1>3, <2>1
<1>6. /\ nbytes \in [Keys -> Sizes \cup {0}] /\ freq \in [Keys -> 0..MaxFreq]
      /\ pinned \in [Keys -> BOOLEAN] /\ hot \in [Keys -> BOOLEAN] /\ usage \in [Parts -> Nat]
  BY <1>1, <1>4
<1>7. EntriesInv
  <2>1. MaxBytes > 0 => bytes <= MaxBytes
    BY <1>1, <1>4
  <2>2. cache.maxItems > 0 => Len(list) <= cache.maxItems
    BY <1>2, <1>4
  <2>3. bytes = BytesOf(ToSet(list), nbytes)
    BY <1>1, <1>2, <1>3
  <2>4. EntriesOK(cache, list, nbytes, pinned, hot, freq, usage, bytes)
    BY <1>2, <1>5, <1>6, <2>1, <2>2, <2>3 DEF EntriesOK
  <2> QED
    BY <1>1, <2>4 DEF EntriesInv
<1>8. Cardinality(PinnedKeys) = 0
  <2>1. PinnedKeys = {}
    BY <1>2 DEF PinnedKeys, Listed
  <2> QED
    BY <2>1, FS_EmptySet
<1> QED
  BY <1>1, <1>7, <1>8 DEF CacheInv, PinnedInv, PuttingInv, SavedInv, Unlocked

LEMMA NextCacheInv == ASSUME Parameters, CacheInv, [Next]_vars PROVE CacheInv'
<1>1. CASE \E k \in Keys : Get(k)
  BY <1>1, GetKeeps
<1>2. CASE \E k \in Keys : Put(k)
  BY <1>2, PutBeginKeeps DEF Put
<1>3. CASE \E k \in Keys : Pin(k)
  BY <1>3, PinKeeps
<1>4. CASE \E k \in Keys : Unpin(k)
  BY <1>4, UnpinKeeps
<1>5. CASE \E k \in Keys, h \in cache.hots : MarkHot(k, h)
  BY <1>5, MarkHotKeeps
<1>6. CASE PutEvict
  BY <1>6, PutEvictKeeps
<1>7. CASE PutGiveUp
  BY <1>7, PutGiveUpKeeps
<1>8. CASE PutInsert
  BY <1>8, PutInsertKeeps
<1>9. CASE UNCHANGED vars
  BY <1>9 DEF vars, CacheInv, EntriesInv, PinnedInv, PuttingInv, SavedInv, Unlocked, Listed,
     PinnedKeys
<1> QED
  BY <1>1, <1>2, <1>3, <1>4, <1>5, <1>6, <1>7, <1>8, <1>9 DEF Next

-----------------------------------------------------------------------------
(* What a step may not do *)

\* Entries leave in three ways: a get moves one, a put takes the old entry of its
\* key away or evicts the victim.
LEMMA WhatLeaves ==
  ASSUME Parameters, CacheInv, [Next]_vars, NEW v \in Leaving
  PROVE  \/ Unlocked /\ v = putting'.key
         \/ ~Unlocked /\ PutEvict /\ v = Victim /\ Victim \in Listed /\ MayGo(Victim)
<1>1. EntriesInv /\ v \in Listed /\ v \notin ToSet(list') /\ Listed' = ToSet(list')
  BY DEF CacheInv, Leaving, Listed
<1>2. CASE \E k \in Keys : Get(k)
  <2>1. PICK k \in Keys : Get(k)
    BY <1>2
  <2>2. ToSet(list') = Listed
    BY <1>1, <2>1, FrontKeeps DEF Get
  <2> QED
    BY <1>1, <2>2
<1>3. CASE \E k \in Keys : Put(k)
  <2>1. PICK k \in Keys, size \in Sizes, pin \in BOOLEAN, h \in cache.hots :
          PutBegin(k, size, pin, h)
    BY <1>3 DEF Put
  <2>2. Unlocked /\ cache' = cache /\ putting'.key = k
    BY <2>1 DEF PutBegin
  <2>3. CASE k \in Listed
    <3>1. Listed' = Listed \ {k}
      BY <1>1, <2>1, <2>2, <2>3, DropKeeps DEF PutBegin
    <3> QED
      BY <1>1, <2>2, <3>1
  <2>4. CASE k \notin Listed
    BY <1>1, <2>1, <2>4 DEF PutBegin, entries, Listed
  <2> QED
    BY <2>3, <2>4
<1>4. CASE list' = list
  BY <1>1, <1>4 DEF Listed
<1>5. CASE PutEvict
  <2>1. Victim \in Listed /\ MayGo(Victim)
    BY <1>1, <1>5, EntriesAreNumbers, VictimMayGo DEF PutEvict
  <2>2. Listed' = Listed \ {Victim}
    <3> DEFINE u == Victim
    <3>1. u \in Listed /\ Drop(u) /\ cache' = cache
      BY <1>5, <2>1 DEF PutEvict
    <3>2. Listed' = Listed \ {u}
      <4> HIDE DEF u
      <4> QED
        BY <1>1, <3>1, DropKeeps
    <3> QED
      BY <3>2
  <2> QED
    BY <1>1, <1>5, <2>1, <2>2 DEF PutEvict
<1>6. CASE PutGiveUp
  <2>1. CASE cache.impl = Py
    <3>1. Listed \subseteq ToSet(saved[1])
      BY <1>6, <2>1 DEF CacheInv, SavedInv, PutGiveUp, C, Py
    <3>2. list' = saved[1]
      BY <1>6, <2>1 DEF PutGiveUp, Restored
    <3> QED
      BY <1>1, <3>1, <3>2
  <2>2. CASE cache.impl # Py
    <3>1. list' = list
      BY <1>6, <2>2 DEF PutGiveUp, Restored, entries
    <3> QED
      BY <1>1, <3>1 DEF Listed
  <2> QED
    BY <2>1, <2>2
<1>7. CASE PutInsert
  <2>1. ~Unlocked
    BY <1>7 DEF PutInsert
  <2>2. /\ putting.key \in Keys /\ putting.key \notin Listed /\ putting.size \in Sizes
        /\ putting.pin \in BOOLEAN /\ putting.hot \in BOOLEAN
    BY <2>1 DEF CacheInv, PuttingInv, Unlocked
  <2>3. Listed' = Listed \cup {putting.key}
    BY <1>1, <1>7, <2>2, InsertKeeps
  <2> QED
    BY <1>1, <2>3
<1>8. list' = list \/ (\E k \in Keys : Get(k)) \/ (\E k \in Keys : Put(k))
      \/ PutEvict \/ PutGiveUp \/ PutInsert
  BY DEF Next, Pin, Unpin, MarkHot, vars
<1> QED
  BY <1>2, <1>3, <1>4, <1>5, <1>6, <1>7, <1>8

LEMMA PinsHold == ASSUME Parameters, CacheInv, [Next]_vars PROVE KeepsPinned
<1> SUFFICES ASSUME NEW k \in Leaving, pinned[k]
             PROVE  Unlocked /\ putting'.key = k
  BY DEF KeepsPinned
<1> QED
  BY WhatLeaves DEF MayGo

LEMMA FairShares == ASSUME Parameters, CacheInv, [Next]_vars PROVE EvictsFromOverShare
<1> SUFFICES ASSUME NEW v \in Evicted, Partitions > 0, ~OverShare(v)
             PROVE  \A k \in Listed : pinned[k] \/ ~OverShare(k)
  BY DEF EvictsFromOverShare
<1>1. v \in Leaving /\ ~Unlocked
  BY DEF Evicted
<1>2. MayGo(v)
  BY <1>1, WhatLeaves
<1> QED
  BY <1>2 DEF MayGo, AnyOver

\* When no entry may go, all are pinned.
LEMMA NoneMayGo ==
  ASSUME \A k \in Listed : ~MayGo(k)
  PROVE  PinnedKeys = Listed
<1>1. ~AnyOver
  BY DEF MayGo, AnyOver
<1> QED
  BY <1>1 DEF MayGo, PinnedKeys

LEMMA PinsReject == ASSUME Parameters, CacheInv PROVE GivesUpForPins
<1> SUFFICES ASSUME PutGiveUp
             PROVE  \/ MaxBytes > 0 /\ Bytes(PinnedKeys) + putting.size > MaxBytes
                    \/ cache.maxItems > 0 /\ Cardinality(PinnedKeys) + 1 > cache.maxItems
  BY DEF GivesUpForPins
<1>1. EntriesInv
  BY DEF CacheInv
<1>2. PinnedKeys = Listed
  BY <1>1, EntriesAreNumbers, VictimMayGo, NoneMayGo DEF PutGiveUp
<1>3. bytes = Bytes(Listed) /\ Cardinality(Listed) = Len(list)
  BY <1>1, EntriesAreNumbers DEF EntriesInv, EntriesOK, Bytes, Listed
<1> QED
  BY <1>2, <1>3 DEF PutGiveUp, NoRoom

LEMMA CountersAgree == Parameters /\ CacheInv => CountersAreExact
<1> SUFFICES ASSUME Parameters, CacheInv
             PROVE  CountersAreExact
  OBVIOUS
<1>1. Len(list) = Cardinality(Listed)
  BY EntriesAreNumbers DEF CacheInv
<1> QED
  BY <1>1 DEF CountersAreExact, CacheInv, EntriesInv, EntriesOK, PinnedInv, Bytes, Listed,
     InPartition

LEMMA LimitsHold == CacheInv => WithinBudget
BY DEF CacheInv, EntriesInv, EntriesOK, WithinBudget

LEMMA CacheTypes == Parameters /\ CacheInv => TypeOK
<1> SUFFICES ASSUME Parameters, CacheInv
             PROVE  TypeOK
  OBVIOUS
<1>1. bytes \in Nat
  BY EntriesAreNumbers DEF CacheInv
<1>2. putting \in [key : Keys \cup {NoKey}, size : Sizes \cup {0}, pin : BOOLEAN, hot : BOOLEAN]
  <2>1. NoKey \in Keys \cup {NoKey} /\ 0 \in Sizes \cup {0} /\ FALSE \in BOOLEAN
    OBVIOUS
  <2>2. CASE putting = NoPut
    BY <2>1, <2>2 DEF NoPut
  <2>3. CASE putting \in [key : Keys, size : Sizes, pin : BOOLEAN, hot : BOOLEAN]
    BY <2>3
  <2> QED
    BY <2>2, <2>3 DEF CacheInv, PuttingInv
<1>3. saved = <<>> \/ DOMAIN saved = DOMAIN entries
  <2>1. CASE Unlocked \/ cache.impl = C
    BY <2>1 DEF CacheInv, SavedInv
  <2>2. CASE ~ (Unlocked \/ cache.impl = C)
    <3>1. saved = <<saved[1], saved[2], saved[3], saved[4], saved[5], saved[6], saved[7]>>
      BY <2>2 DEF CacheInv, SavedInv
    <3>2. DOMAIN saved = 1..7
      BY <3>1
    <3>3. DOMAIN entries = 1..7
      BY DEF entries
    <3> QED
      BY <3>2, <3>3
  <2> QED
    BY <2>1, <2>2
<1> QED
  BY <1>1, <1>2, <1>3 DEF CacheInv, EntriesInv, EntriesOK, PinnedInv, TypeOK, IsList

-----------------------------------------------------------------------------
(* The least valued entry *)

\* Caches whose victims are the least valued: pick_victim of cache.c forgets the
\* score of a cold entry that takes the place of a hot one, which only lru does
\* not notice.
Orders(c) == c.impl = Py \/ c.policy = "lru" \/ TRUE \notin c.hots

\* What callers do not pass, no entry has.
HotInv == TRUE \notin cache.hots /\ cache.impl = C
            => ~putting.hot /\ \A k \in Keys : ~hot[k]

LEMMA InitHotInv == Init => HotInv
BY DEF Init, HotInv, NoPut

LEMMA NextHotInv == ASSUME Parameters, CacheInv, HotInv, [Next]_vars PROVE HotInv'
<1>1. /\ cache' = cache /\ hot \in [Keys -> BOOLEAN] /\ cache.hots \subseteq BOOLEAN
      /\ Listed \subseteq Keys
  <2>1. cache' = cache
    BY DEF Next, vars, Get, Put, PutBegin, Pin, Unpin, MarkHot, PutEvict, PutGiveUp, PutInsert
  <2> QED
    BY <2>1, EntriesAreNumbers DEF CacheInv, EntriesInv, EntriesOK
<1> SUFFICES ASSUME TRUE \notin cache.hots, cache.impl = C
             PROVE  ~putting'.hot /\ \A k \in Keys : ~hot'[k]
  BY <1>1 DEF HotInv
<1>2. ~putting.hot /\ \A k \in Keys : ~hot[k]
  BY DEF HotInv
<1>3. \A h \in cache.hots : ~h
  BY <1>1
<1>4. CASE hot' = hot /\ putting' = putting
  BY <1>2, <1>4
<1>5. CASE \E k \in Keys : Put(k)
  <2>1. PICK k \in Keys, size \in Sizes, pin \in BOOLEAN, h \in cache.hots :
          PutBegin(k, size, pin, h)
    BY <1>5 DEF Put
  <2>2. putting'.hot = (h \/ (k \in Listed /\ hot[k]))
    BY <2>1 DEF PutBegin
  <2>3. hot' = hot \/ hot' = [hot EXCEPT ![k] = FALSE]
    BY <2>1 DEF PutBegin, Drop, entries
  <2> QED
    BY <1>1, <1>2, <1>3, <2>2, <2>3
<1>6. CASE PutEvict
  <2>1. putting' = putting /\ hot' = [hot EXCEPT ![Victim] = FALSE]
    BY <1>6 DEF PutEvict, Drop
  <2> DEFINE v == Victim
  <2>2. hot' = [hot EXCEPT ![v] = FALSE]
    BY <2>1
  <2> HIDE DEF v
  <2> QED
    BY <1>1, <1>2, <2>1, <2>2
<1>7. CASE PutGiveUp
  <2>1. hot' = hot /\ putting' = NoPut
    BY <1>7 DEF PutGiveUp, Restored, entries, C, Py
  <2> QED
    BY <1>2, <2>1 DEF NoPut
<1>8. CASE PutInsert
  <2>1. putting' = NoPut /\ hot' = [hot EXCEPT ![putting.key] = putting.hot]
    BY <1>8 DEF PutInsert
  <2> QED
    BY <1>1, <1>2, <2>1 DEF NoPut
<1>9. CASE \E k \in Keys, h \in cache.hots : MarkHot(k, h)
  <2>1. PICK k \in Keys, h \in cache.hots : MarkHot(k, h)
    BY <1>9
  <2>2. putting' = putting /\ hot' = [hot EXCEPT ![k] = h]
    BY <2>1 DEF MarkHot
  <2> QED
    BY <1>1, <1>2, <1>3, <2>2
<1> QED
  BY <1>4, <1>5, <1>6, <1>7, <1>8, <1>9 DEF Next, Get, Pin, Unpin, vars

\* A fraction that is not above another that is below a third.
LEMMA LessAndNotMore ==
  ASSUME NEW a, NEW b, NEW c,
         a[1] \in Nat, a[2] \in Nat \ {0}, b[1] \in Nat, b[2] \in Nat \ {0},
         c[1] \in Nat, c[2] \in Nat \ {0}
  PROVE  /\ Less(a, b) /\ ~Less(c, b) => Less(a, c)
         /\ ~Less(b, a) /\ Less(b, c) => Less(a, c)
         /\ ~ (Less(a, b) /\ Less(b, a))
<1>1. PICK m \in Nat, n \in Nat \ {0}, p \in Nat, q \in Nat \ {0}, r \in Nat, t \in Nat \ {0} :
        m = a[1] /\ n = a[2] /\ p = b[1] /\ q = b[2] /\ r = c[1] /\ t = c[2]
  OBVIOUS
<1>2. ASSUME m * q < p * n, p * t <= r * q
      PROVE  m * t < r * n
  <2>1. (m * q) * t < (p * n) * t /\ (p * t) * n <= (r * q) * n
    BY <1>2
  <2>2. (p * n) * t = (p * t) * n /\ (m * q) * t = (m * t) * q /\ (r * q) * n = (r * n) * q
    OBVIOUS
  <2>3. (m * t) * q < (r * n) * q
    BY <2>1, <2>2
  <2> QED
    BY <2>3
<1>3. ASSUME m * q <= p * n, p * t < r * q
      PROVE  m * t < r * n
  <2>1. (m * q) * t <= (p * n) * t /\ (p * t) * n < (r * q) * n
    BY <1>3
  <2>2. (p * n) * t = (p * t) * n /\ (m * q) * t = (m * t) * q /\ (r * q) * n = (r * n) * q
    OBVIOUS
  <2>3. (m * t) * q < (r * n) * q
    BY <2>1, <2>2
  <2> QED
    BY <2>3
<1>4. m * q \in Nat /\ p * n \in Nat /\ p * t \in Nat /\ r * q \in Nat /\ m * t \in Nat
      /\ r * n \in Nat
  OBVIOUS
<1>5. /\ Less(a, b) <=> m * q < p * n
      /\ Less(b, a) <=> p * n < m * q
      /\ Less(b, c) <=> p * t < r * q
      /\ Less(c, b) <=> r * q < p * t
      /\ Less(a, c) <=> m * t < r * n
  BY <1>1 DEF Less
<1>6. /\ ~ (r * q < p * t) => p * t <= r * q
      /\ ~ (p * n < m * q) => m * q <= p * n
      /\ ~ (m * q < p * n /\ p * n < m * q)
  BY <1>4
<1>7. Less(a, b) /\ ~Less(c, b) => Less(a, c)
  BY <1>2, <1>5, <1>6
<1>8. ~Less(b, a) /\ Less(b, c) => Less(a, c)
  BY <1>3, <1>5, <1>6
<1>9. ~ (Less(a, b) /\ Less(b, a))
  BY <1>5, <1>6
<1> QED
  BY <1>7, <1>8, <1>9

\* v goes before k: a cold entry before a hot one, then the lower score.
Before(v, k) == /\ hot[v] => hot[k]
                /\ hot[k] = hot[v] => ~Less(Score(k), Score(v))

\* No later turn of the loop finds one that should go before, and ties keep the
\* earlier entry.
Best(s, i, j) == /\ j \in 1..i /\ MayGo(s[j])
                 /\ \A l \in 1..i : MayGo(s[l]) /\ l # j =>
                      /\ Before(s[j], s[l])
                      /\ hot[s[j]] = hot[s[l]] /\ ~Less(Score(s[j]), Score(s[l])) => j < l

LEMMA ThirdIsBehind ==
  ASSUME Scored, NEW v \in Keys, NEW b \in Keys, NEW k \in Keys,
         hot[v] = hot[b], Less(Score(v), Score(b)), Before(b, k)
  PROVE  Before(v, k) /\ (hot[v] = hot[k] => Less(Score(v), Score(k)))
<1>1. /\ Score(v)[1] \in Nat /\ Score(v)[2] \in Nat \ {0}
      /\ Score(b)[1] \in Nat /\ Score(b)[2] \in Nat \ {0}
      /\ Score(k)[1] \in Nat /\ Score(k)[2] \in Nat \ {0}
  BY ScoreIsFraction
<1>2. hot[v] = hot[k] => Less(Score(v), Score(k))
  BY <1>1, LessAndNotMore DEF Before
<1>3. ~ (Less(Score(v), Score(k)) /\ Less(Score(k), Score(v)))
  BY <1>1, LessAndNotMore
<1> QED
  BY <1>2, <1>3 DEF Before

\* In pick_victim, for the caches whose scores it does not lose.
LEMMA LoopFindsBest ==
  ASSUME Scored, NoKey \notin Keys, Orders(cache), cache.impl = C, HotInv,
         NEW s \in Seq(Keys), BestOf(s) # NoKey
  PROVE  \E j \in 1..Len(s) : BestOf(s) = s[j] /\ Best(s, Len(s), j)
<1>1. PICK f : /\ BestOf(s) = f[Len(s)].key
               /\ f[0] = Start
               /\ \A i \in 1..Len(s) : f[i] = Turn(f[i - 1], s[i])
  BY BestOfLoop
<1> DEFINE Found(i) ==
             /\ f[i].key = NoKey => \A j \in 1..i : ~MayGo(s[j])
             /\ f[i].key # NoKey => \E j \in 1..i : /\ f[i] = [key |-> s[j], score |-> Score(s[j])]
                                                    /\ Best(s, i, j)
           S == {i \in Nat : i <= Len(s) => Found(i)}
<1>2. 0 \in S
  BY <1>1 DEF Start
<1>3. ASSUME NEW i \in Nat, i \in S
      PROVE  i + 1 \in S
  <2> SUFFICES ASSUME i + 1 <= Len(s)
               PROVE  Found(i + 1)
    OBVIOUS
  <2>1. /\ i + 1 \in 1..Len(s) /\ (i + 1) - 1 = i /\ s[i + 1] \in Keys /\ Found(i)
        /\ \A j \in 1..i : s[j] \in Keys
        /\ 1..(i + 1) = (1..i) \cup {i + 1} /\ i + 1 \notin 1..i
        /\ \A j \in 1..i : j < i + 1
    <3>1. i + 1 \in 1..Len(s) /\ Len(s) \in Nat
      OBVIOUS
    <3>2. \A j \in 1..(i + 1) : s[j] \in Keys
      BY <3>1
    <3>3. Found(i)
      BY <1>3, <3>1
    <3> HIDE DEF Found
    <3> QED
      BY <3>1, <3>2, <3>3
  <2>2. PICK k \in Keys : k = s[i + 1]
    BY <2>1
  <2>3. f[i + 1] = Turn(f[i], k)
    BY <1>1, <2>1, <2>2
  <2>4. CASE ~MayGo(k)
    <3>1. f[i + 1] = f[i]
      BY <2>3, <2>4 DEF Turn
    <3>2. ASSUME f[i].key # NoKey
          PROVE  \E j \in 1..(i + 1) : /\ f[i] = [key |-> s[j], score |-> Score(s[j])]
                                      /\ Best(s, i + 1, j)
      <4>1. PICK j \in 1..i : f[i] = [key |-> s[j], score |-> Score(s[j])] /\ Best(s, i, j)
        BY <2>1, <3>2
      <4>2. Best(s, i + 1, j)
        BY <2>1, <2>2, <2>4, <4>1 DEF Best
      <4> QED
        BY <2>1, <4>1, <4>2
    <3>3. f[i].key = NoKey => \A j \in 1..(i + 1) : ~MayGo(s[j])
      BY <2>1, <2>2, <2>4
    <3> QED
      BY <3>1, <3>2, <3>3
  <2>5. CASE MayGo(k) /\ f[i].key = NoKey
    <3>1. f[i + 1] = [key |-> k, score |-> Score(k)]
      BY <2>3, <2>5 DEF Turn, Better
    <3>2. Best(s, i + 1, i + 1)
      BY <2>1, <2>2, <2>5 DEF Best
    <3>3. f[i + 1].key # NoKey
      BY <3>1
    <3> QED
      BY <2>1, <2>2, <3>1, <3>2, <3>3
  <2>6. CASE MayGo(k) /\ f[i].key # NoKey
    <3>1. PICK j \in 1..i : f[i] = [key |-> s[j], score |-> Score(s[j])] /\ Best(s, i, j)
      BY <2>1, <2>6
    <3>2. PICK b \in Keys : b = s[j]
      BY <2>1
    <3>3. f[i].key = b /\ f[i].score = Score(b)
      BY <3>1, <3>2
    <3>4. f[i + 1] = Better(f[i], k)
      BY <2>3, <2>6 DEF Turn
    <3>5. /\ Score(k)[1] \in Nat /\ Score(k)[2] \in Nat \ {0}
          /\ Score(b)[1] \in Nat /\ Score(b)[2] \in Nat \ {0}
          /\ hot[k] \in BOOLEAN /\ hot[b] \in BOOLEAN
      BY ScoreIsFraction DEF Scored
    <3>6. ASSUME f[i + 1] = f[i], Before(b, k)
          PROVE  Found(i + 1)
      <4>1. Best(s, i + 1, j)
        <5> SUFFICES ASSUME NEW l \in 1..(i + 1), MayGo(s[l]), l # j
                     PROVE  /\ Before(s[j], s[l])
                            /\ hot[s[j]] = hot[s[l]] /\ ~Less(Score(s[j]), Score(s[l])) => j < l
          BY <2>1, <3>1 DEF Best
        <5>1. CASE l \in 1..i
          BY <3>1, <5>1 DEF Best
        <5>2. CASE l = i + 1
          BY <2>1, <2>2, <3>2, <3>6, <5>2
        <5> QED
          BY <2>1, <5>1, <5>2
      <4> QED
        BY <2>1, <2>6, <3>1, <3>6, <4>1
    <3>7. ASSUME f[i + 1] = [key |-> k, score |-> Score(k)],
                 \A l \in 1..i : MayGo(s[l]) =>
                   /\ Before(k, s[l])
                   /\ hot[k] = hot[s[l]] => Less(Score(k), Score(s[l]))
          PROVE  Found(i + 1)
      <4>1. Best(s, i + 1, i + 1)
        <5> SUFFICES ASSUME NEW l \in 1..i, MayGo(s[l])
                     PROVE  /\ Before(s[i + 1], s[l])
                            /\ hot[s[i + 1]] = hot[s[l]] /\ ~Less(Score(s[i + 1]), Score(s[l]))
                                 => i + 1 < l
          BY <2>1, <2>2, <2>6 DEF Best
        <5> QED
          BY <2>2, <3>7
      <4>2. f[i + 1].key # NoKey
        BY <3>7
      <4> QED
        BY <2>1, <2>2, <3>7, <4>1, <4>2
    <3>8. CASE ~hot[k] /\ hot[b]
      <4>1. f[i + 1] = [key |-> k, score |-> <<0, 1>>]
        BY <2>6, <3>3, <3>4, <3>8 DEF Better
      <4>2. Score(k) = <<0, 1>>
        <5>1. cache.policy = "lru"
          BY <3>8 DEF Orders, HotInv, C, Py
        <5> QED
          BY <5>1 DEF Score
      <4>3. \A l \in 1..i : MayGo(s[l]) => hot[s[l]]
        BY <3>1, <3>2, <3>8 DEF Best, Before
      <4> QED
        BY <3>7, <3>8, <4>1, <4>2, <4>3 DEF Before
    <3>9. CASE hot[k] /\ ~hot[b]
      <4>1. f[i + 1] = f[i]
        BY <2>6, <3>3, <3>4, <3>9 DEF Better
      <4>2. Before(b, k)
        BY <3>9 DEF Before
      <4> QED
        BY <3>6, <4>1, <4>2
    <3>10. CASE hot[k] = hot[b] /\ Less(Score(k), Score(b))
      <4>1. f[i + 1] = [key |-> k, score |-> Score(k)]
        BY <2>6, <3>3, <3>4, <3>10 DEF Better
      <4>2. ASSUME NEW l \in 1..i, MayGo(s[l])
            PROVE  /\ Before(k, s[l])
                   /\ hot[k] = hot[s[l]] => Less(Score(k), Score(s[l]))
        <5>1. PICK x \in Keys : x = s[l]
          BY <2>1
        <5>2. Before(b, x)
          <6>1. CASE l = j
            <7>1. ~Less(Score(b), Score(b))
              BY <3>5, LessAndNotMore
            <7> QED
              BY <3>2, <5>1, <6>1, <7>1 DEF Before
          <6>2. CASE l # j
            BY <3>1, <3>2, <4>2, <5>1, <6>2 DEF Best
          <6> QED
            BY <6>1, <6>2
        <5> QED
          BY <3>10, <5>1, <5>2, ThirdIsBehind
      <4> QED
        BY <3>7, <4>1, <4>2
    <3>11. CASE hot[k] = hot[b] /\ ~Less(Score(k), Score(b))
      <4>1. f[i + 1] = f[i]
        BY <2>6, <3>3, <3>4, <3>11 DEF Better
      <4>2. Before(b, k)
        BY <3>11 DEF Before
      <4> QED
        BY <3>6, <4>1, <4>2
    <3> QED
      BY <3>5, <3>8, <3>9, <3>10, <3>11
  <2> QED
    BY <2>4, <2>5, <2>6
<1>4. Nat \subseteq S
  <2> HIDE DEF S
  <2> QED
    BY <1>2, <1>3, Induction
<1>5. Found(Len(s))
  BY <1>4
<1>6. PICK j \in 1..Len(s) : /\ f[Len(s)] = [key |-> s[j], score |-> Score(s[j])]
                             /\ Best(s, Len(s), j)
  BY <1>1, <1>5
<1>7. BestOf(s) = s[j]
  BY <1>1, <1>6
<1> QED
  BY <1>6, <1>7

\* In _victim: the last of the least valued among the cold ones, if any is cold.
LEMMA MinIsBest ==
  ASSUME Scored, cache.impl = Py, Victim # NoKey
  PROVE  \E i \in DOMAIN list :
           /\ Victim = list[i]
           /\ \A l \in DOMAIN list : MayGo(list[l]) /\ l # i =>
                /\ Before(list[i], list[l])
                /\ hot[list[i]] = hot[list[l]] /\ ~Less(Score(list[i]), Score(list[l])) => l < i
<1> DEFINE candidates == {k \in Listed : MayGo(k)}
           cold == {k \in candidates : ~hot[k]}
           coldest == IF cold = {} THEN candidates ELSE cold
           least == {k \in coldest : \A x \in coldest : ~Less(Score(x), Score(k))}
           places == {i \in DOMAIN list : list[i] \in least}
<1>1. /\ Len(list) \in Nat /\ DOMAIN list = 1..Len(list) /\ Listed \subseteq Keys
      /\ \A k \in Keys : hot[k] \in BOOLEAN
  BY ListIsFinite DEF Scored, Listed
<1>2. Victim = list[Max(places)] /\ least # {}
  BY DEF Victim, VictimInPy
<1>3. Max(places) \in places /\ \A x \in places : x <= Max(places)
  <2>1. least \subseteq Listed
    OBVIOUS
  <2>2. places # {} /\ places \subseteq 1..Len(list)
    <3> HIDE DEF least
    <3> QED
      BY <1>1, <1>2, <2>1 DEF Listed, ToSet
  <2> HIDE DEF places
  <2> QED
    BY <1>1, <2>2, LastPlace
<1>4. PICK i \in DOMAIN list : i = Max(places)
  <2> HIDE DEF least
  <2> QED
    BY <1>3
<1>5. PICK v \in Keys : v = list[i] /\ v \in least
  <2>1. list[i] \in least
    <3> HIDE DEF least
    <3> QED
      BY <1>3, <1>4
  <2>2. list[i] \in Keys
    BY <1>1, <1>4 DEF Listed, ToSet
  <2> QED
    BY <2>1, <2>2
<1>6. ASSUME NEW l \in DOMAIN list, MayGo(list[l]), l # i
      PROVE  /\ Before(v, list[l])
             /\ hot[v] = hot[list[l]] /\ ~Less(Score(v), Score(list[l])) => l < i
  <2>1. PICK k \in Keys : k = list[l] /\ k \in candidates
    BY <1>1, <1>6 DEF Listed, ToSet
  <2>2. hot[v] => hot[k] /\ k \in coldest
    <3>1. hot[v] => cold = {}
      BY <1>5
    <3> QED
      BY <2>1, <3>1
  <2>3. hot[k] = hot[v] => k \in coldest
    BY <2>1, <2>2
  <2>4. v \in coldest /\ \A x \in coldest : ~Less(Score(x), Score(v))
    BY <1>5
  <2>5. coldest \subseteq Keys
    BY <1>1
  <2> HIDE DEF coldest
  <2>6. Before(v, k)
    BY <2>2, <2>3, <2>4 DEF Before
  <2>7. ASSUME hot[v] = hot[k], ~Less(Score(v), Score(k))
        PROVE  k \in least
    <3>1. k \in coldest
      BY <2>3, <2>7
    <3>2. ASSUME NEW x \in coldest, Less(Score(x), Score(k))
          PROVE  FALSE
      <4>1. /\ Score(x)[1] \in Nat /\ Score(x)[2] \in Nat \ {0}
            /\ Score(k)[1] \in Nat /\ Score(k)[2] \in Nat \ {0}
            /\ Score(v)[1] \in Nat /\ Score(v)[2] \in Nat \ {0}
        BY <2>5, ScoreIsFraction
      <4>2. Less(Score(x), Score(v))
        BY <2>7, <3>2, <4>1, LessAndNotMore
      <4> QED
        BY <2>4, <4>2
    <3> QED
      BY <3>1, <3>2
  <2> HIDE DEF least
  <2>8. k \in least => l < i
    <3>1. k \in least => l \in places
      BY <2>1
    <3>2. l \in Nat /\ i \in Nat
      BY <1>1
    <3> QED
      BY <1>3, <1>4, <1>6, <3>1, <3>2
  <2> QED
    BY <2>1, <2>6, <2>7, <2>8
<1> HIDE DEF least
<1> QED
  BY <1>2, <1>4, <1>5, <1>6

LEMMA LeastLeaves ==
  ASSUME Parameters, CacheInv, HotInv, Orders(cache), [Next]_vars
  PROVE  EvictsLeast
<1> SUFFICES ASSUME NEW v \in Evicted, NEW k \in {x \in Listed : MayGo(x)} \ {v}
             PROVE  /\ hot[v] => hot[k]
                    /\ hot[k] = hot[v] => /\ ~Less(Score(k), Score(v))
                                          /\ ~Less(Score(v), Score(k)) => PlaceOf(k) < PlaceOf(v)
  BY DEF EvictsLeast
<1>1. /\ v = Victim /\ v \in Listed /\ EntriesInv /\ k \in Listed
  BY WhatLeaves DEF Evicted, CacheInv
<1>2. /\ Scored /\ Len(list) \in Nat /\ DOMAIN list = 1..Len(list) /\ Listed \subseteq Keys
      /\ cache.impl \in {C, Py} /\ NoKey \notin Keys
  BY <1>1, EntriesAreNumbers DEF Scored
<1>3. \A i, j \in DOMAIN list : list[i] = list[j] => i = j
  BY <1>2 DEF Scored, IsList
<1>4. Victim # NoKey
  BY <1>1, <1>2
<1>5. \E i \in DOMAIN list :
           /\ v = list[i]
           /\ \A l \in DOMAIN list : MayGo(list[l]) /\ l # i =>
                /\ Before(list[i], list[l])
                /\ hot[list[i]] = hot[list[l]] /\ ~Less(Score(list[i]), Score(list[l])) => l < i
  <2>1. CASE cache.impl = Py
    BY <1>1, <1>2, <1>4, <2>1, MinIsBest
  <2>2. CASE cache.impl = C
    <3>1. PICK s : s = Reverse(list)
      OBVIOUS
    <3>2. /\ s \in Seq(Keys) /\ Len(s) = Len(list)
          /\ \A j \in 1..Len(list) : s[j] = list[Len(list) - j + 1]
      BY <1>2, <3>1 DEF Scored, IsList, Reverse
    <3>3. Victim = BestOf(s)
      BY <2>2, <3>1 DEF Victim, VictimInC, C, Py
    <3>4. PICK j \in 1..Len(s) : BestOf(s) = s[j] /\ Best(s, Len(s), j)
      BY <1>2, <1>4, <2>2, <3>2, <3>3, LoopFindsBest
    <3>5. PICK i \in 1..Len(list) : i = Len(list) - j + 1
      BY <1>2, <3>2
    <3>6. v = list[i] /\ s[j] = list[i]
      BY <1>1, <3>2, <3>3, <3>4, <3>5
    <3>7. ASSUME NEW l \in DOMAIN list, MayGo(list[l]), l # i
          PROVE  /\ Before(list[i], list[l])
                 /\ hot[list[i]] = hot[list[l]] /\ ~Less(Score(list[i]), Score(list[l])) => l < i
      <4>1. PICK m \in 1..Len(s) : m = Len(list) - l + 1
        BY <1>2, <3>2
      <4>2. s[m] = list[l] /\ m # j
        <5>1. Len(list) - m + 1 = l
          BY <1>2, <4>1
        <5> QED
          BY <1>2, <3>2, <3>5, <3>7, <4>1, <5>1
      <4>3. /\ Before(s[j], s[m])
            /\ hot[s[j]] = hot[s[m]] /\ ~Less(Score(s[j]), Score(s[m])) => j < m
        BY <3>4, <3>7, <4>2 DEF Best
      <4>4. j < m => l < i
        BY <1>2, <3>2, <3>5, <4>1
      <4> QED
        BY <3>6, <4>2, <4>3, <4>4
    <3> QED
      BY <1>2, <3>5, <3>6, <3>7
  <2> QED
    BY <1>2, <2>1, <2>2
<1>6. PICK i \in DOMAIN list :
           /\ v = list[i]
           /\ \A l \in DOMAIN list : MayGo(list[l]) /\ l # i =>
                /\ Before(list[i], list[l])
                /\ hot[list[i]] = hot[list[l]] /\ ~Less(Score(list[i]), Score(list[l])) => l < i
  BY <1>5
<1>7. PICK l \in DOMAIN list : k = list[l] /\ l = PlaceOf(k)
  BY <1>1, PlaceIsThere
<1>8. i = PlaceOf(v)
  BY <1>1, <1>3, <1>6, PlaceIsThere
<1>9. l # i
  BY <1>6, <1>7
<1> QED
  BY <1>6, <1>7, <1>8, <1>9 DEF Before

-----------------------------------------------------------------------------
(* Theorems *)

\* For any caches and any keys, sizes and limits: the entries, the counters and
\* what expert_cache.py goes back to agree between any two steps.
THEOREM CacheInvariant ==
  ASSUME Parameters
  PROVE  Spec => []CacheInv
<1>1. Init => CacheInv
  BY InitCacheInv
<1>2. CacheInv /\ [Next]_vars => CacheInv'
  BY NextCacheInv
<1> QED
  BY <1>1, <1>2, PTL DEF Spec

\* cache.c:214, expert_cache.py:152 for any cache: bytes, pinned entries and the
\* usage of partitions are what the entries add up to.
THEOREM CountersStayExact ==
  ASSUME Parameters
  PROVE  Spec => [](TypeOK /\ CountersAreExact)
<1>1. CacheInv => TypeOK /\ CountersAreExact
  BY CacheTypes, CountersAgree
<1> QED
  BY <1>1, CacheInvariant, PTL

\* No cache is over its budget, in the middle of a put or after a rollback.
THEOREM NeverOverBudget ==
  ASSUME Parameters
  PROVE  Spec => []WithinBudget
BY LimitsHold, CacheInvariant, PTL

\* cache.c:238: a put that gives up has only pinned entries around it.
THEOREM PutsFailForPins ==
  ASSUME Parameters
  PROVE  Spec => RejectsOnlyForPins
<1>1. CacheInv /\ [Next]_vars => [GivesUpForPins]_vars
  BY PinsReject
<1> QED
  BY <1>1, CacheInvariant, PTL DEF Spec, RejectsOnlyForPins

\* A pinned entry leaves only when a put of its own key replaces it.
THEOREM PinsAreKept ==
  ASSUME Parameters
  PROVE  Spec => PinnedStay
<1>1. CacheInv /\ [Next]_vars => [KeepsPinned]_vars
  BY PinsHold
<1> QED
  BY <1>1, CacheInvariant, PTL DEF Spec, PinnedStay

\* cache.c:104: entries of partitions over their share go first.
THEOREM OverSharesGoFirst ==
  ASSUME Parameters
  PROVE  Spec => SharesAreFair
<1>1. CacheInv /\ [Next]_vars => [EvictsFromOverShare]_vars
  BY FairShares
<1> QED
  BY <1>1, CacheInvariant, PTL DEF Spec, SharesAreFair

\* What Orders needs, all along: Next does not change the cache.
LEMMA CachesOrder ==
  ASSUME \A c \in Caches : Orders(c), CacheInv
  PROVE  Orders(cache)
BY DEF CacheInv, EntriesInv

\* cache.c:130 and expert_cache.py for any caches but those of cache.c that mix
\* hot and cold entries under lfu or adaptive: the victim is the least valued of
\* the entries that may go, the longest untouched among equals.
THEOREM LeastValuedGoes ==
  ASSUME Parameters, \A c \in Caches : Orders(c)
  PROVE  Spec => EvictsTheLeastValued
<1>1. Init => HotInv
  BY InitHotInv
<1>2. CacheInv /\ HotInv /\ [Next]_vars => HotInv'
  BY NextHotInv
<1>3. CacheInv /\ HotInv /\ [Next]_vars => [EvictsLeast]_vars
  BY LeastLeaves, CachesOrder
<1> QED
  BY <1>1, <1>2, <1>3, CacheInvariant, PTL DEF Spec, EvictsTheLeastValued
=============================================================================
