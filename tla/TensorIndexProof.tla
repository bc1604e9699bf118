-------------------------- MODULE TensorIndexProof --------------------------
(***************************************************************************)
(* Proofs about TensorIndex for any files, names, offsets and sizes.       *)
(***************************************************************************)
EXTENDS TensorIndex, WellFoundedInduction, TLAPS

\* A product of dimensions that wraps makes safetensors.c:189 compare another
\* number with hi - lo; Python's integers do not wrap.
NoWrap == C \in Engines => \A n \in Sizes : n < Word

-----------------------------------------------------------------------------
(* The inductive invariant *)

AnyEntry == [file : 1..NumFiles, name : Names, lo : Numbers, hi : Numbers, elems : Sizes]
States == {"idle", "queued", "started", "reading", "done", "raised", "cancelled"}

\* What is left of the table of a failed open is dropped unread.
TypeInv ==
  /\ engine \in Engines
  /\ header \in Seq(AnyEntry)
  /\ status # "unwind" => tensors \in Seq(AnyEntry)
  /\ file \in 1..NumFiles
  /\ fds \in [1..NumFiles -> {"none", "open", "closed"}]
  /\ status \in {"open", "parse", "unwind", "ready", "closing", "closed", "failed"}
  /\ job \in [Jobs -> [state : States, file : 1..NumFiles]]

\* The files before the one being parsed are open, and those after it not yet.
FilesInv ==
  /\ status = "open" => \A f \in 1..NumFiles : fds[f] = "open" <=> f < file
  /\ status = "parse" => \A f \in 1..NumFiles : fds[f] = "open" <=> f <= file
  /\ status \in {"ready", "closing"} => \A f \in 1..NumFiles : fds[f] = "open"
  /\ status \in {"failed", "closed"} => \A f \in 1..NumFiles : fds[f] # "open"

\* Threads have work only between the opening of the index and its close.
JobsInv ==
  /\ status \notin {"ready", "closing", "closed"} => \A j \in Jobs : job[j] = Idle
  /\ status = "closed" => \A j \in Jobs : job[j].state \notin {"queued", "started", "reading"}

\* What an entry that was accepted says; C compares the wrapped product.
Fits(e) == /\ 0 <= e.lo /\ e.lo <= e.hi /\ e.hi <= DataBytes
           /\ e.hi - e.lo = IF engine = C THEN e.elems % Word ELSE e.elems

\* The files whose overlaps have been looked for.
Checked(f) == f < file \/ status \in {"ready", "closing"}

Disjoint(d, e) == d.hi <= e.lo \/ e.hi <= d.lo

HeaderInv ==
  status \in {"open", "parse", "ready", "closing"} =>
    /\ \A i \in DOMAIN header : Fits(header[i])
    /\ \A i, k \in DOMAIN header :
         i # k => /\ header[i].name # header[k].name
                  /\ (header[i].file = header[k].file /\ Checked(header[i].file)
                        => Disjoint(header[i], header[k]))
    /\ status \in {"open", "parse"} => tensors = header

\* The table of an open index holds the entries of the headers; in C it is
\* sorted, as the binary search needs it.
TableInv ==
  status \in {"ready", "closing"} =>
    /\ \A i \in DOMAIN header : \E k \in DOMAIN tensors : tensors[k] = header[i]
    /\ \A k \in DOMAIN tensors : \E i \in DOMAIN header : tensors[k] = header[i]
    /\ engine = C => \A i, k \in DOMAIN tensors : i < k => tensors[i].name < tensors[k].name

IndexInv == TypeInv /\ FilesInv /\ JobsInv /\ HeaderInv /\ TableInv

-----------------------------------------------------------------------------
(* The naturals *)

LEMMA LeastExists ==
  ASSUME NEW S, S \subseteq Nat, S # {}
  PROVE  \E m \in S : \A x \in S : m <= x
<1> DEFINE R == OpToRel(<, Nat)
<1>1. IsWellFoundedOn(R, Nat)
  BY NatLessThanWellFounded
<1>2. \A x, y \in Nat : x < y => <<x, y>> \in R
  BY DEF OpToRel
<1> HIDE DEF R
<1>3. PICK m \in S : \A x \in S : ~ (<<x, m>> \in R)
  BY <1>1, WFMin
<1>4. \A x \in S : m \in Nat /\ x \in Nat /\ ~ (x < m)
  BY <1>2, <1>3
<1> QED
  BY <1>4

LEMMA Induction ==
  ASSUME NEW S, 0 \in S, \A n \in Nat : n \in S => n + 1 \in S
  PROVE  Nat \subseteq S
<1> SUFFICES ASSUME Nat \ S # {}
             PROVE  FALSE
  OBVIOUS
<1>1. PICK m \in Nat \ S : \A x \in Nat \ S : m <= x
  BY LeastExists
<1>2. m # 0 /\ m - 1 \in Nat /\ ~ (m <= m - 1) /\ (m - 1) + 1 = m
  OBVIOUS
<1> QED
  BY <1>1, <1>2

\* A number of 64 bits, converted to an unsigned one that is small, is itself.
LEMMA Unsigned ==
  ASSUME Parameters, NEW n \in Numbers, n % Word <= DataBytes
  PROVE  n % Word = n /\ 0 <= n
<1>1. n \in Int /\ Word \in Nat \ {0} /\ DataBytes \in Nat \ {0}
  BY DEF Parameters
<1>2. 2 * DataBytes < Word /\ -Word <= 2 * n /\ 2 * n < Word
  BY DEF Parameters
<1>3. CASE 0 <= n
  BY <1>1, <1>2, <1>3
<1>4. CASE n < 0
  <2>1. PICK q \in Int, r \in Int : n = Word * q + r /\ r = n % Word /\ 0 <= r /\ r < Word
    <3>1. n \div Word \in Int /\ n % Word \in Int
      BY <1>1
    <3>2. n = Word * (n \div Word) + (n % Word) /\ 0 <= n % Word /\ n % Word < Word
      BY <1>1
    <3> QED
      BY <3>1, <3>2
  <2>2. CASE q = -1
    BY <1>1, <1>2, <2>1, <2>2
  <2>3. CASE q >= 0
    <3>1. Word * q >= 0
      BY <1>1, <2>3
    <3>2. Word * q \in Int
      BY <1>1
    <3> QED
      BY <1>1, <1>4, <2>1, <3>1, <3>2
  <2>4. CASE q <= -2
    <3>1. Word * q <= -2 * Word
      BY <1>1, <2>4
    <3>2. Word * q \in Int
      BY <1>1
    <3> QED
      BY <1>1, <1>2, <2>1, <3>1, <3>2
  <2> QED
    BY <2>2, <2>3, <2>4
<1> QED
  BY <1>1, <1>3, <1>4

-----------------------------------------------------------------------------
(* The checks of a header *)

\* What InRange accepts is what Fits says.
LEMMA AcceptedFits ==
  ASSUME Parameters, engine \in Engines, NEW e \in AnyEntry, InRange(e)
  PROVE  Fits(e)
<1>1. e.lo \in Numbers /\ e.hi \in Numbers /\ e.lo \in Int /\ e.hi \in Int
  BY DEF AnyEntry, Parameters
<1>2. CASE engine = C
  <2>1. /\ e.hi % Word >= e.lo % Word /\ e.hi % Word <= DataBytes
        /\ (e.hi % Word) - (e.lo % Word) = e.elems % Word
    BY <1>2 DEF InRange
  <2>2. e.lo % Word \in Int /\ e.hi % Word \in Int /\ DataBytes \in Int
    BY <1>1 DEF Parameters
  <2>3. e.lo % Word <= DataBytes
    BY <2>1, <2>2
  <2>4. e.hi % Word = e.hi /\ e.lo % Word = e.lo /\ 0 <= e.lo
    BY <1>1, <2>1, <2>3, Unsigned
  <2> QED
    BY <1>1, <1>2, <2>1, <2>2, <2>4 DEF Fits
<1>3. CASE engine # C
  BY <1>1, <1>3 DEF InRange, Fits
<1> QED
  BY <1>2, <1>3

\* The overlap checks of both programs: all pairs of C, neighbours of Python.
LEMMA NoOverlap ==
  ASSUME Parameters, TypeInv, status = "parse", \A i \in DOMAIN tensors : Fits(tensors[i]), ~Overlap,
         NEW i \in Ranges, NEW k \in Ranges, i # k
  PROVE  Disjoint(tensors[i], tensors[k])
<1> DEFINE t == tensors
<1>1. \A j \in Ranges : j \in Nat /\ t[j].lo \in Nat /\ t[j].hi \in Nat
  <2> SUFFICES ASSUME NEW j \in Ranges
               PROVE  j \in Nat /\ t[j].lo \in Nat /\ t[j].hi \in Nat
    OBVIOUS
  <2>1. j \in DOMAIN tensors /\ t[j] \in AnyEntry /\ j \in Nat
    BY DEF TypeInv, Ranges
  <2>2. t[j].lo \in Int /\ t[j].hi \in Int
    BY <2>1 DEF AnyEntry, Parameters
  <2> QED
    BY <2>1, <2>2 DEF Fits
<1>2. CASE engine = C
  <2>1. \A a, b \in Ranges : ~ (a < b /\ t[a].lo < t[b].hi /\ t[b].lo < t[a].hi)
    BY <1>2 DEF Overlap
  <2>2. i < k \/ k < i
    BY <1>1
  <2> QED
    BY <1>1, <2>1, <2>2 DEF Disjoint
<1>3. CASE engine # C
  <2> DEFINE before(a, b) == t[a].lo < t[b].lo \/ (t[a].lo = t[b].lo /\ t[a].hi < t[b].hi)
             next(a, b) == before(a, b) /\ ~\E c \in Ranges : before(a, c) /\ before(c, b)
  <2>1. /\ \A a, b \in Ranges : next(a, b) => ~ (t[b].lo < t[a].hi)
        /\ \A a, b \in Ranges :
             ~ (a # b /\ t[a].lo = t[b].lo /\ t[a].hi = t[b].hi /\ t[a].lo < t[a].hi)
    BY <1>3 DEF Overlap
  <2>2. ASSUME NEW a \in Ranges, NEW b \in Ranges, before(a, b)
        PROVE  t[a].hi <= t[b].lo
    <3> DEFINE After == {c \in Ranges : before(a, c)}
               Starts == {t[c].lo : c \in After}
    <3>1. b \in After /\ Starts # {} /\ Starts \subseteq Nat
      BY <1>1, <2>2
    <3> HIDE DEF After
    <3>2. PICK m \in Starts : \A x \in Starts : m <= x
      BY <3>1, LeastExists
    <3> DEFINE First == {c \in After : t[c].lo = m}
               Ends == {t[c].hi : c \in First}
    <3>3. First \subseteq Ranges /\ First # {}
      BY <3>2 DEF After
    <3>4. Ends # {} /\ Ends \subseteq Nat
      BY <1>1, <3>3
    <3> HIDE DEF First, Starts
    <3>5. PICK n \in Ends : \A x \in Ends : n <= x
      BY <3>4, LeastExists
    <3>6. PICK c \in First : t[c].hi = n
      BY <3>5
    <3>7. c \in Ranges /\ before(a, c) /\ t[c].lo = m
      BY <3>6 DEF First, After
    <3>8. \A d \in Ranges : before(a, d) => m <= t[d].lo /\ (t[d].lo = m => n <= t[d].hi)
      BY <3>2, <3>5 DEF First, After, Starts
    <3>9. ASSUME NEW d \in Ranges, before(a, d), before(d, c)
          PROVE  FALSE
      <4>1. m <= t[d].lo /\ (t[d].lo = m => n <= t[d].hi)
        BY <3>8, <3>9
      <4>2. t[d].lo < m \/ (t[d].lo = m /\ t[d].hi < n)
        BY <3>6, <3>7, <3>9
      <4>3. m \in Nat /\ n \in Nat /\ t[d].lo \in Nat /\ t[d].hi \in Nat
        BY <1>1, <3>6, <3>7
      <4> QED
        BY <4>1, <4>2, <4>3
    <3>10. next(a, c)
      BY <3>7, <3>9
    <3>11. ~ (t[c].lo < t[a].hi)
      BY <2>1, <3>7, <3>10
    <3>12. m <= t[b].lo
      BY <2>2, <3>8
    <3> QED
      BY <1>1, <3>7, <3>11, <3>12
  <2>3. before(i, k) \/ before(k, i) \/ (t[i].lo = t[k].lo /\ t[i].hi = t[k].hi)
    BY <1>1
  <2>4. CASE t[i].lo = t[k].lo /\ t[i].hi = t[k].hi
    <3>1. ~ (t[i].lo < t[i].hi)
      BY <2>1, <2>4
    <3> QED
      BY <1>1, <2>4, <3>1 DEF Disjoint
  <2> QED
    BY <2>2, <2>3, <2>4 DEF Disjoint
<1> QED
  BY <1>2, <1>3

-----------------------------------------------------------------------------
(* The binary search *)

\* What one turn of st_find_exact's loop returns, or where it goes on.
Probe(f, name, lo, hi) ==
  LET mid == (lo + hi) \div 2 IN
  IF lo >= hi THEN 0
  ELSE IF tensors[mid + 1].name = name THEN mid + 1
  ELSE IF tensors[mid + 1].name < name THEN f[<<mid + 1, hi>>]
  ELSE f[<<lo, mid>>]

\* Both halves of an interval are shorter.
LEMMA Halves ==
  ASSUME NEW lo \in Nat, NEW hi \in Nat, lo < hi
  PROVE  LET mid == (lo + hi) \div 2
         IN mid \in Nat /\ lo <= mid /\ mid < hi
OBVIOUS

\* There is a function that makes the turns of the loop.
LEMMA SearchExists ==
  ASSUME NEW name, NEW n \in Nat
  PROVE  \E f : f = [w \in (0..n) \X (0..n) |-> Probe(f, name, w[1], w[2])]
<1> DEFINE W == (0..n) \X (0..n)
           Made(f, m) == \A lo, hi \in 0..n :
                           hi - lo <= m => f[<<lo, hi>>] = Probe(f, name, lo, hi)
           Fun(g) == g = [w \in W |-> g[w]]
           S == {m \in Nat : \E f : Fun(f) /\ Made(f, m)}
<1>1. 0 \in S
  <2> DEFINE f == [w \in W |-> 0]
  <2>1. Fun(f)
    OBVIOUS
  <2>2. Made(f, 0)
    <3> SUFFICES ASSUME NEW lo \in 0..n, NEW hi \in 0..n, hi - lo <= 0
                 PROVE  f[<<lo, hi>>] = Probe(f, name, lo, hi)
      OBVIOUS
    <3>1. lo >= hi
      OBVIOUS
    <3> QED
      BY <3>1 DEF Probe
  <2> HIDE DEF f, Made, Fun
  <2> QED
    BY <2>1, <2>2
<1>2. ASSUME NEW m \in Nat, m \in S
      PROVE  m + 1 \in S
  <2>1. PICK f : Fun(f) /\ Made(f, m)
    BY <1>2
  <2> DEFINE g == [w \in W |->
                     IF w[2] - w[1] <= m THEN f[w] ELSE Probe(f, name, w[1], w[2])]
  <2>2. Fun(g)
    OBVIOUS
  <2>3. ASSUME NEW lo \in 0..n, NEW hi \in 0..n, hi - lo <= m + 1
        PROVE  g[<<lo, hi>>] = Probe(g, name, lo, hi)
    <3>1. g[<<lo, hi>>] = Probe(f, name, lo, hi)
      <4>1. CASE hi - lo <= m
        BY <2>1, <4>1
      <4>2. CASE ~ (hi - lo <= m)
        BY <4>2
      <4> QED
        BY <4>1, <4>2
    <3>2. CASE lo >= hi
      BY <3>1, <3>2 DEF Probe
    <3>3. CASE lo < hi
      <4> DEFINE mid == (lo + hi) \div 2
      <4>1. mid \in Nat /\ lo <= mid /\ mid < hi
        BY <3>3, Halves
      <4> HIDE DEF mid
      <4>2. mid \in 0..n /\ mid + 1 \in 0..n /\ hi - (mid + 1) <= m /\ mid - lo <= m
        BY <2>3, <4>1
      <4>3. g[<<mid + 1, hi>>] = f[<<mid + 1, hi>>] /\ g[<<lo, mid>>] = f[<<lo, mid>>]
        BY <4>2
      <4> QED
        BY <3>1, <4>3 DEF Probe, mid
    <3> QED
      BY <3>2, <3>3
  <2>4. Made(g, m + 1)
    BY <2>3
  <2> HIDE DEF g, Made, Fun
  <2> QED
    BY <2>2, <2>4
<1>3. n \in S
  <2> HIDE DEF S
  <2> QED
    BY <1>1, <1>2, Induction
<1>4. PICK f : Fun(f) /\ Made(f, n)
  BY <1>3
<1>5. \A w \in W : f[w] = Probe(f, name, w[1], w[2])
  <2> SUFFICES ASSUME NEW w \in W
               PROVE  f[w] = Probe(f, name, w[1], w[2])
    OBVIOUS
  <2>1. w[1] \in 0..n /\ w[2] \in 0..n /\ w[2] - w[1] <= n /\ w = <<w[1], w[2]>>
    OBVIOUS
  <2> QED
    BY <1>4, <2>1
<1> HIDE DEF Made
<1>6. f = [w \in W |-> Probe(f, name, w[1], w[2])]
  BY <1>4, <1>5
<1> QED
  BY <1>6

\* In a sorted table the search finds what is there and nothing else.
LEMMA SearchFinds ==
  ASSUME Parameters, TypeInv, status # "unwind", NEW name \in Names,
         \A i, k \in DOMAIN tensors : i < k => tensors[i].name < tensors[k].name
  PROVE  /\ Search(name) # 0 => /\ Search(name) \in DOMAIN tensors
                                /\ tensors[Search(name)].name = name
         /\ (\E k \in DOMAIN tensors : tensors[k].name = name) => Search(name) # 0
<1> DEFINE n == Len(tensors)
           f == CHOOSE f : f = [w \in (0..n) \X (0..n) |-> Probe(f, name, w[1], w[2])]
           Found(r) == /\ r # 0 => r \in 1..n /\ tensors[r].name = name
                       /\ (\E k \in 1..n : tensors[k].name = name) => r # 0
           Inside(lo, hi) == \A k \in 1..n : tensors[k].name = name => lo < k /\ k <= hi
           S == {m \in Nat : \A lo, hi \in 0..n :
                               hi - lo <= m /\ Inside(lo, hi) => Found(f[<<lo, hi>>])}
<1>1. n \in Nat /\ DOMAIN tensors = 1..n
  BY DEF TypeInv
<1>2. \A k \in 1..n : tensors[k].name \in Int
  <2>1. \A k \in 1..n : tensors[k] \in AnyEntry
    BY <1>1 DEF TypeInv
  <2> QED
    BY <2>1 DEF AnyEntry, Parameters
<1>3. name \in Int
  BY DEF Parameters
<1>4. \A i, k \in 1..n : i < k => tensors[i].name < tensors[k].name
  BY <1>1
<1>5. f = [w \in (0..n) \X (0..n) |-> Probe(f, name, w[1], w[2])]
  BY <1>1, SearchExists
<1>6. Search(name) = f[<<0, n>>]
  BY DEF Search, Probe
<1> HIDE DEF f, n
<1>7. \A lo, hi \in 0..n : f[<<lo, hi>>] = Probe(f, name, lo, hi)
  BY <1>5
<1>8. ASSUME NEW lo \in 0..n, NEW hi \in 0..n, lo >= hi, Inside(lo, hi)
      PROVE  Found(f[<<lo, hi>>])
  <2>1. f[<<lo, hi>>] = 0
    BY <1>7, <1>8 DEF Probe
  <2>2. \A k \in 1..n : tensors[k].name # name
    BY <1>1, <1>8
  <2> QED
    BY <2>1, <2>2
<1>9. 0 \in S
  BY <1>1, <1>8
<1>10. ASSUME NEW m \in Nat, m \in S
       PROVE  m + 1 \in S
  <2> SUFFICES ASSUME NEW lo \in 0..n, NEW hi \in 0..n, hi - lo <= m + 1, Inside(lo, hi)
               PROVE  Found(f[<<lo, hi>>])
    OBVIOUS
  <2>1. CASE lo >= hi
    BY <1>8, <2>1
  <2>2. CASE lo < hi
    <3> DEFINE mid == (lo + hi) \div 2
    <3>1. mid \in Nat /\ lo <= mid /\ mid < hi
      BY <1>1, <2>2, Halves
    <3>2. f[<<lo, hi>>] = IF tensors[mid + 1].name = name THEN mid + 1
                          ELSE IF tensors[mid + 1].name < name THEN f[<<mid + 1, hi>>]
                          ELSE f[<<lo, mid>>]
      BY <1>7, <2>2 DEF Probe
    <3> HIDE DEF mid
    <3>3. /\ mid \in 0..n /\ mid + 1 \in 0..n /\ mid + 1 \in 1..n
          /\ hi - (mid + 1) <= m /\ mid - lo <= m
      BY <1>1, <3>1
    <3>4. CASE tensors[mid + 1].name = name
      <4>1. mid + 1 # 0
        BY <3>1
      <4> QED
        BY <3>2, <3>3, <3>4, <4>1
    <3>5. CASE tensors[mid + 1].name < name
      <4>1. Inside(mid + 1, hi)
        <5> SUFFICES ASSUME NEW k \in 1..n, tensors[k].name = name
                     PROVE  mid + 1 < k /\ k <= hi
          OBVIOUS
        <5>1. ~ (k < mid + 1) /\ k # mid + 1
          BY <1>2, <1>3, <1>4, <3>3, <3>5
        <5> QED
          BY <1>1, <3>1, <5>1
      <4>2. Found(f[<<mid + 1, hi>>])
        BY <1>10, <3>3, <4>1
      <4>3. f[<<lo, hi>>] = f[<<mid + 1, hi>>]
        BY <1>2, <1>3, <3>2, <3>3, <3>5
      <4> QED
        BY <4>2, <4>3
    <3>6. CASE tensors[mid + 1].name # name /\ ~ (tensors[mid + 1].name < name)
      <4>1. Inside(lo, mid)
        <5> SUFFICES ASSUME NEW k \in 1..n, tensors[k].name = name
                     PROVE  lo < k /\ k <= mid
          OBVIOUS
        <5>1. ~ (mid + 1 < k) /\ k # mid + 1
          BY <1>2, <1>3, <1>4, <3>3, <3>6
        <5> QED
          BY <1>1, <3>1, <5>1
      <4>2. Found(f[<<lo, mid>>])
        BY <1>10, <3>3, <4>1
      <4>3. f[<<lo, hi>>] = f[<<lo, mid>>]
        BY <3>2, <3>6
      <4> QED
        BY <4>2, <4>3
    <3> QED
      BY <3>4, <3>5, <3>6
  <2> QED
    BY <1>1, <2>1, <2>2
<1>11. n \in S
  <2> HIDE DEF S
  <2> QED
    BY <1>1, <1>9, <1>10, Induction
<1>12. Inside(0, n)
  BY <1>1
<1>13. Found(f[<<0, n>>])
  <2>1. 0 \in 0..n /\ n \in 0..n /\ n - 0 <= n
    BY <1>1
  <2> QED
    BY <1>11, <1>12, <2>1
<1> QED
  BY <1>1, <1>6, <1>13

\* Lookup in either table.
LEMMA FindFinds ==
  ASSUME Parameters, TypeInv, TableInv, status \in {"ready", "closing"}, NEW name \in Names
  PROVE  /\ Find(name) # 0 => Find(name) \in DOMAIN tensors /\ tensors[Find(name)].name = name
         /\ (\E k \in DOMAIN tensors : tensors[k].name = name) => Find(name) # 0
<1>1. CASE engine = C
  BY <1>1, SearchFinds DEF TableInv, Find
<1>2. CASE engine # C
  <2>1. 0 \notin DOMAIN tensors
    BY DEF TypeInv
  <2> QED
    BY <1>2, <2>1 DEF Find
<1> QED
  BY <1>1, <1>2

-----------------------------------------------------------------------------
(* The steps *)

LEMMA InitIndexInv == Parameters /\ Init => IndexInv
<1> SUFFICES ASSUME Parameters, Init
             PROVE  IndexInv
  OBVIOUS
<1>1. NumFiles \in Nat /\ 1 \in 1..NumFiles
  <2>1. \A m \in Nat \ {0} : 1 \in 1..m
    OBVIOUS
  <2> QED
    BY <2>1 DEF Parameters
<1>2. <<>> \in Seq(AnyEntry) /\ DOMAIN <<>> = {}
  OBVIOUS
<1>3. TypeInv
  BY <1>1, <1>2 DEF Init, TypeInv, Idle, States
<1>4. FilesInv
  BY <1>1 DEF Init, FilesInv
<1>5. JobsInv
  BY DEF Init, JobsInv
<1>6. HeaderInv /\ TableInv
  BY <1>2 DEF Init, HeaderInv, TableInv
<1> QED
  BY <1>3, <1>4, <1>5, <1>6 DEF IndexInv

LEMMA OpenFileKeeps == ASSUME Parameters, IndexInv, OpenFile PROVE IndexInv'
<1>1. NumFiles \in Nat /\ file \in Nat /\ file \in 1..NumFiles
  BY DEF Parameters, IndexInv, TypeInv
<1>2. CASE fds' = [fds EXCEPT ![file] = "open"] /\ status' = "parse"
  <2>1. TypeInv'
    BY <1>2 DEF OpenFile, IndexInv, TypeInv, AnyEntry, States
  <2>2. FilesInv'
    BY <1>1, <1>2 DEF OpenFile, IndexInv, TypeInv, FilesInv
  <2>3. JobsInv' /\ TableInv'
    BY <1>2 DEF OpenFile, IndexInv, JobsInv, TableInv, Idle
  <2>4. HeaderInv'
    BY <1>2 DEF OpenFile, IndexInv, HeaderInv, Fits, Checked, Disjoint
  <2> QED
    BY <2>1, <2>2, <2>3, <2>4 DEF IndexInv
<1>3. CASE status' = "unwind" /\ UNCHANGED fds
  BY <1>3 DEF OpenFile, IndexInv, TypeInv, FilesInv, JobsInv, HeaderInv, TableInv, AnyEntry,
              States, Idle
<1> QED
  BY <1>2, <1>3 DEF OpenFile

\* A file that is rejected leaves what was accepted of no other consequence.
LEMMA RejectKeeps ==
  ASSUME Parameters, IndexInv, status = "parse", Reject, UNCHANGED <<engine, file, job>>
  PROVE  IndexInv'
<1>1. TypeInv'
  BY DEF Reject, IndexInv, TypeInv, AnyEntry, States
<1> QED
  BY <1>1 DEF Reject, IndexInv, FilesInv, JobsInv, HeaderInv, TableInv, Idle

LEMMA AcceptKeeps ==
  ASSUME Parameters, IndexInv, status = "parse", NEW e \in Entries, InRange(e), ~Duplicate(e),
         header' = Append(header, e), tensors' = Append(tensors, e),
         UNCHANGED <<engine, file, fds, status, job>>
  PROVE  IndexInv'
<1>1. e \in AnyEntry /\ e.file = file
  BY DEF Entries, AnyEntry, IndexInv, TypeInv
<1>2. header \in Seq(AnyEntry) /\ tensors \in Seq(AnyEntry) /\ tensors = header
  BY DEF IndexInv, TypeInv, HeaderInv
<1>3. header' \in Seq(AnyEntry) /\ tensors' \in Seq(AnyEntry) /\ tensors' = header'
  BY <1>1, <1>2
<1>4. TypeInv'
  BY <1>3 DEF IndexInv, TypeInv, AnyEntry, States
<1>5. FilesInv' /\ JobsInv' /\ TableInv'
  BY DEF IndexInv, FilesInv, JobsInv, TableInv, Idle
<1>6. /\ DOMAIN header' = 1..(Len(header) + 1) /\ DOMAIN header = 1..Len(header)
      /\ header'[Len(header) + 1] = e
      /\ \A i \in 1..Len(header) : header'[i] = header[i]
      /\ Len(header) \in Nat
  BY <1>1, <1>2
<1>7. \A i \in DOMAIN header' : i \in 1..Len(header) \/ i = Len(header) + 1
  BY <1>6
<1>8. \A i \in 1..Len(header) : header[i].name # e.name
  BY <1>2, <1>6 DEF Duplicate
<1>9. Fits(e)
  BY <1>1, AcceptedFits DEF IndexInv, TypeInv
<1>10. ~Checked(file)
  BY DEF Checked, IndexInv, TypeInv
<1>11. \A i \in DOMAIN header' : Fits(header'[i])
  BY <1>6, <1>7, <1>9 DEF IndexInv, HeaderInv
<1>12. ASSUME NEW i \in DOMAIN header', NEW k \in DOMAIN header', i # k
       PROVE  /\ header'[i].name # header'[k].name
              /\ header'[i].file = header'[k].file /\ Checked(header'[i].file)
                   => Disjoint(header'[i], header'[k])
  <2>1. CASE i \in 1..Len(header) /\ k \in 1..Len(header)
    BY <1>6, <1>12, <2>1 DEF IndexInv, HeaderInv
  <2>2. CASE i = Len(header) + 1
    <3>1. k \in 1..Len(header)
      BY <1>7, <1>12, <2>2
    <3> QED
      BY <1>1, <1>6, <1>8, <1>10, <2>2, <3>1
  <2>3. CASE k = Len(header) + 1
    <3>1. i \in 1..Len(header)
      BY <1>7, <1>12, <2>3
    <3> QED
      BY <1>1, <1>6, <1>8, <1>10, <2>3, <3>1
  <2> QED
    BY <1>7, <2>1, <2>2, <2>3
<1>13. HeaderInv'
  <2>1. \A x : Checked(x)' <=> Checked(x)
    BY DEF Checked
  <2>2. \A x : Fits(x)' <=> Fits(x)
    BY DEF Fits
  <2>3. \A x, y : Disjoint(x, y)' <=> Disjoint(x, y)
    BY DEF Disjoint
  <2> QED
    BY <1>3, <1>11, <1>12 DEF HeaderInv, Checked, Fits, Disjoint
<1> QED
  BY <1>4, <1>5, <1>13 DEF IndexInv

LEMMA ParseEntryKeeps == ASSUME Parameters, IndexInv, ParseEntry PROVE IndexInv'
<1>1. PICK e \in Entries :
        IF InRange(e) /\ ~Duplicate(e)
        THEN header' = Append(header, e) /\ tensors' = Append(tensors, e)
             /\ UNCHANGED <<fds, status>>
        ELSE Reject
  BY DEF ParseEntry
<1> QED
  BY <1>1, AcceptKeeps, RejectKeeps DEF ParseEntry

\* Sorting keeps the entries, and puts those of different names in order.
LEMMA SortingSorts ==
  ASSUME Parameters, tensors \in Seq(AnyEntry), NEW p \in Sorting,
         \A i, k \in DOMAIN tensors : i # k => tensors[i].name # tensors[k].name
  PROVE  LET t == [i \in DOMAIN tensors |-> tensors[p[i]]]
         IN /\ t \in Seq(AnyEntry)
            /\ \A i \in DOMAIN tensors : \E k \in DOMAIN t : t[k] = tensors[i]
            /\ \A k \in DOMAIN t : \E i \in DOMAIN tensors : t[k] = tensors[i]
            /\ \A i, k \in DOMAIN t : i < k => t[i].name < t[k].name
<1> DEFINE D == DOMAIN tensors
           t == [i \in D |-> tensors[p[i]]]
<1>1. D = 1..Len(tensors) /\ Len(tensors) \in Nat
  OBVIOUS
<1>2. /\ p \in [D -> D]
      /\ \A i, k \in D : p[i] = p[k] => i = k
      /\ \A k \in D : \E i \in D : p[i] = k
  BY DEF Sorting, Bijection, Injection, Surjection, IsInjective
<1>3. \A i, k \in D : i < k => tensors[p[i]].name <= tensors[p[k]].name
  BY DEF Sorting
<1>4. \A i \in D : tensors[i] \in AnyEntry /\ tensors[i].name \in Int
  <2>1. \A i \in D : tensors[i] \in AnyEntry
    OBVIOUS
  <2> QED
    BY <2>1 DEF AnyEntry, Parameters
<1>5. t \in Seq(AnyEntry)
  <2>1. t \in [1..Len(tensors) -> AnyEntry]
    BY <1>1, <1>2, <1>4
  <2> QED
    BY <1>1, <2>1
<1>6. ASSUME NEW i \in D, NEW k \in D, i < k
      PROVE  t[i].name < t[k].name
  <2>1. p[i] \in D /\ p[k] \in D /\ i # k
    <3>1. p \in [D -> D] /\ i \in D /\ k \in D
      BY <1>2, <1>6
    <3>2. p[i] \in D /\ p[k] \in D
      BY ONLY <3>1
    <3>3. i \in Int /\ k \in Int
      BY <1>1, <1>6
    <3>4. i # k
      BY ONLY <1>6, <3>3
    <3> QED
      BY ONLY <3>2, <3>4
  <2>2. p[i] # p[k]
    BY <1>2, <2>1
  <2>3. tensors[p[i]].name # tensors[p[k]].name
    BY <2>1, <2>2
  <2>4. tensors[p[i]].name <= tensors[p[k]].name
    BY <1>3, <1>6
  <2>5. t[i] = tensors[p[i]] /\ t[k] = tensors[p[k]]
    OBVIOUS
  <2> QED
    BY <1>4, <2>1, <2>3, <2>4, <2>5
<1>7. DOMAIN t = D
  OBVIOUS
<1> QED
  BY <1>2, <1>5, <1>6, <1>7

LEMMA EndOfHeaderKeeps == ASSUME Parameters, IndexInv, EndOfHeader PROVE IndexInv'
<1>1. CASE Overlap
  BY <1>1, RejectKeeps DEF EndOfHeader
<1>2. CASE ~Overlap
  <2>1. /\ file \in Nat /\ file \in 1..NumFiles /\ NumFiles \in Nat
        /\ \A x \in AnyEntry : x.file \in 1..NumFiles
        /\ header \in Seq(AnyEntry) /\ tensors \in Seq(AnyEntry) /\ tensors = header
    BY <1>2 DEF Parameters, IndexInv, TypeInv, EndOfHeader, AnyEntry, HeaderInv
  <2>2. \A i, k \in DOMAIN header : i # k => header[i].name # header[k].name
    BY <1>2 DEF EndOfHeader, IndexInv, HeaderInv
  <2>3. ASSUME NEW i \in DOMAIN header, NEW k \in DOMAIN header, i # k,
               header[i].file = header[k].file, Checked(header[i].file)'
        PROVE  Disjoint(header[i], header[k])
    <3>1. header[i].file \in 1..NumFiles
      BY <2>1
    <3>2. header[i].file < file \/ header[i].file = file
      BY <1>2, <2>1, <2>3, <3>1 DEF Checked, EndOfHeader
    <3>3. CASE header[i].file < file
      BY <1>2, <2>3, <3>3 DEF EndOfHeader, IndexInv, HeaderInv, Checked
    <3>4. CASE header[i].file = file
      <4>1. i \in Ranges /\ k \in Ranges
        BY <2>1, <2>3, <3>4 DEF Ranges
      <4>2. \A j \in DOMAIN tensors : Fits(tensors[j])
        BY <1>2, <2>1 DEF EndOfHeader, IndexInv, HeaderInv
      <4> QED
        BY <1>2, <2>1, <2>3, <4>1, <4>2, NoOverlap DEF EndOfHeader, IndexInv
    <3> QED
      BY <3>2, <3>3, <3>4
  <2>4. /\ tensors' \in Seq(AnyEntry)
        /\ status' \in {"open", "parse"} => tensors' = header
        /\ status' = "ready" => TableInv'
    <3>1. CASE file = NumFiles /\ engine = C
      <4>1. PICK p \in Sorting : tensors' = [i \in DOMAIN tensors |-> tensors[p[i]]]
        BY <1>2, <3>1 DEF EndOfHeader
      <4>2. /\ tensors' \in Seq(AnyEntry)
            /\ \A i \in DOMAIN tensors : \E k \in DOMAIN tensors' : tensors'[k] = tensors[i]
            /\ \A k \in DOMAIN tensors' : \E i \in DOMAIN tensors : tensors'[k] = tensors[i]
            /\ \A i, k \in DOMAIN tensors' : i < k => tensors'[i].name < tensors'[k].name
        <5>1. \A i, k \in DOMAIN tensors : i # k => tensors[i].name # tensors[k].name
          BY <2>1, <2>2
        <5> DEFINE t == [i \in DOMAIN tensors |-> tensors[p[i]]]
        <5>2. tensors \in Seq(AnyEntry)
          BY <2>1
        <5>3. /\ t \in Seq(AnyEntry)
              /\ \A i \in DOMAIN tensors : \E k \in DOMAIN t : t[k] = tensors[i]
              /\ \A k \in DOMAIN t : \E i \in DOMAIN tensors : t[k] = tensors[i]
              /\ \A i, k \in DOMAIN t : i < k => t[i].name < t[k].name
          BY <5>1, <5>2, SortingSorts
        <5> QED
          BY <4>1, <5>3
      <4>3. status' = "ready" /\ header' = header
        BY <1>2, <3>1 DEF EndOfHeader
      <4> QED
        BY <2>1, <4>2, <4>3 DEF TableInv
    <3>2. CASE ~ (file = NumFiles /\ engine = C)
      <4>1. tensors' = tensors /\ header' = header /\ engine' = engine
        BY <1>2, <3>2 DEF EndOfHeader
      <4>2. status' = "ready" => engine # C
        BY <1>2, <3>2 DEF EndOfHeader
      <4> QED
        BY <2>1, <4>1, <4>2 DEF TableInv
    <3> QED
      BY <3>1, <3>2
  <2>5. /\ header' = header /\ engine' = engine /\ fds' = fds /\ job' = job
        /\ status = "parse"
        /\ \/ file = NumFiles /\ file' = file /\ status' = "ready"
           \/ file # NumFiles /\ file' = file + 1 /\ status' = "open"
    BY <1>2 DEF EndOfHeader
  <2>6. TypeInv'
    BY <2>1, <2>4, <2>5 DEF IndexInv, TypeInv, AnyEntry, States
  <2>7. FilesInv'
    <3>1. \A f \in 1..NumFiles : f \in Nat /\ (fds[f] = "open" <=> f <= file)
      BY <2>5 DEF IndexInv, FilesInv
    <3> QED
      BY <2>1, <2>5, <3>1 DEF FilesInv
  <2>8. JobsInv'
    BY <2>5 DEF IndexInv, JobsInv, Idle
  <2>9. HeaderInv'
    <3>1. \A i \in DOMAIN header : Fits(header[i])
      BY <2>5 DEF IndexInv, HeaderInv
    <3>2. \A e : Fits(e)' = Fits(e)
      BY <2>5 DEF Fits
    <3>3. \A d, e : Disjoint(d, e)' = Disjoint(d, e)
      BY DEF Disjoint
    <3>4. \A i, k \in DOMAIN header :
            i # k => /\ header[i].name # header[k].name
                     /\ (header[i].file = header[k].file /\ Checked(header[i].file)'
                           => Disjoint(header[i], header[k]))
      BY <2>2, <2>3
    <3> QED
      BY <2>4, <2>5, <3>1, <3>2, <3>3, <3>4 DEF HeaderInv
  <2>10. TableInv'
    BY <2>4, <2>5 DEF TableInv
  <2> QED
    BY <2>6, <2>7, <2>8, <2>9, <2>10 DEF IndexInv
<1> QED
  BY <1>1, <1>2

LEMMA UnwindKeeps == ASSUME Parameters, IndexInv, Unwind PROVE IndexInv'
<1>1. tensors' \in Seq(AnyEntry)
  BY DEF Unwind
<1>2. AllClosed \in [1..NumFiles -> {"none", "open", "closed"}]
      /\ \A f \in 1..NumFiles : AllClosed[f] # "open"
  BY DEF IndexInv, TypeInv, AllClosed
<1> QED
  BY <1>1, <1>2 DEF Unwind, IndexInv, TypeInv, FilesInv, JobsInv, HeaderInv, TableInv, AnyEntry,
                    States, Idle

\* A step that changes jobs alone, and only while the index is open.
LEMMA JobsChange ==
  ASSUME Parameters, IndexInv, UNCHANGED <<engine, header, tensors, file, fds, status>>,
         job' \in [Jobs -> [state : States, file : 1..NumFiles]], JobsInv'
  PROVE  IndexInv'
BY DEF IndexInv, TypeInv, FilesInv, HeaderInv, TableInv, AnyEntry, Fits, Checked, Disjoint

\* A job that was handed to the threads shows that the index was opened.
LEMMA BusyJobs ==
  ASSUME Parameters, IndexInv, NEW j \in Jobs, NEW s \in States \ {"idle", "queued"},
         job[j].state \in {"queued", "started", "reading"}, SetJob(j, s),
         UNCHANGED <<engine, header, tensors, file, fds, status>>
  PROVE  IndexInv'
<1>1. status \in {"ready", "closing"}
  BY DEF IndexInv, TypeInv, JobsInv, Idle
<1>2. job' \in [Jobs -> [state : States, file : 1..NumFiles]]
  BY DEF SetJob, IndexInv, TypeInv
<1>3. JobsInv'
  BY <1>1 DEF JobsInv
<1> QED
  BY <1>2, <1>3, JobsChange

LEMMA SubmitKeeps == ASSUME Parameters, IndexInv, NEW j \in Jobs, Submit(j) PROVE IndexInv'
<1>1. PICK name \in Names :
        /\ Find(name) # 0
        /\ job' = [job EXCEPT ![j] = [state |-> "queued", file |-> tensors[Find(name)].file]]
  BY DEF Submit
<1>2. Find(name) \in DOMAIN tensors
  BY <1>1, FindFinds DEF Submit, IndexInv
<1>3. tensors[Find(name)].file \in 1..NumFiles
  <2>1. tensors \in Seq(AnyEntry)
    BY DEF Submit, IndexInv, TypeInv
  <2>2. tensors[Find(name)] \in AnyEntry
    BY <1>2, <2>1
  <2> QED
    BY <2>2 DEF AnyEntry
<1>4. job' \in [Jobs -> [state : States, file : 1..NumFiles]]
  BY <1>1, <1>3 DEF IndexInv, TypeInv, States
<1>5. JobsInv'
  BY DEF Submit, JobsInv
<1> QED
  BY <1>4, <1>5, JobsChange DEF Submit

LEMMA WorkKeeps ==
  ASSUME Parameters, IndexInv, NEW j \in Jobs, Start(j) \/ TakeDescriptor(j) \/ EndRead(j)
  PROVE  IndexInv'
<1>1. PICK s \in States \ {"idle", "queued"} : SetJob(j, s)
  BY DEF Start, TakeDescriptor, EndRead, States
<1>2. /\ job[j].state \in {"queued", "started", "reading"}
      /\ UNCHANGED <<engine, header, tensors, file, fds, status>>
  BY DEF Start, TakeDescriptor, EndRead
<1> QED
  BY <1>1, <1>2, BusyJobs

LEMMA CloseKeeps == ASSUME Parameters, IndexInv, Close PROVE IndexInv'
<1>1. job' \in [Jobs -> [state : States, file : 1..NumFiles]]
  <2>1. \A j \in Jobs : job[j] \in [state : States, file : 1..NumFiles]
    BY DEF IndexInv, TypeInv
  <2>2. \A j \in Jobs : [job[j] EXCEPT !.state = "cancelled"] \in [state : States, file : 1..NumFiles]
    BY <2>1 DEF States
  <2> QED
    BY <2>1, <2>2 DEF Close
<1>2. TypeInv'
  BY <1>1 DEF Close, IndexInv, TypeInv, AnyEntry
<1> QED
  BY <1>2 DEF Close, IndexInv, FilesInv, JobsInv, HeaderInv, TableInv, Fits, Checked, Disjoint

LEMMA ClosedKeeps == ASSUME Parameters, IndexInv, Closed PROVE IndexInv'
<1>1. tensors' \in Seq(AnyEntry)
  BY DEF Closed, IndexInv, TypeInv
<1>2. AllClosed \in [1..NumFiles -> {"none", "open", "closed"}]
      /\ \A f \in 1..NumFiles : AllClosed[f] # "open"
  BY DEF IndexInv, TypeInv, AllClosed
<1>3. TypeInv'
  BY <1>1, <1>2 DEF Closed, IndexInv, TypeInv, AnyEntry, States
<1> QED
  BY <1>2, <1>3 DEF Closed, IndexInv, FilesInv, JobsInv, HeaderInv, TableInv

\* No step destroys the invariant.
LEMMA NextIndexInv == ASSUME Parameters, IndexInv, [Next]_vars PROVE IndexInv'
<1>1. CASE OpenFile
  BY <1>1, OpenFileKeeps
<1>2. CASE ParseEntry
  BY <1>2, ParseEntryKeeps
<1>3. CASE Malformed
  BY <1>3, RejectKeeps DEF Malformed
<1>4. CASE EndOfHeader
  BY <1>4, EndOfHeaderKeeps
<1>5. CASE Unwind
  BY <1>5, UnwindKeeps
<1>6. CASE Close
  BY <1>6, CloseKeeps
<1>7. CASE Closed
  BY <1>7, ClosedKeeps
<1>8. CASE \E j \in Jobs : Submit(j) \/ Start(j) \/ TakeDescriptor(j) \/ EndRead(j)
  BY <1>8, SubmitKeeps, WorkKeeps
<1>9. CASE UNCHANGED vars
  BY <1>9 DEF vars, IndexInv, TypeInv, FilesInv, JobsInv, HeaderInv, TableInv, AnyEntry, Fits,
              Checked, Disjoint, Idle
<1> QED
  BY <1>1, <1>2, <1>3, <1>4, <1>5, <1>6, <1>7, <1>8, <1>9 DEF Next

-----------------------------------------------------------------------------
(* What follows *)

LEMMA OpenIndexIsSound ==
  ASSUME Parameters, NoWrap, IndexInv
  PROVE  IndexIsSound
<1> SUFFICES ASSUME status = "ready"
             PROVE  IndexIsSound
  BY DEF IndexIsSound
<1>1. header \in Seq(AnyEntry) /\ Len(header) \in Nat /\ DOMAIN header = 1..Len(header)
  BY DEF IndexInv, TypeInv
<1>2. ASSUME NEW i \in DOMAIN header
      PROVE  Sound(header[i])
  <2>1. header[i] \in AnyEntry
    BY <1>1
  <2>2. header[i].elems \in Nat /\ header[i].elems \in Sizes /\ Word \in Nat \ {0}
    BY <2>1 DEF AnyEntry, Parameters
  <2>3. engine = C => header[i].elems % Word = header[i].elems
    <3>1. engine = C => header[i].elems < Word
      BY <2>2 DEF NoWrap, IndexInv, TypeInv
    <3> QED
      BY <2>2, <3>1
  <2>4. Fits(header[i])
    BY DEF IndexInv, HeaderInv
  <2> QED
    BY <2>3, <2>4 DEF Fits, Sound
<1>3. ASSUME NEW i \in DOMAIN header, NEW k \in 1..(i - 1)
      PROVE  Apart(header[i], header[k])
  <2>1. k \in DOMAIN header /\ i # k
    BY <1>1
  <2> QED
    BY <2>1 DEF IndexInv, HeaderInv, Checked, Disjoint, Apart
<1>4. ASSUME NEW name \in Names
      PROVE  IF \E i \in DOMAIN header : header[i].name = name
             THEN Find(name) # 0 /\ tensors[Find(name)].name = name
             ELSE Find(name) = 0
  <2>1. /\ \A i \in DOMAIN header : \E k \in DOMAIN tensors : tensors[k] = header[i]
        /\ \A k \in DOMAIN tensors : \E i \in DOMAIN header : tensors[k] = header[i]
    BY DEF IndexInv, TableInv
  <2>2. /\ Find(name) # 0 => Find(name) \in DOMAIN tensors /\ tensors[Find(name)].name = name
        /\ (\E k \in DOMAIN tensors : tensors[k].name = name) => Find(name) # 0
    BY FindFinds DEF IndexInv
  <2> QED
    BY <2>1, <2>2
<1> QED
  BY <1>2, <1>3, <1>4 DEF IndexIsSound

LEMMA NoneLeftOpen == Parameters /\ IndexInv => DescriptorsClosed
<1> SUFFICES ASSUME Parameters, IndexInv
             PROVE  DescriptorsClosed
  OBVIOUS
<1>1. ASSUME NEW j \in Jobs, job[j].state = "reading"
      PROVE  fds[job[j].file] = "open"
  <2>1. status \in {"ready", "closing"}
    BY <1>1 DEF IndexInv, TypeInv, JobsInv, Idle
  <2>2. job[j].file \in 1..NumFiles
    BY DEF IndexInv, TypeInv
  <2> QED
    BY <2>1, <2>2 DEF IndexInv, FilesInv
<1>2. DOMAIN fds = 1..NumFiles
  BY DEF IndexInv, TypeInv
<1> QED
  BY <1>1, <1>2 DEF DescriptorsClosed, IndexInv, FilesInv

-----------------------------------------------------------------------------
(* The theorems *)

\* The invariant of both indices, for any files, headers and jobs.
THEOREM IndexInvariant ==
  ASSUME Parameters
  PROVE  Spec => []IndexInv
<1>1. Init => IndexInv
  BY InitIndexInv
<1>2. IndexInv /\ [Next]_vars => IndexInv'
  BY NextIndexInv
<1> QED
  BY <1>1, <1>2, PTL DEF Spec

\* safetensors.c:189 and storage.py:137 for any headers: what the index holds
\* lies in its file, has the size of its shape, overlaps nothing and is found
\* by its name, provided that no product of dimensions wraps in C.
THEOREM OpenIndicesAreSound ==
  ASSUME Parameters, NoWrap
  PROVE  Spec => []IndexIsSound
<1>1. IndexInv => IndexIsSound
  BY OpenIndexIsSound
<1> QED
  BY <1>1, IndexInvariant, PTL

\* Threads read from open descriptors, and none is left open by a failed open
\* (safetensors.c:289) or a close, for any numbers of files and threads.
THEOREM DescriptorsAreClosed ==
  ASSUME Parameters
  PROVE  Spec => []DescriptorsClosed
<1>1. IndexInv => DescriptorsClosed
  BY NoneLeftOpen
<1> QED
  BY <1>1, IndexInvariant, PTL
=============================================================================
