--------------------------- MODULE ExpertStoreProof ---------------------------
(***************************************************************************)
(* Proofs about ExpertStore for any threads, experts, futures and cache.   *)
(* However threads get, request, prepare and close, and however the group  *)
(* reads end: an expert is read by one group at a time (OneReadAtATime);   *)
(* marks, cache and futures keep their bounds (TypeOK).  If one thread     *)
(* uses the store: what it demands is there when it looks again            *)
(* (NeverDisappears), and prefetches are counted once.                     *)
(***************************************************************************)
EXTENDS ExpertStore, SequenceTheorems, FiniteSetTheorems, TLAPS

Future == [key : Keys, result : {"pending", "value", "error", "cancelled"}]

\* What a thread's record may be.  The code of each place in a call uses the
\* key, the experts wanted or the future that was found.
Places == {"idle", "count", "lookup", "wait", "take", "failed", "put", "reread", "request",
           "existing", "open", "submit", "last", "harvest", "pick", "store", "inserted",
           "rejected", "cancel"}
Record == [pc : Places, op : {"none", "get", "ahead", "prefetch", "prepare", "close"},
           key : Keys \cup {NoKey}, future : FutureIds \cup {NoFuture},
           want : SUBSET Keys, work : SUBSET FutureIds]
Harvesting(r) == r.pc \in {"pick", "store", "inserted", "rejected"}
InTurn(r) ==
  /\ r.pc \in {"count", "lookup", "wait", "take", "failed", "put", "reread", "request",
               "existing", "last"} => r.key \in Keys
  /\ r.pc \in {"open", "submit"} /\ r.op # "prepare" => r.key \in Keys
  /\ r.pc = "submit" /\ r.op # "prepare" => r.want = {r.key}
  /\ r.pc \in {"harvest", "pick", "store", "inserted", "rejected"} => r.op = "prepare"
  /\ r.pc \in {"wait", "take", "failed", "store", "inserted", "rejected"} => r.future # NoFuture

\* The futures a thread refers to, and those of them that it relies on being
\* done: what it waited for, and what it harvests.
Refers(r) == {r.future} \cup r.work
Settled(r) == (IF r.pc \in {"take", "failed", "store", "inserted", "rejected"}
               THEN {r.future} ELSE {})
              \cup (IF Harvesting(r) THEN r.work ELSE {})

\* Every future in use is known, and one in _futures is of its expert.
FuturesInv ==
  /\ futs \in [DOMAIN futs -> Future] /\ DOMAIN futs \subseteq FutureIds
  /\ Referenced \subseteq DOMAIN futs \cup {NoFuture}
  /\ futures \in [DOMAIN futures -> DOMAIN futs] /\ DOMAIN futures \subseteq Keys
  /\ \A k \in DOMAIN futures : futs[futures[k]].key = k

ThreadsInv ==
  /\ thread \in [Threads -> Record]
  /\ \A t \in Threads : /\ InTurn(thread[t])
                        /\ \A f \in Settled(thread[t]) : Done(f)
                        /\ At(t, "cancel") => closed

\* A group read has futures to set, which no other has.  While it reads they
\* are pending and in _futures, unless close has emptied that.
Group == [todo : Seq(FutureIds), phase : {"reading", "setting", "failing"}, checked : BOOLEAN]
Awaited(f) == ~Done(f) /\ Is(futs[f].key, f)
TasksInv ==
  /\ tasks \subseteq Group
  /\ \A g \in tasks : g.todo # <<>> /\ (g.checked => g.phase # "reading")
  /\ \A g, h \in tasks : g # h => Range(g.todo) \cap Range(h.todo) = {}
  /\ ~closed => \A g \in tasks : g.phase = "reading" => \A f \in Range(g.todo) : Awaited(f)

\* The bounds of the marks, the cache and the counters.
BoundsInv ==
  /\ prefetching \subseteq DOMAIN futures /\ Cardinality(prefetching) <= MaxSpeculative
  /\ ready \subseteq Keys
  /\ cache \subseteq Keys /\ Cardinality(cache) <= Slots
  /\ closed \in BOOLEAN
  /\ callers \in Callers
  /\ submitted \in Nat /\ hits \in Nat /\ wasted \in Nat

\* With one thread: what it harvests is still in _futures and marked, and an
\* expert it found neither missing nor pending is cached.
Marked(f) == Is(futs[f].key, f) /\ futs[f].key \in prefetching
AloneRecord(r) ==
  /\ r.pc = "reread" => r.key \in cache
  /\ r.pc = "last" /\ r.op = "get" => r.key \in cache \cup DOMAIN futures
  /\ Harvesting(r) => \A f \in r.work : Marked(f)
  /\ r.pc \in {"store", "inserted", "rejected"} => Marked(r.future) /\ r.future \notin r.work
AloneInv == Alone => \A t \in callers : AloneRecord(thread[t])

StoreInv == /\ FuturesInv /\ ThreadsInv /\ TasksInv /\ BoundsInv /\ AloneInv
            /\ PrefetchesCountedOnce

-----------------------------------------------------------------------------
(* Sets, sequences and identities *)

LEMMA SequenceOfSet ==
  ASSUME NEW S, IsFiniteSet(S)
  PROVE  SetToSeq(S) \in Seq(S) /\ Range(SetToSeq(S)) = S
<1> DEFINE n == Cardinality(S)
           s == SetToSeq(S)
<1>1. n \in Nat /\ ExistsBijection(1..n, S)
  BY FS_CardinalityType
<1>2. \E f \in [1..n -> S] : IsInjective(f)
  BY <1>1 DEF ExistsBijection, Bijection, Injection
<1>3. s \in [1..n -> S] /\ IsInjective(s)
  BY <1>2 DEF SetToSeq
<1>4. s \in Injection(1..n, S)
  BY <1>3 DEF Injection
<1>5. IsFiniteSet(1..n) /\ Cardinality(1..n) = n
  BY <1>1, FS_Interval
<1>6. s \in Surjection(1..n, S)
  BY <1>4, <1>5, FS_Injection
<1> HIDE DEF s
<1>7. Range(s) = S
  BY <1>3, <1>6 DEF Surjection, Range
<1> QED
  BY <1>1, <1>3, <1>7 DEF s

\* As many identities as experts are free: NewFutures gives each one of its own.
LEMMA FreshFutures ==
  ASSUME NEW ks, IsFiniteSet(ks), IsFiniteSet(FutureIds),
         Cardinality(ks) <= Cardinality(FutureIds \ Referenced)
  PROVE  /\ NewFutures(ks) \in [ks -> FutureIds \ Referenced]
         /\ IsInjective(NewFutures(ks))
<1> DEFINE free == FutureIds \ Referenced
           n == Cardinality(ks)
           m == Cardinality(free)
<1>1. IsFiniteSet(free)
  BY FS_Subset
<1> HIDE DEF free
<1>2. n \in Nat /\ m \in Nat /\ n <= m /\ ExistsBijection(1..n, ks) /\ ExistsBijection(1..m, free)
  BY <1>1, FS_CardinalityType DEF free
<1>3. PICK a \in [1..n -> ks] : \A k \in ks : \E i \in 1..n : a[i] = k
  BY <1>2 DEF ExistsBijection, Bijection, Surjection
<1>4. PICK b \in [1..m -> free] : \A i, j \in 1..m : b[i] = b[j] => i = j
  BY <1>2 DEF ExistsBijection, Bijection, Injection, IsInjective
<1> DEFINE position(k) == CHOOSE i \in 1..n : a[i] = k
           new == [k \in ks |-> b[position(k)]]
<1>5. \A k \in ks : position(k) \in 1..n /\ a[position(k)] = k
  BY <1>3
<1>6. \A k \in ks : position(k) \in 1..m
  BY <1>2, <1>5
<1> HIDE DEF position
<1>7. new \in [ks -> free]
  BY <1>4, <1>6
<1>8. IsInjective(new)
  BY <1>4, <1>5, <1>6 DEF IsInjective
<1> QED
  BY <1>7, <1>8 DEF NewFutures, free

LEMMA KeysAreFinite ==
  ASSUME Parameters, NEW S, S \subseteq Keys
  PROVE  IsFiniteSet(S) /\ Cardinality(S) \in Nat
BY FS_Subset, FS_CardinalityType DEF Parameters

\* Putting an expert in the cache leaves it within its budget.
LEMMA PutKeepsBudget ==
  ASSUME Parameters, cache \subseteq Keys, Cardinality(cache) <= Slots,
         NEW k \in Keys, cache' \in AfterPut(k)
  PROVE  cache' \subseteq Keys /\ Cardinality(cache') <= Slots
<1>1. IsFiniteSet(cache) /\ Cardinality(cache) \in Nat /\ Slots \in Nat
  BY KeysAreFinite DEF Parameters
<1>2. CASE cache' = cache \cup {k} /\ (k \in cache \/ Cardinality(cache) < Slots)
  <2>1. Cardinality(cache \cup {k}) = IF k \in cache THEN Cardinality(cache)
                                      ELSE Cardinality(cache) + 1
    BY <1>1, FS_AddElement
  <2>2. Cardinality(cache \cup {k}) <= Slots
    BY <1>1, <1>2, <2>1
  <2> QED
    BY <1>2, <2>2
<1>3. ASSUME NEW v \in cache, cache' = (cache \ {v}) \cup {k}
      PROVE  cache' \subseteq Keys /\ Cardinality(cache') <= Slots
  <2> DEFINE rest == cache \ {v}
  <2>1. IsFiniteSet(rest) /\ Cardinality(rest) = Cardinality(cache) - 1
    BY <1>1, FS_RemoveElement
  <2> HIDE DEF rest
  <2>2. Cardinality(rest \cup {k}) = IF k \in rest THEN Cardinality(rest)
                                     ELSE Cardinality(rest) + 1
    BY <2>1, FS_AddElement
  <2>3. Cardinality(rest \cup {k}) <= Slots
    BY <1>1, <2>1, <2>2
  <2> QED
    BY <1>3, <2>3 DEF rest
<1>4. CASE cache' = cache
  BY <1>4
<1> QED
  BY <1>2, <1>3, <1>4 DEF AfterPut

-----------------------------------------------------------------------------
(* Steps of a thread *)

LEMMA CallersAreThreads ==
  ASSUME Parameters, BoundsInv
  PROVE  callers \subseteq Threads /\ (Alone => \A t, u \in callers : t = u)
<1>1. callers \subseteq Threads
  BY DEF Parameters, BoundsInv
<1>2. IsFiniteSet(callers)
  BY <1>1, FS_Subset DEF Parameters
<1>3. Alone => \E t : callers = {t}
  BY <1>2, FS_Singleton DEF Alone
<1> QED
  BY <1>1, <1>3

LEMMA ReferencedFutures ==
  \A f : f \in Referenced <=> \/ f \in Range(futures)
                              \/ \E t \in Threads : f \in Refers(thread[t])
                              \/ \E g \in tasks : f \in Range(g.todo)
<1> DEFINE ofThreads == UNION {{thread[t].future} \cup thread[t].work : t \in Threads}
           ofTasks == UNION {Range(g.todo) : g \in tasks}
<1>1. \A f : f \in ofThreads <=> \E t \in Threads : f \in Refers(thread[t])
  BY DEF Refers
<1>2. \A f : f \in ofTasks <=> \E g \in tasks : f \in Range(g.todo)
  OBVIOUS
<1>3. Referenced = Range(futures) \cup ofThreads \cup ofTasks
  BY DEF Referenced
<1> HIDE DEF ofThreads, ofTasks
<1> QED
  BY <1>1, <1>2, <1>3

LEMMA ReferencedNext ==
  \A f : f \in Referenced' <=> \/ f \in Range(futures')
                               \/ \E t \in Threads : f \in Refers(thread'[t])
                               \/ \E g \in tasks' : f \in Range(g.todo)
<1> DEFINE ofThreads == UNION {{thread'[t].future} \cup thread'[t].work : t \in Threads}
           ofTasks == UNION {Range(g.todo) : g \in tasks'}
<1>1. \A f : f \in ofThreads <=> \E t \in Threads : f \in Refers(thread'[t])
  BY DEF Refers
<1>2. \A f : f \in ofTasks <=> \E g \in tasks' : f \in Range(g.todo)
  OBVIOUS
<1>3. Referenced' = Range(futures') \cup ofThreads \cup ofTasks
  BY DEF Referenced
<1> HIDE DEF ofThreads, ofTasks
<1> QED
  BY <1>1, <1>2, <1>3

\* Dropping the futures nobody refers to changes nothing for the others.
LEMMA CollectedFutures ==
  ASSUME NoFuture \notin FutureIds,
         NEW fs, fs \in [DOMAIN fs -> Future], DOMAIN fs \subseteq FutureIds,
         futs' \in {fs, Collected(fs)}, Referenced' \subseteq DOMAIN fs \cup {NoFuture},
         DOMAIN futures' \subseteq Keys, futures' \in [DOMAIN futures' -> DOMAIN fs],
         \A k \in DOMAIN futures' : fs[futures'[k]].key = k
  PROVE  /\ FuturesInv'
         /\ \A f \in Referenced' \ {NoFuture} : f \in DOMAIN futs' /\ futs'[f] = fs[f]
<1>1. Range(futures') \subseteq Referenced'
  BY DEF Referenced
<1>2. \A k \in DOMAIN futures' : futures'[k] \in Referenced' \ {NoFuture}
  BY <1>1 DEF Range
<1>3. DOMAIN Collected(fs) = Referenced' \ {NoFuture}
      /\ \A f \in Referenced' \ {NoFuture} : Collected(fs)[f] = fs[f]
  BY DEF Collected, Restrict
<1>4. CASE futs' = fs
  BY <1>2, <1>4 DEF FuturesInv
<1>5. CASE futs' = Collected(fs)
  <2>1. /\ DOMAIN futs' = Referenced' \ {NoFuture}
        /\ \A f \in Referenced' \ {NoFuture} : futs'[f] = fs[f]
    BY <1>3, <1>5
  <2>2. futs' \in [DOMAIN futs' -> Future]
    BY <1>3, <1>5, <2>1 DEF Collected, Restrict
  <2> QED
    BY <1>2, <2>1, <2>2 DEF FuturesInv
<1> QED
  BY <1>4, <1>5

\* What a thread may go on to from the present state.
MayBe(r) == /\ r \in Record /\ InTurn(r)
            /\ r.pc = "cancel" => closed
            /\ \A f \in Settled(r) : Done(f)
            /\ Refers(r) \subseteq Referenced \cup {NoFuture}

\* A step that leaves _futures alone, or pops a future that is done.
PopsDone == \/ futures' = futures
            \/ \E k \in DOMAIN futures : /\ Done(futures[k])
                                         /\ futures' = Restrict(futures, DOMAIN futures \ {k})

LEMMA ThreadStep ==
  ASSUME Parameters, FuturesInv, ThreadsInv, TasksInv, NEW t \in Threads, NEW r, MayBe(r),
         thread' = [thread EXCEPT ![t] = r], futs' \in {futs, Collected(futs)}, PopsDone,
         UNCHANGED <<closed, tasks>>
  PROVE  /\ FuturesInv' /\ ThreadsInv' /\ TasksInv'
         /\ \A f \in Referenced' \ {NoFuture} : f \in DOMAIN futs' /\ futs'[f] = futs[f]
<1>1. /\ NoFuture \notin FutureIds /\ thread \in [Threads -> Record]
      /\ thread' \in [Threads -> Record] /\ thread'[t] = r
      /\ \A u \in Threads \ {t} : thread'[u] = thread[u]
  BY DEF Parameters, ThreadsInv, MayBe
<1>2. /\ DOMAIN futures' \subseteq DOMAIN futures
      /\ futures' \in [DOMAIN futures' -> Range(futures)]
      /\ \A k \in DOMAIN futures' : futures'[k] = futures[k]
      /\ \A k \in DOMAIN futures \ DOMAIN futures' : Done(futures[k])
  <2>1. CASE futures' = futures
    BY <2>1 DEF Range, FuturesInv
  <2>2. ASSUME NEW k \in DOMAIN futures, Done(futures[k]),
               futures' = Restrict(futures, DOMAIN futures \ {k})
        PROVE  /\ DOMAIN futures' \subseteq DOMAIN futures
               /\ futures' \in [DOMAIN futures' -> Range(futures)]
               /\ \A x \in DOMAIN futures' : futures'[x] = futures[x]
               /\ \A x \in DOMAIN futures \ DOMAIN futures' : Done(futures[x])
    <3>1. DOMAIN futures' = DOMAIN futures \ {k}
      BY <2>2 DEF Restrict
    <3>2. \A x \in DOMAIN futures' : futures'[x] = futures[x]
      BY <2>2 DEF Restrict
    <3>3. futures' \in [DOMAIN futures' -> Range(futures)]
      BY <2>2, <3>1 DEF Restrict, Range
    <3> QED
      BY <2>2, <3>1, <3>2, <3>3
  <2> QED
    BY <2>1, <2>2 DEF PopsDone
<1>3. Referenced' \subseteq Referenced \cup {NoFuture}
  <2>1. Range(futures') \subseteq Range(futures)
    BY <1>2 DEF Range
  <2>2. \A u \in Threads : Refers(thread'[u]) \subseteq Referenced \cup {NoFuture}
    BY <1>1, ReferencedFutures DEF MayBe
  <2> QED
    BY <2>1, <2>2, ReferencedFutures, ReferencedNext
<1>4. /\ FuturesInv'
      /\ \A f \in Referenced' \ {NoFuture} : f \in DOMAIN futs' /\ futs'[f] = futs[f]
  BY <1>1, <1>2, <1>3, CollectedFutures DEF FuturesInv, Range
<1>5. \A u \in Threads : Refers(thread'[u]) \subseteq Referenced'
  BY ReferencedNext
<1>6. \A u \in Threads : \A f \in Settled(thread'[u]) : Done(f)
  BY <1>1 DEF ThreadsInv, MayBe
<1>7. \A u \in Threads : \A f \in Settled(thread'[u]) : Done(f)'
  <2> SUFFICES ASSUME NEW u \in Threads, NEW f \in Settled(thread'[u])
               PROVE  Done(f)'
    OBVIOUS
  <2>1. f \in Refers(thread'[u])
    BY DEF Settled, Refers
  <2>2. InTurn(thread'[u]) /\ thread'[u] \in Record
    BY <1>1 DEF ThreadsInv, MayBe
  <2>3. f # NoFuture
    BY <1>1, <2>2 DEF Settled, InTurn, Record
  <2> QED
    BY <1>4, <1>5, <1>6, <2>1, <2>3 DEF Done
<1>8. ThreadsInv'
  BY <1>1, <1>7 DEF ThreadsInv, At, MayBe
<1>9. TasksInv'
  <2>1. \A g \in tasks : \A f \in Range(g.todo) : f \in Referenced' \ {NoFuture}
    <3> SUFFICES ASSUME NEW g \in tasks, NEW f \in Range(g.todo)
                 PROVE  f \in Referenced' \ {NoFuture}
      OBVIOUS
    <3>1. f \in Referenced'
      BY ReferencedNext
    <3>2. g.todo \in Seq(FutureIds)
      BY DEF TasksInv, Group
    <3> QED
      BY <1>1, <3>1, <3>2 DEF Range
  <2>2. \A g \in tasks : \A f \in Range(g.todo) : Awaited(f) => Awaited(f)'
    BY <1>2, <1>4, <2>1 DEF Awaited, Is, Done
  <2> QED
    BY <2>2 DEF TasksInv
<1> QED
  BY <1>4, <1>8, <1>9

\* The same with what holds besides: the bounds and, if the thread is alone, the
\* facts of its record.
StaysMarked(f) == LET k == futs[f].key
                  IN k \in DOMAIN futures' \cap prefetching' /\ futures'[k] = f

LEMMA CallerStep ==
  ASSUME Parameters, StoreInv, NEW t \in callers, NEW r, MayBe(r),
         thread' = [thread EXCEPT ![t] = r], futs' \in {futs, Collected(futs)}, PopsDone,
         UNCHANGED <<callers, closed, tasks>>, BoundsInv', PrefetchesCountedOnce',
         Alone => /\ r.pc = "reread" => r.key \in cache'
                  /\ r.pc = "last" /\ r.op = "get" => r.key \in cache' \cup DOMAIN futures'
                  /\ Harvesting(r) => \A f \in r.work : StaysMarked(f)
                  /\ r.pc \in {"store", "inserted", "rejected"} =>
                       StaysMarked(r.future) /\ r.future \notin r.work
  PROVE  StoreInv'
<1>1. callers \subseteq Threads /\ (Alone => callers = {t})
  BY CallersAreThreads DEF StoreInv
<1>2. /\ FuturesInv' /\ ThreadsInv' /\ TasksInv'
      /\ \A f \in Referenced' \ {NoFuture} : f \in DOMAIN futs' /\ futs'[f] = futs[f]
  BY <1>1, ThreadStep DEF StoreInv
<1>3. thread'[t] = r
  BY <1>1 DEF StoreInv, ThreadsInv
<1>4. \A f \in Refers(r) \ {NoFuture} : futs'[f] = futs[f]
  BY <1>1, <1>2, <1>3, ReferencedNext
<1>5. /\ \A f \in r.work : f \in Refers(r) \ {NoFuture}
      /\ r.pc \in {"store", "inserted", "rejected"} => r.future \in Refers(r) \ {NoFuture}
  BY DEF MayBe, Record, InTurn, Refers, Parameters
<1>6. \A f \in Refers(r) \ {NoFuture} : StaysMarked(f) => Marked(f)'
  BY <1>4 DEF StaysMarked, Marked, Is
<1>7. Alone => AloneRecord(thread[t])'
  BY <1>3, <1>5, <1>6 DEF AloneRecord
<1>8. AloneInv'
  BY <1>1, <1>7 DEF AloneInv, Alone
<1> QED
  BY <1>2, <1>8 DEF StoreInv

LEMMA QuietStep ==
  ASSUME Parameters, StoreInv, NEW t \in callers, NEW r, MayBe(r), Alone => AloneRecord(r),
         thread' = [thread EXCEPT ![t] = r], futs' \in {futs, Collected(futs)},
         UNCHANGED <<callers, store, cache, counters, tasks>>
  PROVE  StoreInv'
<1>1. BoundsInv' /\ PrefetchesCountedOnce' /\ PopsDone
  BY DEF StoreInv, BoundsInv, PrefetchesCountedOnce, Alone, PopsDone, store, counters
<1> QED
  BY <1>1, CallerStep DEF AloneRecord, Marked, Is, StaysMarked, store

LEMMA CurrentRecord ==
  ASSUME Parameters, StoreInv, NEW t \in callers
  PROVE  /\ t \in Threads /\ thread \in [Threads -> Record] /\ thread[t] \in Record
         /\ MayBe(thread[t]) /\ (Alone => AloneRecord(thread[t]))
<1>1. t \in Threads /\ thread \in [Threads -> Record] /\ thread[t] \in Record
  BY CallersAreThreads DEF StoreInv, ThreadsInv
<1>2. MayBe(thread[t])
  BY <1>1, ReferencedFutures DEF StoreInv, ThreadsInv, MayBe, At
<1>3. Alone => AloneRecord(thread[t])
  BY DEF StoreInv, AloneInv
<1> QED
  BY <1>1, <1>2, <1>3

LEMMA IdleRecord ==
  ASSUME Parameters
  PROVE  MayBe(Idle) /\ AloneRecord(Idle)
BY DEF Idle, MayBe, Record, Places, InTurn, Settled, Harvesting, Refers, AloneRecord

\* A call begins, or goes on to where it relies on no future.
LEMMA PlainRecord ==
  ASSUME NEW r \in Record, InTurn(r), r.future = NoFuture, r.work = {},
         r.pc \notin {"cancel", "take", "failed", "store", "inserted", "rejected"},
         Alone => /\ r.pc = "reread" => r.key \in cache
                  /\ r.pc = "last" /\ r.op = "get" => r.key \in cache \cup DOMAIN futures
  PROVE  MayBe(r) /\ (Alone => AloneRecord(r))
BY DEF MayBe, Settled, Harvesting, Refers, AloneRecord

-----------------------------------------------------------------------------
(* get, request, request_many *)

LEMMA CallsInv ==
  ASSUME Parameters, StoreInv, NEW t \in callers, NEW k \in Keys, NEW ks \in SUBSET Keys,
         NEW op \in {"ahead", "prefetch"},
         Get(t, k) \/ Request(t, k, op) \/ Prepare(t, ks)
  PROVE  StoreInv'
<1>1. UNCHANGED <<callers, futs, store, cache, counters, tasks>>
  BY DEF Get, Request, Prepare
<1>2. PICK r : /\ thread' = [thread EXCEPT ![t] = r]
               /\ \/ r = [Idle EXCEPT !.op = "get", !.key = k,
                                      !.pc = IF k \in cache THEN "count" ELSE "lookup"]
                  \/ r = [Idle EXCEPT !.pc = "request", !.op = op, !.key = k]
                  \/ r = [Idle EXCEPT !.pc = "harvest", !.op = "prepare", !.want = ks]
  BY DEF Get, Request, Prepare
<1>3. /\ r \in Record /\ InTurn(r) /\ r.future = NoFuture /\ r.work = {}
      /\ r.pc \in {"count", "lookup", "request", "harvest"}
  <2>1. CASE r = [Idle EXCEPT !.op = "get", !.key = k, !.pc = IF k \in cache THEN "count" ELSE "lookup"]
    BY <2>1 DEF Idle, Record, Places, InTurn
  <2>2. CASE r = [Idle EXCEPT !.pc = "request", !.op = op, !.key = k]
    BY <2>2 DEF Idle, Record, Places, InTurn
  <2>3. CASE r = [Idle EXCEPT !.pc = "harvest", !.op = "prepare", !.want = ks]
    BY <2>3 DEF Idle, Record, Places, InTurn
  <2> QED
    BY <1>2, <2>1, <2>2, <2>3
<1>4. MayBe(r) /\ (Alone => AloneRecord(r))
  BY <1>3, PlainRecord
<1> QED
  BY <1>1, <1>2, <1>4, QuietStep

\* A future that is in _futures is found by a get, which waits for it.
LEMMA FoundInv ==
  ASSUME Parameters, StoreInv, NEW t \in callers, NEW k \in DOMAIN futures,
         thread[t].key \in Keys, Found(t, futures[k]),
         UNCHANGED <<callers, futs, store, cache, counters, tasks>>
  PROVE  StoreInv'
<1>1. /\ t \in Threads /\ thread \in [Threads -> Record] /\ thread[t] \in Record
      /\ MayBe(thread[t])
  BY CurrentRecord
<1>2. futures[k] \in FutureIds /\ futures[k] \in Referenced /\ NoFuture \notin FutureIds
  BY ReferencedFutures DEF StoreInv, FuturesInv, Range, Parameters
<1>3. PICK r : r = IF thread[t].op = "get"
                   THEN [thread[t] EXCEPT !.pc = "wait", !.future = futures[k]] ELSE Idle
  OBVIOUS
<1>4. thread' = [thread EXCEPT ![t] = r]
  BY <1>1, <1>3 DEF Found, Return
<1>5. MayBe(r) /\ (Alone => AloneRecord(r))
  <2>1. CASE thread[t].op = "get"
    <3>1. r \in Record /\ r.pc = "wait" /\ InTurn(r)
      BY <1>1, <1>2, <1>3, <2>1 DEF Record, Places, InTurn
    <3>2. Refers(r) \subseteq Referenced \cup {NoFuture}
      BY <1>1, <1>2, <1>3, <2>1 DEF MayBe, Refers, Record
    <3> QED
      BY <3>1, <3>2 DEF MayBe, Settled, Harvesting, AloneRecord
  <2>2. CASE thread[t].op # "get"
    BY <1>3, <2>2, IdleRecord
  <2> QED
    BY <2>1, <2>2
<1> QED
  BY <1>4, <1>5, QuietStep

MayMove(t, pc) ==
  /\ ~Harvesting(thread[t]) /\ pc \notin {"cancel", "pick", "store", "inserted", "rejected"}
  /\ pc \in {"take", "failed"} => Done(thread[t].future)
  /\ Alone => /\ pc = "reread" => thread[t].key \in cache
              /\ pc = "last" /\ thread[t].op = "get" => thread[t].key \in cache \cup DOMAIN futures

\* A call that goes on elsewhere with nothing but its place, or what it wants,
\* changed.
LEMMA MovesInv ==
  ASSUME Parameters, StoreInv, NEW t \in callers, NEW pc \in Places, NEW want \in SUBSET Keys,
         thread' = [thread EXCEPT ![t] = [thread[t] EXCEPT !.pc = pc, !.want = want]],
         InTurn([thread[t] EXCEPT !.pc = pc, !.want = want]),
         MayMove(t, pc), UNCHANGED <<callers, futs, store, cache, counters, tasks>>
  PROVE  StoreInv'
<1>1. /\ t \in Threads /\ thread \in [Threads -> Record] /\ thread[t] \in Record
      /\ MayBe(thread[t])
  BY CurrentRecord
<1>2. PICK r : r = [thread[t] EXCEPT !.pc = pc, !.want = want]
  OBVIOUS
<1>3. /\ r \in Record /\ InTurn(r) /\ r.pc = pc /\ r.key = thread[t].key /\ r.op = thread[t].op
      /\ r.future = thread[t].future /\ r.work = thread[t].work
  BY <1>1, <1>2 DEF Record
<1>4. MayBe(r) /\ (Alone => AloneRecord(r))
  BY <1>1, <1>3 DEF MayBe, MayMove, Settled, Harvesting, Refers, AloneRecord
<1> QED
  BY <1>2, <1>4, QuietStep

LEMMA ReturnInv ==
  ASSUME Parameters, StoreInv, NEW t \in callers, Return(t),
         UNCHANGED <<callers, futs, store, cache, counters, tasks>>
  PROVE  StoreInv'
BY IdleRecord, QuietStep DEF Return

LEMMA GotoMoves ==
  ASSUME NEW t \in Threads, NEW pc, thread \in [Threads -> Record], Goto(t, pc)
  PROVE  thread' = [thread EXCEPT ![t] = [thread[t] EXCEPT !.pc = pc, !.want = thread[t].want]]
<1>1. thread[t] \in Record
  OBVIOUS
<1>2. [thread[t] EXCEPT !.pc = pc] = [thread[t] EXCEPT !.pc = pc, !.want = thread[t].want]
  BY <1>1 DEF Record
<1> QED
  BY <1>2 DEF Goto

LEMMA LooksInv ==
  ASSUME Parameters, StoreInv, NEW t \in callers,
         Look(t, "lookup", "request") \/ Look(t, "existing", "open")
  PROVE  StoreInv'
<1>1. /\ t \in Threads /\ thread \in [Threads -> Record] /\ thread[t] \in Record
      /\ InTurn(thread[t]) /\ UNCHANGED <<callers, futs, store, cache, counters, tasks>>
      /\ thread[t].pc \in {"lookup", "existing"} /\ thread[t].key \in Keys
  BY CurrentRecord DEF Look, At, MayBe, InTurn
<1>2. CASE thread[t].key \in DOMAIN futures
  BY <1>1, <1>2, FoundInv DEF Look
<1>3. CASE thread[t].key \notin DOMAIN futures
  <2>1. PICK pc \in {"request", "open"} : Goto(t, pc)
    BY <1>3 DEF Look
  <2>2. thread' = [thread EXCEPT ![t] = [thread[t] EXCEPT !.pc = pc, !.want = thread[t].want]]
    BY <1>1, <2>1, GotoMoves
  <2>3. InTurn([thread[t] EXCEPT !.pc = pc, !.want = thread[t].want]) /\ pc \in Places
    BY <1>1, <2>1 DEF InTurn, Record, Places
  <2>4. thread[t].want \in SUBSET Keys
    BY <1>1 DEF Record
  <2>5. MayMove(t, pc)
    BY <1>1, <2>1, <2>4 DEF MayMove, Harvesting
  <2> QED
    BY <1>1, <2>1, <2>2, <2>3, <2>4, <2>5, MovesInv
<1> QED
  BY <1>2, <1>3

LEMMA AwaitInv ==
  ASSUME Parameters, StoreInv, NEW t \in callers, Await(t)
  PROVE  StoreInv'
<1>1. /\ t \in Threads /\ thread \in [Threads -> Record] /\ thread[t] \in Record
      /\ InTurn(thread[t]) /\ UNCHANGED <<callers, futs, store, cache, counters, tasks>>
      /\ thread[t].pc = "wait" /\ Done(thread[t].future)
  BY CurrentRecord DEF Await, At, MayBe
<1>2. PICK pc \in {"take", "failed"} : Goto(t, pc)
  BY DEF Await
<1>3. thread' = [thread EXCEPT ![t] = [thread[t] EXCEPT !.pc = pc, !.want = thread[t].want]]
  BY <1>1, <1>2, GotoMoves
<1>4. InTurn([thread[t] EXCEPT !.pc = pc, !.want = thread[t].want]) /\ pc \in Places
  BY <1>1, <1>2 DEF InTurn, Record, Places
<1>5. thread[t].want \in SUBSET Keys
  BY <1>1 DEF Record
<1>6. MayMove(t, pc)
  BY <1>1, <1>2 DEF MayMove, Harvesting
<1> QED
  BY <1>1, <1>2, <1>3, <1>4, <1>5, <1>6, MovesInv

LEMMA PeekInv ==
  ASSUME Parameters, StoreInv, NEW t \in callers, Peek(t)
  PROVE  StoreInv'
<1>1. /\ t \in Threads /\ thread \in [Threads -> Record] /\ thread[t] \in Record
      /\ InTurn(thread[t]) /\ UNCHANGED <<callers, futs, store, cache, counters, tasks>>
      /\ thread[t].pc = "request" /\ thread[t].key \in Keys
  BY CurrentRecord DEF Peek, At, MayBe, InTurn
<1>2. CASE Return(t)
  BY <1>1, <1>2, ReturnInv
<1>3. CASE ~Return(t)
  <2>1. PICK pc \in {"reread", "existing"} :
          Goto(t, pc) /\ (pc = "reread" => thread[t].key \in cache)
    BY <1>3 DEF Peek
  <2>2. thread' = [thread EXCEPT ![t] = [thread[t] EXCEPT !.pc = pc, !.want = thread[t].want]]
    BY <1>1, <2>1, GotoMoves
  <2>3. InTurn([thread[t] EXCEPT !.pc = pc, !.want = thread[t].want]) /\ pc \in Places
    BY <1>1, <2>1 DEF InTurn, Record, Places
  <2>4. thread[t].want \in SUBSET Keys
    BY <1>1 DEF Record
  <2>5. MayMove(t, pc)
    BY <1>1, <2>1, <2>4 DEF MayMove, Harvesting
  <2> QED
    BY <1>1, <2>1, <2>2, <2>3, <2>4, <2>5, MovesInv
<1> QED
  BY <1>2, <1>3

LEMMA EnsureOpenInv ==
  ASSUME Parameters, StoreInv, NEW t \in callers, EnsureOpen(t)
  PROVE  StoreInv'
<1>1. /\ t \in Threads /\ thread \in [Threads -> Record] /\ thread[t] \in Record
      /\ InTurn(thread[t]) /\ UNCHANGED <<callers, futs, store, cache, counters, tasks>>
      /\ thread[t].pc = "open"
  BY CurrentRecord DEF EnsureOpen, At, MayBe
<1>2. CASE closed
  BY <1>1, <1>2, ReturnInv DEF EnsureOpen
<1>3. CASE ~closed
  <2>1. PICK want : /\ want = IF thread[t].op = "prepare" THEN thread[t].want ELSE {thread[t].key}
                    /\ thread' = [thread EXCEPT ![t] = [thread[t] EXCEPT !.pc = "submit",
                                                                         !.want = want]]
    BY <1>1, <1>3 DEF EnsureOpen
  <2>2. want \in SUBSET Keys /\ "submit" \in Places
    BY <1>1, <2>1 DEF InTurn, Record, Places
  <2>3. InTurn([thread[t] EXCEPT !.pc = "submit", !.want = want])
    BY <1>1, <2>1 DEF InTurn, Record
  <2>4. MayMove(t, "submit")
    BY <1>1 DEF MayMove, Harvesting
  <2> QED
    BY <1>1, <2>1, <2>2, <2>3, <2>4, MovesInv
<1> QED
  BY <1>2, <1>3

\* Nothing is missing: what a get asks for is cached or being read.
LEMMA SubmitNothingInv ==
  ASSUME Parameters, StoreInv, NEW t \in callers, SubmitNothing(t)
  PROVE  StoreInv'
<1>1. /\ t \in Threads /\ thread \in [Threads -> Record] /\ thread[t] \in Record
      /\ InTurn(thread[t]) /\ UNCHANGED <<callers, futs, store, cache, counters, tasks>>
      /\ thread[t].pc = "submit" /\ Missing(thread[t]) = {}
  BY CurrentRecord DEF SubmitNothing, At, MayBe
<1>2. CASE thread[t].op = "prepare"
  BY <1>1, <1>2, ReturnInv DEF SubmitNothing
<1>3. CASE thread[t].op # "prepare"
  <2>1. thread' = [thread EXCEPT ![t] = [thread[t] EXCEPT !.pc = "last", !.want = thread[t].want]]
    BY <1>1, <1>3, GotoMoves DEF SubmitNothing
  <2>2. InTurn([thread[t] EXCEPT !.pc = "last", !.want = thread[t].want]) /\ "last" \in Places
    BY <1>1, <1>3 DEF InTurn, Record, Places
  <2>3. thread[t].want \in SUBSET Keys
    BY <1>1 DEF Record
  <2>4. thread[t].op = "get" => thread[t].key \in cache \cup DOMAIN futures
    BY <1>1, <1>3 DEF Missing, InTurn
  <2>5. MayMove(t, "last")
    BY <1>1, <2>1, <2>4 DEF MayMove, Harvesting
  <2> QED
    BY <1>1, <2>1, <2>2, <2>3, <2>4, <2>5, MovesInv
<1> QED
  BY <1>2, <1>3

LEMMA LookAgainInv ==
  ASSUME Parameters, StoreInv, NEW t \in callers, LookAgain(t)
  PROVE  StoreInv'
<1>1. /\ t \in Threads /\ thread \in [Threads -> Record] /\ thread[t] \in Record
      /\ InTurn(thread[t]) /\ UNCHANGED <<callers, futs, store, cache, counters, tasks>>
      /\ thread[t].pc = "last" /\ thread[t].key \in Keys /\ (Alone => AloneRecord(thread[t]))
  BY CurrentRecord DEF LookAgain, At, MayBe, InTurn
<1>2. CASE thread[t].key \in DOMAIN futures
  BY <1>1, <1>2, FoundInv DEF LookAgain
<1>3. CASE thread[t].key \notin DOMAIN futures /\ thread[t].op = "get"
  <2>1. thread' = [thread EXCEPT ![t] = [thread[t] EXCEPT !.pc = "reread", !.want = thread[t].want]]
    BY <1>1, <1>3, GotoMoves DEF LookAgain
  <2>2. InTurn([thread[t] EXCEPT !.pc = "reread", !.want = thread[t].want]) /\ "reread" \in Places
    BY <1>1 DEF InTurn, Record, Places
  <2>3. thread[t].want \in SUBSET Keys
    BY <1>1 DEF Record
  <2>4. Alone => thread[t].key \in cache
    BY <1>1, <1>3 DEF AloneRecord
  <2>5. MayMove(t, "reread")
    BY <1>1, <2>1, <2>4 DEF MayMove, Harvesting
  <2> QED
    BY <1>1, <2>1, <2>2, <2>3, <2>4, <2>5, MovesInv
<1>4. CASE thread[t].key \notin DOMAIN futures /\ thread[t].op # "get"
  BY <1>1, <1>4, ReturnInv DEF LookAgain
<1> QED
  BY <1>2, <1>3, <1>4

-----------------------------------------------------------------------------
(* Marks, counters and the cache *)

LEMMA MarksAreFinite ==
  ASSUME Parameters, StoreInv
  PROVE  /\ IsFiniteSet(prefetching) /\ Cardinality(prefetching) \in Nat
         /\ IsFiniteSet(ready) /\ Cardinality(ready) \in Nat
BY KeysAreFinite DEF StoreInv, FuturesInv, BoundsInv

LEMMA PutInv ==
  ASSUME Parameters, StoreInv, NEW t \in callers, Put(t)
  PROVE  StoreInv'
<1>1. thread[t].key \in Keys
  BY CurrentRecord DEF Put, At, MayBe, InTurn
<1>2. /\ cache' \in AfterPut(thread[t].key) /\ Return(t)
      /\ UNCHANGED <<callers, futs, store, counters, tasks>>
  BY DEF Put
<1>3. cache' \subseteq Keys /\ Cardinality(cache') <= Slots
  BY <1>1, <1>2, PutKeepsBudget DEF StoreInv, BoundsInv
<1>4. BoundsInv' /\ PrefetchesCountedOnce' /\ PopsDone
  BY <1>2, <1>3 DEF StoreInv, BoundsInv, PrefetchesCountedOnce, Alone, PopsDone, store, counters
<1>5. MayBe(Idle) /\ Idle.pc = "idle"
  BY IdleRecord DEF Idle
<1> QED
  BY <1>2, <1>4, <1>5, CallerStep DEF Return, Harvesting, store

\* A hit on a prefetched expert ends it.
LEMMA CountHitInv ==
  ASSUME Parameters, StoreInv, NEW t \in callers, CountHit(t)
  PROVE  StoreInv'
<1> DEFINE k == thread[t].key
<1>1. /\ ready' = ready \ {k} /\ hits' = IF k \in ready THEN hits + 1 ELSE hits
      /\ Return(t)
      /\ UNCHANGED <<callers, futs, futures, prefetching, closed, cache, submitted, wasted, tasks>>
  BY DEF CountHit
<1> HIDE DEF k
<1>2. Cardinality(ready') = IF k \in ready THEN Cardinality(ready) - 1 ELSE Cardinality(ready)
  BY <1>1, MarksAreFinite, FS_RemoveElement
<1>3. BoundsInv' /\ PopsDone
  BY <1>1 DEF StoreInv, BoundsInv, PopsDone
<1>4. PrefetchesCountedOnce'
  BY <1>1, <1>2, MarksAreFinite DEF StoreInv, BoundsInv, PrefetchesCountedOnce, Alone
<1>5. MayBe(Idle) /\ Idle.pc = "idle"
  BY IdleRecord DEF Idle
<1> QED
  BY <1>1, <1>3, <1>4, <1>5, CallerStep DEF Return, Harvesting

\* The end of the harvest: what was evicted is wasted, and counted no more.
LEMMA DropStaleInv ==
  ASSUME Parameters, StoreInv, NEW t \in callers, DropStale(t)
  PROVE  StoreInv'
<1>1. /\ ready' = ready \cap cache /\ wasted' = wasted + Cardinality(ready \ cache)
      /\ Goto(t, "open") /\ thread[t].pc = "pick" /\ thread[t].work = {}
      /\ UNCHANGED <<callers, futs, futures, prefetching, closed, cache, submitted, hits, tasks>>
  BY DEF DropStale, At
<1>2. /\ IsFiniteSet(ready) /\ Cardinality(ready) \in Nat
      /\ Cardinality(ready \cap cache) \in Nat /\ Cardinality(ready \ cache) \in Nat
  <2>1. IsFiniteSet(ready) /\ IsFiniteSet(ready \cap cache) /\ IsFiniteSet(ready \ cache)
    BY MarksAreFinite, FS_Subset
  <2> QED
    BY <2>1, FS_CardinalityType
<1>3. Cardinality(ready \ cache) = Cardinality(ready) - Cardinality(ready \cap cache)
  <2>1. IsFiniteSet(cache)
    BY KeysAreFinite DEF StoreInv, BoundsInv
  <2> QED
    BY <1>2, <2>1, FS_Difference
<1>4. BoundsInv' /\ PopsDone
  BY <1>1, <1>2 DEF StoreInv, BoundsInv, PopsDone
<1>5. PrefetchesCountedOnce'
  BY <1>1, <1>2, <1>3, MarksAreFinite DEF StoreInv, BoundsInv, PrefetchesCountedOnce, Alone
<1>6. PICK r : r = [thread[t] EXCEPT !.pc = "open"]
  OBVIOUS
<1>7. thread' = [thread EXCEPT ![t] = r]
  BY <1>1, <1>6, CurrentRecord DEF Goto
<1>8. MayBe(r) /\ r.pc = "open"
  BY <1>1, <1>6, CurrentRecord DEF MayBe, Record, Places, InTurn, Settled, Harvesting, Refers
<1> QED
  BY <1>1, <1>4, <1>5, <1>7, <1>8, CallerStep DEF Harvesting

\* Forgetting a future that is done.
LEMMA ForgetInv ==
  ASSUME Parameters, StoreInv, NEW k \in DOMAIN futures, Done(futures[k]), Forget(k)
  PROVE  /\ PopsDone /\ DOMAIN futures' = DOMAIN futures \ {k}
         /\ \A x \in DOMAIN futures' : futures'[x] = futures[x]
         /\ prefetching' = prefetching \ {k} /\ prefetching' \subseteq DOMAIN futures'
         /\ Cardinality(prefetching') = IF k \in prefetching THEN Cardinality(prefetching) - 1
                                        ELSE Cardinality(prefetching)
         /\ Cardinality(prefetching') \in Nat /\ Cardinality(prefetching') <= MaxSpeculative
<1>1. /\ futures' = Restrict(futures, DOMAIN futures \ {k}) /\ prefetching' = prefetching \ {k}
  BY DEF Forget
<1>2. DOMAIN futures' = DOMAIN futures \ {k} /\ \A x \in DOMAIN futures' : futures'[x] = futures[x]
  BY <1>1 DEF Restrict
<1>3. prefetching' \subseteq DOMAIN futures'
  BY <1>1, <1>2 DEF StoreInv, BoundsInv
<1>4. Cardinality(prefetching') = IF k \in prefetching THEN Cardinality(prefetching) - 1
                                  ELSE Cardinality(prefetching)
  BY <1>1, MarksAreFinite, FS_RemoveElement
<1>5. Cardinality(prefetching') \in Nat
  BY <1>1, MarksAreFinite, FS_RemoveElement, FS_CardinalityType
<1>6. Cardinality(prefetching') <= MaxSpeculative
  BY <1>4, MarksAreFinite DEF StoreInv, BoundsInv, Parameters
<1> QED
  BY <1>1, <1>2, <1>3, <1>4, <1>5, <1>6 DEF PopsDone

LEMMA FailedInv ==
  ASSUME Parameters, StoreInv, NEW t \in callers, Failed(t)
  PROVE  StoreInv'
<1> DEFINE k == thread[t].key
           f == thread[t].future
<1>1. /\ IF Is(k, f) THEN Forget(k) ELSE UNCHANGED <<futures, prefetching>>
      /\ Return(t) /\ UNCHANGED <<callers, ready, closed, cache, counters, tasks>>
      /\ futs' = Collected(futs) /\ Done(f)
  BY CurrentRecord DEF Failed, At, MayBe, Settled
<1>2. MayBe(Idle) /\ Idle.pc = "idle"
  BY IdleRecord DEF Idle
<1> HIDE DEF k, f
<1>3. CASE Is(k, f)
  <2>1. /\ PopsDone /\ prefetching' \subseteq DOMAIN futures'
        /\ Cardinality(prefetching') = IF k \in prefetching THEN Cardinality(prefetching) - 1
                                       ELSE Cardinality(prefetching)
        /\ Cardinality(prefetching') <= MaxSpeculative
    BY <1>1, <1>3, ForgetInv DEF Is
  <2>2. BoundsInv' /\ PrefetchesCountedOnce'
    BY <1>1, <2>1, MarksAreFinite
       DEF StoreInv, BoundsInv, PrefetchesCountedOnce, Alone, counters
  <2> QED
    BY <1>1, <1>2, <2>1, <2>2, CallerStep DEF Return, Harvesting
<1>4. CASE ~Is(k, f)
  <2>1. BoundsInv' /\ PrefetchesCountedOnce' /\ PopsDone
    BY <1>1, <1>4 DEF StoreInv, BoundsInv, PrefetchesCountedOnce, Alone, PopsDone, counters
  <2> QED
    BY <1>1, <1>2, <2>1, CallerStep DEF Return, Harvesting
<1> QED
  BY <1>3, <1>4

LEMMA TakeInv ==
  ASSUME Parameters, StoreInv, NEW t \in callers, Take(t)
  PROVE  StoreInv'
<1> DEFINE k == thread[t].key
           f == thread[t].future
<1>1. /\ Done(f) /\ k \in Keys /\ thread[t].pc = "take"
      /\ UNCHANGED <<callers, ready, closed, cache, submitted, wasted, tasks>>
      /\ futs' = Collected(futs)
  BY CurrentRecord DEF Take, At, MayBe, Settled, InTurn
<1>2. CASE Is(k, f)
  <2>1. /\ Forget(k) /\ hits' = IF k \in prefetching THEN hits + 1 ELSE hits
        /\ thread' = [thread EXCEPT ![t].pc = "put", ![t].future = NoFuture]
    BY <1>2 DEF Take
  <2>2. PICK r : r = [thread[t] EXCEPT !.pc = "put", !.future = NoFuture]
    OBVIOUS
  <2>3. thread' = [thread EXCEPT ![t] = r]
    BY <2>1, <2>2, CurrentRecord
  <2>4. MayBe(r) /\ r.pc = "put"
    <3>1. /\ r \in Record /\ r.pc = "put" /\ r.future = NoFuture
          /\ r.op = thread[t].op /\ r.key = k /\ r.work = thread[t].work
      BY <2>2, CurrentRecord DEF Record, Places
    <3>2. InTurn(r)
      BY <1>1, <3>1 DEF InTurn
    <3>3. Settled(r) = {} /\ Refers(r) \subseteq Refers(thread[t]) \cup {NoFuture}
      BY <3>1 DEF Settled, Harvesting, Refers
    <3> QED
      BY <3>1, <3>2, <3>3, CurrentRecord DEF MayBe
  <2> HIDE DEF k, f
  <2>5. /\ PopsDone /\ prefetching' \subseteq DOMAIN futures'
        /\ Cardinality(prefetching') = IF k \in prefetching THEN Cardinality(prefetching) - 1
                                       ELSE Cardinality(prefetching)
        /\ Cardinality(prefetching') <= MaxSpeculative
    BY <1>1, <1>2, <2>1, ForgetInv DEF Is
  <2>6. BoundsInv' /\ PrefetchesCountedOnce'
    BY <1>1, <2>1, <2>5, MarksAreFinite
       DEF StoreInv, BoundsInv, PrefetchesCountedOnce, Alone
  <2> QED
    BY <1>1, <2>3, <2>4, <2>5, <2>6, CallerStep DEF Harvesting
<1>3. CASE ~Is(k, f)
  <2>1. Return(t) /\ UNCHANGED <<futures, prefetching, hits>>
    BY <1>3 DEF Take
  <2>2. MayBe(Idle) /\ Idle.pc = "idle"
    BY IdleRecord DEF Idle
  <2>3. BoundsInv' /\ PrefetchesCountedOnce' /\ PopsDone
    BY <1>1, <2>1 DEF StoreInv, BoundsInv, PrefetchesCountedOnce, Alone, PopsDone
  <2> QED
    BY <1>1, <2>1, <2>2, <2>3, CallerStep DEF Return, Harvesting
<1> QED
  BY <1>2, <1>3

-----------------------------------------------------------------------------
(* prepare *)

LEMMA HarvestInv ==
  ASSUME Parameters, StoreInv, NEW t \in callers, Harvest(t)
  PROVE  StoreInv'
<1>1. PICK r : r = [thread[t] EXCEPT !.pc = "pick",
                      !.work = {futures[k] : k \in {x \in prefetching : Done(futures[x])}}]
  OBVIOUS
<1>2. /\ thread[t].pc = "harvest" /\ thread' = [thread EXCEPT ![t] = r]
      /\ UNCHANGED <<callers, futs, store, cache, counters, tasks>>
  BY <1>1, CurrentRecord DEF Harvest, At
<1>3. /\ prefetching \subseteq DOMAIN futures
      /\ \A k \in prefetching : futures[k] \in FutureIds /\ futures[k] \in Referenced
  BY ReferencedFutures DEF StoreInv, BoundsInv, FuturesInv, Range
<1>4. r.work \subseteq FutureIds /\ r.work \subseteq Referenced /\ \A f \in r.work : Done(f)
  BY <1>1, <1>3, CurrentRecord DEF Record
<1>5. MayBe(r) /\ r.pc = "pick"
  <2>1. /\ r.pc = "pick" /\ r.op = thread[t].op /\ r.key = thread[t].key
        /\ r.future = thread[t].future /\ r.want = thread[t].want
    BY <1>1, CurrentRecord DEF Record
  <2>2. r \in Record
    <3>1. r = [thread[t] EXCEPT !.pc = "pick", !.work = r.work]
      BY <1>1, CurrentRecord DEF Record
    <3> QED
      BY <1>4, <3>1, CurrentRecord DEF Record, Places
  <2>3. InTurn(r)
    BY <1>2, <2>1, CurrentRecord DEF MayBe, InTurn
  <2>4. Settled(r) = r.work /\ Refers(r) \subseteq Refers(thread[t]) \cup r.work
    BY <2>1 DEF Settled, Harvesting, Refers
  <2> QED
    BY <1>4, <2>1, <2>2, <2>3, <2>4, CurrentRecord DEF MayBe
<1>6. \A f \in r.work : Marked(f)
  <2>1. r.work = {futures[k] : k \in {x \in prefetching : Done(futures[x])}}
    BY <1>1, CurrentRecord DEF Record
  <2> QED
    BY <1>3, <2>1 DEF StoreInv, FuturesInv, Marked, Is
<1> QED
  BY <1>2, <1>5, <1>6, QuietStep DEF AloneRecord

LEMMA PickValueInv ==
  ASSUME Parameters, StoreInv, NEW t \in callers, NEW f \in thread[t].work, PickValue(t, f)
  PROVE  StoreInv'
<1>1. PICK pc, g : /\ pc = (IF closed \/ ~Is(futs[f].key, f) THEN "pick" ELSE "store")
                   /\ g = (IF closed \/ ~Is(futs[f].key, f) THEN NoFuture ELSE f)
  OBVIOUS
<1>2. PICK r : r = [thread[t] EXCEPT !.work = @ \ {f}, !.future = g, !.pc = pc]
  OBVIOUS
<1>3. /\ thread[t].pc = "pick" /\ thread' = [thread EXCEPT ![t] = r]
      /\ UNCHANGED <<callers, store, cache, counters, tasks>> /\ futs' = Collected(futs)
  BY <1>1, <1>2, CurrentRecord DEF PickValue, At
<1>4. MayBe(r) /\ r.pc = pc /\ r.future = g /\ r.work = thread[t].work \ {f}
  <2>1. pc \in {"pick", "store"} /\ g \in {f, NoFuture} /\ (pc = "store" => g = f)
    BY <1>1
  <2>2. /\ thread[t] \in Record /\ MayBe(thread[t]) /\ f # NoFuture /\ f \in FutureIds /\ Done(f)
    BY <1>3, CurrentRecord DEF Record, MayBe, Settled, Harvesting, Parameters
  <2>3. r \in Record /\ r.pc = pc /\ r.future = g /\ r.work = thread[t].work \ {f}
    BY <1>2, <2>1, <2>2 DEF Record, Places
  <2>4. InTurn(r)
    BY <1>2, <1>3, <2>1, <2>2 DEF InTurn, MayBe, Record
  <2>5. Refers(r) \subseteq Referenced \cup {NoFuture}
    BY <2>1, <2>2, <2>3 DEF MayBe, Refers
  <2>6. \A x \in Settled(r) : Done(x)
    BY <1>3, <2>1, <2>2, <2>3 DEF MayBe, Settled, Harvesting
  <2> QED
    BY <2>1, <2>3, <2>4, <2>5, <2>6 DEF MayBe
<1>5. Alone => AloneRecord(r)
  <2>1. Alone => \A x \in thread[t].work : Marked(x)
    BY <1>3, CurrentRecord DEF AloneRecord, Harvesting
  <2> QED
    BY <1>1, <1>4, <2>1 DEF AloneRecord, Harvesting
<1> QED
  BY <1>3, <1>4, <1>5, QuietStep

LEMMA PickFailedInv ==
  ASSUME Parameters, StoreInv, NEW t \in callers, NEW f \in thread[t].work, PickFailed(t, f)
  PROVE  StoreInv'
<1>1. PICK k : k = futs[f].key
  OBVIOUS
<1>2. PICK r : r = [thread[t] EXCEPT !.work = @ \ {f}]
  OBVIOUS
<1>3. /\ thread[t].pc = "pick" /\ thread' = [thread EXCEPT ![t] = r]
      /\ IF Is(k, f) THEN Forget(k) ELSE UNCHANGED <<futures, prefetching>>
      /\ wasted' = wasted + 1
      /\ UNCHANGED <<callers, ready, closed, cache, submitted, hits, tasks>>
      /\ futs' = Collected(futs)
  BY <1>1, <1>2, CurrentRecord DEF PickFailed, At
<1>4. /\ MayBe(r) /\ r.pc = "pick" /\ r.work = thread[t].work \ {f} /\ Done(f)
  BY <1>2, <1>3, CurrentRecord DEF MayBe, Record, InTurn, Refers, Settled, Harvesting
<1>5. Alone => \A x \in thread[t].work : Marked(x)
  BY <1>3, CurrentRecord DEF AloneRecord, Harvesting
<1>6. CASE Is(k, f)
  <2>1. /\ PopsDone /\ DOMAIN futures' = DOMAIN futures \ {k}
        /\ \A x \in DOMAIN futures' : futures'[x] = futures[x]
        /\ prefetching' = prefetching \ {k} /\ prefetching' \subseteq DOMAIN futures'
        /\ Cardinality(prefetching') = IF k \in prefetching THEN Cardinality(prefetching) - 1
                                       ELSE Cardinality(prefetching)
        /\ Cardinality(prefetching') <= MaxSpeculative
    BY <1>3, <1>4, <1>6, ForgetInv DEF Is
  <2>2. Alone => k \in prefetching
    BY <1>1, <1>5 DEF Marked
  <2>3. BoundsInv' /\ PrefetchesCountedOnce'
    BY <1>3, <2>1, <2>2, MarksAreFinite
       DEF StoreInv, BoundsInv, PrefetchesCountedOnce, Alone
  <2>4. Alone => \A x \in r.work : StaysMarked(x)
    BY <1>4, <1>5, <1>6, <2>1 DEF StaysMarked, Marked, Is
  <2> QED
    BY <1>3, <1>4, <2>1, <2>3, <2>4, CallerStep
<1>7. CASE ~Is(k, f)
  <2>1. ~Alone /\ UNCHANGED <<futures, prefetching>>
    BY <1>1, <1>3, <1>5, <1>7 DEF Marked
  <2>2. BoundsInv' /\ PrefetchesCountedOnce' /\ PopsDone
    BY <1>3, <2>1 DEF StoreInv, BoundsInv, PrefetchesCountedOnce, Alone, PopsDone
  <2> QED
    BY <1>3, <1>4, <2>1, <2>2, CallerStep
<1> QED
  BY <1>6, <1>7

LEMMA StoreStepInv ==
  ASSUME Parameters, StoreInv, NEW t \in callers, Store(t)
  PROVE  StoreInv'
<1>1. PICK k : k = futs[thread[t].future].key
  OBVIOUS
<1>2. PICK pc \in {"inserted", "rejected"} : Goto(t, pc)
  BY DEF Store
<1>3. PICK r : r = [thread[t] EXCEPT !.pc = pc]
  OBVIOUS
<1>4. /\ thread[t].pc = "store" /\ thread' = [thread EXCEPT ![t] = r]
      /\ cache' \in AfterPut(k) /\ UNCHANGED <<callers, futs, store, counters, tasks>>
  BY <1>1, <1>2, <1>3, CurrentRecord DEF Store, At, Goto
<1>5. k \in Keys
  <2>1. thread[t].future \in Referenced /\ thread[t].future # NoFuture
    BY <1>4, CurrentRecord, ReferencedFutures DEF MayBe, InTurn, Refers
  <2> QED
    BY <1>1, <2>1 DEF StoreInv, FuturesInv, Future
<1>6. MayBe(r) /\ r.pc = pc /\ r.future = thread[t].future /\ r.work = thread[t].work
  BY <1>2, <1>3, <1>4, CurrentRecord
     DEF MayBe, Record, Places, InTurn, Refers, Settled, Harvesting
<1>7. cache' \subseteq Keys /\ Cardinality(cache') <= Slots
  BY <1>4, <1>5, PutKeepsBudget DEF StoreInv, BoundsInv
<1>8. BoundsInv' /\ PrefetchesCountedOnce' /\ PopsDone
  BY <1>4, <1>7 DEF StoreInv, BoundsInv, PrefetchesCountedOnce, Alone, PopsDone, store, counters
<1>9. Alone => /\ \A x \in r.work : StaysMarked(x)
               /\ StaysMarked(r.future) /\ r.future \notin r.work
  BY <1>4, <1>6, CurrentRecord DEF AloneRecord, Harvesting, StaysMarked, Marked, Is, store
<1> QED
  BY <1>4, <1>6, <1>8, <1>9, CallerStep DEF store

LEMMA SettleInv ==
  ASSUME Parameters, StoreInv, NEW t \in callers, Settle(t)
  PROVE  StoreInv'
<1>1. PICK f, k : f = thread[t].future /\ k = futs[f].key
  OBVIOUS
<1>2. PICK r : r = [thread[t] EXCEPT !.pc = "pick", !.future = NoFuture]
  OBVIOUS
<1>3. /\ thread[t].pc \in {"inserted", "rejected"} /\ thread' = [thread EXCEPT ![t] = r]
      /\ UNCHANGED <<callers, closed, cache, submitted, hits, tasks>> /\ futs' = Collected(futs)
  BY <1>2, CurrentRecord DEF Settle
<1>4. MayBe(r) /\ r.pc = "pick" /\ r.work = thread[t].work /\ Done(f)
  <2>1. /\ r \in Record /\ r.pc = "pick" /\ r.future = NoFuture
        /\ r.op = thread[t].op /\ r.key = thread[t].key /\ r.work = thread[t].work
    BY <1>2, CurrentRecord DEF Record, Places
  <2>2. InTurn(r)
    BY <1>3, <2>1, CurrentRecord DEF MayBe, InTurn
  <2>3. /\ Settled(r) = thread[t].work /\ Settled(thread[t]) = {f} \cup thread[t].work
        /\ Refers(r) \subseteq Refers(thread[t]) \cup {NoFuture}
    BY <1>1, <1>3, <2>1 DEF Settled, Harvesting, Refers
  <2> QED
    BY <2>1, <2>2, <2>3, CurrentRecord DEF MayBe
<1>5. Alone => Marked(f) /\ f \notin thread[t].work /\ \A x \in thread[t].work : Marked(x)
  BY <1>1, <1>3, CurrentRecord DEF AloneRecord, Harvesting
<1>6. CASE Is(k, f)
  <2>1. /\ Forget(k)
        /\ \/ ready' = ready \cup {k} /\ wasted' = wasted
           \/ ready' = ready /\ wasted' = wasted + 1
    BY <1>1, <1>6 DEF Settle
  <2>2. /\ PopsDone /\ DOMAIN futures' = DOMAIN futures \ {k}
        /\ \A x \in DOMAIN futures' : futures'[x] = futures[x]
        /\ prefetching' = prefetching \ {k} /\ prefetching' \subseteq DOMAIN futures'
        /\ Cardinality(prefetching') = IF k \in prefetching THEN Cardinality(prefetching) - 1
                                       ELSE Cardinality(prefetching)
        /\ Cardinality(prefetching') <= MaxSpeculative
    BY <1>4, <1>6, <2>1, ForgetInv DEF Is
  <2>3. Alone => k \in prefetching
    BY <1>1, <1>5 DEF Marked
  <2>4. k \in Keys
    BY <1>6 DEF Is, StoreInv, FuturesInv
  <2>5. BoundsInv'
    BY <1>3, <2>1, <2>2, <2>4 DEF StoreInv, BoundsInv
  <2>6. Cardinality(ready \cup {k}) = IF k \in ready THEN Cardinality(ready)
                                      ELSE Cardinality(ready) + 1
    BY MarksAreFinite, FS_AddElement
  <2>7. PrefetchesCountedOnce'
    <3> SUFFICES ASSUME Alone
                 PROVE  hits' + wasted' + Cardinality(prefetching') + Cardinality(ready') <= submitted'
      BY <1>3 DEF PrefetchesCountedOnce, Alone
    <3>1. hits + wasted + Cardinality(prefetching) + Cardinality(ready) <= submitted
      BY DEF StoreInv, PrefetchesCountedOnce
    <3>2. wasted' + Cardinality(ready') <= wasted + Cardinality(ready) + 1
      BY <2>1, <2>6, MarksAreFinite DEF StoreInv, BoundsInv
    <3>3. hits' \in Nat /\ wasted' \in Nat /\ submitted' \in Nat /\ Cardinality(ready') \in Nat
      BY <2>1, <2>5, <2>6, MarksAreFinite DEF BoundsInv
    <3> QED
      BY <1>3, <2>2, <2>3, <3>1, <3>2, <3>3, MarksAreFinite DEF StoreInv, BoundsInv
  <2>8. Alone => \A x \in r.work : StaysMarked(x)
    <3> SUFFICES ASSUME Alone, NEW x \in thread[t].work
                 PROVE  StaysMarked(x)
      BY <1>4
    <3>1. x # f /\ Is(futs[x].key, x) /\ futs[x].key \in prefetching
      BY <1>5 DEF Marked
    <3>2. futs[x].key # k
      BY <1>6, <3>1 DEF Is
    <3>3. futs[x].key \in DOMAIN futures /\ futures[futs[x].key] = x
      BY <3>1 DEF Is
    <3>4. futs[x].key \in DOMAIN futures' /\ futs[x].key \in prefetching'
      BY <2>2, <3>1, <3>2, <3>3
    <3> QED
      BY <2>2, <3>3, <3>4 DEF StaysMarked
  <2> QED
    BY <1>3, <1>4, <2>2, <2>5, <2>7, <2>8, CallerStep
<1>7. CASE ~Is(k, f)
  <2>1. ~Alone /\ UNCHANGED <<futures, prefetching, ready, wasted>>
    BY <1>1, <1>5, <1>7 DEF Settle, Marked
  <2>2. BoundsInv' /\ PrefetchesCountedOnce' /\ PopsDone
    BY <1>3, <2>1 DEF StoreInv, BoundsInv, PrefetchesCountedOnce, Alone, PopsDone
  <2> QED
    BY <1>3, <1>4, <2>1, <2>2, CallerStep
<1> QED
  BY <1>6, <1>7

-----------------------------------------------------------------------------
(* close *)

\* What a thread of close cancels; the futures keep their experts.
LEMMA CloseInv ==
  ASSUME Parameters, StoreInv, NEW t \in callers, Close(t)
  PROVE  StoreInv'
<1>1. PICK r : r = [Idle EXCEPT !.pc = "cancel", !.op = "close", !.work = Range(futures)]
  OBVIOUS
<1>2. /\ closed' = TRUE /\ thread' = [thread EXCEPT ![t] = r]
      /\ wasted' = wasted + Cardinality(prefetching) + Cardinality(ready)
      /\ futures' = <<>> /\ prefetching' = {} /\ ready' = {}
      /\ UNCHANGED <<callers, futs, cache, submitted, hits, tasks>>
  BY <1>1 DEF Close
<1>3. /\ t \in Threads /\ thread \in [Threads -> Record]
      /\ callers \subseteq Threads /\ (Alone => callers = {t})
  BY CurrentRecord, CallersAreThreads DEF StoreInv
<1>4. Range(futures) \subseteq FutureIds /\ Range(futures) \subseteq Referenced
  BY ReferencedFutures DEF StoreInv, FuturesInv, Range
<1>5. /\ r \in Record /\ InTurn(r) /\ Settled(r) = {} /\ r.pc = "cancel"
      /\ r.future = NoFuture /\ r.work = Range(futures)
  BY <1>1, <1>4 DEF Idle, Record, Places, InTurn, Settled, Harvesting
<1>6. thread' \in [Threads -> Record] /\ thread'[t] = r
      /\ \A u \in Threads \ {t} : thread'[u] = thread[u]
  BY <1>2, <1>3, <1>5
<1>7. Referenced' \subseteq Referenced \cup {NoFuture}
  <2>1. Range(futures') = {}
    BY <1>2 DEF Range
  <2>2. \A u \in Threads : Refers(thread'[u]) \subseteq Referenced \cup {NoFuture}
    BY <1>4, <1>5, <1>6, ReferencedFutures DEF Refers
  <2> QED
    BY <1>2, <2>1, <2>2, ReferencedFutures, ReferencedNext
<1>8. FuturesInv'
  BY <1>2, <1>7 DEF StoreInv, FuturesInv
<1>9. ThreadsInv'
  BY <1>2, <1>5, <1>6 DEF StoreInv, ThreadsInv, At, Done
<1>10. TasksInv'
  BY <1>2 DEF StoreInv, TasksInv
<1>11. Cardinality(prefetching') = 0 /\ Cardinality(ready') = 0
  BY <1>2, FS_EmptySet
<1>12. BoundsInv'
  BY <1>2, <1>11, MarksAreFinite DEF StoreInv, BoundsInv, Parameters
<1>13. PrefetchesCountedOnce'
  BY <1>2, <1>11, MarksAreFinite DEF StoreInv, BoundsInv, PrefetchesCountedOnce, Alone
<1>14. AloneInv'
  BY <1>2, <1>3, <1>5, <1>6 DEF AloneInv, Alone, AloneRecord, Harvesting
<1> QED
  BY <1>8, <1>9, <1>10, <1>12, <1>13, <1>14 DEF StoreInv

\* Giving futures results, never taking one back, changes nothing for what holds
\* of the threads.
LEMMA ResultsInv ==
  ASSUME Parameters, StoreInv, NEW fs, fs \in [DOMAIN futs -> Future],
         \A f \in DOMAIN futs : fs[f].key = futs[f].key /\ (Done(f) => fs[f].result # "pending"),
         futs' \in {fs, Collected(fs)}, futures' = futures, closed' = closed,
         Referenced' \subseteq Referenced \cup {NoFuture},
         thread' \in [Threads -> Record],
         \A u \in Threads : \/ thread'[u] = thread[u]
                            \/ InTurn(thread'[u]) /\ Settled(thread'[u]) = {}
                               /\ (thread'[u].pc = "cancel" => closed)
  PROVE  /\ FuturesInv' /\ ThreadsInv'
         /\ \A f \in Referenced' \ {NoFuture} : f \in DOMAIN futs' /\ futs'[f] = fs[f]
<1>1. /\ NoFuture \notin FutureIds /\ DOMAIN fs = DOMAIN futs
      /\ Referenced' \subseteq DOMAIN futs \cup {NoFuture}
  BY DEF Parameters, StoreInv, FuturesInv
<1>2. /\ FuturesInv'
      /\ \A f \in Referenced' \ {NoFuture} : f \in DOMAIN futs' /\ futs'[f] = fs[f]
  BY <1>1, CollectedFutures DEF StoreInv, FuturesInv
<1>3. \A u \in Threads : \A f \in Settled(thread'[u]) : Done(f)'
  <2> SUFFICES ASSUME NEW u \in Threads, NEW f \in Settled(thread'[u])
               PROVE  Done(f)'
    OBVIOUS
  <2>1. thread'[u] = thread[u] /\ Done(f) /\ InTurn(thread[u]) /\ thread[u] \in Record
    BY DEF StoreInv, ThreadsInv
  <2>2. f # NoFuture /\ f \in Refers(thread'[u])
    BY <1>1, <2>1 DEF Settled, Harvesting, Refers, InTurn, Record
  <2>3. f \in Referenced' \ {NoFuture} /\ f \in DOMAIN futs
    BY <1>1, <2>2, ReferencedNext
  <2> QED
    BY <1>2, <2>1, <2>3 DEF Done
<1>4. ThreadsInv'
  BY <1>3 DEF StoreInv, ThreadsInv, At
<1> QED
  BY <1>2, <1>4

LEMMA CancelInv ==
  ASSUME Parameters, StoreInv, NEW t \in callers, NEW f \in thread[t].work, Cancel(t, f)
  PROVE  StoreInv'
<1>1. PICK r : r = IF thread[t].work = {f} THEN Idle ELSE [thread[t] EXCEPT !.work = @ \ {f}]
  OBVIOUS
<1>2. PICK fs : fs = IF Done(f) THEN futs ELSE [futs EXCEPT ![f].result = "cancelled"]
  OBVIOUS
<1>3. /\ t \in Threads /\ thread \in [Threads -> Record] /\ thread[t] \in Record
      /\ MayBe(thread[t]) /\ thread[t].pc = "cancel"
      /\ callers \subseteq Threads /\ (Alone => callers = {t})
  BY CurrentRecord, CallersAreThreads DEF Cancel, At, StoreInv
<1>4. /\ thread' = [thread EXCEPT ![t] = r] /\ futs' = Collected(fs) /\ closed /\ closed' = closed
      /\ UNCHANGED <<callers, store, cache, counters, tasks>>
  BY <1>1, <1>2, <1>3 DEF Cancel, MayBe, store
<1>5. /\ r \in Record /\ InTurn(r) /\ Settled(r) = {} /\ r.pc \in {"idle", "cancel"}
      /\ Refers(r) \subseteq Referenced \cup {NoFuture}
  BY <1>1, <1>3, IdleRecord
     DEF MayBe, Idle, Record, Places, InTurn, Settled, Harvesting, Refers
<1>6. /\ thread' \in [Threads -> Record] /\ thread'[t] = r
      /\ \A u \in Threads \ {t} : thread'[u] = thread[u]
  BY <1>3, <1>4, <1>5
<1>7. Referenced' \subseteq Referenced \cup {NoFuture}
  <2>1. \A u \in Threads : Refers(thread'[u]) \subseteq Referenced \cup {NoFuture}
    BY <1>5, <1>6, ReferencedFutures
  <2> QED
    BY <1>4, <2>1, ReferencedFutures, ReferencedNext DEF store
<1>8. /\ fs \in [DOMAIN futs -> Future]
      /\ \A x \in DOMAIN futs : fs[x].key = futs[x].key /\ (Done(x) => fs[x].result # "pending")
  BY <1>2 DEF StoreInv, FuturesInv, Future, Done
<1>9. FuturesInv' /\ ThreadsInv'
  <2>1. \A u \in Threads : \/ thread'[u] = thread[u]
                           \/ InTurn(thread'[u]) /\ Settled(thread'[u]) = {}
                              /\ (thread'[u].pc = "cancel" => closed)
    BY <1>4, <1>5, <1>6
  <2> QED
    BY <1>4, <1>6, <1>7, <1>8, <2>1, ResultsInv DEF store
<1>10. TasksInv' /\ BoundsInv' /\ PrefetchesCountedOnce'
  BY <1>4 DEF StoreInv, TasksInv, BoundsInv, PrefetchesCountedOnce, Alone, store, counters
<1>11. AloneInv'
  BY <1>3, <1>4, <1>5, <1>6 DEF AloneInv, Alone, AloneRecord, Harvesting
<1> QED
  BY <1>9, <1>10, <1>11 DEF StoreInv

-----------------------------------------------------------------------------
(* The group reads *)

\* The group g goes on as h, with no more futures to set, and perhaps gives one
\* of those it had a result.
LEMMA GroupStep ==
  ASSUME Parameters, StoreInv, NEW g \in tasks, NEW h \in Group,
         Range(h.todo) \subseteq Range(g.todo), h.checked => h.phase # "reading",
         tasks' \in {tasks \ {g}} \cup (IF h.todo = <<>> THEN {} ELSE {(tasks \ {g}) \cup {h}}),
         NEW fs, fs \in [DOMAIN futs -> Future],
         \A f \in DOMAIN futs : fs[f].key = futs[f].key /\ (Done(f) => fs[f].result # "pending"),
         \A f \in DOMAIN futs \ Range(g.todo) : fs[f] = futs[f],
         h.phase = "reading" => fs = futs /\ g.phase = "reading",
         futs' \in {fs, Collected(fs)}, UNCHANGED <<callers, store, cache, counters, thread>>
  PROVE  StoreInv'
<1>1. /\ futures' = futures /\ closed' = closed /\ prefetching' = prefetching
      /\ thread' \in [Threads -> Record] /\ NoFuture \notin FutureIds
  BY DEF StoreInv, ThreadsInv, store, Parameters
<1>2. /\ tasks' \subseteq (tasks \ {g}) \cup {h} /\ (h \in tasks' => h.todo # <<>> \/ h \in tasks)
  OBVIOUS
<1>3. Referenced' \subseteq Referenced \cup {NoFuture}
  <2>1. \A x \in tasks' : Range(x.todo) \subseteq Referenced
    BY <1>2, ReferencedFutures
  <2> QED
    BY <1>1, <2>1, ReferencedFutures, ReferencedNext
<1>4. /\ FuturesInv' /\ ThreadsInv'
      /\ \A f \in Referenced' \ {NoFuture} : f \in DOMAIN futs' /\ futs'[f] = fs[f]
  BY <1>1, <1>3, ResultsInv
<1>5. \A x \in tasks' : \A f \in Range(x.todo) : f \in DOMAIN futs /\ f \in Referenced' \ {NoFuture}
  <2>1. \A x \in tasks' : x.todo \in Seq(FutureIds)
    BY <1>2 DEF StoreInv, TasksInv, Group
  <2>2. \A x \in tasks' : \A f \in Range(x.todo) : f \in FutureIds
    BY <2>1 DEF Range
  <2>3. \A x \in tasks' : \A f \in Range(x.todo) : f \in Referenced'
    BY ReferencedNext
  <2> QED
    BY <1>1, <1>3, <2>2, <2>3 DEF StoreInv, FuturesInv
<1>6. TasksInv'
  <2>1. /\ tasks' \subseteq Group
        /\ \A x \in tasks' : x.todo # <<>> /\ (x.checked => x.phase # "reading")
    BY <1>2 DEF StoreInv, TasksInv
  <2>2. \A x, y \in tasks' : x # y => Range(x.todo) \cap Range(y.todo) = {}
    BY <1>2 DEF StoreInv, TasksInv
  <2>3. ASSUME ~closed, NEW x \in tasks', x.phase = "reading", NEW f \in Range(x.todo)
        PROVE  Awaited(f)'
    <3>1. f \in DOMAIN futs /\ futs'[f] = fs[f]
      BY <1>4, <1>5
    <3>2. Awaited(f) /\ fs[f] = futs[f]
      <4>1. CASE x \in tasks \ {g}
        BY <2>3, <3>1, <4>1 DEF StoreInv, TasksInv
      <4>2. CASE x = h
        BY <2>3, <4>2 DEF StoreInv, TasksInv
      <4> QED
        BY <1>2, <4>1, <4>2
    <3> QED
      BY <1>1, <3>1, <3>2 DEF Awaited, Is, Done
  <2> QED
    BY <1>1, <2>1, <2>2, <2>3 DEF TasksInv
<1>7. BoundsInv' /\ PrefetchesCountedOnce'
  BY DEF StoreInv, BoundsInv, PrefetchesCountedOnce, Alone, store, counters
<1>8. AloneInv'
  <2> SUFFICES ASSUME Alone, NEW t \in callers
               PROVE  AloneRecord(thread[t])'
    BY DEF AloneInv, Alone
  <2>1. /\ t \in Threads /\ AloneRecord(thread[t]) /\ MayBe(thread[t])
    BY CurrentRecord
  <2>2. \A f \in Refers(thread[t]) \ {NoFuture} :
          f \in DOMAIN futs /\ f \in Referenced' \ {NoFuture}
    BY <1>1, <1>3, <2>1, ReferencedNext DEF StoreInv, FuturesInv
  <2>3. \A f \in Refers(thread[t]) \ {NoFuture} : Marked(f) => Marked(f)'
    BY <1>1, <1>4, <2>2 DEF Marked, Is
  <2>4. /\ \A f \in thread[t].work : f \in Refers(thread[t]) \ {NoFuture}
        /\ thread[t].pc \in {"store", "inserted", "rejected"} =>
             thread[t].future \in Refers(thread[t]) \ {NoFuture}
    BY <1>1, <2>1 DEF MayBe, Record, InTurn, Refers
  <2>5. thread'[t] = thread[t]
    OBVIOUS
  <2> QED
    BY <1>1, <2>1, <2>3, <2>4, <2>5 DEF AloneRecord, Harvesting, Marked, Is
<1> QED
  BY <1>4, <1>6, <1>7, <1>8 DEF StoreInv

LEMMA HeadOfGroup ==
  ASSUME Parameters, StoreInv, NEW g \in tasks
  PROVE  /\ g \in Group /\ Head(g.todo) \in Range(g.todo) /\ Head(g.todo) \in DOMAIN futs
         /\ Tail(g.todo) \in Seq(FutureIds) /\ Range(Tail(g.todo)) \subseteq Range(g.todo)
<1>1. g \in Group /\ g.todo \in Seq(FutureIds) /\ g.todo # <<>>
  BY DEF StoreInv, TasksInv, Group
<1>2. Head(g.todo) = g.todo[1] /\ 1 \in DOMAIN g.todo /\ Tail(g.todo) \in Seq(FutureIds)
  BY <1>1
<1>3. Head(g.todo) \in Range(g.todo)
  BY <1>2 DEF Range
<1>4. Range(Tail(g.todo)) \subseteq Range(g.todo)
  BY <1>1 DEF Range
<1>5. Head(g.todo) \in FutureIds /\ Head(g.todo) \in Referenced
  BY <1>1, <1>3, ReferencedFutures DEF Range
<1>6. Head(g.todo) \in DOMAIN futs
  BY <1>5 DEF StoreInv, FuturesInv, Parameters
<1> QED
  BY <1>1, <1>2, <1>3, <1>4, <1>6

LEMMA ReadInv ==
  ASSUME Parameters, StoreInv, NEW g \in tasks, Read(g)
  PROVE  StoreInv'
<1>1. PICK phase \in {"setting", "failing"} :
        /\ g.phase = "reading" /\ Replace(g, [g EXCEPT !.phase = phase])
        /\ UNCHANGED <<callers, futs, store, cache, counters, thread>>
  BY DEF Read
<1>2. PICK h : h = [g EXCEPT !.phase = phase]
  OBVIOUS
<1>3. h \in Group /\ h.phase # "reading" /\ h.todo = g.todo
  BY <1>1, <1>2, HeadOfGroup DEF Group
<1>4. tasks' \in {tasks \ {g}} \cup (IF h.todo = <<>> THEN {} ELSE {(tasks \ {g}) \cup {h}})
  BY <1>1, <1>2 DEF Replace
<1>5. futs \in [DOMAIN futs -> Future]
  BY DEF StoreInv, FuturesInv
<1>6. \A f \in DOMAIN futs : Done(f) => futs[f].result # "pending"
  BY DEF Done
<1> QED
  BY <1>1, <1>3, <1>4, <1>5, <1>6, GroupStep

LEMMA CheckDoneInv ==
  ASSUME Parameters, StoreInv, NEW g \in tasks, CheckDone(g)
  PROVE  StoreInv'
<1>1. PICK h : h = IF Done(Head(g.todo)) THEN [g EXCEPT !.todo = Tail(@)]
                   ELSE [g EXCEPT !.checked = TRUE]
  OBVIOUS
<1>2. /\ g.phase # "reading" /\ Replace(g, h) /\ futs' = Collected(futs)
      /\ UNCHANGED <<callers, store, cache, counters, thread>>
  BY <1>1 DEF CheckDone
<1>3. h \in Group /\ h.phase # "reading" /\ Range(h.todo) \subseteq Range(g.todo)
  BY <1>1, <1>2, HeadOfGroup DEF Group
<1>4. tasks' \in {tasks \ {g}} \cup (IF h.todo = <<>> THEN {} ELSE {(tasks \ {g}) \cup {h}})
  BY <1>2 DEF Replace
<1>5. futs \in [DOMAIN futs -> Future]
  BY DEF StoreInv, FuturesInv
<1>6. \A f \in DOMAIN futs : Done(f) => futs[f].result # "pending"
  BY DEF Done
<1> QED
  BY <1>2, <1>3, <1>4, <1>5, <1>6, GroupStep

LEMMA SetResultInv ==
  ASSUME Parameters, StoreInv, NEW g \in tasks, SetResult(g)
  PROVE  StoreInv'
<1>1. PICK h : h = [g EXCEPT !.todo = Tail(@), !.checked = FALSE]
  OBVIOUS
<1>2. PICK fs : fs = [futs EXCEPT ![Head(g.todo)].result =
                        IF g.phase = "setting" THEN "value" ELSE "error"]
  OBVIOUS
<1>3. /\ g.checked /\ ~Done(Head(g.todo)) /\ Replace(g, h) /\ futs' = Collected(fs)
      /\ UNCHANGED <<callers, store, cache, counters, thread>>
  BY <1>1, <1>2 DEF SetResult
<1>4. /\ h \in Group /\ h.phase # "reading" /\ Range(h.todo) \subseteq Range(g.todo)
  <2>1. g.phase # "reading"
    BY <1>3 DEF StoreInv, TasksInv
  <2> QED
    BY <1>1, <2>1, HeadOfGroup DEF Group
<1>5. tasks' \in {tasks \ {g}} \cup (IF h.todo = <<>> THEN {} ELSE {(tasks \ {g}) \cup {h}})
  BY <1>3 DEF Replace
<1>6. /\ fs \in [DOMAIN futs -> Future]
      /\ \A f \in DOMAIN futs : fs[f].key = futs[f].key /\ (Done(f) => fs[f].result # "pending")
      /\ \A f \in DOMAIN futs \ Range(g.todo) : fs[f] = futs[f]
  BY <1>2, HeadOfGroup DEF StoreInv, FuturesInv, Future, Done
<1> QED
  BY <1>3, <1>4, <1>5, <1>6, GroupStep

LEMMA SetRaisesInv ==
  ASSUME Parameters, StoreInv, NEW g \in tasks, SetRaises(g)
  PROVE  StoreInv'
<1>1. PICK h : h = [todo |-> Tail(g.todo), phase |-> "failing", checked |-> FALSE]
  OBVIOUS
<1>2. /\ futs' = Collected(futs) /\ UNCHANGED <<callers, store, cache, counters, thread>>
      /\ Replace(g, h) \/ tasks' = tasks \ {g}
  BY <1>1 DEF SetRaises
<1>3. h \in Group /\ h.phase # "reading" /\ Range(h.todo) \subseteq Range(g.todo)
  BY <1>1, HeadOfGroup DEF Group
<1>4. tasks' \in {tasks \ {g}} \cup (IF h.todo = <<>> THEN {} ELSE {(tasks \ {g}) \cup {h}})
  BY <1>2 DEF Replace
<1>5. futs \in [DOMAIN futs -> Future]
  BY DEF StoreInv, FuturesInv
<1>6. \A f \in DOMAIN futs : Done(f) => futs[f].result # "pending"
  BY DEF Done
<1> QED
  BY <1>2, <1>3, <1>4, <1>5, <1>6, GroupStep

-----------------------------------------------------------------------------
(* request_many submits a group *)

\* What is missing is not in _futures; get and the prefetches want one expert.
LEMMA MissingExperts ==
  ASSUME Parameters, StoreInv, NEW t \in callers, thread[t].pc = "submit",
         NEW M, M = Missing(thread[t]), M # {}
  PROVE  /\ M \subseteq Keys /\ IsFiniteSet(M) /\ M \cap DOMAIN futures = {}
         /\ thread[t].op # "prepare" => M = {thread[t].key}
         /\ thread[t].op = "prefetch" => Cardinality(prefetching) < MaxSpeculative
<1>1. /\ thread[t].want \subseteq Keys /\ (thread[t].op # "prepare" => thread[t].want = {thread[t].key})
  BY CurrentRecord DEF MayBe, Record, InTurn
<1>2. M \subseteq thread[t].want /\ M \cap DOMAIN futures = {}
  BY DEF Missing
<1>3. IsFiniteSet(M)
  BY <1>1, <1>2, KeysAreFinite
<1>4. thread[t].op = "prefetch" => Cardinality(prefetching) < MaxSpeculative
  BY MarksAreFinite DEF Missing, Parameters
<1> QED
  BY <1>1, <1>2, <1>3, <1>4

LEMMA SubmitInv ==
  ASSUME Parameters, StoreInv, NEW t \in callers, Submit(t)
  PROVE  StoreInv'
<1>1. PICK M, new : M = Missing(thread[t]) /\ new = NewFutures(M)
  OBVIOUS
<1>2. PICK fs, g : /\ fs = [f \in DOMAIN futs \cup Range(new) |->
                              IF f \in Range(new)
                              THEN [key |-> CHOOSE k \in DOMAIN new : new[k] = f, result |-> "pending"]
                              ELSE futs[f]]
                   /\ g = [todo |-> SetToSeq(Range(new)), phase |-> "reading", checked |-> FALSE]
  OBVIOUS
<1>3. /\ thread[t].pc = "submit" /\ M # {}
      /\ Cardinality(FutureIds \ Referenced) >= Cardinality(M)
      /\ futures' = [k \in DOMAIN futures \cup DOMAIN new |->
                       IF k \in DOMAIN new THEN new[k] ELSE futures[k]]
      /\ tasks' = tasks \cup {g}
      /\ UNCHANGED <<callers, ready, closed, cache, hits, wasted>>
  BY <1>1, <1>2 DEF Submit, At
<1>4. futs' = Collected(fs)
  <2>1. \A f \in Range(new) :
          [x \in Range(new) |-> [key |-> CHOOSE k \in DOMAIN new : new[k] = x,
                                 result |-> "pending"]][f]
            = [key |-> CHOOSE k \in DOMAIN new : new[k] = f, result |-> "pending"]
    OBVIOUS
  <2> QED
    BY <1>1, <1>2, <2>1 DEF Submit
<1>5. /\ M \subseteq Keys /\ IsFiniteSet(M) /\ M \cap DOMAIN futures = {}
      /\ thread[t].op # "prepare" => M = {thread[t].key}
      /\ thread[t].op = "prefetch" => Cardinality(prefetching) < MaxSpeculative
  BY <1>1, <1>3, MissingExperts

<1>6. /\ new \in [M -> FutureIds \ Referenced]
      /\ \A k, l \in M : new[k] = new[l] => k = l
  <2>1. Cardinality(M) \in Nat /\ Cardinality(FutureIds \ Referenced) \in Nat /\ IsFiniteSet(FutureIds)
    BY <1>5, FS_Subset, FS_CardinalityType DEF Parameters
  <2>2. new \in [M -> FutureIds \ Referenced] /\ IsInjective(new)
    BY <1>1, <1>3, <1>5, <2>1, FreshFutures
  <2> QED
    BY <2>2 DEF IsInjective
<1>7. /\ DOMAIN new = M /\ Range(new) \subseteq FutureIds \ Referenced /\ IsFiniteSet(Range(new))
      /\ \A f \in Range(new) : \E k \in M : new[k] = f
      /\ \A k \in M : new[k] \in Range(new)
  <2>1. DOMAIN new = M /\ Range(new) \subseteq FutureIds \ Referenced
        /\ \A f \in Range(new) : \E k \in M : new[k] = f
    BY <1>6 DEF Range
  <2>2. \A k \in M : new[k] \in Range(new)
    BY <2>1 DEF Range
  <2>3. IsFiniteSet(Range(new))
    BY <2>1, FS_Subset DEF Parameters
  <2> QED
    BY <2>1, <2>2, <2>3
\* The new futures are pending and of their experts; the others are as they were.
<1>8. /\ fs \in [DOMAIN fs -> Future] /\ DOMAIN fs = DOMAIN futs \cup Range(new)
      /\ \A k \in M : fs[new[k]].key = k /\ fs[new[k]].result = "pending"
      /\ \A f \in Referenced \ {NoFuture} : f \in DOMAIN futs /\ fs[f] = futs[f]
  <2>1. \A k \in M : (CHOOSE l \in DOMAIN new : new[l] = new[k]) = k
    BY <1>6, <1>7
  <2>2. \A k \in M : fs[new[k]] = [key |-> k, result |-> "pending"]
    BY <1>2, <1>7, <2>1
  <2>3. \A f \in Range(new) : fs[f] \in Future
    <3> SUFFICES ASSUME NEW f \in Range(new)
                 PROVE  fs[f] \in Future
      OBVIOUS
    <3>1. PICK k \in M : new[k] = f
      BY <1>7
    <3>2. fs[f] = [key |-> k, result |-> "pending"]
      BY <2>2, <3>1
    <3> QED
      BY <1>5, <3>2 DEF Future
  <2>4. DOMAIN fs = DOMAIN futs \cup Range(new) /\ \A f \in DOMAIN futs \ Range(new) : fs[f] = futs[f]
    BY <1>2
  <2>5. fs \in [DOMAIN fs -> Future]
    <3>1. fs = [f \in DOMAIN fs |-> fs[f]]
      BY <1>2
    <3>2. \A f \in DOMAIN fs : fs[f] \in Future
      BY <2>3, <2>4 DEF StoreInv, FuturesInv
    <3> QED
      BY <3>1, <3>2
  <2>6. \A f \in Referenced \ {NoFuture} : f \in DOMAIN futs /\ fs[f] = futs[f]
    BY <1>7, <2>4 DEF StoreInv, FuturesInv
  <2>7. \A k \in M : fs[new[k]].key = k /\ fs[new[k]].result = "pending"
    <3> SUFFICES ASSUME NEW k \in M
                 PROVE  fs[new[k]].key = k /\ fs[new[k]].result = "pending"
      OBVIOUS
    <3>1. fs[new[k]] = [key |-> k, result |-> "pending"]
      BY <2>2
    <3> QED
      BY <3>1
  <2> QED
    BY <2>4, <2>5, <2>6, <2>7
<1>9. g \in Group /\ g.todo # <<>> /\ Range(g.todo) = Range(new) /\ g.phase = "reading" /\ ~g.checked
  <2>1. SetToSeq(Range(new)) \in Seq(Range(new)) /\ Range(SetToSeq(Range(new))) = Range(new)
    BY <1>7, SequenceOfSet
  <2>2. g.todo \in Seq(FutureIds) /\ Range(g.todo) = Range(new)
    BY <1>2, <1>7, <2>1
  <2>3. Range(new) # {}
    BY <1>3, <1>7
  <2>4. g.todo # <<>>
    <3>1. Range(<<>>) = {}
      BY DEF Range
    <3> QED
      BY <2>2, <2>3, <3>1
  <2> QED
    BY <1>2, <2>2, <2>4 DEF Group
\* A get waits for the future of its expert.
<1>10. PICK r : r = IF thread[t].op = "get"
                    THEN [thread[t] EXCEPT !.pc = "wait", !.future = new[thread[t].key]] ELSE Idle
  OBVIOUS
<1>11. /\ t \in Threads /\ thread \in [Threads -> Record] /\ thread[t] \in Record
       /\ MayBe(thread[t]) /\ NoFuture \notin FutureIds
       /\ callers \subseteq Threads /\ (Alone => callers = {t})
  BY CurrentRecord, CallersAreThreads DEF StoreInv, Parameters
<1>12. thread' = [thread EXCEPT ![t] = r]
  BY <1>1, <1>10, <1>11 DEF Submit, Found, Return
<1>13. /\ r \in Record /\ InTurn(r) /\ Settled(r) = {} /\ r.pc \in {"wait", "idle"}
       /\ Refers(r) \subseteq Referenced \cup Range(new) \cup {NoFuture}
  <2>1. CASE thread[t].op = "get"
    <3>1. thread[t].key \in M /\ new[thread[t].key] \in FutureIds /\ new[thread[t].key] \in Range(new)
      BY <1>5, <1>7, <2>1
    <3>2. r \in Record /\ r.pc = "wait" /\ r.future = new[thread[t].key] /\ r.work = thread[t].work
      BY <1>10, <1>11, <2>1, <3>1 DEF Record, Places
    <3>3. InTurn(r)
      BY <1>3, <1>10, <1>11, <2>1, <3>1, <3>2 DEF InTurn, MayBe, Record
    <3> QED
      BY <1>11, <3>1, <3>2, <3>3 DEF MayBe, Settled, Harvesting, Refers
  <2>2. CASE thread[t].op # "get"
    BY <1>10, <2>2, IdleRecord DEF MayBe, Idle, Settled, Harvesting, Refers
  <2> QED
    BY <2>1, <2>2
<1>14. /\ thread' \in [Threads -> Record] /\ thread'[t] = r
       /\ \A u \in Threads \ {t} : thread'[u] = thread[u]
  BY <1>11, <1>12, <1>13
<1>15. /\ DOMAIN futures' = DOMAIN futures \cup M
       /\ \A k \in M : futures'[k] = new[k]
       /\ \A k \in DOMAIN futures : futures'[k] = futures[k]
       /\ futures' \in [DOMAIN futures' -> DOMAIN fs]
  <2>1. /\ DOMAIN futures' = DOMAIN futures \cup M
        /\ \A k \in M : futures'[k] = new[k]
        /\ \A k \in DOMAIN futures : futures'[k] = futures[k]
    BY <1>3, <1>5, <1>7
  <2>2. \A k \in DOMAIN futures' : futures'[k] \in DOMAIN fs
    BY <1>7, <1>8, <2>1 DEF StoreInv, FuturesInv
  <2> QED
    BY <1>3, <2>1, <2>2
<1>16. Referenced' \subseteq DOMAIN fs \cup {NoFuture}
  <2>1. Range(futures') \subseteq DOMAIN fs
    BY <1>15 DEF Range
  <2>2. \A u \in Threads : Refers(thread'[u]) \subseteq Referenced \cup Range(new) \cup {NoFuture}
    BY <1>13, <1>14, ReferencedFutures
  <2>3. \A x \in tasks' : Range(x.todo) \subseteq Referenced \cup Range(new)
    BY <1>3, <1>9, ReferencedFutures
  <2> QED
    BY <1>8, <2>1, <2>2, <2>3, ReferencedNext
<1>17. /\ FuturesInv'
       /\ \A f \in Referenced' \ {NoFuture} : f \in DOMAIN futs' /\ futs'[f] = fs[f]
  <2>1. DOMAIN fs \subseteq FutureIds /\ DOMAIN futures' \subseteq Keys
    BY <1>5, <1>7, <1>8, <1>15 DEF StoreInv, FuturesInv
  <2>2. \A k \in DOMAIN futures' : fs[futures'[k]].key = k
    <3>1. \A k \in DOMAIN futures : futures[k] \in Referenced \ {NoFuture} /\ futs[futures[k]].key = k
      BY <1>11, ReferencedFutures DEF StoreInv, FuturesInv, Range
    <3> QED
      BY <1>8, <1>15, <3>1
  <2> QED
    BY <1>4, <1>8, <1>11, <1>15, <1>16, <2>1, <2>2, CollectedFutures
\* What was referred to before and still is, is as it was.
<1>18. \A f \in (Referenced \cap Referenced') \ {NoFuture} : futs'[f] = futs[f]
  BY <1>8, <1>17
<1>19. ThreadsInv'
  <2>1. ASSUME NEW u \in Threads, NEW f \in Settled(thread'[u])
        PROVE  Done(f)'
    <3>1. thread'[u] = thread[u] /\ Done(f) /\ InTurn(thread[u]) /\ thread[u] \in Record
      BY <1>13, <1>14, <2>1 DEF StoreInv, ThreadsInv
    <3>2. f # NoFuture /\ f \in Refers(thread'[u]) /\ f \in Refers(thread[u])
      BY <1>11, <2>1, <3>1 DEF Settled, Harvesting, Refers, InTurn, Record
    <3>3. f \in (Referenced \cap Referenced') \ {NoFuture}
      BY <3>2, ReferencedFutures, ReferencedNext
    <3> QED
      BY <1>18, <3>1, <3>3 DEF Done
  <2> QED
    BY <1>3, <1>13, <1>14, <2>1 DEF StoreInv, ThreadsInv, At
<1>20. TasksInv'
  <2>1. \A x \in tasks : \A f \in Range(x.todo) :
          f \in (Referenced \cap Referenced') \ {NoFuture}
    <3>1. \A x \in tasks : \A f \in Range(x.todo) : f \in FutureIds
      BY DEF StoreInv, TasksInv, Group, Range
    <3>2. \A x \in tasks : x \in tasks'
      BY <1>3
    <3> QED
      BY <1>11, <3>1, <3>2, ReferencedFutures, ReferencedNext
  <2>2. \A x \in tasks : Range(x.todo) \cap Range(g.todo) = {}
    BY <1>7, <1>9, <2>1
  <2>3. /\ tasks' \subseteq Group
        /\ \A x \in tasks' : x.todo # <<>> /\ (x.checked => x.phase # "reading")
        /\ \A x, y \in tasks' : x # y => Range(x.todo) \cap Range(y.todo) = {}
    BY <1>3, <1>9, <2>2 DEF StoreInv, TasksInv
  <2>4. \A x \in tasks : \A f \in Range(x.todo) : Awaited(f) => Awaited(f)'
    BY <1>15, <1>18, <2>1 DEF Awaited, Is, Done
  <2>5. \A f \in Range(g.todo) : Awaited(f)'
    <3>1. \A f \in Range(new) : f \in Referenced' \ {NoFuture}
      BY <1>3, <1>7, <1>9, <1>11, ReferencedNext
    <3> QED
      BY <1>7, <1>8, <1>9, <1>15, <1>17, <3>1 DEF Awaited, Is, Done
  <2> QED
    BY <1>3, <2>3, <2>4, <2>5 DEF StoreInv, TasksInv
\* A prefetch counts, and marks, the one expert it reads.
<1>21. /\ prefetching' \subseteq DOMAIN futures' /\ Cardinality(prefetching') <= MaxSpeculative
       /\ submitted' \in Nat /\ submitted <= submitted'
       /\ Cardinality(prefetching') - Cardinality(prefetching) <= submitted' - submitted
       /\ Cardinality(prefetching') \in Nat
  <2>1. CASE thread[t].op = "prefetch"
    <3>1. PICK k : M = {k}
      BY <1>5, <2>1
    <3>2. prefetching' = prefetching \cup {k} /\ submitted' = submitted + 1
      <4>1. prefetching' = prefetching \cup M /\ submitted' = submitted + Cardinality(M)
        BY <1>1, <1>7, <2>1 DEF Submit
      <4> QED
        BY <3>1, <4>1, FS_Singleton
    <3>3. /\ Cardinality(prefetching \cup {k}) = IF k \in prefetching THEN Cardinality(prefetching)
                                                 ELSE Cardinality(prefetching) + 1
      BY MarksAreFinite, FS_AddElement
    <3>4. prefetching' \subseteq DOMAIN futures'
      BY <1>15, <3>1, <3>2 DEF StoreInv, BoundsInv
    <3> QED
      BY <1>5, <2>1, <3>2, <3>3, <3>4, MarksAreFinite DEF StoreInv, BoundsInv, Parameters
  <2>2. CASE thread[t].op # "prefetch"
    <3>1. prefetching' = prefetching /\ submitted' = submitted
      BY <2>2 DEF Submit
    <3> QED
      BY <1>15, <3>1, MarksAreFinite DEF StoreInv, BoundsInv
  <2> QED
    BY <2>1, <2>2
<1>22. BoundsInv'
  BY <1>3, <1>21 DEF StoreInv, BoundsInv
<1>23. PrefetchesCountedOnce'
  BY <1>3, <1>21, MarksAreFinite DEF StoreInv, BoundsInv, PrefetchesCountedOnce, Alone
<1>24. AloneInv'
  BY <1>3, <1>11, <1>13, <1>14 DEF AloneInv, Alone, AloneRecord, Harvesting
<1> QED
  BY <1>17, <1>19, <1>20, <1>22, <1>23, <1>24 DEF StoreInv

-----------------------------------------------------------------------------
(* The invariant *)

LEMMA InitStoreInv == Parameters /\ Init => StoreInv
<1> SUFFICES ASSUME Parameters, Init
             PROVE  StoreInv
  OBVIOUS
<1>1. /\ callers \in Callers /\ futs = <<>> /\ futures = <<>>
      /\ prefetching = {} /\ ready = {} /\ cache = {} /\ closed = FALSE
      /\ submitted = 0 /\ hits = 0 /\ wasted = 0
      /\ thread = [t \in Threads |-> Idle] /\ tasks = {}
  BY DEF Init
<1>2. Range(futures) = {} /\ DOMAIN futures = {} /\ DOMAIN futs = {}
  BY <1>1 DEF Range
<1>3. FuturesInv
  <2>1. \A t \in Threads : Refers(thread[t]) = {NoFuture}
    BY <1>1 DEF Refers, Idle
  <2>2. Referenced \subseteq {NoFuture}
    BY <1>1, <1>2, <2>1, ReferencedFutures
  <2> QED
    BY <1>1, <1>2, <2>2 DEF FuturesInv
<1>4. ThreadsInv
  BY <1>1, IdleRecord DEF ThreadsInv, MayBe, At, Idle
<1>5. TasksInv
  BY <1>1 DEF TasksInv
<1>6. Cardinality(prefetching) = 0 /\ Cardinality(ready) = 0 /\ Cardinality(cache) = 0
  BY <1>1, FS_EmptySet
<1>7. BoundsInv
  <2>1. closed \in BOOLEAN /\ submitted \in Nat /\ hits \in Nat /\ wasted \in Nat
    BY <1>1
  <2>2. Cardinality(prefetching) <= MaxSpeculative /\ Cardinality(cache) <= Slots
    BY <1>6 DEF Parameters
  <2> QED
    BY <1>1, <2>1, <2>2 DEF BoundsInv
<1>8. PrefetchesCountedOnce
  BY <1>1, <1>6 DEF PrefetchesCountedOnce
<1>9. AloneInv
  BY <1>1, <1>7, CallersAreThreads DEF AloneInv, AloneRecord, Harvesting, Idle
<1> QED
  BY <1>3, <1>4, <1>5, <1>7, <1>8, <1>9 DEF StoreInv

LEMMA CallInv ==
  ASSUME Parameters, StoreInv, NEW t \in callers, Call(t)
  PROVE  StoreInv'
<1>1. CASE \E k \in Keys : Get(t, k) \/ Request(t, k, "ahead") \/ Request(t, k, "prefetch")
  BY <1>1, CallsInv
<1>2. ASSUME NEW ks \in (SUBSET Keys) \ {{}}, Prepare(t, ks)
      PROVE  StoreInv'
  <2>1. PICK k : k \in Keys
    OBVIOUS
  <2> QED
    BY <1>2, <2>1, CallsInv
<1>3. CASE Close(t)
  BY <1>3, CloseInv
<1> QED
  BY <1>1, <1>2, <1>3 DEF Call

LEMMA ContinueInv ==
  ASSUME Parameters, StoreInv, NEW t \in callers, Continue(t)
  PROVE  StoreInv'
<1>1. CASE CountHit(t) \/ Put(t) \/ Failed(t) \/ Take(t)
  BY <1>1, CountHitInv, PutInv, FailedInv, TakeInv
<1>2. CASE Look(t, "lookup", "request") \/ Look(t, "existing", "open") \/ LookAgain(t) \/ Await(t)
  BY <1>2, LooksInv, LookAgainInv, AwaitInv
<1>3. CASE Peek(t) \/ EnsureOpen(t) \/ Submit(t) \/ SubmitNothing(t)
  BY <1>3, PeekInv, EnsureOpenInv, SubmitInv, SubmitNothingInv
<1>4. CASE Reread(t) \/ CancelNone(t)
  BY <1>4, ReturnInv DEF Reread, CancelNone
<1>5. CASE Harvest(t) \/ Store(t) \/ Settle(t) \/ DropStale(t)
  BY <1>5, HarvestInv, StoreStepInv, SettleInv, DropStaleInv
<1>6. CASE \E f \in thread[t].work : PickFailed(t, f) \/ PickValue(t, f) \/ Cancel(t, f)
  BY <1>6, PickFailedInv, PickValueInv, CancelInv
<1> QED
  BY <1>1, <1>2, <1>3, <1>4, <1>5, <1>6 DEF Continue

LEMMA NextStoreInv == Parameters /\ StoreInv /\ [Next]_vars => StoreInv'
<1> SUFFICES ASSUME Parameters, StoreInv, [Next]_vars
             PROVE  StoreInv'
  OBVIOUS
<1>1. ASSUME NEW t \in callers, Call(t) \/ Continue(t)
      PROVE  StoreInv'
  BY <1>1, CallInv, ContinueInv
<1>2. ASSUME NEW f \in FutureIds, Work(f)
      PROVE  StoreInv'
  <2>1. PICK g \in tasks : Read(g) \/ CheckDone(g) \/ SetResult(g) \/ SetRaises(g)
    BY <1>2 DEF Work
  <2> QED
    BY <2>1, ReadInv, CheckDoneInv, SetResultInv, SetRaisesInv
<1>3. CASE UNCHANGED vars
  <2>1. UNCHANGED <<callers, futs, store, cache, counters, thread, tasks>>
    BY <1>3 DEF vars
  <2>2. FuturesInv'
    BY <2>1 DEF StoreInv, FuturesInv, Referenced, store
  <2>3. ThreadsInv' /\ TasksInv'
    BY <2>1 DEF StoreInv, ThreadsInv, At, Done, TasksInv, Awaited, Is, store
  <2>4. BoundsInv' /\ PrefetchesCountedOnce'
    BY <2>1 DEF StoreInv, BoundsInv, PrefetchesCountedOnce, Alone, store, counters
  <2>5. AloneInv'
    BY <2>1 DEF StoreInv, AloneInv, Alone, AloneRecord, Harvesting, Marked, Is, store
  <2> QED
    BY <2>2, <2>3, <2>4, <2>5 DEF StoreInv
<1> QED
  BY <1>1, <1>2, <1>3 DEF Next

\* While the store is open the groups that read an expert all have its future in
\* _futures still to set: there is one at most.
LEMMA ReadsOnce == Parameters /\ StoreInv => OneReadAtATime
<1> SUFFICES ASSUME Parameters, StoreInv, ~closed, NEW k \in Keys
             PROVE  Cardinality({g \in tasks : Reading(g, k)}) <= 1
  BY DEF OneReadAtATime
<1> DEFINE readers == {g \in tasks : Reading(g, k)}
<1>1. \A g \in readers : futures[k] \in Range(g.todo)
  BY DEF StoreInv, TasksInv, Awaited, Is, Reading
<1>2. \A g, h \in readers : g = h
  BY <1>1 DEF StoreInv, TasksInv
<1> HIDE DEF readers
<1>3. CASE readers = {}
  BY <1>3, FS_EmptySet DEF readers
<1>4. CASE readers # {}
  <2>1. PICK g : g \in readers
    BY <1>4
  <2>2. readers = {g}
    BY <1>2, <2>1
  <2>3. Cardinality(readers) = 1
    BY <2>2, FS_Singleton
  <2> QED
    BY <2>3 DEF readers
<1> QED
  BY <1>3, <1>4

LEMMA DemandedIsThere == StoreInv => NeverDisappears
BY DEF StoreInv, AloneInv, AloneRecord, NeverDisappears, At

LEMMA StoreTypes == Parameters /\ StoreInv => TypeOK
<1> SUFFICES ASSUME Parameters, StoreInv
             PROVE  TypeOK
  OBVIOUS
<1>1. \A t \in Threads : thread[t].future \in DOMAIN futs \cup {NoFuture}
  BY ReferencedFutures DEF StoreInv, FuturesInv, Refers
<1>2. \A g \in tasks : Range(g.todo) \subseteq DOMAIN futs
  <2>1. \A g \in tasks : Range(g.todo) \subseteq FutureIds
    BY DEF StoreInv, TasksInv, Group, Range
  <2> QED
    BY <2>1, ReferencedFutures DEF StoreInv, FuturesInv, Parameters
<1>3. Range(futs) \subseteq Future /\ Range(futures) \subseteq DOMAIN futs
  BY DEF StoreInv, FuturesInv, Range
<1> QED
  BY <1>1, <1>2, <1>3 DEF TypeOK, StoreInv, FuturesInv, BoundsInv, Future

\* For any threads, experts, futures and cache: what a thread and a group read
\* rely on holds between any two steps.
THEOREM StoreInvariant ==
  ASSUME Parameters
  PROVE  Spec => []StoreInv
<1>1. Init => StoreInv
  BY InitStoreInv
<1>2. StoreInv /\ [Next]_vars => StoreInv'
  BY NextStoreInv
<1> QED
  BY <1>1, <1>2, PTL DEF Spec

\* streaming.py:250-268 for any store: as long as it is open, an expert is read
\* by one group at a time, whichever threads ask for it and however.
THEOREM ExpertsAreReadOnce ==
  ASSUME Parameters
  PROVE  Spec => []OneReadAtATime
<1>1. StoreInv => OneReadAtATime
  BY ReadsOnce
<1> QED
  BY <1>1, StoreInvariant, PTL

\* streaming.py:361 for any store that one thread uses: get does not raise
\* "expert request disappeared".
THEOREM DemandedIsNotLost ==
  ASSUME Parameters
  PROVE  Spec => []NeverDisappears
BY DemandedIsThere, StoreInvariant, PTL

\* For any store that one thread uses: no prefetch is counted twice, through
\* hits, failures, the harvest, evictions and close.
THEOREM CountedOnce ==
  ASSUME Parameters
  PROVE  Spec => []PrefetchesCountedOnce
<1>1. StoreInv => PrefetchesCountedOnce
  BY DEF StoreInv
<1> QED
  BY <1>1, StoreInvariant, PTL

\* For any store: the marks are of futures in _futures and within
\* _max_speculative, the cache within its budget, and no future that a thread or
\* a group refers to is unknown.
THEOREM StoreTypeCorrect ==
  ASSUME Parameters
  PROVE  Spec => []TypeOK
<1>1. StoreInv => TypeOK
  BY StoreTypes
<1> QED
  BY <1>1, StoreInvariant, PTL
=============================================================================
