--------------------------- MODULE MCPoolAndCaches ---------------------------
(* Instances of IoPool and of ByteCache for the properties that need no        *)
(* fairness.  One of them runs in each behaviour: either the pool, while the   *)
(* variables of the cache are Off, or the cache, while the pool stays as it    *)
(* was created.  The instance is of the module with the proofs about ByteCache,*)
(* so that they can be cited.                                                  *)
EXTENDS IoPool, TLC

CONSTANTS
  Caches, PartitionOf, Sizes, MaxBytes, Partitions, MaxFreq, NoKey,   \* of ByteCache
  Off,
  k1   \* the key that is no job

VARIABLES part
VARIABLES cache, list, nbytes, pinned, hot, freq, usage, bytes, pinnedCount, putting, saved

C == "cache.c"
Py == "expert_cache.py"
Variant(impl, policy, hots, items) ==
  [impl |-> impl, policy |-> policy, hots |-> hots, maxItems |-> items]

\* What each cache supports: pick_victim of cache.c orders mixed hot and cold
\* entries rightly for lru only, and the C runtime marks no entry hot.
AllCaches == {Variant(C, "lru", BOOLEAN, 0),
              Variant(C, "lfu", {FALSE}, 0),
              Variant(C, "adaptive", {FALSE}, 0),
              Variant(Py, "lru", BOOLEAN, 2),
              Variant(Py, "lfu", BOOLEAN, 0),
              Variant(Py, "adaptive", BOOLEAN, 0)}

\* Three keys of one partition and one of another, sizes that make one value
\* evict two others.  The three are the model values of the jobs, which the cache
\* runs do not use, so that one symmetry serves both.
Keys == Jobs \cup {k1}
TwoLayers == [k \in Keys |-> IF k = k1 THEN 1 ELSE 0]
Bytes == INSTANCE ByteCacheProof

ASSUME ParametersFit == Bytes!Parameters
ASSUME CachesFit == \A c \in Caches : Bytes!Orders(c)

\* Jobs and workers are interchangeable: no action orders them.  So are the keys
\* of a partition.
PoolSymmetry == Permutations(Jobs) \cup Permutations(Workers)

cacheVars == <<cache, list, nbytes, pinned, hot, freq, usage, bytes, pinnedCount, putting, saved>>
allVars == <<part, vars, cacheVars>>

CacheOff == /\ cache = Off /\ list = Off /\ nbytes = Off /\ pinned = Off /\ hot = Off
            /\ freq = Off /\ usage = Off /\ bytes = Off /\ pinnedCount = Off
            /\ putting = Off /\ saved = Off

AllInit == Init /\ (\/ part = "pool" /\ CacheOff
                    \/ part = "cache" /\ Bytes!Init)

AllNext == \/ part = "pool" /\ Next /\ UNCHANGED <<part, cacheVars>>
           \/ part = "cache" /\ Bytes!Next /\ UNCHANGED <<part, vars>>

AllSpec == AllInit /\ [][AllNext]_allVars

-----------------------------------------------------------------------------
(* What the caches promise, of the behaviours in which they run; TypeOK and    *)
(* the properties of the pool are those of IoPool.                             *)

\* The counters agree with the entries (cache.c:214, expert_cache.py:152), and
\* no field of an entry or of the statistics leaves its range.
CountersAreExact == part = "cache" => Bytes!TypeOK /\ Bytes!CountersAreExact

\* The limits hold in the middle of a put and after a rollback as well.
WithinBudget == part = "cache" => Bytes!WithinBudget

\* A put gives up only when the pinned entries leave no room (cache.c:238).
RejectsOnlyForPins == [][part = "cache" => Bytes!GivesUpForPins]_allVars

\* A pinned entry leaves only when a put of its own key replaces it.
PinnedStay == [][part = "cache" => Bytes!KeepsPinned]_allVars

\* Entries of a partition over its share go first (cache.c:104).
SharesAreFair == [][part = "cache" => Bytes!EvictsFromOverShare]_allVars

\* The victim is the least valued entry that may go (c/tests/test_cache.c:50).
EvictsTheLeastValued == [][part = "cache" => Bytes!EvictsLeast]_allVars
=============================================================================
