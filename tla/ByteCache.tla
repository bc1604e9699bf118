------------------------------ MODULE ByteCache ------------------------------
(***************************************************************************)
(* The byte-budgeted caches of the two runtimes: cache_t of c/src/cache.c  *)
(* and ExpertCache of src/colibri_runtime/expert_cache.py.  Both keep a    *)
(* recency order, three replacement policies, pinned entries, hot entries, *)
(* and fair shares for the partitions (layers) that the keys belong to.    *)
(* They differ in how they find a victim, in the Python cache keeping the  *)
(* usage of the partitions incrementally, and in what a put that is        *)
(* rejected leaves behind.                                                 *)
(*                                                                         *)
(* Every operation runs under the cache's lock.  A put is several steps,   *)
(* one per evicted entry, during which no other operation runs.  The hash  *)
(* table of the C cache is the set of listed keys here; OpenTable models   *)
(* it.  An entry's touch time is its place in the list: get and put read   *)
(* the monotonic clock and move the entry to the front.                    *)
(***************************************************************************)
EXTENDS Integers, Sequences, SequencesExt, FiniteSets, FiniteSetsExt

CONSTANTS
  Caches,        \* the caches to consider: records of impl, policy, the values
                 \* callers pass as hot, and Python's max_items (0 for None)
  Keys,          \* cache keys
  PartitionOf,   \* the layer in a key, a function on Keys
  Sizes,         \* nbytes of a value
  MaxBytes,      \* max_bytes; 0 for no limit
  Partitions,    \* partitions; 0 for no fairness
  MaxFreq,       \* bound on an entry's hit count
  NoKey

C == "cache.c"
Py == "expert_cache.py"
Policies == {"lru", "lfu", "adaptive"}

Parameters == /\ Caches \subseteq [impl : {C, Py}, policy : Policies,
                                    hots : SUBSET BOOLEAN, maxItems : Nat]
              /\ NoKey \notin Keys
              /\ DOMAIN PartitionOf = Keys
              /\ Sizes \subseteq Nat
              /\ MaxBytes \in Nat /\ Partitions \in Nat /\ MaxFreq \in Nat \ {0}
              /\ Partitions > 0 => MaxBytes > 0

VARIABLES
  cache,     \* which cache it is
  list,      \* the recency list, most recent first
  nbytes, pinned, hot, freq,   \* fields of the listed entries
  usage,     \* bytes per partition, as expert_cache.py keeps them
  bytes, pinnedCount,          \* statistics
  putting,   \* the put under way: key, size, pin, hot
  saved      \* what expert_cache.py goes back to when it rejects that put

fields == <<nbytes, pinned, hot, freq>>
entries == <<list, nbytes, pinned, hot, freq, usage, bytes>>
vars == <<cache, list, nbytes, pinned, hot, freq, usage, bytes, pinnedCount, putting, saved>>

NoPut == [key |-> NoKey, size |-> 0, pin |-> FALSE, hot |-> FALSE]
Listed == ToSet(list)
Unlocked == putting = NoPut
Parts == {PartitionOf[k] : k \in Keys}
PlaceOf(k) == CHOOSE i \in DOMAIN list : list[i] = k

\* The sum of the sizes of ks: the number of their bytes.
BytesOf(ks, size) == Cardinality(UNION {{k} \X (1..size[k]) : k \in ks})
Bytes(ks) == BytesOf(ks, nbytes)
PinnedKeys == {k \in Listed : pinned[k]}

-----------------------------------------------------------------------------
(* pick_victim of cache.c and _victim of expert_cache.py *)

InPartition(part) == {k \in Listed : PartitionOf[k] = part}

\* The share of a partition is exceeded by usage > MaxBytes / Partitions, with
\* integer division in C and true division in Python: the same for integers.
OverShare(k) ==
  LET part == PartitionOf[k]
      used == IF cache.impl = Py THEN usage[part] ELSE Bytes(InPartition(part))
  IN used * Partitions > MaxBytes

\* Mutants of AnyOver: entries that may not go count; fairness counts only when
\* every entry is over.
AnyOverPinnedToo == Partitions > 0 /\ \E k \in Listed : OverShare(k)
AllOver == Partitions > 0 /\ \A k \in Listed : pinned[k] \/ OverShare(k)

\* Fairness only counts when an entry that could go is over its share.
AnyOver == Partitions > 0 /\ \E k \in Listed : ~pinned[k] /\ OverShare(k)

\* Mutant of MayGo: pins are ignored.
MayGoPinned(k) == AnyOver => OverShare(k)

MayGo(k) == ~pinned[k] /\ (AnyOver => OverShare(k))

\* Scores are fractions, so that adaptive's division is exact.
Score(k) ==
  CASE cache.policy = "lru"      -> <<0, 1>>
    [] cache.policy = "lfu"      -> <<freq[k], 1>>
    [] cache.policy = "adaptive" -> <<freq[k] + (IF hot[k] THEN 4 ELSE 0),
                                      IF nbytes[k] = 0 THEN 1 ELSE nbytes[k]>>
Less(a, b) == a[1] * b[2] < b[1] * a[2]

\* One turn of pick_victim's loop from the tail.  Later entries have later
\* ticks, so a tie, and every comparison of lru, keeps the earlier one.
Better(best, k) ==
  IF best.key = NoKey THEN [key |-> k, score |-> Score(k)]
  ELSE IF ~hot[k] /\ hot[best.key] THEN [key |-> k, score |-> <<0, 1>>]
  ELSE IF hot[k] /\ ~hot[best.key] THEN best
  ELSE IF Less(Score(k), best.score) THEN [key |-> k, score |-> Score(k)]
  ELSE best

\* The loop over s.
BestOf(s) ==
  LET best[i \in 0..Len(s)] ==
        IF i = 0 THEN [key |-> NoKey, score |-> <<0, 1>>]
        ELSE IF MayGo(s[i]) THEN Better(best[i - 1], s[i])
        ELSE best[i - 1]
  IN best[Len(s)].key

VictimInC == BestOf(Reverse(list))

\* candidates = over or candidates; cold or candidates; min by score and touch
VictimInPy ==
  LET candidates == {k \in Listed : MayGo(k)}
      cold == {k \in candidates : ~hot[k]}
      coldest == IF cold = {} THEN candidates ELSE cold
      least == {k \in coldest : \A x \in coldest : ~Less(Score(x), Score(k))}
  IN IF least = {} THEN NoKey
     ELSE list[Max({i \in DOMAIN list : list[i] \in least})]

\* Mutant of Victim: the recency list is scanned from the wrong end.
VictimFromHead == BestOf(list)

Victim == IF cache.impl = Py THEN VictimInPy ELSE VictimInC

-----------------------------------------------------------------------------
(* Operations *)

\* Unlinking the entry of k.
Without(k) == RemoveAt(list, PlaceOf(k))
ToFront(k) == <<k>> \o Without(k)

\* get of an entry that is there; a miss only counts.
Get(k) == /\ Unlocked
          /\ k \in Listed
          /\ freq[k] < MaxFreq
          /\ freq' = [freq EXCEPT ![k] = @ + 1]
          /\ list' = ToFront(k)
          /\ UNCHANGED <<cache, nbytes, pinned, hot, usage, bytes, pinnedCount, putting, saved>>

\* _adjust_partition; cache.c keeps no such table.
Adjusted(k, delta) ==
  IF cache.impl = Py THEN [usage EXCEPT ![PartitionOf[k]] = @ + delta] ELSE usage

\* drop_entry of cache.c; pop and _remove_bytes of expert_cache.py, which
\* counts the pinned entries afresh at the end of an operation.
Drop(k) == /\ list' = Without(k)
           /\ bytes' = bytes - nbytes[k]
           /\ usage' = Adjusted(k, -nbytes[k])
           /\ pinnedCount' = IF cache.impl = C /\ pinned[k] THEN pinnedCount - 1
                             ELSE pinnedCount
           /\ nbytes' = [nbytes EXCEPT ![k] = 0]
           /\ pinned' = [pinned EXCEPT ![k] = FALSE]
           /\ hot' = [hot EXCEPT ![k] = FALSE]
           /\ freq' = [freq EXCEPT ![k] = 0]

\* A put begins: a value larger than the budget would be rejected with nothing
\* changed; an entry with the same key goes, its marks are kept.
PutBegin(k, size, pin, h) ==
  /\ Unlocked
  /\ MaxBytes > 0 => size <= MaxBytes
  /\ putting' = [key |-> k, size |-> size,
                 pin |-> pin \/ (k \in Listed /\ pinned[k]),
                 hot |-> h \/ (k \in Listed /\ hot[k])]
  /\ saved' = IF cache.impl = Py THEN entries ELSE <<>>
  /\ IF k \in Listed THEN Drop(k) ELSE UNCHANGED <<entries, pinnedCount>>
  /\ UNCHANGED cache

\* Mutant of NoRoom: the new value is not counted.
NoRoomAlready == MaxBytes > 0 /\ bytes > MaxBytes

NoRoom == \/ MaxBytes > 0 /\ bytes + putting.size > MaxBytes
          \/ cache.maxItems > 0 /\ Len(list) + 1 > cache.maxItems

PutEvict == /\ ~Unlocked
            /\ NoRoom
            /\ Victim # NoKey
            /\ Drop(Victim)
            /\ UNCHANGED <<cache, putting, saved>>

\* What a rejected put leaves of the entries.  expert_cache.py goes back to what
\* it saved; in cache.c what was evicted or replaced stays gone.
Restored ==
  LET old == IF cache.impl = Py THEN saved ELSE entries
  IN /\ list' = old[1] /\ nbytes' = old[2] /\ pinned' = old[3] /\ hot' = old[4]
     /\ freq' = old[5] /\ usage' = old[6] /\ bytes' = old[7]

\* Mutant of PutGiveUp: expert_cache.py keeps the partition table of the
\* evictions it takes back.
PutGiveUpKeepingUsage ==
  /\ ~Unlocked
  /\ NoRoom
  /\ Victim = NoKey
  /\ putting' = NoPut
  /\ saved' = <<>>
  /\ list' = IF cache.impl = Py THEN saved[1] ELSE list
  /\ nbytes' = IF cache.impl = Py THEN saved[2] ELSE nbytes
  /\ pinned' = IF cache.impl = Py THEN saved[3] ELSE pinned
  /\ hot' = IF cache.impl = Py THEN saved[4] ELSE hot
  /\ freq' = IF cache.impl = Py THEN saved[5] ELSE freq
  /\ bytes' = IF cache.impl = Py THEN saved[7] ELSE bytes
  /\ pinnedCount' = IF cache.impl = Py
                    THEN Cardinality({k \in ToSet(list') : pinned'[k]})
                    ELSE pinnedCount
  /\ UNCHANGED <<cache, usage>>

\* Nothing evictable: the put is rejected.
PutGiveUp == /\ ~Unlocked
             /\ NoRoom
             /\ Victim = NoKey
             /\ putting' = NoPut
             /\ saved' = <<>>
             /\ Restored
             /\ pinnedCount' = IF cache.impl = Py
                               THEN Cardinality({k \in ToSet(list') : pinned'[k]})
                               ELSE pinnedCount
             /\ UNCHANGED cache

PutInsert == /\ ~Unlocked
             /\ ~NoRoom
             /\ list' = <<putting.key>> \o list
             /\ nbytes' = [nbytes EXCEPT ![putting.key] = putting.size]
             /\ pinned' = [pinned EXCEPT ![putting.key] = putting.pin]
             /\ hot' = [hot EXCEPT ![putting.key] = putting.hot]
             /\ freq' = [freq EXCEPT ![putting.key] = 1]
             /\ bytes' = bytes + putting.size
             /\ usage' = Adjusted(putting.key, putting.size)
             /\ pinnedCount' = IF cache.impl = Py
                               THEN Cardinality({k \in ToSet(list') : pinned'[k]})
                               ELSE IF putting.pin THEN pinnedCount + 1 ELSE pinnedCount
             /\ putting' = NoPut
             /\ saved' = <<>>
             /\ UNCHANGED cache

\* A second pin of an entry changes nothing in either cache.
Pin(k) == /\ Unlocked
          /\ k \in Listed
          /\ ~pinned[k]
          /\ pinned' = [pinned EXCEPT ![k] = TRUE]
          /\ pinnedCount' = pinnedCount + 1
          /\ UNCHANGED <<cache, list, nbytes, hot, freq, usage, bytes, putting, saved>>

\* The eviction at the end of expert_cache.py's unpin finds nothing to do: no
\* state is over the limits (WithinBudget).
Unpin(k) == /\ Unlocked
            /\ k \in Listed
            /\ pinned[k]
            /\ pinned' = [pinned EXCEPT ![k] = FALSE]
            /\ pinnedCount' = pinnedCount - 1
            /\ UNCHANGED <<cache, list, nbytes, hot, freq, usage, bytes, putting, saved>>

MarkHot(k, h) == /\ Unlocked
                 /\ k \in Listed
                 /\ hot' = [hot EXCEPT ![k] = h]
                 /\ UNCHANGED <<cache, list, nbytes, pinned, freq, usage, bytes,
                                pinnedCount, putting, saved>>

Init == /\ cache \in Caches
        /\ list = <<>>
        /\ nbytes = [k \in Keys |-> 0]
        /\ pinned = [k \in Keys |-> FALSE]
        /\ hot = [k \in Keys |-> FALSE]
        /\ freq = [k \in Keys |-> 0]
        /\ usage = [p \in Parts |-> 0]
        /\ bytes = 0 /\ pinnedCount = 0
        /\ putting = NoPut
        /\ saved = <<>>

Put(k) == \E size \in Sizes, pin \in BOOLEAN, h \in cache.hots : PutBegin(k, size, pin, h)

Next == \/ \E k \in Keys : Get(k) \/ Put(k) \/ Pin(k) \/ Unpin(k)
        \/ \E k \in Keys, h \in cache.hots : MarkHot(k, h)
        \/ PutEvict \/ PutGiveUp \/ PutInsert

Spec == Init /\ [][Next]_vars

-----------------------------------------------------------------------------
(* Correctness *)

TypeOK == /\ cache \in Caches
          /\ list \in Seq(Keys)
          /\ nbytes \in [Keys -> Sizes \cup {0}]
          /\ pinned \in [Keys -> BOOLEAN]
          /\ hot \in [Keys -> BOOLEAN]
          /\ freq \in [Keys -> 0..MaxFreq]
          /\ usage \in [Parts -> Nat]
          /\ bytes \in Nat /\ pinnedCount \in Nat
          /\ putting \in [key : Keys \cup {NoKey}, size : Sizes \cup {0},
                          pin : BOOLEAN, hot : BOOLEAN]
          /\ saved = <<>> \/ DOMAIN saved = DOMAIN entries

\* The counters agree with the entries after any sequence of operations, also
\* when an entry is replaced, dropped while pinned or brought back because its
\* replacement was rejected; no key is listed twice.
CountersAreExact ==
  /\ bytes = Bytes(Listed)
  /\ Unlocked => pinnedCount = Cardinality(PinnedKeys)
  /\ cache.impl = Py => \A p \in Parts : usage[p] = Bytes(InPartition(p))
  /\ Len(list) = Cardinality(Listed)

\* The limits hold in every state, the middle of a put and the moment after a
\* rollback included.
WithinBudget == /\ MaxBytes > 0 => bytes <= MaxBytes
                /\ cache.maxItems > 0 => Len(list) <= cache.maxItems

Leaving == Listed \ ToSet(list')
Evicted == IF Unlocked THEN {} ELSE Leaving

\* A put gives up only when the pinned entries and the value do not fit
\* together, within a limit that is set: neither the fair shares nor the hot
\* marks make it fail.
GivesUpForPins ==
  PutGiveUp => \/ MaxBytes > 0 /\ Bytes(PinnedKeys) + putting.size > MaxBytes
               \/ cache.maxItems > 0 /\ Cardinality(PinnedKeys) + 1 > cache.maxItems
RejectsOnlyForPins == [][GivesUpForPins]_vars

\* A pinned entry leaves only when a put of its own key replaces it.
KeepsPinned == \A k \in Leaving : pinned[k] => Unlocked /\ putting'.key = k
PinnedStay == [][KeepsPinned]_vars

\* The comment at cache.c:104 and the test at tests/test_cache.py:21: while an
\* unpinned entry of a partition over its share remains, no entry of a
\* partition within its share is evicted.
EvictsFromOverShare ==
  \A v \in Evicted :
    Partitions > 0 /\ ~OverShare(v) => \A k \in Listed : pinned[k] \/ ~OverShare(k)
SharesAreFair == [][EvictsFromOverShare]_vars

\* Among the entries that may go, a hot one is evicted only when all are hot
\* (cache.c:130), and of those as hot the one with the lowest score ("lowest
\* frequency evicted", c/tests/test_cache.c:50), the longest untouched first.
EvictsLeast ==
  \A v \in Evicted : \A k \in {x \in Listed : MayGo(x)} \ {v} :
    /\ hot[v] => hot[k]
    /\ hot[k] = hot[v] => /\ ~Less(Score(k), Score(v))
                          /\ ~Less(Score(v), Score(k)) => PlaceOf(k) < PlaceOf(v)
EvictsTheLeastValued == [][EvictsLeast]_vars
=============================================================================
