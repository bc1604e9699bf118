------------------------------ MODULE PleStore ------------------------------
(***************************************************************************)
(* PLEStore of src/colibri_runtime/streaming.py: rows of the n-gram        *)
(* embedding are read by the index's executor, one group per shard, ahead  *)
(* of the layer that needs them (prefetch_rows) or when it does            *)
(* (get_rows).  A row has a future in _futures until get_rows moves its    *)
(* value to the cache.                                                     *)
(*                                                                         *)
(* One thread uses the store, as model.py does, next to the executor's.    *)
(* Rows are of equal size, so the cache is a set of at most Slots rows;    *)
(* which one a put evicts (ByteCache) is left open.                        *)
(***************************************************************************)
EXTENDS Integers, Sequences, FiniteSets, Functions

CONSTANTS
  NumRows,      \* rows of the table, n_shards * rows_per_shard
  RowsPerShard,
  MaxRows,      \* bound on the rows of one request
  RowSlots,     \* rows that fit in the cache, which is also _max_speculative
  MaxCalls,     \* bound on the calls of the thread
  ReadsFail     \* whether reads may fail

RowParameters == /\ RowSlots \in Nat \ {0}
                 /\ NumRows \in Nat \ {0} /\ RowsPerShard \in Nat \ {0}
                 /\ MaxRows \in Nat /\ MaxCalls \in Nat
                 /\ ReadsFail \in BOOLEAN

VARIABLES
  rowCache,      \* self.cache
  rowFutures,    \* self._futures: the result of the future of a row
  groups,        \* group reads: their rows, those still to be set, the phase
  rowsClosed,    \* self._closed
  rowsSubmitted, rowHits, rowsWasted,  \* prefetch_submitted, _hits, _wasted
  rowCalls,      \* calls the thread will still make
  rowPc, wanted, \* the thread: in get_rows, the rows still to be fetched
  failures       \* how the calls of get_rows that raised did

rowVars == <<rowCache, rowFutures, groups, rowsClosed, rowsSubmitted, rowHits, rowsWasted,
             rowCalls, rowPc, wanted, failures>>

Pending == "pending"
Rows == 0..(NumRows - 1)
ShardOf(r) == r \div RowsPerShard
Shards == {ShardOf(r) : r \in Rows}

\* unique_keys of a request: distinct rows in the order they are asked for.
Requests == {s \in UNION {[1..n -> Rows] : n \in 1..MaxRows} : IsInjective(s)}

\* The rows _submit_group reads of a shard, before the limit on prefetches.
MissingOf(rows, shard) == {r \in rows \ (rowCache \cup DOMAIN rowFutures) : ShardOf(r) = shard}

\* missing[: slots] for the sorted rows missing.
FirstOf(missing, slots) == {r \in missing : Cardinality({x \in missing : x < r}) < slots}

\* What prefetch_rows may read of each shard: the shards are submitted in the
\* order the request names them, each up to the slots those before it have left.
NamedBefore(request, shard) ==
  {x \in Shards : \E i \in DOMAIN request : /\ ShardOf(request[i]) = x
                                             /\ \A j \in 1..i : ShardOf(request[j]) # shard}
Prefetched(request) ==
  {parts \in [Shards -> SUBSET Range(request)] :
     \A shard \in Shards :
       LET taken == UNION {parts[x] : x \in NamedBefore(request, shard)}
           slots == RowSlots - Cardinality(DOMAIN rowFutures) - Cardinality(taken)
       IN parts[shard] = FirstOf(MissingOf(Range(request), shard), slots)}

\* One group for each shard with rows to read.
Submitted(parts, prefetch) ==
  LET rows == UNION Range(parts)
  IN /\ rowFutures' = [r \in DOMAIN rowFutures \cup rows |->
                         IF r \in rows THEN [result |-> Pending, prefetched |-> prefetch]
                         ELSE rowFutures[r]]
     /\ groups' = groups \cup {[rows |-> parts[s], todo |-> parts[s], phase |-> "reading"] :
                                 s \in {x \in Shards : parts[x] # {}}}

-----------------------------------------------------------------------------
(* The thread *)

Calls == /\ rowPc = "idle" /\ rowCalls > 0 /\ ~rowsClosed
         /\ rowCalls' = rowCalls - 1

PrefetchRows(request) ==
  /\ Calls
  /\ \E parts \in Prefetched(request) :
       /\ Submitted(parts, TRUE)
       /\ rowsSubmitted' = rowsSubmitted + Cardinality(UNION Range(parts))
  /\ UNCHANGED <<rowCache, rowsClosed, rowHits, rowsWasted, rowPc, wanted, failures>>

\* get_rows up to its loop over the rows.
GetRows(request) ==
  /\ Calls
  /\ Submitted([s \in Shards |-> MissingOf(Range(request), s)], FALSE)
  /\ rowPc' = "fetch"
  /\ wanted' = request
  /\ UNCHANGED <<rowCache, rowsClosed, rowsSubmitted, rowHits, rowsWasted, failures>>

\* The next row, or the end of the loop.
Advance == /\ wanted' = Tail(wanted)
           /\ rowPc' = IF Tail(wanted) = <<>> THEN "idle" ELSE rowPc

Raise(how) == /\ failures' = failures \cup {how}
              /\ rowPc' = "idle" /\ wanted' = <<>>

FetchCached == /\ rowPc = "fetch"
               /\ Head(wanted) \in rowCache
               /\ Advance
               /\ UNCHANGED <<rowCache, rowFutures, groups, rowsClosed, rowsSubmitted, rowHits,
                              rowsWasted, rowCalls, failures>>

\* self._futures[key] of a row that is neither cached nor being read.
FetchNothing == /\ rowPc = "fetch"
                /\ Head(wanted) \notin rowCache \cup DOMAIN rowFutures
                /\ Raise("KeyError")
                /\ UNCHANGED <<rowCache, rowFutures, groups, rowsClosed, rowsSubmitted, rowHits,
                               rowsWasted, rowCalls>>

\* What a put of a row may leave in the cache.
AfterPut(r) ==
  IF r \in rowCache \/ Cardinality(rowCache) < RowSlots THEN {rowCache \cup {r}}
  ELSE {(rowCache \ {v}) \cup {r} : v \in rowCache}

\* Mutant of FetchRead: the future stays in _futures.
FetchReadKeepingFuture ==
  LET r == Head(wanted)
  IN /\ rowPc = "fetch"
     /\ r \in DOMAIN rowFutures \ rowCache
     /\ rowFutures[r].result = "value"
     /\ rowHits' = IF rowFutures[r].prefetched THEN rowHits + 1 ELSE rowHits
     /\ rowCache' \in AfterPut(r)
     /\ Advance
     /\ UNCHANGED <<rowFutures, groups, rowsClosed, rowsSubmitted, rowsWasted, rowCalls,
                    failures>>

FetchRead ==
  LET r == Head(wanted)
  IN /\ rowPc = "fetch"
     /\ r \in DOMAIN rowFutures \ rowCache
     /\ rowFutures[r].result = "value"
     /\ rowFutures' = Restrict(rowFutures, DOMAIN rowFutures \ {r})
     /\ rowHits' = IF rowFutures[r].prefetched THEN rowHits + 1 ELSE rowHits
     /\ rowCache' \in AfterPut(r)
     /\ Advance
     /\ UNCHANGED <<groups, rowsClosed, rowsSubmitted, rowsWasted, rowCalls, failures>>

FetchFailed ==
  LET r == Head(wanted)
  IN /\ rowPc = "fetch"
     /\ r \in DOMAIN rowFutures \ rowCache
     /\ rowFutures[r].result = "error"
     /\ rowFutures' = Restrict(rowFutures, DOMAIN rowFutures \ {r})
     /\ Raise("read")
     /\ UNCHANGED <<rowCache, groups, rowsClosed, rowsSubmitted, rowHits, rowsWasted, rowCalls>>

\* close clears _futures, whose futures it then cancels; nobody waits for them.
Close == /\ Calls
         /\ rowsClosed' = TRUE
         /\ rowsWasted' = rowsWasted + Cardinality(DOMAIN rowFutures)
         /\ rowFutures' = <<>>
         /\ UNCHANGED <<rowCache, groups, rowsSubmitted, rowHits, rowPc, wanted, failures>>

-----------------------------------------------------------------------------
(* An executor thread: _load_rows, then the callback finish *)

Replace(g, h) == groups' = (groups \ {g}) \cup (IF h.todo = {} THEN {} ELSE {h})

Unset(r) == r \in DOMAIN rowFutures /\ rowFutures[r].result = Pending

ReadGroup(g) == /\ g.phase = "reading"
                /\ Replace(g, [g EXCEPT !.phase = "setting"])
                /\ UNCHANGED <<rowCache, rowFutures, rowsClosed, rowsSubmitted, rowHits,
                               rowsWasted, rowCalls,
                               rowPc, wanted, failures>>

\* Each row is set under the lock, in the order of values.
SetRow(g, r) == /\ g.phase = "setting"
                /\ r \in g.todo
                /\ rowFutures' = IF Unset(r) THEN [rowFutures EXCEPT ![r].result = "value"]
                                 ELSE rowFutures
                /\ Replace(g, [g EXCEPT !.todo = @ \ {r}])
                /\ UNCHANGED <<rowCache, rowsClosed, rowsSubmitted, rowHits, rowsWasted,
                               rowCalls, rowPc, wanted, failures>>

\* A failed read fails all rows of the group, under one hold of the lock.
FailGroup(g) ==
  /\ ReadsFail
  /\ g.phase = "reading"
  /\ rowFutures' = [r \in DOMAIN rowFutures |->
                      IF r \in g.rows /\ Unset(r) THEN [rowFutures[r] EXCEPT !.result = "error"]
                      ELSE rowFutures[r]]
  /\ groups' = groups \ {g}
  /\ UNCHANGED <<rowCache, rowsClosed, rowsSubmitted, rowHits, rowsWasted, rowCalls, rowPc,
                 wanted, failures>>

-----------------------------------------------------------------------------

RowsInit == /\ rowCache = {} /\ rowFutures = <<>> /\ groups = {}
            /\ rowsClosed = FALSE
            /\ rowsSubmitted = 0 /\ rowHits = 0 /\ rowsWasted = 0
            /\ rowCalls = MaxCalls
            /\ rowPc = "idle" /\ wanted = <<>>
            /\ failures = {}

Fetch == FetchCached \/ FetchNothing \/ FetchRead \/ FetchFailed
Work(shard) == \E g \in {h \in groups : \A r \in h.rows : ShardOf(r) = shard} :
                 ReadGroup(g) \/ FailGroup(g) \/ \E r \in g.todo : SetRow(g, r)

RowsNext == \/ \E request \in Requests : PrefetchRows(request) \/ GetRows(request)
            \/ Close
            \/ Fetch
            \/ \E shard \in Shards : Work(shard)

RowsSpec == RowsInit /\ [][RowsNext]_rowVars

\* get_rows goes on, and the executor works on what is submitted.
RowsFairSpec == RowsSpec /\ WF_rowVars(Fetch) /\ \A shard \in Shards : WF_rowVars(Work(shard))

-----------------------------------------------------------------------------
(* Correctness *)

\* Besides the types: the cache stays within its budget, and there are no more
\* hits than prefetches.
RowsTypeOK == /\ rowCache \subseteq Rows /\ Cardinality(rowCache) <= RowSlots
              /\ DOMAIN rowFutures \subseteq Rows
              /\ Range(rowFutures) \subseteq [result : {Pending, "value", "error"},
                                              prefetched : BOOLEAN]
              /\ \A g \in groups : g.todo \subseteq g.rows /\ g.rows \subseteq Rows
              /\ rowsClosed \in BOOLEAN
              /\ rowHits \in 0..rowsSubmitted /\ rowsWasted \in Nat /\ rowCalls \in 0..MaxCalls
              /\ rowPc \in {"idle", "fetch"} /\ wanted \in Seq(Rows)
              /\ failures \subseteq {"read", "KeyError"}

\* A row that is prefetched is not read again by the get_rows that follows, nor
\* by any other call, while its read is under way.
RowsReadOnce ==
  ~rowsClosed => \A g, h \in groups : g # h => g.todo \cap h.todo = {}

\* No row is both cached and in _futures: a future left behind takes a slot of
\* the prefetches for ever.
RowCachedOrPending == rowCache \cap DOMAIN rowFutures = {}

\* get_rows fails only if a read failed; rows that were cached or prefetched
\* when it began are still there when it gets to them.
RowsArrive == "KeyError" \notin failures

\* Every get_rows ends: the rows of a failed group all fail.
GetRowsReturns == rowPc = "fetch" ~> rowPc = "idle"
=============================================================================
