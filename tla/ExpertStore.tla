----------------------------- MODULE ExpertStore -----------------------------
(***************************************************************************)
(* ExpertStore of src/colibri_runtime/streaming.py: experts are read by    *)
(* the threads of the index's executor, in groups; every expert of a group *)
(* has a future of its own, kept in _futures until a call of get, or the   *)
(* harvest at the beginning of prepare, moves its value to the cache.      *)
(*                                                                         *)
(* A step is what the code does under one acquisition of the store's lock, *)
(* or one call of the cache or of a future.  The experts are those of one  *)
(* layer and of equal size, so the cache is a set of at most Slots         *)
(* experts; which one a put evicts (ByteCache) is left open.  Routing      *)
(* statistics only choose what is prefetched and are left open too.        *)
(***************************************************************************)
EXTENDS Integers, Sequences, FiniteSets, SequencesExt

CONSTANTS
  Threads,         \* threads that may call the store
  Callers,         \* which of them do, a set of sets of threads
  Keys,            \* experts
  FutureIds,       \* identities of live futures, a bound
  Slots,           \* experts that fit in the cache
  Pinned,          \* experts that are pinned
  MaxSpeculative,  \* _max_speculative
  MaxPrefetches,   \* bound on prefetch_submitted
  CallsAlone, CallsTogether,  \* bounds on the calls of one thread, or of all
  NoKey, NoFuture

Parameters == /\ IsFiniteSet(Threads) /\ Callers \subseteq SUBSET Threads
              /\ IsFiniteSet(Keys)
              /\ Slots \in Nat \ {0} /\ MaxSpeculative \in Nat
              /\ FutureIds \subseteq Nat /\ IsFiniteSet(FutureIds)
              /\ NoKey \notin Keys /\ NoFuture \notin FutureIds

VARIABLES
  callers,      \* the threads that use the store in this behaviour
  left,         \* how many calls they will still make
  futs,         \* the live futures: expert and result
  futures, prefetching, ready,   \* _futures, _future_prefetch, _prefetched_ready
  cache, closed,
  submitted, hits, wasted,       \* prefetch_submitted, _hits, _wasted
  thread,       \* what each thread is doing
  tasks         \* group reads: futures still to be set, phase of the read

counters == <<submitted, hits, wasted>>
store == <<futures, prefetching, ready, closed>>
vars == <<callers, left, futs, store, cache, counters, thread, tasks>>

Idle == [pc |-> "idle", op |-> "none", key |-> NoKey, future |-> NoFuture,
         want |-> {}, work |-> {}]
Alone == Cardinality(callers) = 1

Done(f) == futs[f].result # "pending"
Is(k, f) == k \in DOMAIN futures /\ futures[k] = f

\* A future lives while the store, a thread or a group read refers to it.
Referenced == Range(futures)
              \cup (UNION {{thread[t].future} \cup thread[t].work : t \in Threads})
              \cup (UNION {Range(g.todo) : g \in tasks})
Collected(fs) == Restrict(fs, Referenced' \ {NoFuture})

At(t, pc) == thread[t].pc = pc
Goto(t, pc) == thread' = [thread EXCEPT ![t].pc = pc]
Return(t) == thread' = [thread EXCEPT ![t] = Idle]

\* What a put of k may leave in the cache.
AfterPut(k) ==
  LET victims == (cache \ Pinned) \ {k}
  IN IF k \in cache \/ Cardinality(cache) < Slots THEN {cache \cup {k}}
     ELSE IF victims = {} THEN {cache}
     ELSE {(cache \ {v}) \cup {k} : v \in victims}

\* Pops the future of k and forgets that it was a prefetch.
Forget(k) == /\ futures' = Restrict(futures, DOMAIN futures \ {k})
             /\ prefetching' = prefetching \ {k}

-----------------------------------------------------------------------------
(* get *)

Get(t, k) ==
  /\ At(t, "idle") /\ ~closed
  /\ thread' = [thread EXCEPT ![t] = [Idle EXCEPT !.op = "get", !.key = k,
                                     !.pc = IF k \in cache THEN "count" ELSE "lookup"]]
  /\ UNCHANGED <<callers, futs, store, cache, counters, tasks>>

\* Mutant of CountHit: the expert keeps counting as prefetched.
CountEveryHit(t) ==
  /\ At(t, "count")
  /\ hits' = IF thread[t].key \in ready THEN hits + 1 ELSE hits
  /\ Return(t)
  /\ UNCHANGED <<callers, futs, store, cache, submitted, wasted, tasks>>

CountHit(t) ==
  /\ At(t, "count")
  /\ ready' = ready \ {thread[t].key}
  /\ hits' = IF thread[t].key \in ready THEN hits + 1 ELSE hits
  /\ Return(t)
  /\ UNCHANGED <<callers, futs, futures, prefetching, closed, cache, submitted, wasted, tasks>>

\* A call that has found a future waits for it if it is a get.
Found(t, f) == IF thread[t].op = "get"
               THEN thread' = [thread EXCEPT ![t].pc = "wait", ![t].future = f]
               ELSE Return(t)

\* Looks the future up, in get and twice in request; pc says what follows when
\* there is none.
Look(t, from, pc) ==
  LET k == thread[t].key
  IN /\ At(t, from)
     /\ IF k \in DOMAIN futures THEN Found(t, futures[k]) ELSE Goto(t, pc)
     /\ UNCHANGED <<callers, futs, store, cache, counters, tasks>>

Await(t) ==
  LET f == thread[t].future
  IN /\ At(t, "wait")
     /\ Done(f)
     /\ Goto(t, IF futs[f].result = "value" THEN "take" ELSE "failed")
     /\ UNCHANGED <<callers, futs, store, cache, counters, tasks>>

\* Mutant of Failed: the failed prefetch stays marked.
FailedStaysMarked(t) ==
  LET r == thread[t]
  IN /\ At(t, "failed")
     /\ futures' = IF Is(r.key, r.future) THEN Restrict(futures, DOMAIN futures \ {r.key})
                   ELSE futures
     /\ Return(t)
     /\ UNCHANGED <<callers, prefetching, ready, closed, cache, counters, tasks>>
     /\ futs' = Collected(futs)

Failed(t) ==
  LET r == thread[t]
  IN /\ At(t, "failed")
     /\ IF Is(r.key, r.future) THEN Forget(r.key) ELSE UNCHANGED <<futures, prefetching>>
     /\ Return(t)
     /\ UNCHANGED <<callers, ready, closed, cache, counters, tasks>>
     /\ futs' = Collected(futs)

\* The thread whose future is still the one in _futures puts the value into the
\* cache; another returns the value it has.
Take(t) ==
  LET r == thread[t]
  IN /\ At(t, "take")
     /\ IF Is(r.key, r.future)
        THEN /\ Forget(r.key)
             /\ hits' = IF r.key \in prefetching THEN hits + 1 ELSE hits
             /\ thread' = [thread EXCEPT ![t].pc = "put", ![t].future = NoFuture]
        ELSE /\ Return(t)
             /\ UNCHANGED <<futures, prefetching, hits>>
     /\ UNCHANGED <<callers, ready, closed, cache, submitted, wasted, tasks>>
     /\ futs' = Collected(futs)

Put(t) == /\ At(t, "put")
          /\ cache' \in AfterPut(thread[t].key)
          /\ Return(t)
          /\ UNCHANGED <<callers, futs, store, counters, tasks>>

\* get after request returned None: the expert must be in the cache, or get
\* raises "expert request disappeared".
Reread(t) == /\ At(t, "reread")
             /\ Return(t)
             /\ UNCHANGED <<callers, futs, store, cache, counters, tasks>>

-----------------------------------------------------------------------------
(* request and request_many *)

\* request, ahead of get or, with prefetch, for what may be routed to next.
Request(t, k, op) ==
  /\ At(t, "idle") /\ ~closed
  /\ op = "prefetch" => submitted < MaxPrefetches
  /\ thread' = [thread EXCEPT ![t] = [Idle EXCEPT !.pc = "request", !.op = op, !.key = k]]
  /\ UNCHANGED <<callers, futs, store, cache, counters, tasks>>

Peek(t) ==
  /\ At(t, "request")
  /\ IF closed \/ (thread[t].key \in cache /\ thread[t].op # "get") THEN Return(t)
     ELSE Goto(t, IF thread[t].key \in cache THEN "reread" ELSE "existing")
  /\ UNCHANGED <<callers, futs, store, cache, counters, tasks>>

\* request_many's own _ensure_open, outside the lock.
EnsureOpen(t) ==
  LET r == thread[t]
  IN /\ At(t, "open")
     /\ IF closed THEN Return(t)
        ELSE thread' = [thread EXCEPT ![t].pc = "submit",
                                      ![t].want = IF r.op = "prepare" THEN @ ELSE {r.key}]
     /\ UNCHANGED <<callers, futs, store, cache, counters, tasks>>

\* Mutant of Missing: the limit on prefetches holds for every request.
MissingLimited(r) ==
  IF Cardinality(prefetching) >= MaxSpeculative THEN {}
  ELSE {k \in r.want : k \notin cache /\ k \notin DOMAIN futures}

\* Mutant of Missing: experts that are being read are not looked for.
MissingFromCache(r) ==
  IF r.op = "prefetch" /\ Cardinality(prefetching) >= MaxSpeculative THEN {}
  ELSE {k \in r.want : k \notin cache}

\* The experts request_many reads.  A prefetch asks for one at a time.
Missing(r) ==
  IF r.op = "prefetch" /\ Cardinality(prefetching) >= MaxSpeculative THEN {}
  ELSE {k \in r.want : k \notin cache /\ k \notin DOMAIN futures}

\* Futures for the experts ks, of identities not in use.
NewFutures(ks) == CHOOSE new \in [ks -> FutureIds \ Referenced] : IsInjective(new)

Submit(t) ==
  LET r == thread[t]
      new == NewFutures(Missing(r))
      fresh == [f \in Range(new) |-> [key |-> CHOOSE k \in DOMAIN new : new[k] = f,
                                      result |-> "pending"]]
  IN /\ At(t, "submit")
     /\ Missing(r) # {}
     /\ Cardinality(FutureIds \ Referenced) >= Cardinality(Missing(r))
     /\ futures' = [k \in DOMAIN futures \cup DOMAIN new |->
                      IF k \in DOMAIN new THEN new[k] ELSE futures[k]]
     /\ tasks' = tasks \cup {[todo |-> SetToSeq(Range(new)), phase |-> "reading", checked |-> FALSE]}
     /\ IF r.op = "prefetch"
        THEN /\ prefetching' = prefetching \cup DOMAIN new
             /\ submitted' = submitted + Cardinality(DOMAIN new)
        ELSE UNCHANGED <<prefetching, submitted>>
     /\ IF r.op = "get" THEN Found(t, new[r.key]) ELSE Return(t)
     /\ futs' = Collected([f \in DOMAIN futs \cup Range(new) |->
                             IF f \in Range(new) THEN fresh[f] ELSE futs[f]])
     /\ UNCHANGED <<callers, ready, closed, cache, hits, wasted>>

SubmitNothing(t) ==
  /\ At(t, "submit")
  /\ Missing(thread[t]) = {}
  /\ IF thread[t].op = "prepare" THEN Return(t) ELSE Goto(t, "last")
  /\ UNCHANGED <<callers, futs, store, cache, counters, tasks>>

\* request's second look at _futures, which decides what it returns.
LookAgain(t) ==
  LET r == thread[t]
  IN /\ At(t, "last")
     /\ IF r.key \in DOMAIN futures THEN Found(t, futures[r.key])
        ELSE IF r.op = "get" THEN Goto(t, "reread") ELSE Return(t)
     /\ UNCHANGED <<callers, futs, store, cache, counters, tasks>>

-----------------------------------------------------------------------------
(* prepare: the harvest, then request_many *)

Prepare(t, ks) ==
  /\ At(t, "idle") /\ ~closed
  /\ thread' = [thread EXCEPT ![t] = [Idle EXCEPT !.pc = "harvest", !.op = "prepare",
                                                  !.want = ks]]
  /\ UNCHANGED <<callers, futs, store, cache, counters, tasks>>

Harvest(t) ==
  /\ At(t, "harvest")
  /\ thread' = [thread EXCEPT ![t].pc = "pick",
                  ![t].work = {futures[k] : k \in {x \in prefetching : Done(futures[x])}}]
  /\ UNCHANGED <<callers, futs, store, cache, counters, tasks>>

\* One completed prefetch.  A failed one is counted as wasted whether or not it
\* is still in _futures.
PickFailed(t, f) ==
  LET k == futs[f].key
  IN /\ At(t, "pick")
     /\ futs[f].result # "value"
     /\ IF Is(k, f) THEN Forget(k) ELSE UNCHANGED <<futures, prefetching>>
     /\ wasted' = wasted + 1
     /\ thread' = [thread EXCEPT ![t].work = @ \ {f}]
     /\ UNCHANGED <<callers, ready, closed, cache, submitted, hits, tasks>>
     /\ futs' = Collected(futs)

PickValue(t, f) ==
  /\ At(t, "pick")
  /\ futs[f].result = "value"
  /\ thread' = [thread EXCEPT ![t].work = @ \ {f},
                  ![t].future = IF closed \/ ~Is(futs[f].key, f) THEN NoFuture ELSE f,
                  ![t].pc = IF closed \/ ~Is(futs[f].key, f) THEN "pick" ELSE "store"]
  /\ UNCHANGED <<callers, store, cache, counters, tasks>>
  /\ futs' = Collected(futs)

Store(t) ==
  LET k == futs[thread[t].future].key
  IN /\ At(t, "store")
     /\ cache' \in AfterPut(k)
     /\ Goto(t, IF k \in cache' THEN "inserted" ELSE "rejected")
     /\ UNCHANGED <<callers, futs, store, counters, tasks>>

Settle(t) ==
  LET f == thread[t].future
      k == futs[f].key
  IN /\ thread[t].pc \in {"inserted", "rejected"}
     /\ IF Is(k, f)
        THEN /\ Forget(k)
             /\ ready' = IF At(t, "inserted") THEN ready \cup {k} ELSE ready
             /\ wasted' = IF At(t, "inserted") THEN wasted ELSE wasted + 1
        ELSE UNCHANGED <<futures, prefetching, ready, wasted>>
     /\ thread' = [thread EXCEPT ![t].pc = "pick", ![t].future = NoFuture]
     /\ UNCHANGED <<callers, closed, cache, submitted, hits, tasks>>
     /\ futs' = Collected(futs)

\* The end of the harvest: prefetched experts the cache has evicted are wasted.
DropStale(t) ==
  /\ At(t, "pick")
  /\ thread[t].work = {}
  /\ ready' = ready \cap cache
  /\ wasted' = wasted + Cardinality(ready \ cache)
  /\ Goto(t, "open")
  /\ UNCHANGED <<callers, futs, futures, prefetching, closed, cache, submitted, hits, tasks>>

-----------------------------------------------------------------------------
(* close *)

Close(t) ==
  /\ At(t, "idle") /\ ~closed
  /\ closed' = TRUE
  /\ thread' = [thread EXCEPT ![t] = [Idle EXCEPT !.pc = "cancel", !.op = "close",
                                                  !.work = Range(futures)]]
  /\ wasted' = wasted + Cardinality(prefetching) + Cardinality(ready)
  /\ futures' = <<>> /\ prefetching' = {} /\ ready' = {}
  /\ UNCHANGED <<callers, futs, cache, submitted, hits, tasks>>

Cancel(t, f) ==
  /\ At(t, "cancel")
  /\ thread' = IF thread[t].work = {f} THEN [thread EXCEPT ![t] = Idle]
               ELSE [thread EXCEPT ![t].work = @ \ {f}]
  /\ UNCHANGED <<callers, store, cache, counters, tasks>>
  /\ futs' = Collected(IF Done(f) THEN futs ELSE [futs EXCEPT ![f].result = "cancelled"])

CancelNone(t) == /\ At(t, "cancel")
                 /\ thread[t].work = {}
                 /\ Return(t)
                 /\ UNCHANGED <<callers, futs, store, cache, counters, tasks>>

-----------------------------------------------------------------------------
(* An executor thread: _load_many, then the callback finish *)

Replace(g, h) == tasks' = (tasks \ {g}) \cup (IF h.todo = <<>> THEN {} ELSE {h})

Read(g) == /\ g.phase = "reading"
           /\ \E phase \in {"setting", "failing"} : Replace(g, [g EXCEPT !.phase = phase])
           /\ UNCHANGED <<callers, futs, store, cache, counters, thread>>

\* if not child.done()
CheckDone(g) ==
  /\ g.phase # "reading" /\ ~g.checked
  /\ Replace(g, IF Done(Head(g.todo)) THEN [g EXCEPT !.todo = Tail(@)]
                ELSE [g EXCEPT !.checked = TRUE])
  /\ UNCHANGED <<callers, store, cache, counters, thread>>
  /\ futs' = Collected(futs)

\* Mutant of SetResult: an error is not passed on.
SetOnlyValues(g) ==
  LET f == Head(g.todo)
  IN /\ g.checked
     /\ ~Done(f)
     /\ Replace(g, [g EXCEPT !.todo = Tail(@), !.checked = FALSE])
     /\ UNCHANGED <<callers, store, cache, counters, thread>>
     /\ futs' = Collected(IF g.phase = "failing" THEN futs
                          ELSE [futs EXCEPT ![f].result = "value"])

SetResult(g) ==
  LET f == Head(g.todo)
  IN /\ g.checked
     /\ ~Done(f)
     /\ Replace(g, [g EXCEPT !.todo = Tail(@), !.checked = FALSE])
     /\ UNCHANGED <<callers, store, cache, counters, thread>>
     /\ futs' = Collected([futs EXCEPT ![f].result =
                             IF g.phase = "setting" THEN "value" ELSE "error"])

\* The future was cancelled after the check: set_result raises, and finish goes
\* on to set the error of the others; set_exception raises, and finish ends.
SetRaises(g) ==
  /\ g.checked
  /\ Done(Head(g.todo))
  /\ IF g.phase = "setting"
     THEN Replace(g, [todo |-> Tail(g.todo), phase |-> "failing", checked |-> FALSE])
     ELSE tasks' = tasks \ {g}
  /\ UNCHANGED <<callers, store, cache, counters, thread>>
  /\ futs' = Collected(futs)

-----------------------------------------------------------------------------

Init == /\ callers \in Callers
        /\ left = IF Alone THEN CallsAlone ELSE CallsTogether
        /\ futs = <<>> /\ futures = <<>>
        /\ prefetching = {} /\ ready = {} /\ cache = {}
        /\ closed = FALSE
        /\ submitted = 0 /\ hits = 0 /\ wasted = 0
        /\ thread = [t \in Threads |-> Idle]
        /\ tasks = {}

Call(t) == /\ left > 0
           /\ left' = left - 1
           /\ \/ \E k \in Keys : Get(t, k) \/ Request(t, k, "ahead") \/ Request(t, k, "prefetch")
              \/ \E ks \in (SUBSET Keys) \ {{}} : Prepare(t, ks)
              \/ Close(t)

Continue(t) ==
  \/ CountHit(t) \/ Look(t, "lookup", "request") \/ Await(t) \/ Failed(t) \/ Take(t) \/ Put(t)
  \/ Reread(t) \/ Peek(t) \/ Look(t, "existing", "open") \/ EnsureOpen(t)
  \/ Submit(t) \/ SubmitNothing(t) \/ LookAgain(t)
  \/ Harvest(t) \/ \E f \in thread[t].work : PickFailed(t, f) \/ PickValue(t, f)
  \/ Store(t) \/ Settle(t) \/ DropStale(t)
  \/ \E f \in thread[t].work : Cancel(t, f)
  \/ CancelNone(t)

\* The group read whose next future is f.
Work(f) == \E g \in {h \in tasks : Head(h.todo) = f} :
             Read(g) \/ CheckDone(g) \/ SetResult(g) \/ SetRaises(g)

Next == \/ \E t \in callers : Call(t)
        \/ \E t \in callers : Continue(t) /\ UNCHANGED left
        \/ \E f \in FutureIds : Work(f) /\ UNCHANGED left

Spec == Init /\ [][Next]_vars

\* Threads inside a call go on, and the executor's threads work on what is
\* submitted; nobody has to call.
FairSpec == /\ Spec
            /\ \A t \in Threads : WF_vars(t \in callers /\ Continue(t) /\ UNCHANGED left)
            /\ \A f \in FutureIds : WF_vars(Work(f) /\ UNCHANGED left)

-----------------------------------------------------------------------------
(* Correctness *)

\* The marks of prefetches are a subset of _futures, which the harvest indexes
\* with them, and stay within _max_speculative; the cache within its budget.
TypeOK ==
  /\ DOMAIN futs \subseteq FutureIds
  /\ Range(futs) \subseteq [key : Keys, result : {"pending", "value", "error", "cancelled"}]
  /\ DOMAIN futures \subseteq Keys /\ Range(futures) \subseteq DOMAIN futs
  /\ prefetching \subseteq DOMAIN futures /\ Cardinality(prefetching) <= MaxSpeculative
  /\ ready \subseteq Keys
  /\ cache \subseteq Keys /\ Cardinality(cache) <= Slots
  /\ closed \in BOOLEAN
  /\ \A t \in Threads : thread[t].future \in DOMAIN futs \cup {NoFuture}
  /\ \A g \in tasks : Range(g.todo) \subseteq DOMAIN futs

\* Whatever threads ask for it, and however, an expert is not read by two
\* group reads at a time while the store is open.
Reading(g, k) == g.phase = "reading" /\ \E f \in Range(g.todo) : futs[f].key = k
OneReadAtATime ==
  ~closed => \A k \in Keys : Cardinality({g \in tasks : Reading(g, k)}) <= 1

\* The RuntimeError of get ("expert request disappeared", streaming.py:361)
\* is never raised to the only thread that uses the store.
NeverDisappears == Alone => \A t \in callers : At(t, "reread") => thread[t].key \in cache

\* With one thread, a submitted prefetch ends as a hit or as wasted, not both
\* and not twice, through the harvest, get, eviction and close.
PrefetchesCountedOnce ==
  Alone => hits + wasted + Cardinality(prefetching) + Cardinality(ready) <= submitted

\* Every call returns: no future is left pending for ever, also when its group
\* fails or when close cancels futures while finish is setting them.
CallsReturn == \A t \in Threads : thread[t].pc # "idle" ~> thread[t].pc = "idle"
=============================================================================
