----------------------------- MODULE MCLoading -----------------------------
(* The three components that load weights while others compute, one of them in *)
(* each behaviour: ExpertStore and PleStore of the Python runtime and          *)
(* ExpertsLoad of the C runtime.  ExpertsLoad is extended, and stays as it was *)
(* created while another runs; PleStore is extended and ExpertStore an         *)
(* instance, of the module with its proofs, so that what is proved of it can   *)
(* be cited.  The variables of these two are Off while they do not run.        *)
EXTENDS ExpertsLoad, PleStore

CONSTANTS
  StoreThreads, Callers, Keys, FutureIds, StoreSlots, Pinned, MaxSpeculative,
  MaxPrefetches, CallsAlone, CallsTogether, NoKey, NoFuture,   \* of ExpertStore
  Off,
  Watched   \* the thread of ExpertStore whose calls have to return

VARIABLES part
VARIABLES callers, left, futs, futures, prefetching, ready, cache, storeClosed,
          submitted, hits, wasted, thread, tasks

Store == INSTANCE ExpertStoreProof WITH
  Threads <- StoreThreads, Slots <- StoreSlots, closed <- storeClosed

\* Experts 0, 1 and 2: all tensors have their rows, the second lacks the row of
\* the last expert, or is missing.
CheckpointShapes == {<<3, 3>>, <<3, 2>>, <<3>>}

ASSUME ParametersFit == Store!Parameters /\ RowParameters /\ Watched \in StoreThreads

storeVars == <<callers, left, futs, futures, prefetching, ready, cache, storeClosed,
               submitted, hits, wasted, thread, tasks>>
allVars == <<part, storeVars, rowVars, vars>>

StoreOff == /\ callers = Off /\ left = Off /\ futs = Off /\ futures = Off /\ prefetching = Off
            /\ ready = Off /\ cache = Off /\ storeClosed = Off /\ submitted = Off /\ hits = Off
            /\ wasted = Off /\ thread = Off /\ tasks = Off
RowsOff == /\ rowCache = Off /\ rowFutures = Off /\ groups = Off /\ rowsClosed = Off
           /\ rowsSubmitted = Off /\ rowHits = Off /\ rowsWasted = Off /\ rowCalls = Off
           /\ rowPc = Off /\ wanted = Off /\ failures = Off

AllInit == /\ part \in {"store", "rows", "load"}
           /\ Init
           /\ part # "load" => /\ budget = CHOOSE b \in Budgets : TRUE
                               /\ shape = CHOOSE s \in Shapes : TRUE
           /\ IF part = "store" THEN Store!Init ELSE StoreOff
           /\ IF part = "rows" THEN RowsInit ELSE RowsOff

AllNext == \/ part = "store" /\ Store!Next /\ UNCHANGED <<part, rowVars, vars>>
           \/ part = "rows" /\ RowsNext /\ UNCHANGED <<part, storeVars, vars>>
           \/ part = "load" /\ Next /\ UNCHANGED <<part, storeVars, rowVars>>

\* Whatever is under way goes on: less than the fairness of each component,
\* and enough.  Nobody has to call.
Progress == \/ /\ part = "store"
               /\ \/ \E t \in callers : Store!Continue(t)
                  \/ \E f \in FutureIds : Store!Work(f)
               /\ UNCHANGED <<part, left, rowVars, vars>>
            \/ /\ part = "rows"
               /\ Fetch \/ \E s \in Shards : Work(s)
               /\ UNCHANGED <<part, storeVars, vars>>
            \/ /\ part = "load"
               /\ CallerStep \/ StartJob \/ \E j \in Jobs : FinishJob(j)
               /\ UNCHANGED <<part, storeVars, rowVars>>

AllSpec == AllInit /\ [][AllNext]_allVars /\ WF_allVars(Progress)

-----------------------------------------------------------------------------
(* What each promises, of the behaviours in which it runs; the properties of   *)
(* ExpertsLoad are its own, and hold of its initial state.                     *)

\* The types, with the bounds of the caches, counters and marks.
AllTypeOK == /\ TypeOK
             /\ part = "store" => Store!TypeOK
             /\ part = "rows" => RowsTypeOK

\* No expert and no row is being read twice at a time (streaming.py:250, 555).
OneReadAtATime == /\ part = "store" => Store!OneReadAtATime
                  /\ part = "rows" => RowsReadOnce

\* A demanded expert does not disappear (streaming.py:361).
NeverDisappears == part = "store" => Store!NeverDisappears

\* A prefetched expert ends as a hit or as wasted, once.
PrefetchesCountedOnce == part = "store" => Store!PrefetchesCountedOnce

\* No row is cached and leaves its future behind.
CachedOrPending == part = "rows" => RowCachedOrPending

\* Every call of ExpertStore, every get_rows and every moe_forward returns.  The
\* two threads of the store are alike, so one of them stands for both.
InCall == \/ part = "store" /\ thread[Watched].pc # "idle"
          \/ part = "rows" /\ rowPc = "fetch"
          \/ part = "load" /\ pc \notin {"idle", "failed", "vanished", "quit"}
CallsReturn == InCall ~> ~InCall
=============================================================================
