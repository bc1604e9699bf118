----------------------------- MODULE ExpertsLoad -----------------------------
(***************************************************************************)
(* How the C runtime gets the experts of one MoE layer: moe_forward        *)
(* (c/src/model.c:1281) takes the distinct experts its tokens route to,    *)
(* has experts_load (model.c:539) read the ones that are not cached        *)
(* through the I/O pool and put them in the expert cache, then fetches     *)
(* each from the cache, loading it again if a later one evicted it.        *)
(*                                                                         *)
(* The pool is its abstract specification JobQueue, which IoPool           *)
(* implements.  The cache is a set of experts of equal size with any       *)
(* eviction order; module ByteCache models cache.c itself.                 *)
(***************************************************************************)
EXTENDS Integers, Sequences, FiniteSets, Functions

CONSTANTS Experts,    \* the experts of the layer, numbered as the router does
          Parts,      \* rows read per expert: 9 in the code, q/s/b of 3 matrices
          Shapes,     \* rows of each of those tensors, where the checkpoint has it
          Threads,    \* threads of the pool
          Budgets,    \* how many experts may fit in the cache's max_bytes
          Statuses,   \* results of a row read: 0 or an errno
          Zero        \* the status of a successful read

ASSUME FiniteExperts == IsFiniteSet(Experts) /\ Experts \subseteq Int
ASSUME CountsArePositive == Parts \in Nat \ {0} /\ Threads \in Nat \ {0}
ASSUME BudgetsAreCounts == Budgets \subseteq Nat
ASSUME ShapesAreRows ==
  \A s \in Shapes : DOMAIN s \subseteq 1..Parts /\ s \in [DOMAIN s -> Nat \ {0}]
ASSUME ZeroIsAStatus == Zero \in Statuses

VARIABLES
  queue, running, outcome, closed,   \* the pool, as in JobQueue
  raw,       \* per job: has its slice of the raw block been filled from disk
  alloc,     \* the jobs array, the raw block and row_of are allocated
  shape,     \* shape[0] of each tensor that st_find finds
  budget,    \* how many experts fit in the cache: --expert-budget
  cached,    \* the experts in the expert cache
  read,      \* per expert: whether the weights cached were read from disk
  unique,    \* moe_forward: its distinct experts, in order of appearance
  u,         \* moe_forward: index of the expert being used
  again,     \* moe_forward: this expert has been loaded a second time
  pending,   \* experts_load: the experts it has to read
  k,         \* experts_load: jobs submitted, then jobs waited for
  pc

poolVars == <<queue, running, outcome, closed>>
callVars == <<unique, u, again>>
vars == <<queue, running, outcome, closed, raw, alloc, shape, budget, cached, read, unique, u,
          again, pending, k, pc>>

Jobs == Experts \X (1..Parts)
Pool == INSTANCE JobQueue WITH Limit <- Threads
ASSUME StatusesAreResults == Statuses \cap {Pool!Idle, Pool!Pending} = {}

\* The jobs of a call in the order they are submitted and waited for.
NumJobs == Len(pending) * Parts
JobAt(i) == <<pending[(i \div Parts) + 1], (i % Parts) + 1>>

Phases == {"idle", "submit", "wait", "use", "failed", "vanished", "quit"}

-----------------------------------------------------------------------------
(* experts_load *)

DistinctSeqs == UNION {{s \in [1..n -> Experts] : IsInjective(s)} : n \in 0..Cardinality(Experts)}

\* The experts of ids that have to be read, in the order of ids.
Ordered(s, ids) == \A i, j \in DOMAIN s :
                     i < j => \E m, n \in DOMAIN ids : m < n /\ ids[m] = s[i] /\ ids[n] = s[j]
Without(ids, gone) ==
  {s \in DistinctSeqs : Range(s) = Range(ids) \ gone /\ Ordered(s, ids)}

\* Mutant of Missing: what has been read before is not read again.
MissingUnread(ids) == Without(ids, {e \in Experts : read[e]})

Missing(ids) == Without(ids, cached)

\* Collect what is not cached; with nothing to read the call returns at once.
\* Otherwise xcalloc the jobs and xmalloc the raw block, whose bytes are junk.
BeginLoad(ids) ==
  /\ pending' \in Missing(ids)
  /\ k' = 0
  /\ IF pending' = <<>>
     THEN pc' = "use" /\ UNCHANGED <<alloc, raw>>
     ELSE /\ pc' = "submit"
          /\ alloc' = TRUE
          /\ raw' = [j \in Jobs |-> FALSE]

\* The row of the job is one of the tensor's.
HasRow(j) == j[1] \in 0..(shape[j[2]] - 1)

SubmitOne == /\ pc = "submit"
             /\ k < NumJobs
             /\ HasRow(JobAt(k))
             /\ Pool!Submit(JobAt(k))
             /\ k' = k + 1
             /\ UNCHANGED <<raw, alloc, shape, budget, cached, read, callVars, pending, pc>>

\* st_read_rows_async refuses the row and queues nothing.  goto fail: the buffers
\* are freed, whatever the pool still has to read of the jobs before.
SubmitFails == /\ pc = "submit"
               /\ k < NumJobs
               /\ ~HasRow(JobAt(k))
               /\ alloc' = FALSE
               /\ pc' = "failed"
               /\ UNCHANGED <<poolVars, raw, shape, budget, cached, read, callVars, pending, k>>

SubmittedAll == /\ pc = "submit"
                /\ k = NumJobs
                /\ pc' = "wait"
                /\ k' = 0
                /\ UNCHANGED <<poolVars, raw, alloc, shape, budget, cached, read, callVars,
                               pending>>

\* cache_put: an expert larger than the whole budget is rejected and freed;
\* for another, room is made first, out of the entries that are there.
Put(e) == IF budget = 0
          THEN UNCHANGED cached
          ELSE \E victims \in SUBSET (cached \ {e}) :
                 LET kept == cached \ ({e} \cup victims) IN
                 /\ Cardinality(kept) < budget
                 /\ \A v \in victims : Cardinality(kept \cup {v}) >= budget
                 /\ cached' = kept \cup {e}

\* Mutants of Waited: the buffers go before the last wait; an expert is
\* dequantised before its last part.
WaitedFreeingEarly ==
  /\ pc = "wait"
  /\ Pool!Collect(JobAt(k))
  /\ outcome[JobAt(k)] = Zero
  /\ k' = k + 1
  /\ LET e == JobAt(k)[1] IN
     IF (k + 1) % Parts = 0
     THEN Put(e) /\ read' = [read EXCEPT ![e] = \A p \in 1..Parts : raw[<<e, p>>]]
     ELSE UNCHANGED <<cached, read>>
  /\ alloc' = (k + 2 < NumJobs)
  /\ pc' = IF k + 1 = NumJobs THEN "use" ELSE pc
  /\ UNCHANGED <<raw, shape, budget, callVars, pending>>
WaitedOnePartShort ==
  /\ pc = "wait"
  /\ Pool!Collect(JobAt(k))
  /\ outcome[JobAt(k)] = Zero
  /\ k' = k + 1
  /\ LET e == JobAt(k)[1] IN
     IF (k + 2) % Parts = 0
     THEN Put(e) /\ read' = [read EXCEPT ![e] = \A p \in 1..Parts : raw[<<e, p>>]]
     ELSE UNCHANGED <<cached, read>>
  /\ IF k + 1 = NumJobs
     THEN pc' = "use" /\ alloc' = FALSE
     ELSE UNCHANGED <<pc, alloc>>
  /\ UNCHANGED <<raw, shape, budget, callVars, pending>>

\* io_job_wait in submission order.  After an expert's last part it is
\* dequantised from the raw block and put in the cache; after the last expert
\* the buffers are freed and the call returns.  dequant_raw (424) always
\* returns 0.
Waited == /\ pc = "wait"
          /\ Pool!Collect(JobAt(k))
          /\ outcome[JobAt(k)] = Zero
          /\ k' = k + 1
          /\ LET e == JobAt(k)[1] IN
             IF (k + 1) % Parts = 0
             THEN /\ Put(e)
                  /\ read' = [read EXCEPT ![e] = \A p \in 1..Parts : raw[<<e, p>>]]
             ELSE UNCHANGED <<cached, read>>
          /\ IF k + 1 = NumJobs
             THEN pc' = "use" /\ alloc' = FALSE
             ELSE UNCHANGED <<pc, alloc>>
          /\ UNCHANGED <<raw, shape, budget, callVars, pending>>

\* goto fail again.
WaitFailed == /\ pc = "wait"
              /\ Pool!Collect(JobAt(k))
              /\ outcome[JobAt(k)] # Zero
              /\ alloc' = FALSE
              /\ pc' = "failed"
              /\ UNCHANGED <<raw, shape, budget, cached, read, callVars, pending, k>>

-----------------------------------------------------------------------------
(* moe_forward *)

\* Nine calls of st_find.
HasTensors == DOMAIN shape = 1..Parts

Forward(ids) == /\ pc = "idle"
                /\ ids # <<>>
                /\ HasTensors
                /\ unique' = ids
                /\ u' = 1
                /\ again' = FALSE
                /\ BeginLoad(ids)
                /\ UNCHANGED <<poolVars, shape, budget, cached, read>>

\* "missing expert tensors": nothing has been allocated or submitted.
ForwardFails(ids) == /\ pc = "idle"
                     /\ ids # <<>>
                     /\ ~HasTensors
                     /\ pc' = "failed"
                     /\ UNCHANGED <<poolVars, raw, alloc, shape, budget, cached, read, callVars,
                                    pending, k>>

\* cache_get finds the expert: gather, compute, next expert.
Use == /\ pc = "use"
       /\ u <= Len(unique)
       /\ unique[u] \in cached
       /\ u' = u + 1
       /\ again' = FALSE
       /\ UNCHANGED <<poolVars, raw, alloc, shape, budget, cached, read, unique, pending, k, pc>>

\* It was evicted before use: load it on demand.  Its tensors have been found.
LoadAgain == /\ pc = "use"
             /\ u <= Len(unique)
             /\ unique[u] \notin cached
             /\ ~again
             /\ again' = TRUE
             /\ BeginLoad(<<unique[u]>>)
             /\ UNCHANGED <<poolVars, shape, budget, cached, read, unique, u>>

\* "expert %lld vanished from cache"
Vanished == /\ pc = "use"
            /\ u <= Len(unique)
            /\ unique[u] \notin cached
            /\ again
            /\ pc' = "vanished"
            /\ UNCHANGED <<poolVars, raw, alloc, shape, budget, cached, read, callVars, pending, k>>

Return == /\ pc = "use"
          /\ u > Len(unique)
          /\ pc' = "idle"
          /\ unique' = <<>>
          /\ pending' = <<>>
          /\ k' = 0
          /\ u' = 1
          /\ raw' = [j \in Jobs |-> FALSE]
          /\ UNCHANGED <<poolVars, alloc, shape, budget, cached, read, again>>

\* main: model_free destroys the pool when nothing is left to generate.  An
\* error ends the process without it.
Quit == /\ pc = "idle"
        /\ Pool!Close
        /\ pc' = "quit"
        /\ UNCHANGED <<raw, alloc, shape, budget, cached, read, callVars, pending, k>>

-----------------------------------------------------------------------------
(* The pool's threads *)

StartJob == /\ Pool!Start
            /\ UNCHANGED <<raw, alloc, shape, budget, cached, read, callVars, pending, k, pc>>

\* A read that fails leaves its slice of the raw block unfilled.
FinishJob(j) == \E s \in Statuses :
                  /\ Pool!Finish(j, s)
                  /\ raw' = [raw EXCEPT ![j] = (s = Zero)]
                  /\ UNCHANGED <<alloc, shape, budget, cached, read, callVars, pending, k, pc>>

Init == /\ Pool!Init
        /\ raw = [j \in Jobs |-> FALSE]
        /\ alloc = FALSE
        /\ shape \in Shapes
        /\ budget \in Budgets
        /\ cached = {}
        /\ read = [e \in Experts |-> FALSE]
        /\ unique = <<>> /\ u = 1 /\ again = FALSE
        /\ pending = <<>> /\ k = 0
        /\ pc = "idle"

CallerStep == \/ SubmitOne \/ SubmitFails \/ SubmittedAll \/ Waited \/ WaitFailed
              \/ Use \/ LoadAgain \/ Vanished \/ Return

Next == \/ \E ids \in DistinctSeqs : Forward(ids) \/ ForwardFails(ids)
        \/ CallerStep
        \/ Quit
        \/ StartJob
        \/ \E j \in Jobs : FinishJob(j)

Spec == Init /\ [][Next]_vars

\* The caller's thread and the pool's threads run.
FairSpec == /\ Spec
            /\ WF_vars(CallerStep)
            /\ WF_vars(StartJob)
            /\ \A j \in Jobs : WF_vars(FinishJob(j))

-----------------------------------------------------------------------------
(* Correctness *)

TypeOK == /\ Pool!TypeOK
          /\ raw \in [Jobs -> BOOLEAN]
          /\ alloc \in BOOLEAN
          /\ shape \in Shapes
          /\ budget \in Budgets
          /\ cached \in SUBSET Experts
          /\ read \in [Experts -> BOOLEAN]
          /\ unique \in Seq(Experts)
          /\ u \in 1..(Len(unique) + 1)
          /\ again \in BOOLEAN
          /\ pending \in Seq(Experts)
          /\ k \in 0..NumJobs
          /\ pc \in Phases

\* Every job the pool still has to read, or is reading, has its io_job, its
\* row index and its slice of the raw block allocated (reader.h:37 and
\* safetensors.c:382: they must stay alive until io_job_wait returns).
BuffersOutliveReads == queue # <<>> \/ running # {} => alloc

\* The same until a call takes goto fail, because a read failed or a tensor has no
\* row for an expert; and a call that returned its experts has left nothing in
\* the pool and nothing allocated.  However the waits and the reads interleave
\* and whichever experts are loaded again.
BuffersOutliveGoodCalls ==
  pc # "failed" => /\ BuffersOutliveReads
                   /\ pc \in {"idle", "use", "vanished", "quit"} =>
                        ~alloc /\ queue = <<>> /\ running = {}

\* An expert in the cache was dequantised after all its rows arrived, with
\* the waits of many experts and the reads of many threads interleaved.
CachedWereRead == \A e \in cached : read[e]

\* Unless not even one expert fits, an expert loaded on demand is in the cache
\* when moe_forward fetches it, however few fit and whichever are evicted:
\* the error of model.c:1351 is a budget smaller than an expert.
VanishesOnlyIfNothingFits == pc = "vanished" => budget = 0

\* Every call of moe_forward returns, with its experts or with an error.
ForwardReturns == pc = "submit" ~> pc \in {"idle", "failed", "vanished"}
=============================================================================
