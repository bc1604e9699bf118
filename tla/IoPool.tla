------------------------------- MODULE IoPool -------------------------------
(***************************************************************************)
(* The pthread pool of the C runtime, c/src/reader.c: a ring buffer of     *)
(* jobs under one pool mutex, worker threads that sleep on cv_jobs, and a  *)
(* mutex and a condition variable in every job on which the one caller     *)
(* (the main thread) waits.                                                *)
(*                                                                         *)
(* A critical section of the pool mutex is one step: no thread takes a     *)
(* second lock inside it.  The job mutex is explicit, because the          *)
(* comment at reader.c:135 says why it is taken, and a step per            *)
(* instruction lets the model say what happens without it.                 *)
(***************************************************************************)
EXTENDS Integers, Sequences, FiniteSets

CONSTANTS Workers,    \* p->threads
          Jobs,       \* the io_job structures the caller owns
          Statuses,   \* results of read_rows_impl: 0 or an errno
          Zero,       \* the status a submitted job starts with
          InitCap,    \* slots of the ring at io_pool_init; 256 in the code
          NoJob,      \* an empty slot (calloc), or a worker without a job
          Nobody,     \* the owner of a free mutex
          Client      \* the thread that submits, waits and destroys

ASSUME ConstantsAreDistinct == /\ NoJob \notin Jobs
                               /\ Nobody \notin Workers \cup {Client}
                               /\ Client \notin Workers
ASSUME ZeroIsAStatus == Zero \in Statuses
ASSUME InitCapIsARing == InitCap \in Nat /\ InitCap >= 2
ASSUME FiniteThreadsAndJobs == /\ IsFiniteSet(Workers)
                               /\ Workers # {}
                               /\ IsFiniteSet(Jobs)

VARIABLES
  \* fields of io_pool
  slots, head, tail, cap, inflight, stop,
  \* per job: fields done and status, and who holds job->lock
  done, status, jlock,
  \* per worker: where it is in worker_main, and its local variable job
  wpc, wjob,
  \* the caller: where it is, the job of the call it is in, and the jobs it
  \* has submitted and whose io_job_wait has not returned
  cpc, cjob, live

poolVars   == <<slots, head, tail, cap, inflight, stop>>
jobVars    == <<done, status, jlock>>
workerVars == <<wpc, wjob>>
clientVars == <<cpc, cjob, live>>
vars == <<slots, head, tail, cap, inflight, stop, done, status, jlock,
          wpc, wjob, cpc, cjob, live>>

-----------------------------------------------------------------------------
(* The ring *)

Succ(i) == IF i + 1 = cap THEN 0 ELSE i + 1

\* how many jobs are queued
Size == IF head <= tail THEN tail - head ELSE (cap - head) + tail

\* index of the k-th queued job, counting from 0 at the head
At(k) == IF head + k < cap THEN head + k ELSE (head + k) - cap

Occupied == {At(k) : k \in 0..(Size - 1)}

Full == Succ(tail) = head

\* Mutant of Grown: the copy stops at the end of the old array.
GrownWithoutWrap == [i \in 0..(2 * cap - 1) |->
                       IF i < Size /\ head + i < cap THEN slots[head + i] ELSE NoJob]

\* The growth loop of io_pool_submit: a zeroed array of twice the size with
\* the queued jobs moved to its front.
Grown == [i \in 0..(2 * cap - 1) |-> IF i < Size THEN slots[At(i)] ELSE NoJob]

-----------------------------------------------------------------------------
(* Worker threads: worker_main *)

WorkerPC == {"check", "asleep", "read", "publish", "locked", "retire", "exited"}

\* A worker has taken this job from the ring and not yet published it.
Holds(w, j) == wjob[w] = j

\* Mutants of Take: the index runs past the array; the job stays queued; the
\* newest job is taken.
TakeWithoutWrap(w) == /\ wpc[w] = "check"
                      /\ head # tail
                      /\ wjob' = [wjob EXCEPT ![w] = slots[head]]
                      /\ head' = head + 1
                      /\ wpc' = [wpc EXCEPT ![w] = "read"]
                      /\ UNCHANGED <<slots, tail, cap, inflight, stop, jobVars, clientVars>>
TakeWithoutPop(w) == /\ wpc[w] = "check"
                     /\ head # tail
                     /\ wjob' = [wjob EXCEPT ![w] = slots[head]]
                     /\ wpc' = [wpc EXCEPT ![w] = "read"]
                     /\ UNCHANGED <<slots, head, tail, cap, inflight, stop, jobVars, clientVars>>
TakeNewest(w) == /\ wpc[w] = "check"
                 /\ head # tail
                 /\ tail' = IF tail = 0 THEN cap - 1 ELSE tail - 1
                 /\ wjob' = [wjob EXCEPT ![w] = slots[tail']]
                 /\ wpc' = [wpc EXCEPT ![w] = "read"]
                 /\ UNCHANGED <<slots, head, cap, inflight, stop, jobVars, clientVars>>

Take(w) == /\ wpc[w] = "check"
           /\ head # tail
           /\ wjob' = [wjob EXCEPT ![w] = slots[head]]
           /\ head' = Succ(head)
           /\ wpc' = [wpc EXCEPT ![w] = "read"]
           /\ UNCHANGED <<slots, tail, cap, inflight, stop, jobVars, clientVars>>

Sleep(w) == /\ wpc[w] = "check"
            /\ head = tail
            /\ ~stop
            /\ wpc' = [wpc EXCEPT ![w] = "asleep"]
            /\ UNCHANGED <<poolVars, jobVars, wjob, clientVars>>

\* Mutant of Exit: a stopped worker leaves jobs in the ring.
ExitAtOnce(w) == /\ wpc[w] = "check"
                 /\ stop
                 /\ wpc' = [wpc EXCEPT ![w] = "exited"]
                 /\ UNCHANGED <<poolVars, jobVars, wjob, clientVars>>

Exit(w) == /\ wpc[w] = "check"
           /\ head = tail
           /\ stop
           /\ wpc' = [wpc EXCEPT ![w] = "exited"]
           /\ UNCHANGED <<poolVars, jobVars, wjob, clientVars>>

\* read_rows_impl, whose result is any status; module RowRead models it.
Read(w) == /\ wpc[w] = "read"
           /\ \E s \in Statuses : status' = [status EXCEPT ![wjob[w]] = s]
           /\ wpc' = [wpc EXCEPT ![w] = "publish"]
           /\ UNCHANGED <<poolVars, done, jlock, wjob, clientVars>>

\* Mutant of LockJob: set-and-broadcast without the job mutex.
SkipJobLock(w) == /\ wpc[w] = "publish"
                  /\ wpc' = [wpc EXCEPT ![w] = "locked"]
                  /\ UNCHANGED <<poolVars, jobVars, wjob, clientVars>>

LockJob(w) == /\ wpc[w] = "publish"
              /\ jlock[wjob[w]] = Nobody
              /\ jlock' = [jlock EXCEPT ![wjob[w]] = w]
              /\ wpc' = [wpc EXCEPT ![w] = "locked"]
              /\ UNCHANGED <<poolVars, done, status, wjob, clientVars>>

\* done = 1, broadcast on the job's condition variable, unlock.  The worker
\* does not touch the job again.
Publish(w) == /\ wpc[w] = "locked"
              /\ done' = [done EXCEPT ![wjob[w]] = TRUE]
              /\ cpc' = IF cpc = "asleep" /\ cjob = wjob[w] THEN "lock" ELSE cpc
              /\ jlock' = [jlock EXCEPT ![wjob[w]] = Nobody]
              /\ wjob' = [wjob EXCEPT ![w] = NoJob]
              /\ wpc' = [wpc EXCEPT ![w] = "retire"]
              /\ UNCHANGED <<poolVars, status, cjob, live>>

\* Nobody waits on cv_idle, so its broadcast wakes no one.
Retire(w) == /\ wpc[w] = "retire"
             /\ inflight' = inflight - 1
             /\ wpc' = [wpc EXCEPT ![w] = "check"]
             /\ UNCHANGED <<slots, head, tail, cap, stop, jobVars, wjob, clientVars>>

\* POSIX lets pthread_cond_wait return without a signal.
WakeSpuriously(w) == /\ wpc[w] = "asleep"
                     /\ wpc' = [wpc EXCEPT ![w] = "check"]
                     /\ UNCHANGED <<poolVars, jobVars, wjob, clientVars>>

-----------------------------------------------------------------------------
(* The caller *)

ClientPC == {"idle", "enqueue", "lock", "check", "enter", "asleep", "join"}

\* Mutant of Prepare: the job keeps the done of its last run.
PrepareStale(j) == /\ cpc = "idle"
                   /\ ~stop
                   /\ j \notin live
                   /\ status' = [status EXCEPT ![j] = Zero]
                   /\ jlock' = [jlock EXCEPT ![j] = Nobody]
                   /\ cpc' = "enqueue"
                   /\ cjob' = j
                   /\ UNCHANGED <<poolVars, done, workerVars, live>>

\* io_pool_submit up to the pool mutex: the job's fields, mutex and condition
\* variable are (re)initialised before a worker can see the job.
Prepare(j) == /\ cpc = "idle"
              /\ ~stop
              /\ j \notin live
              /\ done' = [done EXCEPT ![j] = FALSE]
              /\ status' = [status EXCEPT ![j] = Zero]
              /\ jlock' = [jlock EXCEPT ![j] = Nobody]
              /\ cpc' = "enqueue"
              /\ cjob' = j
              /\ UNCHANGED <<poolVars, workerVars, live>>

\* Mutant of SignalOneWorker: submitting wakes no one.
SignalNobody == UNCHANGED wpc

\* pthread_cond_signal(&p->cv_jobs): wakes one sleeping worker, if any.
SignalOneWorker ==
  IF \E w \in Workers : wpc[w] = "asleep"
  THEN \E w \in Workers : /\ wpc[w] = "asleep"
                          /\ wpc' = [wpc EXCEPT ![w] = "check"]
  ELSE UNCHANGED wpc

PushInPlace == /\ ~Full
               /\ slots' = [slots EXCEPT ![tail] = cjob]
               /\ tail' = Succ(tail)
               /\ UNCHANGED <<head, cap>>

PushGrowing == /\ Full
               /\ slots' = [Grown EXCEPT ![Size] = cjob]
               /\ head' = 0
               /\ tail' = Size + 1
               /\ cap' = 2 * cap

\* The critical section of io_pool_submit.  After one doubling the ring is
\* not full, so its while loop grows at most once.
Enqueue == /\ cpc = "enqueue"
           /\ PushInPlace \/ PushGrowing
           /\ inflight' = inflight + 1
           /\ SignalOneWorker
           /\ live' = live \cup {cjob}
           /\ cpc' = "idle"
           /\ cjob' = NoJob
           /\ UNCHANGED <<stop, jobVars, wjob>>

\* io_job_wait, in any order over the live jobs, even after io_pool_destroy.
StartWait(j) == /\ cpc = "idle"
                /\ j \in live
                /\ cpc' = "lock"
                /\ cjob' = j
                /\ UNCHANGED <<poolVars, jobVars, workerVars, live>>

WaitLock == /\ cpc = "lock"
            /\ jlock[cjob] = Nobody
            /\ jlock' = [jlock EXCEPT ![cjob] = Client]
            /\ cpc' = "check"
            /\ UNCHANGED <<poolVars, done, status, workerVars, cjob, live>>

\* while (!job->done): the job is not done, so the caller is about to wait
WaitMore == /\ cpc = "check"
            /\ ~done[cjob]
            /\ cpc' = "enter"
            /\ UNCHANGED <<poolVars, jobVars, workerVars, cjob, live>>

\* pthread_cond_wait releases the job mutex and blocks in one step.
WaitBlock == /\ cpc = "enter"
             /\ jlock' = [jlock EXCEPT ![cjob] = Nobody]
             /\ cpc' = "asleep"
             /\ UNCHANGED <<poolVars, done, status, workerVars, cjob, live>>

\* unlock and return job->status: the caller may now free or reuse the job.
WaitReturn == /\ cpc = "check"
              /\ done[cjob]
              /\ jlock' = [jlock EXCEPT ![cjob] = Nobody]
              /\ live' = live \ {cjob}
              /\ cpc' = "idle"
              /\ cjob' = NoJob
              /\ UNCHANGED <<poolVars, done, status, workerVars>>

WakeClientSpuriously == /\ cpc = "asleep"
                        /\ cpc' = "lock"
                        /\ UNCHANGED <<poolVars, jobVars, workerVars, cjob, live>>

\* Mutant of Stop: signal instead of broadcast.
StopWakingOne == /\ cpc = "idle"
                 /\ ~stop
                 /\ stop' = TRUE
                 /\ SignalOneWorker
                 /\ cpc' = "join"
                 /\ UNCHANGED <<slots, head, tail, cap, inflight, jobVars, wjob, cjob, live>>

\* io_pool_destroy: stop and broadcast under the pool mutex, then join.
Stop == /\ cpc = "idle"
        /\ ~stop
        /\ stop' = TRUE
        /\ wpc' = [w \in Workers |-> IF wpc[w] = "asleep" THEN "check" ELSE wpc[w]]
        /\ cpc' = "join"
        /\ UNCHANGED <<slots, head, tail, cap, inflight, jobVars, wjob, cjob, live>>

Join == /\ cpc = "join"
        /\ \A w \in Workers : wpc[w] = "exited"
        /\ cpc' = "idle"
        /\ UNCHANGED <<poolVars, jobVars, workerVars, cjob, live>>

Destroyed == stop /\ cpc # "join"

\* Pool destroyed and every job collected: nothing is left to do.
Terminated == Destroyed /\ cpc = "idle" /\ live = {} /\ UNCHANGED vars

-----------------------------------------------------------------------------

Init == /\ slots = [i \in 0..(InitCap - 1) |-> NoJob]
        /\ head = 0 /\ tail = 0 /\ cap = InitCap
        /\ inflight = 0
        /\ stop = FALSE
        /\ done = [j \in Jobs |-> FALSE]
        /\ status = [j \in Jobs |-> Zero]
        /\ jlock = [j \in Jobs |-> Nobody]
        /\ wpc = [w \in Workers |-> "check"]
        /\ wjob = [w \in Workers |-> NoJob]
        /\ cpc = "idle" /\ cjob = NoJob /\ live = {}

WorkerStep(w) == \/ Take(w) \/ Sleep(w) \/ Exit(w)
                 \/ Read(w) \/ LockJob(w) \/ Publish(w) \/ Retire(w)

\* What the caller does inside a call it has entered.
ClientStep == \/ Enqueue \/ Join
              \/ WaitLock \/ WaitMore \/ WaitBlock \/ WaitReturn

\* The calls it chooses to make.
ClientCall == \/ Stop
              \/ \E j \in Jobs : Prepare(j) \/ StartWait(j)

Next == \/ \E w \in Workers : WorkerStep(w) \/ WakeSpuriously(w)
        \/ ClientStep
        \/ ClientCall
        \/ WakeClientSpuriously
        \/ Terminated

Spec == Init /\ [][Next]_vars

\* Threads that can run do run; a thread that keeps finding a job mutex free
\* eventually gets it.
Fairness == /\ \A w \in Workers : WF_vars(WorkerStep(w)) /\ SF_vars(LockJob(w))
            /\ WF_vars(ClientStep)
            /\ SF_vars(WaitLock)

FairSpec == Spec /\ Fairness

-----------------------------------------------------------------------------
(* Correctness *)

\* Every variable keeps the range its C declaration and use give it; the ring
\* indexes stay inside the array (reader.c:127, 171-183).
TypeOK ==
  /\ cap \in Nat /\ cap >= 2
  /\ slots \in [0..(cap - 1) -> Jobs \cup {NoJob}]
  /\ head \in 0..(cap - 1)
  /\ tail \in 0..(cap - 1)
  /\ inflight \in Int
  /\ stop \in BOOLEAN
  /\ done \in [Jobs -> BOOLEAN]
  /\ status \in [Jobs -> Statuses]
  /\ jlock \in [Jobs -> Workers \cup {Client, Nobody}]
  /\ wpc \in [Workers -> WorkerPC]
  /\ wjob \in [Workers -> Jobs \cup {NoJob}]
  /\ cpc \in ClientPC
  /\ cjob \in Jobs \cup {NoJob}
  /\ cjob = NoJob <=> cpc \in {"idle", "join"}
  /\ live \in SUBSET Jobs

Queued(j) == \E i \in Occupied : slots[i] = j
Held(j) == \E w \in Workers : Holds(w, j)

\* reader.h:37: a job the ring or a worker still refers to is one whose
\* io_job_wait has not returned, so the caller has not freed or reused it.
JobAlive == \A j \in Jobs : Queued(j) \/ Held(j) => j \in live

\* A live job that is not done is in the ring or in a worker's hands, and one
\* that is done is in neither: the growth, the wrap-around and the workers
\* neither lose a job nor publish one they still own.
NoJobLost == \A j \in live : ~done[j] <=> (Queued(j) \/ Held(j))

\* No job is in two slots, with two workers, or in the ring and with a
\* worker at once: each submission is read exactly once.
ExactlyOnce == /\ \A i, k \in Occupied : slots[i] = slots[k] => i = k
               /\ \A v, w \in Workers : wjob[v] = wjob[w] /\ wjob[v] # NoJob => v = w
               /\ \A j \in Jobs : ~(Queued(j) /\ Held(j))

\* What is known between any two steps about where a job is, from which
\* JobAlive and NoJobLost follow: the pool owns exactly the live jobs that
\* are not done, and the caller never submits or waits out of turn.
RingHoldsJobs == \A i \in Occupied : slots[i] \in Jobs
WorkersHoldJobs ==
  \A w \in Workers : wjob[w] \in Jobs <=> wpc[w] \in {"read", "publish", "locked"}
CallerInTurn ==
  /\ cpc = "enqueue" => cjob \notin live /\ ~done[cjob]
  /\ cpc \in {"lock", "check", "enter", "asleep"} => cjob \in live
PoolOwnsUnfinished ==
  \A j \in Jobs : (Queued(j) \/ Held(j)) <=> (j \in live /\ ~done[j])
JobInv == /\ RingHoldsJobs
          /\ WorkersHoldJobs
          /\ CallerInTurn
          /\ PoolOwnsUnfinished
          /\ ExactlyOnce

Busy == {w \in Workers : wpc[w] \in {"read", "publish", "locked", "retire"}}

\* What DestroyDrains needs to know of inflight: it counts the jobs submitted
\* and not retired (reader.c:143, 184).
InflightCounts == inflight = Size + Cardinality(Busy)

\* How the shutdown goes on: a worker leaves only a stopped and empty ring, no job
\* comes after the stop, and destroy returns when all have left.
ShutdownInTurn ==
  /\ \A w \in Workers : wpc[w] = "exited" => stop /\ head = tail
  /\ stop => cpc # "enqueue"
  /\ cpc = "join" => stop
  /\ Destroyed => \A w \in Workers : wpc[w] = "exited"
DrainInv == InflightCounts /\ ShutdownInTurn

\* reader.h:43: when io_pool_destroy has returned, every job submitted before
\* it has been executed, nothing is in flight and no worker is left that
\* could touch the freed ring.
DestroyDrains == Destroyed => /\ head = tail
                              /\ inflight = 0
                              /\ \A j \in live : done[j]
                              /\ \A w \in Workers : wpc[w] = "exited"

\* reader.c:135: with the job mutex around check-and-wait and around
\* set-and-broadcast no wakeup is lost, so every io_job_wait returns.
WaitReturns == \A j \in Jobs : (cpc = "lock" /\ cjob = j) ~> (j \notin live)

\* The broadcast on cv_jobs reaches every sleeping worker, each finishes what
\* it holds and drains the ring, and io_pool_destroy returns.
DestroyReturns == stop ~> Destroyed

\* A submitted job is executed even when nobody waits for it.
JobsFinish == \A j \in Jobs : (j \in live) ~> done[j]

\* The pool implements JobQueue: the ring read from head to tail is the
\* queue, and a job's outcome is published by done.
RingAsQueue == [k \in 1..Size |-> slots[At(k - 1)]]

Abstract == INSTANCE JobQueue WITH
  Limit   <- Cardinality(Workers),
  queue   <- RingAsQueue,
  running <- {j \in Jobs : Held(j)},
  outcome <- [j \in Jobs |-> IF j \notin live THEN "idle"
                             ELSE IF done[j] THEN status[j] ELSE "pending"],
  closed  <- Destroyed

\* Jobs start in the order of their submission, at most one per worker, each
\* once, with the status the wait returns; the pool closes only when drained.
ImplementsJobQueue == Abstract!Spec
=============================================================================
