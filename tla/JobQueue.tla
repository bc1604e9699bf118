------------------------------ MODULE JobQueue ------------------------------
(***************************************************************************)
(* What the I/O thread pool of the C runtime promises its caller           *)
(* (c/src/reader.h): a job that is submitted is executed exactly once, in  *)
(* submission order of dispatch, by at most Limit threads at a time; its   *)
(* outcome is final once published; closing the pool takes effect only     *)
(* when nothing is queued or running.  No threads, ring buffer, locks or   *)
(* condition variables appear here: module IoPool implements this one.     *)
(***************************************************************************)
EXTENDS Naturals, Sequences, FiniteSets

CONSTANTS Jobs,       \* the io_job structures the caller owns
          Statuses,   \* what reading a job's rows can return: 0 or an errno
          Limit       \* how many jobs may be executing at a time

\* Outcomes that are not a status: of a job the pool holds no reference to,
\* and of a job submitted and not finished.
Idle == "idle"
Pending == "pending"

VARIABLES queue,      \* jobs submitted and not yet started, oldest first
          running,    \* jobs being executed
          outcome,    \* per job: Idle, Pending, or the status of its read
          closed      \* the pool has been destroyed

vars == <<queue, running, outcome, closed>>

TypeOK == /\ queue \in Seq(Jobs)
          /\ running \in SUBSET Jobs
          /\ outcome \in [Jobs -> {Idle, Pending} \cup Statuses]
          /\ closed \in BOOLEAN

Init == /\ queue = <<>>
        /\ running = {}
        /\ outcome = [j \in Jobs |-> Idle]
        /\ closed = FALSE

Submit(j) == /\ ~closed
             /\ outcome[j] = Idle
             /\ queue' = Append(queue, j)
             /\ outcome' = [outcome EXCEPT ![j] = Pending]
             /\ UNCHANGED <<running, closed>>

Start == /\ queue # <<>>
         /\ Cardinality(running) < Limit
         /\ running' = running \cup {Head(queue)}
         /\ queue' = Tail(queue)
         /\ UNCHANGED <<outcome, closed>>

Finish(j, s) == /\ j \in running
                /\ running' = running \ {j}
                /\ outcome' = [outcome EXCEPT ![j] = s]
                /\ UNCHANGED <<queue, closed>>

\* io_job_wait returns: the caller owns the job again.
Collect(j) == /\ outcome[j] \in Statuses
              /\ outcome' = [outcome EXCEPT ![j] = Idle]
              /\ UNCHANGED <<queue, running, closed>>

Close == /\ ~closed
         /\ queue = <<>>
         /\ running = {}
         /\ closed' = TRUE
         /\ UNCHANGED <<queue, running, outcome>>

Next == \/ \E j \in Jobs : Submit(j) \/ Collect(j)
        \/ \E j \in Jobs, s \in Statuses : Finish(j, s)
        \/ Start
        \/ Close

Spec == Init /\ [][Next]_vars
=============================================================================
