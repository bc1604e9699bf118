------------------------ MODULE MCPoolAndCachesProof ------------------------
(***************************************************************************)
(* Proofs about IoPool for every set of workers and jobs and every initial *)
(* ring: type correctness, the safety of the jobs (JobAlive, NoJobLost and *)
(* ExactlyOnce) from one inductive invariant, from a second one that       *)
(* io_pool_destroy leaves nothing behind (DestroyDrains), and from both    *)
(* that the pool implements JobQueue.                                      *)
(*                                                                         *)
(* And what the run of MCPoolAndCaches checks of the byte caches, for any  *)
(* caches, keys, sizes and limits: ByteCache keeps its inductive invariant *)
(* while it runs (ByteCacheProof), and the pool does not touch its         *)
(* variables.                                                              *)
(***************************************************************************)
EXTENDS MCPoolAndCaches, SequenceTheorems, FiniteSetTheorems, TLAPS

-----------------------------------------------------------------------------
(* The ring *)

\* A queued job's index lies in the window from head to tail, which may wrap.
InWindow(i) == /\ i \in 0..(cap - 1)
               /\ IF head <= tail THEN head <= i /\ i < tail
                                  ELSE head <= i \/ i < tail

LEMMA SizeType ==
  ASSUME TypeOK
  PROVE  /\ Size \in Nat
         /\ Size < cap
BY DEF TypeOK, Size

LEMMA AtType ==
  ASSUME TypeOK, NEW k \in 0..(Size - 1)
  PROVE  InWindow(At(k))
BY DEF TypeOK, Size, At, InWindow

LEMMA AtInjective ==
  ASSUME TypeOK, NEW k \in 0..(Size - 1), NEW l \in 0..(Size - 1), At(k) = At(l)
  PROVE  k = l
BY DEF TypeOK, Size, At

\* The indexes At names are exactly those of the window.
LEMMA OccupiedIsWindow == TypeOK => \A i : i \in Occupied <=> InWindow(i)
<1> SUFFICES ASSUME TypeOK, NEW i
             PROVE  i \in Occupied <=> InWindow(i)
  OBVIOUS
<1>1. ASSUME i \in Occupied
      PROVE  InWindow(i)
  BY <1>1, AtType DEF Occupied
<1>2. ASSUME InWindow(i)
      PROVE  i \in Occupied
  <2> DEFINE k == IF head <= i THEN i - head ELSE (cap - head) + i
  <2>1. k \in 0..(Size - 1) /\ At(k) = i
    BY <1>2 DEF TypeOK, Size, At, InWindow
  <2> QED
    BY <2>1 DEF Occupied
<1> QED
  BY <1>1, <1>2

LEMMA OccupiedIsWindowNext == TypeOK' => \A i : i \in Occupied' <=> InWindow(i)'
<1>1. TypeOK' => (\A i : i \in Occupied <=> InWindow(i))'
  BY OccupiedIsWindow, PTL
<1> QED
  BY <1>1

-----------------------------------------------------------------------------
(* Type correctness *)

LEMMA InitTypeOK == Init => TypeOK
<1> SUFFICES ASSUME Init
             PROVE  TypeOK
  OBVIOUS
<1>1. /\ cap \in Nat /\ cap >= 2
      /\ head \in 0..(cap - 1) /\ tail \in 0..(cap - 1)
      /\ inflight \in Int
      /\ slots \in [0..(cap - 1) -> Jobs \cup {NoJob}]
  BY InitCapIsARing DEF Init
<1>2. /\ done \in [Jobs -> BOOLEAN]
      /\ status \in [Jobs -> Statuses]
      /\ jlock \in [Jobs -> Workers \cup {Client, Nobody}]
      /\ wpc \in [Workers -> WorkerPC]
      /\ wjob \in [Workers -> Jobs \cup {NoJob}]
  BY ZeroIsAStatus DEF Init, WorkerPC
<1>3. stop \in BOOLEAN /\ cpc = "idle" /\ cjob = NoJob /\ live \in SUBSET Jobs
  BY DEF Init
<1> QED
  BY <1>1, <1>2, <1>3 DEF TypeOK, ClientPC

LEMMA GrownType ==
  ASSUME TypeOK
  PROVE  Grown \in [0..(2 * cap - 1) -> Jobs \cup {NoJob}]
<1>1. ASSUME NEW i \in 0..(2 * cap - 1), i < Size
      PROVE  slots[At(i)] \in Jobs \cup {NoJob}
  <2>1. i \in 0..(Size - 1)
    BY <1>1, SizeType DEF TypeOK
  <2>2. At(i) \in 0..(cap - 1)
    BY <2>1, AtType DEF InWindow
  <2> QED
    BY <2>2 DEF TypeOK
<1> QED
  BY <1>1 DEF Grown

LEMMA NextTypeOK ==
  ASSUME TypeOK, [Next]_vars
  PROVE  TypeOK'
<1>1. ASSUME NEW w \in Workers, Take(w)
      PROVE  TypeOK'
  <2>1. slots[head] \in Jobs \cup {NoJob}
    BY DEF TypeOK
  <2> QED
    BY <1>1, <2>1 DEF Take, TypeOK, Succ, WorkerPC, jobVars, clientVars
<1>2. ASSUME NEW w \in Workers, Sleep(w) \/ Exit(w) \/ WakeSpuriously(w)
      PROVE  TypeOK'
  BY <1>2 DEF Sleep, Exit, WakeSpuriously, TypeOK, WorkerPC, poolVars, jobVars, clientVars
<1>3. ASSUME NEW w \in Workers, Read(w)
      PROVE  TypeOK'
  BY <1>3 DEF Read, TypeOK, WorkerPC, poolVars, clientVars
<1>4. ASSUME NEW w \in Workers, LockJob(w)
      PROVE  TypeOK'
  BY <1>4 DEF LockJob, TypeOK, WorkerPC, poolVars, clientVars
<1>5. ASSUME NEW w \in Workers, Publish(w)
      PROVE  TypeOK'
  BY <1>5 DEF Publish, TypeOK, WorkerPC, ClientPC, poolVars
<1>6. ASSUME NEW w \in Workers, Retire(w)
      PROVE  TypeOK'
  BY <1>6 DEF Retire, TypeOK, WorkerPC, jobVars, clientVars
<1>7. CASE Enqueue
  <2>1. wpc' \in [Workers -> WorkerPC]
    BY <1>7 DEF Enqueue, SignalOneWorker, TypeOK, WorkerPC
  <2>2. /\ cap' \in Nat /\ cap' >= 2
        /\ slots' \in [0..(cap' - 1) -> Jobs \cup {NoJob}]
        /\ head' \in 0..(cap' - 1)
        /\ tail' \in 0..(cap' - 1)
    <3>1. CASE PushInPlace
      BY <3>1 DEF PushInPlace, TypeOK, Succ
    <3>2. CASE PushGrowing
      <4>1. cap' = 2 * cap /\ head' = 0 /\ tail' = Size + 1
        BY <3>2 DEF PushGrowing
      <4>2. slots' \in [0..(2 * cap - 1) -> Jobs \cup {NoJob}]
        BY <3>2, GrownType DEF PushGrowing, TypeOK
      <4> QED
        BY <4>1, <4>2, SizeType DEF TypeOK
    <3> QED
      BY <1>7, <3>1, <3>2 DEF Enqueue
  <2>3. inflight' \in Int /\ live' \in SUBSET Jobs
    BY <1>7 DEF Enqueue, TypeOK
  <2>4. /\ stop' \in BOOLEAN
        /\ done' \in [Jobs -> BOOLEAN]
        /\ status' \in [Jobs -> Statuses]
        /\ jlock' \in [Jobs -> Workers \cup {Client, Nobody}]
        /\ wjob' \in [Workers -> Jobs \cup {NoJob}]
        /\ cpc' = "idle" /\ cjob' = NoJob
    BY <1>7 DEF Enqueue, TypeOK, jobVars
  <2> QED
    BY <2>1, <2>2, <2>3, <2>4 DEF TypeOK, ClientPC
<1>8. ASSUME NEW j \in Jobs, Prepare(j) \/ StartWait(j)
      PROVE  TypeOK'
  <2>1. CASE Prepare(j)
    <3>1. /\ done' \in [Jobs -> BOOLEAN]
          /\ status' \in [Jobs -> Statuses]
          /\ jlock' \in [Jobs -> Workers \cup {Client, Nobody}]
      BY <2>1, ZeroIsAStatus DEF Prepare, TypeOK
    <3>2. cpc' = "enqueue" /\ cjob' = j /\ j # NoJob
      BY <2>1, ConstantsAreDistinct DEF Prepare
    <3>3. UNCHANGED <<poolVars, workerVars, live>>
      BY <2>1 DEF Prepare
    <3> QED
      BY <3>1, <3>2, <3>3 DEF TypeOK, ClientPC, poolVars, workerVars
  <2>2. CASE StartWait(j)
    BY <2>2, ConstantsAreDistinct
       DEF StartWait, TypeOK, ClientPC, poolVars, jobVars, workerVars
  <2> QED
    BY <1>8, <2>1, <2>2
<1>9. CASE WaitLock \/ WaitMore \/ WaitBlock \/ WaitReturn \/ WakeClientSpuriously
  BY <1>9 DEF WaitLock, WaitMore, WaitBlock, WaitReturn, WakeClientSpuriously,
              TypeOK, ClientPC, poolVars, jobVars, workerVars
<1>10. CASE Stop \/ Join
  BY <1>10 DEF Stop, Join, TypeOK, ClientPC, WorkerPC, poolVars, jobVars, workerVars
<1>11. CASE UNCHANGED vars
  BY <1>11 DEF vars, TypeOK
<1> QED
  BY <1>1, <1>2, <1>3, <1>4, <1>5, <1>6, <1>7, <1>8, <1>9, <1>10, <1>11
     DEF Next, WorkerStep, ClientStep, ClientCall, Terminated

\* In every reachable state of a pool of any size the ring indexes are inside
\* the array, also after it has grown, and every field keeps its range.
THEOREM TypeCorrect == Spec => []TypeOK
<1>1. Init => TypeOK
  BY InitTypeOK
<1>2. TypeOK /\ [Next]_vars => TypeOK'
  BY NextTypeOK
<1> QED
  BY <1>1, <1>2, PTL DEF Spec

-----------------------------------------------------------------------------
(* What each step does to the ring *)

LEMMA TakeRing ==
  ASSUME TypeOK, TypeOK', NEW w \in Workers, Take(w)
  PROVE  /\ head \in Occupied
         /\ Occupied' = Occupied \ {head}
         /\ slots' = slots
<1>1. InWindow(head)
  BY DEF TypeOK, Take, InWindow
<1>2. \A i : InWindow(i)' <=> InWindow(i) /\ i # head
  BY DEF TypeOK, Take, InWindow, Succ
<1> QED
  BY <1>1, <1>2, OccupiedIsWindow, OccupiedIsWindowNext DEF Take

LEMMA PushInPlaceRing ==
  ASSUME TypeOK, TypeOK', PushInPlace
  PROVE  /\ tail \notin Occupied
         /\ Occupied' = Occupied \cup {tail}
         /\ slots'[tail] = cjob
         /\ \A i \in Occupied : slots'[i] = slots[i]
<1>1. ~InWindow(tail)
  BY DEF TypeOK, InWindow
<1>2. \A i : InWindow(i)' <=> InWindow(i) \/ i = tail
  BY DEF TypeOK, PushInPlace, Full, InWindow, Succ
<1>3. tail \notin Occupied /\ Occupied' = Occupied \cup {tail}
  BY <1>1, <1>2, OccupiedIsWindow, OccupiedIsWindowNext
<1>4. slots' = [slots EXCEPT ![tail] = cjob] /\ tail \in DOMAIN slots
  BY DEF TypeOK, PushInPlace
<1> QED
  BY <1>3, <1>4

LEMMA PushGrowingRing ==
  ASSUME TypeOK, TypeOK', PushGrowing
  PROVE  /\ Occupied' = 0..Size
         /\ slots'[Size] = cjob
         /\ \A k \in 0..(Size - 1) : slots'[k] = slots[At(k)]
<1>1. Size \in Nat /\ Size < cap
  BY SizeType
<1>2. head' = 0 /\ tail' = Size + 1 /\ cap' = 2 * cap
  BY DEF PushGrowing
<1>3. \A i : InWindow(i)' <=> i \in 0..Size
  BY <1>1, <1>2 DEF InWindow, TypeOK
<1>4. \A i \in 0..(2 * cap - 1) :
         slots'[i] = IF i = Size THEN cjob ELSE Grown[i]
  BY <1>1 DEF PushGrowing, Grown
<1>5. Size \in 0..(2 * cap - 1) /\ 0..(Size - 1) \subseteq 0..(2 * cap - 1)
  BY <1>1 DEF TypeOK
<1>6. \A k \in 0..(Size - 1) : Grown[k] = slots[At(k)] /\ k # Size
  BY <1>1, <1>5 DEF Grown
<1> QED
  BY <1>3, <1>4, <1>5, <1>6, OccupiedIsWindowNext

\* Enqueueing adds the job and keeps the others, each in one slot, whether or
\* not the ring has to grow.
LEMMA EnqueueRing ==
  ASSUME TypeOK, TypeOK', Enqueue, JobInv
  PROVE  /\ RingHoldsJobs'
         /\ \A j \in Jobs : Queued(j)' <=> Queued(j) \/ j = cjob
         /\ (\A i, k \in Occupied : slots[i] = slots[k] => i = k)'
<1>1. cjob \in Jobs /\ ~Queued(cjob)
  BY DEF Enqueue, TypeOK, JobInv, CallerInTurn, PoolOwnsUnfinished
<1>2. \A i, k \in Occupied : slots[i] = slots[k] => i = k
  BY DEF JobInv, ExactlyOnce
<1>3. \A i \in Occupied : slots[i] \in Jobs /\ slots[i] # cjob
  BY <1>1 DEF JobInv, RingHoldsJobs, Queued
<1>4. CASE PushInPlace
  BY <1>1, <1>2, <1>3, <1>4, PushInPlaceRing DEF RingHoldsJobs, Queued
<1>5. CASE PushGrowing
  <2>1. \A k \in 0..(Size - 1) : At(k) \in Occupied
    BY DEF Occupied
  <2>2. \A i \in Occupied : \E k \in 0..(Size - 1) : i = At(k)
    BY DEF Occupied
  <2>3. \A k \in 0..Size : k \in 0..(Size - 1) \/ k = Size
    BY SizeType
  <2>4. \A k, l \in 0..(Size - 1) : slots[At(k)] = slots[At(l)] => k = l
    BY <1>2, <2>1, AtInjective
  <2>5. Size \in 0..Size /\ 0..(Size - 1) \subseteq 0..Size
    BY SizeType
  <2>6. /\ Occupied' = 0..Size
        /\ slots'[Size] = cjob
        /\ \A k \in 0..(Size - 1) : slots'[k] = slots[At(k)]
    BY <1>5, PushGrowingRing
  <2>7. RingHoldsJobs'
    BY <1>1, <1>3, <2>1, <2>3, <2>6 DEF RingHoldsJobs
  <2>8. \A j \in Jobs : Queued(j)' <=> Queued(j) \/ j = cjob
    BY <2>1, <2>2, <2>3, <2>5, <2>6 DEF Queued
  <2>9. ASSUME NEW i \in Occupied', NEW k \in Occupied', slots'[i] = slots'[k]
        PROVE  i = k
    BY <1>3, <2>1, <2>3, <2>4, <2>6, <2>9
  <2> QED
    BY <2>7, <2>8, <2>9
<1> QED
  BY <1>4, <1>5 DEF Enqueue

-----------------------------------------------------------------------------
(* Safety of the jobs *)

\* A step that moves no job and publishes, submits or returns none keeps the
\* conjuncts of JobInv that say where the jobs are.
LEMMA RingFrame ==
  ASSUME UNCHANGED <<slots, head, tail, cap>>
  PROVE  /\ Occupied' = Occupied
         /\ \A j : Queued(j)' <=> Queued(j)
BY DEF Occupied, At, Size, Queued

LEMMA JobsFrame ==
  ASSUME JobInv, UNCHANGED <<slots, head, tail, cap, wjob, done, live>>
  PROVE  RingHoldsJobs' /\ PoolOwnsUnfinished' /\ ExactlyOnce'
<1>1. Occupied' = Occupied /\ \A j : Queued(j)' <=> Queued(j)
  BY RingFrame
<1>2. \A j : Held(j)' <=> Held(j)
  BY DEF Held, Holds
<1> QED
  BY <1>1, <1>2 DEF JobInv, RingHoldsJobs, PoolOwnsUnfinished, ExactlyOnce

LEMMA TakeJobInv ==
  ASSUME TypeOK, TypeOK', JobInv, NEW w \in Workers, Take(w)
  PROVE  JobInv'
<1> DEFINE job == slots[head]
<1>1. head \in Occupied /\ Occupied' = Occupied \ {head} /\ slots' = slots
  BY TakeRing
<1>2. job \in Jobs
  BY <1>1 DEF JobInv, RingHoldsJobs
<1>3. wjob[w] \notin Jobs /\ wjob[w] = NoJob
  BY DEF Take, JobInv, WorkersHoldJobs, TypeOK
<1>4. wjob' = [wjob EXCEPT ![w] = job] /\ done' = done /\ live' = live
  BY DEF Take, jobVars, clientVars
<1>5. \A j \in Jobs : Queued(j)' <=> Queued(j) /\ j # job
  BY <1>1 DEF Queued, JobInv, ExactlyOnce
<1>6. \A j \in Jobs : Held(j)' <=> Held(j) \/ j = job
  BY <1>3, <1>4, ConstantsAreDistinct DEF Held, Holds, TypeOK
<1>7. Queued(job) /\ ~Held(job)
  BY <1>1, <1>2 DEF Queued, JobInv, ExactlyOnce
<1>8. RingHoldsJobs'
  BY <1>1 DEF JobInv, RingHoldsJobs
<1>9. WorkersHoldJobs'
  BY <1>2 DEF Take, JobInv, WorkersHoldJobs, TypeOK
<1>10. CallerInTurn'
  BY DEF Take, JobInv, CallerInTurn, jobVars, clientVars
<1>11. PoolOwnsUnfinished'
  BY <1>4, <1>5, <1>6, <1>7 DEF JobInv, PoolOwnsUnfinished
<1>12. ExactlyOnce'
  <2>1. (\A i, k \in Occupied : slots[i] = slots[k] => i = k)'
    BY <1>1 DEF JobInv, ExactlyOnce
  <2>2. (\A u, v \in Workers : wjob[u] = wjob[v] /\ wjob[u] # NoJob => u = v)'
    BY <1>2, <1>4, <1>7 DEF JobInv, ExactlyOnce, Held, Holds, TypeOK
  <2>3. \A j \in Jobs : ~(Queued(j)' /\ Held(j)')
    BY <1>5, <1>6 DEF JobInv, ExactlyOnce
  <2> QED
    BY <2>1, <2>2, <2>3 DEF ExactlyOnce
<1> QED
  BY <1>8, <1>9, <1>10, <1>11, <1>12 DEF JobInv

LEMMA PublishJobInv ==
  ASSUME TypeOK, TypeOK', JobInv, NEW w \in Workers, Publish(w)
  PROVE  JobInv'
<1> DEFINE job == wjob[w]
<1>1. job \in Jobs /\ job # NoJob
  BY ConstantsAreDistinct DEF Publish, JobInv, WorkersHoldJobs
<1>2. Occupied' = Occupied /\ slots' = slots /\ \A j : Queued(j)' <=> Queued(j)
  BY RingFrame DEF Publish, poolVars
<1>3. /\ wjob' = [wjob EXCEPT ![w] = NoJob]
      /\ done' = [done EXCEPT ![job] = TRUE]
      /\ live' = live /\ cjob' = cjob
  BY DEF Publish
<1>4. Held(job) /\ ~Queued(job) /\ job \in live
  BY <1>1 DEF Held, Holds, JobInv, ExactlyOnce, PoolOwnsUnfinished
<1>5. \A j \in Jobs : Held(j)' <=> Held(j) /\ j # job
  BY <1>1, <1>3, ConstantsAreDistinct DEF Held, Holds, JobInv, ExactlyOnce, TypeOK
<1>6. RingHoldsJobs'
  BY <1>2 DEF JobInv, RingHoldsJobs
<1>7. WorkersHoldJobs'
  BY ConstantsAreDistinct DEF Publish, JobInv, WorkersHoldJobs, TypeOK
<1>8. CallerInTurn'
  <2>1. cpc' = "enqueue" => cpc = "enqueue"
    BY DEF Publish
  <2>2. cpc' \in {"lock", "check", "enter", "asleep"}
          => cpc \in {"lock", "check", "enter", "asleep"}
    BY DEF Publish
  <2>3. cpc = "enqueue" => done'[cjob] = done[cjob]
    BY <1>3, <1>4 DEF JobInv, CallerInTurn, TypeOK
  <2> QED
    BY <1>3, <2>1, <2>2, <2>3 DEF JobInv, CallerInTurn
<1>9. PoolOwnsUnfinished'
  BY <1>1, <1>2, <1>3, <1>4, <1>5 DEF JobInv, PoolOwnsUnfinished, TypeOK
<1>10. ExactlyOnce'
  BY <1>2, <1>3, <1>5 DEF JobInv, ExactlyOnce, TypeOK
<1> QED
  BY <1>6, <1>7, <1>8, <1>9, <1>10 DEF JobInv

LEMMA EnqueueJobInv ==
  ASSUME TypeOK, TypeOK', JobInv, Enqueue
  PROVE  JobInv'
<1>1. /\ RingHoldsJobs'
      /\ \A j \in Jobs : Queued(j)' <=> Queued(j) \/ j = cjob
      /\ (\A i, k \in Occupied : slots[i] = slots[k] => i = k)'
  BY EnqueueRing
<1>2. /\ cjob \in Jobs /\ cjob \notin live /\ ~done[cjob]
      /\ ~Held(cjob)
  BY DEF Enqueue, TypeOK, JobInv, CallerInTurn, PoolOwnsUnfinished
<1>3. /\ live' = live \cup {cjob} /\ done' = done /\ wjob' = wjob
      /\ cpc' = "idle"
  BY DEF Enqueue, jobVars
<1>4. \A j : Held(j)' <=> Held(j)
  BY <1>3 DEF Held, Holds
<1>5. WorkersHoldJobs'
  <2>1. \A w \in Workers :
          wpc'[w] = wpc[w] \/ (wpc[w] = "asleep" /\ wpc'[w] = "check")
    BY DEF Enqueue, SignalOneWorker, TypeOK
  <2> QED
    BY <1>3, <2>1 DEF JobInv, WorkersHoldJobs
<1>6. CallerInTurn'
  BY <1>3 DEF CallerInTurn
<1>7. PoolOwnsUnfinished'
  BY <1>1, <1>2, <1>3, <1>4 DEF JobInv, PoolOwnsUnfinished
<1>8. ExactlyOnce'
  BY <1>1, <1>2, <1>3, <1>4 DEF JobInv, ExactlyOnce
<1> QED
  BY <1>1, <1>5, <1>6, <1>7, <1>8 DEF JobInv

LEMMA InitJobInv == Init => JobInv
<1> SUFFICES ASSUME Init
             PROVE  JobInv
  OBVIOUS
<1>1. Occupied = {}
  BY DEF Init, Occupied, Size
<1>2. \A w \in Workers : wjob[w] = NoJob /\ wpc[w] = "check"
  BY DEF Init
<1> QED
  BY <1>1, <1>2, ConstantsAreDistinct
     DEF Init, JobInv, RingHoldsJobs, WorkersHoldJobs, CallerInTurn,
         PoolOwnsUnfinished, ExactlyOnce, Queued, Held, Holds

LEMMA NextJobInv ==
  ASSUME TypeOK, TypeOK', JobInv, [Next]_vars
  PROVE  JobInv'
<1>1. ASSUME NEW w \in Workers,
             Sleep(w) \/ Exit(w) \/ Read(w) \/ LockJob(w) \/ Retire(w) \/ WakeSpuriously(w)
      PROVE  JobInv'
  <2>1. /\ UNCHANGED <<slots, head, tail, cap, wjob, done, live, cpc, cjob>>
        /\ \A v \in Workers : wpc'[v] \in {"read", "publish", "locked"}
                              <=> wpc[v] \in {"read", "publish", "locked"}
    BY <1>1 DEF Sleep, Exit, Read, LockJob, Retire, WakeSpuriously, TypeOK,
                poolVars, jobVars, clientVars
  <2> QED
    BY <2>1, JobsFrame DEF JobInv, WorkersHoldJobs, CallerInTurn
<1>2. ASSUME NEW j \in Jobs, Prepare(j)
      PROVE  JobInv'
  <2>1. /\ UNCHANGED <<slots, head, tail, cap, wjob, wpc, live>>
        /\ j \notin live
        /\ done' = [done EXCEPT ![j] = FALSE]
        /\ cpc' = "enqueue" /\ cjob' = j
    BY <1>2 DEF Prepare, poolVars, workerVars
  <2>2. \A i : (Queued(i)' <=> Queued(i)) /\ (Held(i)' <=> Held(i))
    BY <2>1, RingFrame DEF Held, Holds
  <2>3. PoolOwnsUnfinished'
    BY <2>1, <2>2 DEF JobInv, PoolOwnsUnfinished, TypeOK
  <2>4. ExactlyOnce' /\ RingHoldsJobs'
    BY <2>1, <2>2, RingFrame DEF JobInv, ExactlyOnce, RingHoldsJobs
  <2>5. CallerInTurn' /\ WorkersHoldJobs'
    BY <2>1 DEF CallerInTurn, JobInv, WorkersHoldJobs, TypeOK
  <2> QED
    BY <2>3, <2>4, <2>5 DEF JobInv
<1>3. CASE WaitReturn
  <2>1. /\ UNCHANGED <<slots, head, tail, cap, wjob, wpc, done>>
        /\ live' = live \ {cjob}
        /\ done[cjob]
        /\ cpc' = "idle"
    BY <1>3 DEF WaitReturn, poolVars, workerVars
  <2>2. \A i : (Queued(i)' <=> Queued(i)) /\ (Held(i)' <=> Held(i))
    BY <2>1, RingFrame DEF Held, Holds
  <2>3. PoolOwnsUnfinished'
    BY <2>1, <2>2 DEF JobInv, PoolOwnsUnfinished
  <2>4. ExactlyOnce' /\ RingHoldsJobs'
    BY <2>1, <2>2, RingFrame DEF JobInv, ExactlyOnce, RingHoldsJobs
  <2>5. CallerInTurn' /\ WorkersHoldJobs'
    BY <2>1 DEF CallerInTurn, JobInv, WorkersHoldJobs
  <2> QED
    BY <2>3, <2>4, <2>5 DEF JobInv
<1>4. ASSUME NEW j \in Jobs, StartWait(j)
      PROVE  JobInv'
  <2>1. /\ UNCHANGED <<slots, head, tail, cap, wjob, wpc, done, live>>
        /\ cpc' = "lock" /\ cjob' = j /\ j \in live
    BY <1>4 DEF StartWait, poolVars, jobVars, workerVars
  <2> QED
    BY <2>1, JobsFrame DEF JobInv, WorkersHoldJobs, CallerInTurn
<1>5. CASE WaitLock \/ WaitMore \/ WaitBlock \/ WakeClientSpuriously
  <2>1. /\ UNCHANGED <<slots, head, tail, cap, wjob, wpc, done, live, cjob>>
        /\ cpc \in {"lock", "check", "enter", "asleep"}
        /\ cpc' \in {"lock", "check", "enter", "asleep"}
    BY <1>5 DEF WaitLock, WaitMore, WaitBlock, WakeClientSpuriously,
                poolVars, jobVars, workerVars
  <2> QED
    BY <2>1, JobsFrame DEF JobInv, WorkersHoldJobs, CallerInTurn
<1>6. CASE Stop \/ Join
  <2>1. /\ UNCHANGED <<slots, head, tail, cap, wjob, done, live>>
        /\ cpc' \in {"idle", "join"}
        /\ \A v \in Workers : wpc'[v] \in {"read", "publish", "locked"}
                              <=> wpc[v] \in {"read", "publish", "locked"}
    BY <1>6 DEF Stop, Join, poolVars, jobVars, workerVars
  <2> QED
    BY <2>1, JobsFrame DEF JobInv, WorkersHoldJobs, CallerInTurn
<1>7. CASE UNCHANGED vars
  BY <1>7, JobsFrame DEF vars, JobInv, WorkersHoldJobs, CallerInTurn
<1> QED
  BY <1>1, <1>2, <1>3, <1>4, <1>5, <1>6, <1>7, TakeJobInv, PublishJobInv, EnqueueJobInv
     DEF Next, WorkerStep, ClientStep, ClientCall, Terminated

\* For any pool: what is known of the jobs between two steps.
THEOREM JobsInvariant == Spec => []JobInv
<1>1. TypeOK /\ TypeOK' /\ JobInv /\ [Next]_vars => JobInv'
  BY NextJobInv
<1> QED
  BY <1>1, InitJobInv, TypeCorrect, PTL DEF Spec

\* reader.h:37 for any pool and any number of jobs: nothing in the pool refers
\* to a job whose io_job_wait has returned.
THEOREM JobsStayAlive == Spec => []JobAlive
<1>1. JobInv => JobAlive
  BY DEF JobInv, PoolOwnsUnfinished, JobAlive
<1> QED
  BY <1>1, JobsInvariant, PTL

\* For any pool: a job that is not done is queued or with a worker, and no
\* job that is done still is.
THEOREM NoJobIsLost == Spec => []NoJobLost
<1>1. TypeOK /\ JobInv => NoJobLost
  BY DEF TypeOK, JobInv, PoolOwnsUnfinished, NoJobLost
<1> QED
  BY <1>1, JobsInvariant, TypeCorrect, PTL

\* For any pool: no job is in two places, so each submission is read once.
THEOREM JobsRunOnce == Spec => []ExactlyOnce
<1>1. JobInv => ExactlyOnce
  BY DEF JobInv
<1> QED
  BY <1>1, JobsInvariant, PTL

-----------------------------------------------------------------------------
(* What the counter and the shutdown know *)

LEMMA BusyType == IsFiniteSet(Busy) /\ Cardinality(Busy) \in Nat
<1>1. IsFiniteSet(Busy)
  BY FiniteThreadsAndJobs, FS_Subset DEF Busy
<1> QED
  BY <1>1, FS_CardinalityType

LEMMA EnqueueSize ==
  ASSUME TypeOK, PushInPlace \/ PushGrowing
  PROVE  Size' = Size + 1
<1>1. CASE PushInPlace
  BY <1>1 DEF PushInPlace, TypeOK, Size, Full, Succ
<1>2. CASE PushGrowing
  BY <1>2, SizeType DEF PushGrowing, Size
<1> QED
  BY <1>1, <1>2

LEMMA InitDrainInv == Init => DrainInv
<1> SUFFICES ASSUME Init
             PROVE  DrainInv
  OBVIOUS
<1>1. Size = 0
  BY DEF Init, Size
<1>2. Busy = {}
  BY DEF Init, Busy
<1>3. InflightCounts
  BY <1>1, <1>2, FS_EmptySet DEF Init, InflightCounts
<1>4. ShutdownInTurn
  BY DEF Init, ShutdownInTurn, Destroyed
<1> QED
  BY <1>3, <1>4 DEF DrainInv

LEMMA NextInflightCounts ==
  ASSUME TypeOK, InflightCounts, [Next]_vars
  PROVE  InflightCounts'
<1> USE DEF InflightCounts
<1>1. ASSUME NEW w \in Workers, Take(w)
      PROVE  InflightCounts'
  <2>1. Size' = Size - 1 /\ inflight' = inflight
    BY <1>1 DEF Take, TypeOK, Size, Succ
  <2>2. Busy' = Busy \cup {w} /\ w \notin Busy
    BY <1>1 DEF Take, TypeOK, Busy
  <2>3. Cardinality(Busy') = Cardinality(Busy) + 1
    BY <2>2, BusyType, FS_AddElement
  <2> QED
    BY <2>1, <2>3, SizeType, BusyType
<1>2. ASSUME NEW w \in Workers, Retire(w)
      PROVE  InflightCounts'
  <2>1. Size' = Size /\ inflight' = inflight - 1
    BY <1>2 DEF Retire, Size
  <2>2. Busy' = Busy \ {w} /\ w \in Busy
    BY <1>2 DEF Retire, TypeOK, Busy
  <2>3. Cardinality(Busy') = Cardinality(Busy) - 1
    BY <2>2, BusyType, FS_RemoveElement
  <2> QED
    BY <2>1, <2>3, SizeType, BusyType
<1>3. CASE Enqueue
  <2>1. Size' = Size + 1 /\ inflight' = inflight + 1
    BY <1>3, EnqueueSize DEF Enqueue
  <2>2. Busy' = Busy
    BY <1>3 DEF Enqueue, SignalOneWorker, TypeOK, Busy
  <2> QED
    BY <2>1, <2>2, SizeType, BusyType
<1>4. ASSUME NEW w \in Workers,
             \/ Sleep(w) \/ Exit(w) \/ Read(w) \/ LockJob(w) \/ Publish(w)
             \/ WakeSpuriously(w)
      PROVE  InflightCounts'
  <2>1. UNCHANGED <<head, tail, cap, inflight>>
    BY <1>4 DEF Sleep, Exit, Read, LockJob, Publish, WakeSpuriously, poolVars
  <2>2. Busy' = Busy
    BY <1>4 DEF Sleep, Exit, Read, LockJob, Publish, WakeSpuriously, TypeOK, Busy
  <2> QED
    BY <2>1, <2>2 DEF Size
<1>5. ASSUME NEW j \in Jobs, Prepare(j) \/ StartWait(j)
      PROVE  InflightCounts'
  BY <1>5 DEF Prepare, StartWait, poolVars, workerVars, Size, Busy
<1>6. CASE WaitLock \/ WaitMore \/ WaitBlock \/ WaitReturn \/ WakeClientSpuriously \/ Join
  BY <1>6 DEF WaitLock, WaitMore, WaitBlock, WaitReturn, WakeClientSpuriously, Join,
              poolVars, workerVars, Size, Busy
<1>7. CASE Stop
  <2>1. UNCHANGED <<head, tail, cap, inflight>>
    BY <1>7 DEF Stop
  <2>2. Busy' = Busy
    BY <1>7 DEF Stop, TypeOK, Busy
  <2> QED
    BY <2>1, <2>2 DEF Size
<1>8. CASE UNCHANGED vars
  BY <1>8 DEF vars, Size, Busy
<1> QED
  BY <1>1, <1>2, <1>3, <1>4, <1>5, <1>6, <1>7, <1>8
     DEF Next, WorkerStep, ClientStep, ClientCall, Terminated

LEMMA NextShutdownInTurn ==
  ASSUME TypeOK, ShutdownInTurn, [Next]_vars
  PROVE  ShutdownInTurn'
<1> USE DEF ShutdownInTurn, Destroyed
<1>1. ASSUME NEW w \in Workers, Take(w)
      PROVE  ShutdownInTurn'
  BY <1>1 DEF Take, TypeOK, clientVars
<1>2. ASSUME NEW w \in Workers,
             Sleep(w) \/ Exit(w) \/ Read(w) \/ LockJob(w) \/ Retire(w) \/ WakeSpuriously(w)
      PROVE  ShutdownInTurn'
  BY <1>2 DEF Sleep, Exit, Read, LockJob, Retire, WakeSpuriously, TypeOK,
              poolVars, clientVars
<1>3. ASSUME NEW w \in Workers, Publish(w)
      PROVE  ShutdownInTurn'
  BY <1>3 DEF Publish, TypeOK, poolVars
<1>4. CASE Enqueue
  <2>1. ~stop /\ stop' = stop /\ cpc' = "idle"
    BY <1>4 DEF Enqueue
  <2>2. \A w \in Workers : wpc'[w] # "exited"
    BY <1>4, <2>1 DEF Enqueue, SignalOneWorker, TypeOK
  <2> QED
    BY <2>1, <2>2
<1>5. ASSUME NEW j \in Jobs, Prepare(j) \/ StartWait(j)
      PROVE  ShutdownInTurn'
  BY <1>5 DEF Prepare, StartWait, poolVars, workerVars
<1>6. CASE WaitLock \/ WaitMore \/ WaitBlock \/ WaitReturn \/ WakeClientSpuriously \/ Join
  BY <1>6 DEF WaitLock, WaitMore, WaitBlock, WaitReturn, WakeClientSpuriously, Join,
              poolVars, workerVars
<1>7. CASE Stop
  BY <1>7 DEF Stop, TypeOK
<1>8. CASE UNCHANGED vars
  BY <1>8 DEF vars
<1> QED
  BY <1>1, <1>2, <1>3, <1>4, <1>5, <1>6, <1>7, <1>8
     DEF Next, WorkerStep, ClientStep, ClientCall, Terminated

LEMMA DrainedWhenDestroyed == TypeOK /\ JobInv /\ DrainInv => DestroyDrains
<1> SUFFICES ASSUME TypeOK, JobInv, DrainInv, Destroyed
             PROVE  /\ head = tail /\ inflight = 0
                    /\ \A j \in live : done[j]
                    /\ \A w \in Workers : wpc[w] = "exited"
  BY DEF DestroyDrains
<1>1. \A w \in Workers : wpc[w] = "exited"
  BY DEF DrainInv, ShutdownInTurn
<1>2. head = tail
  BY <1>1, FiniteThreadsAndJobs DEF DrainInv, ShutdownInTurn
<1>3. Size = 0 /\ Occupied = {}
  BY <1>2 DEF TypeOK, Size, Occupied
<1>4. Busy = {}
  BY <1>1 DEF Busy
<1>5. inflight = 0
  BY <1>3, <1>4, FS_EmptySet DEF DrainInv, InflightCounts
<1>6. \A j \in Jobs : ~Queued(j) /\ ~Held(j)
  BY <1>1, <1>3 DEF Queued, Held, Holds, JobInv, WorkersHoldJobs
<1>7. \A j \in live : done[j]
  BY <1>6 DEF TypeOK, JobInv, PoolOwnsUnfinished
<1> QED
  BY <1>1, <1>2, <1>5, <1>7

\* For any pool: inflight counts the jobs submitted and not retired, and the
\* shutdown goes on in the order of io_pool_destroy.
THEOREM DrainInvariant == Spec => []DrainInv
<1>1. TypeOK /\ DrainInv /\ [Next]_vars => DrainInv'
  BY NextInflightCounts, NextShutdownInTurn DEF DrainInv
<1> QED
  BY <1>1, InitDrainInv, TypeCorrect, PTL DEF Spec

\* reader.h:43 for any pool: when io_pool_destroy has returned, every submitted
\* job has been executed, inflight is zero and every worker has left.
THEOREM DestroyLeavesNothing == Spec => []DestroyDrains
BY DrainInvariant, DrainedWhenDestroyed, JobsInvariant, TypeCorrect, PTL

-----------------------------------------------------------------------------
(* The pool implements JobQueue *)

\* What the refinement mapping takes for the running jobs and the outcomes.
Running == {j \in Jobs : Held(j)}
Outcome == [j \in Jobs |-> IF j \notin live THEN "idle"
                           ELSE IF done[j] THEN status[j] ELSE "pending"]

LEMMA QueueType ==
  ASSUME TypeOK, RingHoldsJobs
  PROVE  /\ RingAsQueue \in Seq(Jobs) /\ Len(RingAsQueue) = Size
         /\ \A k \in 1..Size : RingAsQueue[k] = slots[At(k - 1)]
<1>1. Size \in Nat
  BY SizeType
<1>2. \A k \in 1..Size : slots[At(k - 1)] \in Jobs
  <2>1. \A k \in 1..Size : k - 1 \in 0..(Size - 1)
    BY <1>1
  <2> QED
    BY <2>1 DEF RingHoldsJobs, Occupied
<1> QED
  BY <1>1, <1>2 DEF RingAsQueue

LEMMA QueueFrame ==
  ASSUME UNCHANGED <<slots, head, tail, cap>>
  PROVE  RingAsQueue' = RingAsQueue
BY DEF RingAsQueue, Size, At

LEMMA TakeQueue ==
  ASSUME TypeOK, TypeOK', RingHoldsJobs, RingHoldsJobs', NEW w \in Workers, Take(w)
  PROVE  /\ RingAsQueue # <<>>
         /\ Head(RingAsQueue) = slots[head]
         /\ RingAsQueue' = Tail(RingAsQueue)
<1>1. /\ Size \in Nat /\ Size > 0 /\ Size' = Size - 1
      /\ At(0) = head /\ slots' = slots
      /\ \A k \in 0..(Size - 2) : At(k)' = At(k + 1)
  BY DEF TypeOK, Take, Size, At, Succ
<1>2. /\ RingAsQueue \in Seq(Jobs) /\ Len(RingAsQueue) = Size
      /\ \A k \in 1..Size : RingAsQueue[k] = slots[At(k - 1)]
  BY QueueType
<1>3. /\ RingAsQueue' \in Seq(Jobs) /\ Len(RingAsQueue') = Size - 1
      /\ \A k \in 1..(Size - 1) : RingAsQueue'[k] = slots[At(k - 1)']
  <2>1. (TypeOK /\ RingHoldsJobs =>
           /\ RingAsQueue \in Seq(Jobs) /\ Len(RingAsQueue) = Size
           /\ \A k \in 1..Size : RingAsQueue[k] = slots[At(k - 1)])'
    BY QueueType, PTL
  <2> QED
    BY <1>1, <2>1
<1>4. RingAsQueue # <<>> /\ Head(RingAsQueue) = slots[head]
  BY <1>1, <1>2
<1>5. /\ Tail(RingAsQueue) \in Seq(Jobs) /\ Len(Tail(RingAsQueue)) = Size - 1
      /\ \A k \in 1..(Size - 1) : Tail(RingAsQueue)[k] = RingAsQueue[k + 1]
  BY <1>1, <1>2, <1>4
<1>6. \A k \in 1..(Size - 1) : RingAsQueue'[k] = Tail(RingAsQueue)[k]
  <2>1. SUFFICES ASSUME NEW k \in 1..(Size - 1)
                 PROVE  RingAsQueue'[k] = Tail(RingAsQueue)[k]
    OBVIOUS
  <2>2. At(k - 1)' = At(k) /\ k + 1 \in 1..Size /\ (k + 1) - 1 = k
    BY <1>1, <2>1
  <2>3. RingAsQueue[k + 1] = slots[At(k)]
    BY <1>2, <2>2
  <2> QED
    BY <1>3, <1>5, <2>1, <2>2, <2>3
<1> QED
  BY <1>3, <1>4, <1>5, <1>6, SeqEqual

LEMMA EnqueueQueue ==
  ASSUME TypeOK, TypeOK', RingHoldsJobs, RingHoldsJobs', cjob \in Jobs, PushInPlace \/ PushGrowing
  PROVE  RingAsQueue' = Append(RingAsQueue, cjob)
<1>1. Size \in Nat /\ Size' = Size + 1
  BY SizeType, EnqueueSize
<1>2. /\ RingAsQueue \in Seq(Jobs) /\ Len(RingAsQueue) = Size
      /\ \A k \in 1..Size : RingAsQueue[k] = slots[At(k - 1)]
  BY QueueType
<1>3. /\ RingAsQueue' \in Seq(Jobs) /\ Len(RingAsQueue') = Size + 1
      /\ \A k \in 1..(Size + 1) : RingAsQueue'[k] = slots'[At(k - 1)']
  <2>1. (TypeOK /\ RingHoldsJobs =>
           /\ RingAsQueue \in Seq(Jobs) /\ Len(RingAsQueue) = Size
           /\ \A k \in 1..Size : RingAsQueue[k] = slots[At(k - 1)])'
    BY QueueType, PTL
  <2> QED
    BY <1>1, <2>1
<1>4. /\ \A k \in 0..(Size - 1) : slots'[At(k)'] = slots[At(k)]
      /\ \A k \in Nat : k = Size => slots'[At(k)'] = cjob
  <2>1. CASE PushInPlace
    <3>1. \A k \in Nat : At(k)' = At(k)
      BY <2>1 DEF PushInPlace, At
    <3>2. \A k \in 0..(Size - 1) : At(k) \in 0..(cap - 1) /\ At(k) # tail
      BY AtType DEF InWindow, TypeOK
    <3>3. At(Size) = tail
      BY DEF TypeOK, Size, At
    <3>4. slots' = [slots EXCEPT ![tail] = cjob] /\ tail \in DOMAIN slots
      BY <2>1 DEF PushInPlace, TypeOK
    <3> QED
      BY <1>1, <3>1, <3>2, <3>3, <3>4 DEF TypeOK
  <2>2. CASE PushGrowing
    <3>1. \A k \in Nat : k <= Size => At(k)' = k
      BY <1>1, <2>2, SizeType DEF PushGrowing, TypeOK, At
    <3>2. /\ slots'[Size] = cjob
          /\ \A k \in 0..(Size - 1) : slots'[k] = slots[At(k)]
      BY <2>2, PushGrowingRing
    <3> QED
      BY <1>1, <3>1, <3>2
  <2> QED
    BY <2>1, <2>2
<1>5. /\ Append(RingAsQueue, cjob) \in Seq(Jobs)
      /\ Len(Append(RingAsQueue, cjob)) = Size + 1
      /\ \A k \in 1..Size : Append(RingAsQueue, cjob)[k] = RingAsQueue[k]
      /\ Append(RingAsQueue, cjob)[Size + 1] = cjob
  BY <1>1, <1>2
<1>6. \A k \in 1..(Size + 1) : RingAsQueue'[k] = Append(RingAsQueue, cjob)[k]
  <2>1. SUFFICES ASSUME NEW k \in 1..(Size + 1)
                 PROVE  RingAsQueue'[k] = Append(RingAsQueue, cjob)[k]
    OBVIOUS
  <2>2. CASE k = Size + 1
    <3>1. RingAsQueue'[k] = slots'[At(k - 1)'] /\ k - 1 \in Nat /\ k - 1 = Size
      BY <1>1, <1>3, <2>2
    <3> QED
      BY <1>4, <1>5, <2>2, <3>1
  <2>3. CASE k # Size + 1
    <3>1. k \in 1..Size /\ k - 1 \in 0..(Size - 1)
      BY <1>1, <2>1, <2>3
    <3> QED
      BY <1>2, <1>3, <1>4, <1>5, <2>1, <3>1
  <2> QED
    BY <2>2, <2>3
<1> QED
  BY <1>1, <1>3, <1>5, <1>6, SeqEqual

\* JobQueue brings its own copy of the operator of FiniteSets.
LEMMA SameCardinality ==
  ASSUME NEW S
  PROVE  Abstract!Cardinality(S) = Cardinality(S)
BY DEF Abstract!Cardinality, Cardinality

\* A worker that is about to take a job holds none, so fewer jobs are running
\* than there are workers: each running job is in the hands of another one.
LEMMA RoomForOne ==
  ASSUME TypeOK, JobInv, NEW w \in Workers, wpc[w] = "check"
  PROVE  Cardinality(Running) < Cardinality(Workers)
<1> DEFINE Holder == [j \in Running |-> CHOOSE v \in Workers : wjob[v] = j]
<1>1. wjob[w] \notin Jobs
  BY DEF JobInv, WorkersHoldJobs
<1>2. \A j \in Running : Holder[j] \in Workers \ {w} /\ wjob[Holder[j]] = j
  BY <1>1 DEF Running, Held, Holds
<1>3. Holder \in Injection(Running, Workers \ {w})
  <2>1. Holder \in [Running -> Workers \ {w}]
    BY <1>2
  <2>2. \A i, j \in Running : Holder[i] = Holder[j] => i = j
    BY <1>2
  <2> HIDE DEF Holder
  <2> QED
    BY <2>1, <2>2 DEF Injection, IsInjective
<1>4. IsFiniteSet(Workers \ {w}) /\ Cardinality(Workers \ {w}) = Cardinality(Workers) - 1
  BY FiniteThreadsAndJobs, FS_RemoveElement
<1>5. IsFiniteSet(Running) /\ Cardinality(Running) <= Cardinality(Workers \ {w})
  <2> HIDE DEF Holder
  <2> QED
    BY <1>3, <1>4, FS_Injection
<1> QED
  BY <1>4, <1>5, FiniteThreadsAndJobs, FS_CardinalityType

\* Taking the job at the head starts the oldest one queued.
LEMMA TakeStarts ==
  ASSUME TypeOK, TypeOK', JobInv, JobInv', NEW w \in Workers, Take(w)
  PROVE  Abstract!Start
<1>1. /\ RingAsQueue # <<>>
      /\ Head(RingAsQueue) = slots[head]
      /\ RingAsQueue' = Tail(RingAsQueue)
  BY TakeQueue DEF JobInv
<1>2. Cardinality(Running) < Cardinality(Workers)
  BY RoomForOne DEF Take
<1>3. slots[head] \in Jobs /\ wjob[w] \notin Jobs
  BY TakeRing DEF Take, JobInv, RingHoldsJobs, WorkersHoldJobs
<1>4. Running' = Running \cup {slots[head]}
  BY <1>3 DEF Running, Held, Holds, Take, TypeOK
<1>5. Outcome' = Outcome /\ Destroyed' = Destroyed
  BY DEF Take, Outcome, Destroyed, jobVars, clientVars
<1> QED
  BY <1>1, <1>2, <1>4, <1>5, SameCardinality DEF Abstract!Start, Running, Outcome

\* Publishing a job finishes it with the status the read gave it.
LEMMA PublishFinishes ==
  ASSUME TypeOK, TypeOK', JobInv, NEW w \in Workers, Publish(w)
  PROVE  \E j \in Jobs, s \in Statuses : Abstract!Finish(j, s)
<1> DEFINE job == wjob[w]
<1>1. job \in Jobs /\ job \in Running /\ job \in live
  BY DEF Publish, JobInv, WorkersHoldJobs, PoolOwnsUnfinished, Running, Held, Holds
<1>2. status[job] \in Statuses
  BY <1>1 DEF TypeOK
<1>3. Running' = Running \ {job}
  BY <1>1, ConstantsAreDistinct DEF Publish, Running, Held, Holds, JobInv, ExactlyOnce, TypeOK
<1>4. Outcome' = [Outcome EXCEPT ![job] = status[job]]
  <2>1. done \in [Jobs -> BOOLEAN] /\ status \in [Jobs -> Statuses]
    BY DEF TypeOK
  <2>2. done' = [done EXCEPT ![job] = TRUE] /\ status' = status
    BY DEF Publish
  <2> HIDE DEF job
  <2> QED
    <3>1. \A j \in Jobs : done'[j] = (IF j = job THEN TRUE ELSE done[j])
      BY <2>1, <2>2
    <3>2. live' = live /\ job \in Jobs /\ job \in live
      BY <1>1 DEF Publish, clientVars
    <3>3. \A j \in Jobs : Outcome'[j] = IF j = job THEN status[job] ELSE Outcome[j]
      BY <2>2, <3>1, <3>2 DEF Outcome
    <3>4. Outcome' = [j \in Jobs |-> Outcome'[j]] /\ Outcome = [j \in Jobs |-> Outcome[j]]
      BY DEF Outcome
    <3> HIDE DEF Outcome
    <3> QED
      BY <3>2, <3>3, <3>4
<1>5. RingAsQueue' = RingAsQueue
  BY QueueFrame DEF Publish, poolVars
<1>6. Destroyed' = Destroyed
  BY DEF Publish, Destroyed, poolVars
<1>7. Abstract!Finish(job, status[job])
  BY <1>1, <1>3, <1>4, <1>5, <1>6 DEF Abstract!Finish, Running, Outcome
<1> QED
  BY <1>1, <1>2, <1>7 DEF Abstract!Finish

\* The critical section of io_pool_submit puts the job last in the queue.
LEMMA EnqueueSubmits ==
  ASSUME TypeOK, TypeOK', JobInv, JobInv', DrainInv, Enqueue
  PROVE  \E j \in Jobs : Abstract!Submit(j)
<1>1. /\ cjob \in Jobs /\ cjob \notin live /\ ~done[cjob]
      /\ ~stop /\ ~stop'
  BY DEF Enqueue, TypeOK, JobInv, CallerInTurn, DrainInv, ShutdownInTurn
<1>2. RingAsQueue' = Append(RingAsQueue, cjob)
  BY <1>1, EnqueueQueue DEF JobInv, Enqueue
<1>3. Running' = Running
  BY DEF Enqueue, Running, Held, Holds
<1>4. Outcome' = [Outcome EXCEPT ![cjob] = "pending"] /\ Outcome[cjob] = "idle"
  BY <1>1 DEF Enqueue, Outcome, jobVars
<1>5. ~Destroyed /\ Destroyed' = Destroyed
  BY <1>1 DEF Destroyed
<1>6. Abstract!Submit(cjob)
  BY <1>2, <1>3, <1>4, <1>5
     DEF Abstract!Submit, Abstract!Idle, Abstract!Pending, Running, Outcome
<1> QED
  BY <1>1, <1>6 DEF Abstract!Submit

\* io_job_wait gives the job back to the caller.
LEMMA WaitReturnCollects ==
  ASSUME TypeOK, TypeOK', JobInv, WaitReturn
  PROVE  \E j \in Jobs : Abstract!Collect(j)
<1>1. cjob \in live /\ cjob \in Jobs /\ done[cjob] /\ status[cjob] \in Statuses
  BY DEF WaitReturn, TypeOK, JobInv, CallerInTurn
<1>2. Outcome' = [Outcome EXCEPT ![cjob] = "idle"] /\ Outcome[cjob] \in Statuses
  BY <1>1 DEF WaitReturn, Outcome
<1>3. RingAsQueue' = RingAsQueue /\ Running' = Running
  BY QueueFrame DEF WaitReturn, poolVars, workerVars, Running, Held, Holds
<1>4. Destroyed' = Destroyed
  BY DEF WaitReturn, Destroyed, poolVars
<1>5. Abstract!Collect(cjob)
  BY <1>2, <1>3, <1>4 DEF Abstract!Collect, Abstract!Idle, Running, Outcome
<1> QED
  BY <1>1, <1>5 DEF Abstract!Collect

\* io_pool_destroy returns: the pool closes with nothing queued or running.
LEMMA JoinCloses ==
  ASSUME TypeOK, TypeOK', JobInv, JobInv', DrainInv, Join
  PROVE  Abstract!Close
<1>1. head = tail /\ stop
  BY FiniteThreadsAndJobs DEF Join, DrainInv, ShutdownInTurn
<1>2. RingAsQueue = <<>>
  BY <1>1 DEF RingAsQueue, Size, TypeOK
<1>3. Running = {}
  BY DEF Join, Running, Held, Holds, JobInv, WorkersHoldJobs
<1>4. RingAsQueue' = RingAsQueue /\ Running' = Running /\ Outcome' = Outcome
  BY QueueFrame DEF Join, poolVars, jobVars, workerVars, Running, Held, Holds, Outcome
<1>5. ~Destroyed /\ Destroyed'
  BY <1>1 DEF Join, Destroyed, poolVars
<1> QED
  BY <1>2, <1>3, <1>4, <1>5 DEF Abstract!Close, Running, Outcome

\* A step that leaves the ring, the holders and what the caller may observe of
\* its jobs as they are is a stuttering step of the queue.
LEMMA OtherStepsStutter ==
  ASSUME UNCHANGED <<slots, head, tail, cap, wjob>>,
         Outcome' = Outcome, Destroyed' = Destroyed
  PROVE  UNCHANGED Abstract!vars
BY QueueFrame DEF Abstract!vars, Running, Outcome, Held, Holds

LEMMA InitRefines == Init => Abstract!Init
<1> SUFFICES ASSUME Init
             PROVE  Abstract!Init
  OBVIOUS
<1>1. RingAsQueue = <<>>
  BY DEF Init, RingAsQueue, Size
<1>2. Running = {} /\ Outcome = [j \in Jobs |-> "idle"] /\ ~Destroyed
  BY ConstantsAreDistinct DEF Init, Running, Held, Holds, Outcome, Destroyed
<1> QED
  BY <1>1, <1>2 DEF Abstract!Init, Abstract!Idle, Running, Outcome

LEMMA NextRefines ==
  ASSUME TypeOK, TypeOK', JobInv, JobInv', DrainInv, [Next]_vars
  PROVE  [Abstract!Next]_(Abstract!vars)
<1>1. ASSUME NEW w \in Workers, Take(w)
      PROVE  Abstract!Next
  BY <1>1, TakeStarts DEF Abstract!Next
<1>2. ASSUME NEW w \in Workers, Publish(w)
      PROVE  Abstract!Next
  BY <1>2, PublishFinishes DEF Abstract!Next
<1>3. CASE Enqueue
  BY <1>3, EnqueueSubmits DEF Abstract!Next
<1>4. CASE WaitReturn
  BY <1>4, WaitReturnCollects DEF Abstract!Next
<1>5. CASE Join
  BY <1>5, JoinCloses DEF Abstract!Next
<1>6. ASSUME NEW w \in Workers, Read(w)
      PROVE  UNCHANGED Abstract!vars
  <2>1. /\ wjob[w] \in live /\ ~done[wjob[w]] /\ wjob[w] \in Jobs
        /\ UNCHANGED <<slots, head, tail, cap, wjob, live, done, stop, cpc>>
        /\ \A j \in Jobs : j # wjob[w] => status'[j] = status[j]
    BY <1>6 DEF Read, JobInv, WorkersHoldJobs, PoolOwnsUnfinished, Held, Holds,
                poolVars, clientVars, TypeOK
  <2>2. Outcome' = Outcome /\ Destroyed' = Destroyed
    BY <2>1 DEF Outcome, Destroyed
  <2> QED
    BY <2>1, <2>2, OtherStepsStutter
<1>7. ASSUME NEW j \in Jobs, Prepare(j)
      PROVE  UNCHANGED Abstract!vars
  <2>1. /\ j \notin live
        /\ UNCHANGED <<slots, head, tail, cap, wjob, live, stop>>
        /\ \A i \in Jobs : i # j => status'[i] = status[i] /\ done'[i] = done[i]
    BY <1>7 DEF Prepare, poolVars, workerVars, TypeOK
  <2>2. Outcome' = Outcome
    BY <2>1 DEF Outcome
  <2>3. Destroyed' = Destroyed
    BY <1>7, <2>1 DEF Prepare, Destroyed
  <2> QED
    BY <2>1, <2>2, <2>3, OtherStepsStutter
<1>8. ASSUME NEW w \in Workers,
             Sleep(w) \/ Exit(w) \/ LockJob(w) \/ Retire(w) \/ WakeSpuriously(w)
      PROVE  UNCHANGED Abstract!vars
  <2>1. UNCHANGED <<slots, head, tail, cap, wjob, live, done, status, stop, cpc>>
    BY <1>8 DEF Sleep, Exit, LockJob, Retire, WakeSpuriously, poolVars, jobVars, clientVars
  <2> QED
    BY <2>1, OtherStepsStutter DEF Outcome, Destroyed
<1>9. ASSUME \/ \E j \in Jobs : StartWait(j)
             \/ WaitLock \/ WaitMore \/ WaitBlock \/ WakeClientSpuriously
      PROVE  UNCHANGED Abstract!vars
  <2>1. /\ UNCHANGED <<slots, head, tail, cap, wjob, live, done, status, stop>>
        /\ cpc # "join" /\ cpc' # "join"
    BY <1>9 DEF StartWait, WaitLock, WaitMore, WaitBlock, WakeClientSpuriously,
                poolVars, jobVars, workerVars
  <2> QED
    BY <2>1, OtherStepsStutter DEF Outcome, Destroyed
<1>10. CASE Stop
  <2>1. /\ UNCHANGED <<slots, head, tail, cap, wjob, live, done, status>>
        /\ ~stop /\ cpc' = "join"
    BY <1>10 DEF Stop, jobVars
  <2> QED
    BY <2>1, OtherStepsStutter DEF Outcome, Destroyed
<1>11. CASE UNCHANGED vars
  BY <1>11, OtherStepsStutter DEF vars, Outcome, Destroyed
<1> QED
  BY <1>1, <1>2, <1>3, <1>4, <1>5, <1>6, <1>7, <1>8, <1>9, <1>10, <1>11
     DEF Next, WorkerStep, ClientStep, ClientCall, Terminated

\* For any pool: what the ring, the worker threads, the locks and the condition
\* variables do together is what JobQueue does, one step of it or none at a time.
THEOREM ImplementsQueue == Spec => ImplementsJobQueue
<1>1. TypeOK /\ TypeOK' /\ JobInv /\ JobInv' /\ DrainInv /\ [Next]_vars
        => [Abstract!Next]_(Abstract!vars)
  BY NextRefines
<1> QED
  BY <1>1, InitRefines, TypeCorrect, JobsInvariant, DrainInvariant, PTL
     DEF Spec, ImplementsJobQueue, Abstract!Spec

-----------------------------------------------------------------------------
(* The caches *)

CachesInv == part = "cache" => Bytes!CacheInv /\ Bytes!HotInv

LEMMA InitCachesInv == AllInit => CachesInv
<1>1. Bytes!Parameters /\ Bytes!Init => Bytes!CacheInv
  BY Bytes!InitCacheInv
<1>2. Bytes!Init => Bytes!HotInv
  BY Bytes!InitHotInv
<1> QED
  BY <1>1, <1>2, ParametersFit DEF AllInit, CachesInv

LEMMA StepOfCaches == part = "cache" /\ [AllNext]_allVars => [Bytes!Next]_(Bytes!vars)
BY DEF AllNext, allVars, cacheVars, Bytes!vars

LEMMA NextCachesInv == CachesInv /\ [AllNext]_allVars => CachesInv'
<1> SUFFICES ASSUME CachesInv, [AllNext]_allVars
             PROVE  CachesInv'
  OBVIOUS
<1>1. part' = part
  BY DEF AllNext, allVars
<1>2. Bytes!Parameters /\ Bytes!CacheInv /\ [Bytes!Next]_(Bytes!vars) => Bytes!CacheInv'
  BY Bytes!NextCacheInv
<1>3. Bytes!Parameters /\ Bytes!CacheInv /\ Bytes!HotInv /\ [Bytes!Next]_(Bytes!vars)
        => Bytes!HotInv'
  BY Bytes!NextHotInv
<1> QED
  BY <1>1, <1>2, <1>3, StepOfCaches, ParametersFit DEF CachesInv

\* The invariant of the caches holds of the behaviours in which they run.
THEOREM CachesInvariant == AllSpec => []CachesInv
BY InitCachesInv, NextCachesInv, PTL DEF AllSpec

\* cache.c:214, expert_cache.py:152 for any cache: the counters are what the
\* entries add up to, and every field is in its range.
THEOREM CountersAlwaysExact == AllSpec => []CountersAreExact
<1>1. Bytes!Parameters /\ Bytes!CacheInv => Bytes!TypeOK
  BY Bytes!CacheTypes
<1>2. Bytes!Parameters /\ Bytes!CacheInv => Bytes!CountersAreExact
  BY Bytes!CountersAgree
<1>3. CachesInv => CountersAreExact
  BY <1>1, <1>2, ParametersFit DEF CachesInv, CountersAreExact
<1> QED
  BY <1>3, CachesInvariant, PTL

\* No cache is over its budget in any state.
THEOREM BudgetsHold == AllSpec => []WithinBudget
<1>1. Bytes!CacheInv => Bytes!WithinBudget
  BY Bytes!LimitsHold
<1>2. CachesInv => WithinBudget
  BY <1>1 DEF CachesInv, WithinBudget
<1> QED
  BY <1>2, CachesInvariant, PTL

\* cache.c:238: only pinned entries make a put give up.
THEOREM GivesUpOnlyForPins == AllSpec => RejectsOnlyForPins
<1>1. Bytes!Parameters /\ Bytes!CacheInv => Bytes!GivesUpForPins
  BY Bytes!PinsReject
<1>2. CachesInv /\ [AllNext]_allVars => [part = "cache" => Bytes!GivesUpForPins]_allVars
  BY <1>1, ParametersFit DEF CachesInv
<1> QED
  BY <1>2, CachesInvariant, PTL DEF AllSpec, RejectsOnlyForPins

\* A pinned entry leaves only when a put of its own key replaces it.
THEOREM PinnedAreKept == AllSpec => PinnedStay
<1>1. Bytes!Parameters /\ Bytes!CacheInv /\ [Bytes!Next]_(Bytes!vars) => Bytes!KeepsPinned
  BY Bytes!PinsHold
<1>2. CachesInv /\ [AllNext]_allVars => [part = "cache" => Bytes!KeepsPinned]_allVars
  BY <1>1, StepOfCaches, ParametersFit DEF CachesInv
<1> QED
  BY <1>2, CachesInvariant, PTL DEF AllSpec, PinnedStay

\* cache.c:104: entries of partitions over their share are evicted first.
THEOREM SharesAreKept == AllSpec => SharesAreFair
<1>1. Bytes!Parameters /\ Bytes!CacheInv /\ [Bytes!Next]_(Bytes!vars)
        => Bytes!EvictsFromOverShare
  BY Bytes!FairShares
<1>2. CachesInv /\ [AllNext]_allVars => [part = "cache" => Bytes!EvictsFromOverShare]_allVars
  BY <1>1, StepOfCaches, ParametersFit DEF CachesInv
<1> QED
  BY <1>2, CachesInvariant, PTL DEF AllSpec, SharesAreFair

\* cache.c:130 and _victim, for any caches but those of cache.c that mix hot and
\* cold entries under lfu or adaptive (CachesFit): the victim is the least valued
\* entry that may go, the longest untouched among equals.
THEOREM LeastValuedIsEvicted == AllSpec => EvictsTheLeastValued
<1>1. Bytes!Parameters /\ Bytes!CacheInv /\ Bytes!HotInv /\ Bytes!Orders(cache)
        /\ [Bytes!Next]_(Bytes!vars)
        => Bytes!EvictsLeast
  BY Bytes!LeastLeaves
<1>2. Bytes!CacheInv => Bytes!Orders(cache)
  <2>1. (\A c \in Caches : Bytes!Orders(c)) /\ Bytes!CacheInv => Bytes!Orders(cache)
    BY Bytes!CachesOrder
  <2> QED
    BY <2>1, CachesFit
<1>3. CachesInv /\ [AllNext]_allVars => [part = "cache" => Bytes!EvictsLeast]_allVars
  BY <1>1, <1>2, StepOfCaches, ParametersFit DEF CachesInv
<1> QED
  BY <1>3, CachesInvariant, PTL DEF AllSpec, EvictsTheLeastValued
=============================================================================
