--------------------------- MODULE MCLoadingProof ---------------------------
(***************************************************************************)
(* Proofs about ExpertsLoad for any experts, parts, shapes, threads and    *)
(* budgets: until a call fails the buffers of experts_load outlive the     *)
(* reads, no expert is cached before its rows have arrived, and            *)
(* moe_forward misses an expert only if the cache holds none.  The first   *)
(* two rest on what the pool holds between any two steps, the third on     *)
(* what a second load does.                                                *)
(*                                                                         *)
(* Proofs about PleStore for a table, shards, requests and a cache of any  *)
(* size: no row is read by two groups at a time (RowsReadOnce), none is    *)
(* both cached and in _futures (RowCachedOrPending), and the cache and the *)
(* counters keep their bounds (RowsTypeOK).  All follow from what is known *)
(* of a group read between two steps: the futures it has still to set are  *)
(* in _futures and pending, so no request takes their rows again.          *)
(*                                                                         *)
(* And what the runs of MCLoading check of its three components, for any   *)
(* threads, experts, rows, caches and calls.  Each component keeps its own *)
(* inductive invariant while it runs (ExpertStoreProof and the two below), *)
(* and no other component touches its variables.                           *)
(***************************************************************************)
EXTENDS MCLoading, SequenceTheorems, FiniteSetTheorems, TLAPS

\* The job at index i of the call that reads the experts of p.
JobOf(p, i) == <<p[(i \div Parts) + 1], (i % Parts) + 1>>
Indexes(p) == 0..(Len(p) * Parts - 1)

\* The indexes of the jobs that the call has submitted and not collected.
Outstanding == CASE pc = "submit" -> {i \in Indexes(pending) : i < k}
                 [] pc = "wait"   -> {i \in Indexes(pending) : i >= k}
                 [] OTHER         -> {}

\* A job is in one place of the pool, and pending while it is there.
PoolInv ==
  /\ \A i, j \in DOMAIN queue : queue[i] = queue[j] => i = j
  /\ \A i \in DOMAIN queue : queue[i] \notin running /\ outcome[queue[i]] = Pool!Pending
  /\ \A j \in running : outcome[j] = Pool!Pending

\* The pool knows only jobs of the call under way, whose buffers are allocated
\* from the first to the last of them; a failed call claims nothing.
CallInv ==
  /\ IsInjective(pending)
  /\ pc = "wait" => k < NumJobs
  /\ pc \in {"submit", "wait"} => alloc /\ pending # <<>>
  /\ pc \in {"idle", "use", "vanished", "quit"} => ~alloc
  /\ pc # "failed" => \A j \in Jobs : outcome[j] # Pool!Idle
                                       => \E i \in Outstanding : j = JobOf(pending, i)

\* A job that ended well has filled its slice, and so has every collected one.
ReadInv ==
  /\ \A j \in Jobs : outcome[j] = Zero => raw[j]
  /\ pc = "wait" => \A i \in Indexes(pending) : i < k => raw[JobOf(pending, i)]
  /\ CachedWereRead

\* A second load is of the expert that is missing, and leaves it in the cache.
AgainInv ==
  /\ pc = "idle" => ~again
  /\ again => u <= Len(unique)
  /\ again /\ pc \in {"submit", "wait"} => pending = <<unique[u]>>
  /\ again /\ pc = "use" => budget = 0 \/ unique[u] \in cached
  /\ VanishesOnlyIfNothingFits

LoadInv == TypeOK /\ PoolInv /\ CallInv /\ ReadInv /\ AgainInv

-----------------------------------------------------------------------------
(* The jobs of a call *)

LEMMA DivisionIsUnique ==
  ASSUME NEW n \in Nat, NEW q \in Nat, NEW r \in 0..(Parts - 1), n = Parts * q + r
  PROVE  n \div Parts = q /\ n % Parts = r
<1> DEFINE p == n \div Parts
           s == n % Parts
<1>1. /\ p \in Nat /\ s \in 0..(Parts - 1) /\ n = Parts * p + s
      /\ Parts \in Nat \ {0}
  BY CountsArePositive
<1> HIDE DEF p, s
<1>2. CASE p < q
  <2>1. Parts * q >= Parts * p + Parts
    BY <1>1, <1>2
  <2> QED
    BY <1>1, <2>1
<1>3. CASE q < p
  <2>1. Parts * p >= Parts * q + Parts
    BY <1>1, <1>3
  <2> QED
    BY <1>1, <2>1
<1>4. p = q /\ s = r
  BY <1>1, <1>2, <1>3
<1> QED
  BY <1>4 DEF p, s

LEMMA Division ==
  \A n, q \in Nat : \A r \in 0..(Parts - 1) :
    n = Parts * q + r => n \div Parts = q /\ n % Parts = r
BY DivisionIsUnique

LEMMA JobOfType ==
  ASSUME NEW p \in Seq(Experts), NEW i \in Indexes(p)
  PROVE  /\ i \div Parts \in 0..(Len(p) - 1)
         /\ i % Parts \in 0..(Parts - 1)
         /\ i = Parts * (i \div Parts) + (i % Parts)
         /\ JobOf(p, i) \in Jobs
<1>1. /\ i \in Nat
      /\ i < Len(p) * Parts
      /\ Len(p) \in Nat
      /\ Parts \in Nat \ {0}
  BY CountsArePositive DEF Indexes
<1>2. /\ i \div Parts \in Nat
      /\ i % Parts \in 0..(Parts - 1)
      /\ i = Parts * (i \div Parts) + (i % Parts)
  BY <1>1
<1>3. i \div Parts < Len(p)
  <2>1. SUFFICES ASSUME i \div Parts >= Len(p)
                 PROVE  FALSE
    BY <1>1, <1>2
  <2>2. Parts * (i \div Parts) >= Parts * Len(p)
    BY <1>1, <1>2, <2>1
  <2> QED
    BY <1>1, <1>2, <2>2
<1>4. p[(i \div Parts) + 1] \in Experts
  BY <1>1, <1>2, <1>3
<1> QED
  BY <1>1, <1>2, <1>3, <1>4 DEF JobOf, Jobs

LEMMA JobOfInjective ==
  ASSUME NEW p \in Seq(Experts), IsInjective(p),
         NEW i \in Indexes(p), NEW j \in Indexes(p), JobOf(p, i) = JobOf(p, j)
  PROVE  i = j
<1>1. /\ i \div Parts \in 0..(Len(p) - 1) /\ j \div Parts \in 0..(Len(p) - 1)
      /\ i = Parts * (i \div Parts) + (i % Parts)
      /\ j = Parts * (j \div Parts) + (j % Parts)
      /\ i % Parts \in 0..(Parts - 1) /\ j % Parts \in 0..(Parts - 1)
  BY JobOfType
<1>2. i % Parts = j % Parts
  BY <1>1 DEF JobOf
<1>3. i \div Parts = j \div Parts
  BY <1>1 DEF JobOf, IsInjective
<1> QED
  BY <1>1, <1>2, <1>3

\* When the last part of an expert has been waited for, so have all its parts.
LEMMA LastPart ==
  ASSUME NEW p \in Seq(Experts), NEW i \in Indexes(p), (i + 1) % Parts = 0,
         NEW q \in 1..Parts
  PROVE  \E h \in Indexes(p) : h <= i /\ JobOf(p, h) = <<JobOf(p, i)[1], q>>
<1> DEFINE h == Parts * (i \div Parts) + (q - 1)
<1>1. /\ i \in Nat /\ Parts \in Nat \ {0} /\ i \div Parts \in Nat
      /\ i % Parts \in 0..(Parts - 1)
      /\ i = Parts * (i \div Parts) + (i % Parts)
  <2>1. i \in Nat /\ Parts \in Nat \ {0}
    BY CountsArePositive DEF Indexes
  <2> QED
    BY <2>1, JobOfType
<1>2. i % Parts = Parts - 1
  <2>1. CASE (i % Parts) + 1 < Parts
    <3>1. i + 1 = Parts * (i \div Parts) + ((i % Parts) + 1)
      BY <1>1
    <3>2. (i + 1) % Parts = (i % Parts) + 1
      <4>1. i + 1 \in Nat /\ (i % Parts) + 1 \in 0..(Parts - 1)
        BY <1>1, <2>1
      <4> HIDE DEF h
      <4> QED
        BY <1>1, <3>1, <4>1, Division
    <3> QED
      BY <1>1, <3>2
  <2> QED
    BY <1>1, <2>1
<1>3. h \in Nat /\ h <= i
  BY <1>1, <1>2
<1>4. h \div Parts = i \div Parts /\ h % Parts = q - 1
  <2>1. q - 1 \in 0..(Parts - 1) /\ h = Parts * (i \div Parts) + (q - 1)
    BY <1>1
  <2> HIDE DEF h
  <2> QED
    <3>1. \A r \in 0..(Parts - 1) : h = Parts * (i \div Parts) + r
                                    => h \div Parts = i \div Parts /\ h % Parts = r
      BY <1>1, <1>3, Division
    <3> QED
      BY <2>1, <3>1
<1>5. h \in Indexes(p)
  BY <1>1, <1>3 DEF Indexes
<1> QED
  BY <1>3, <1>4, <1>5 DEF JobOf

-----------------------------------------------------------------------------
(* The pool *)

LEMMA PoolStep ==
  Pool!TypeOK /\ PoolInv /\ [Pool!Next]_(Pool!vars) => Pool!TypeOK' /\ PoolInv'
<1> SUFFICES ASSUME Pool!TypeOK, PoolInv, [Pool!Next]_(Pool!vars)
             PROVE  Pool!TypeOK' /\ PoolInv'
  OBVIOUS
<1> USE DEF Pool!TypeOK, PoolInv
<1>1. ASSUME NEW j \in Jobs, Pool!Submit(j)
      PROVE  Pool!TypeOK' /\ PoolInv'
  <2>1. /\ queue' = Append(queue, j) /\ running' = running /\ closed' = closed
        /\ outcome' = [outcome EXCEPT ![j] = Pool!Pending]
        /\ outcome[j] = Pool!Idle
    BY <1>1 DEF Pool!Submit
  <2>2. /\ \A i \in DOMAIN queue : queue[i] # j
        /\ j \notin running
    BY <2>1 DEF Pool!Idle, Pool!Pending
  <2>3. /\ DOMAIN queue' = 1..(Len(queue) + 1)
        /\ \A i \in DOMAIN queue' : queue'[i] = IF i = Len(queue) + 1 THEN j ELSE queue[i]
        /\ \A i \in DOMAIN queue' : i # Len(queue) + 1 => i \in DOMAIN queue
    BY <2>1
  <2>4. Pool!TypeOK'
    BY <2>1
  <2>5. /\ \A i \in DOMAIN queue' : queue'[i] \notin running' /\ outcome'[queue'[i]] = Pool!Pending
        /\ \A i \in running' : outcome'[i] = Pool!Pending
    BY <2>1, <2>2, <2>3
  <2>6. \A i, l \in DOMAIN queue' : queue'[i] = queue'[l] => i = l
    BY <2>2, <2>3
  <2> QED
    BY <2>4, <2>5, <2>6
<1>2. ASSUME NEW j \in Jobs, Pool!Collect(j)
      PROVE  Pool!TypeOK' /\ PoolInv'
  <2>1. /\ UNCHANGED <<queue, running, closed>>
        /\ outcome' = [outcome EXCEPT ![j] = Pool!Idle]
        /\ outcome[j] # Pool!Pending
    BY <1>2, StatusesAreResults DEF Pool!Collect
  <2> QED
    BY <2>1
<1>3. ASSUME NEW j \in Jobs, NEW s \in Statuses, Pool!Finish(j, s)
      PROVE  Pool!TypeOK' /\ PoolInv'
  <2>1. /\ UNCHANGED <<queue, closed>>
        /\ running' = running \ {j} /\ j \in running
        /\ outcome' = [outcome EXCEPT ![j] = s]
    BY <1>3 DEF Pool!Finish
  <2> QED
    BY <2>1
<1>4. CASE Pool!Start
  <2>1. /\ UNCHANGED <<outcome, closed>>
        /\ queue # <<>>
        /\ running' = running \cup {Head(queue)}
        /\ queue' = Tail(queue)
    BY <1>4 DEF Pool!Start
  <2>2. /\ queue' \in Seq(Jobs)
        /\ DOMAIN queue' = 1..(Len(queue) - 1)
        /\ \A i \in DOMAIN queue' : i + 1 \in DOMAIN queue /\ queue'[i] = queue[i + 1]
        /\ Head(queue) = queue[1] /\ 1 \in DOMAIN queue
    BY <2>1
  <2>3. Pool!TypeOK'
    BY <2>1, <2>2
  <2>4. \A i \in DOMAIN queue' : queue'[i] # Head(queue)
    BY <2>2
  <2> QED
    BY <2>1, <2>2, <2>3, <2>4
<1>5. CASE Pool!Close
  BY <1>5 DEF Pool!Close
<1>6. CASE UNCHANGED Pool!vars
  BY <1>6 DEF Pool!vars
<1> QED
  BY <1>1, <1>2, <1>3, <1>4, <1>5, <1>6 DEF Pool!Next

\* When every outcome has been collected nothing is left in the pool.
LEMMA PoolIsEmpty ==
  ASSUME Pool!TypeOK, PoolInv, \A j \in Jobs : outcome[j] = Pool!Idle
  PROVE  queue = <<>> /\ running = {}
BY EmptySeq DEF Pool!TypeOK, PoolInv, Pool!Idle, Pool!Pending

-----------------------------------------------------------------------------
(* What a call begins with, and type correctness *)

LEMMA MissingType ==
  ASSUME NEW ids, NEW s \in Missing(ids)
  PROVE  /\ s \in Seq(Experts) /\ IsInjective(s)
         /\ Range(s) = Range(ids) \ cached
<1>1. s \in DistinctSeqs /\ Range(s) = Range(ids) \ cached
  BY DEF Missing, Without
<1>2. PICK n \in 0..Cardinality(Experts) : s \in [1..n -> Experts] /\ IsInjective(s)
  BY <1>1 DEF DistinctSeqs
<1>3. Cardinality(Experts) \in Nat
  BY FiniteExperts, FS_CardinalityType
<1> QED
  BY <1>1, <1>2, <1>3

LEMMA BeginLoadType ==
  ASSUME TypeOK, NEW ids, BeginLoad(ids)
  PROVE  /\ pending' \in Seq(Experts) /\ IsInjective(pending')
         /\ Range(pending') = Range(ids) \ cached
         /\ k' = 0 /\ k' \in 0..NumJobs'
         /\ raw' \in [Jobs -> BOOLEAN] /\ alloc' \in BOOLEAN
         /\ pc' \in {"use", "submit"}
<1>1. pending' \in Missing(ids) /\ k' = 0
  BY DEF BeginLoad
<1>2. /\ pending' \in Seq(Experts) /\ IsInjective(pending')
      /\ Range(pending') = Range(ids) \ cached
  BY <1>1, MissingType
<1>3. NumJobs' \in Nat
  BY <1>2, CountsArePositive DEF NumJobs
<1>4. raw' \in [Jobs -> BOOLEAN] /\ alloc' \in BOOLEAN /\ pc' \in {"use", "submit"}
  BY DEF BeginLoad, TypeOK
<1> QED
  BY <1>1, <1>2, <1>3, <1>4

LEMMA JobAtType ==
  ASSUME TypeOK, k < NumJobs
  PROVE  /\ k \in Indexes(pending)
         /\ JobAt(k) = JobOf(pending, k)
         /\ JobAt(k) \in Jobs
         /\ k + 1 \in 0..NumJobs
<1>1. k \in 0..NumJobs /\ NumJobs \in Nat /\ pending \in Seq(Experts)
  BY CountsArePositive DEF TypeOK, NumJobs
<1>2. k \in Indexes(pending)
  BY <1>1 DEF Indexes, NumJobs
<1> QED
  BY <1>1, <1>2, JobOfType DEF JobAt, JobOf

LEMMA UsesPool == LoadInv /\ [Next]_vars => [Pool!Next]_(Pool!vars)
<1> SUFFICES ASSUME LoadInv, [Next]_vars
             PROVE  [Pool!Next]_(Pool!vars)
  OBVIOUS
<1>1. TypeOK
  BY DEF LoadInv
<1>2. CASE SubmitOne
  <2>1. Pool!Submit(JobAt(k)) /\ JobAt(k) \in Jobs
    BY <1>1, <1>2, JobAtType DEF SubmitOne
  <2> QED
    BY <2>1 DEF Pool!Next
<1>3. CASE Waited \/ WaitFailed
  <2>1. Pool!Collect(JobAt(k)) /\ pc = "wait"
    BY <1>3 DEF Waited, WaitFailed
  <2>2. JobAt(k) \in Jobs
    BY <1>1, <2>1, JobAtType DEF LoadInv, CallInv
  <2> QED
    BY <2>1, <2>2 DEF Pool!Next
<1>4. CASE StartJob \/ Quit
  BY <1>4 DEF StartJob, Quit, Pool!Next
<1>5. ASSUME NEW j \in Jobs, FinishJob(j)
      PROVE  Pool!Next
  BY <1>5 DEF FinishJob, Pool!Next
<1>6. CASE \/ \E ids \in DistinctSeqs : Forward(ids) \/ ForwardFails(ids)
           \/ SubmitFails \/ SubmittedAll \/ Use \/ LoadAgain \/ Vanished \/ Return
           \/ UNCHANGED vars
  BY <1>6 DEF Forward, ForwardFails, SubmitFails, SubmittedAll, Use, LoadAgain, Vanished, Return,
              vars, poolVars, Pool!vars
<1> QED
  BY <1>2, <1>3, <1>4, <1>5, <1>6 DEF Next, CallerStep

LEMMA PutType == ASSUME NEW e \in Experts, cached \in SUBSET Experts, Put(e)
                 PROVE  /\ cached' \in SUBSET Experts
                        /\ cached' \subseteq cached \cup {e}
                        /\ budget # 0 => e \in cached'
BY DEF Put

LEMMA NextTypeOK == LoadInv /\ [Next]_vars => TypeOK'
<1> SUFFICES ASSUME LoadInv, [Next]_vars
             PROVE  TypeOK'
  OBVIOUS
<1>1. TypeOK /\ Pool!TypeOK'
  BY UsesPool, PoolStep DEF LoadInv, TypeOK
<1> USE DEF TypeOK
<1>2. ASSUME NEW ids \in DistinctSeqs, Forward(ids)
      PROVE  TypeOK'
  <2>1. /\ unique' = ids /\ u' = 1 /\ again' = FALSE /\ BeginLoad(ids)
        /\ UNCHANGED <<shape, budget, cached, read>>
    BY <1>2 DEF Forward
  <2>2. ids \in Seq(Experts)
    BY FiniteExperts, FS_CardinalityType DEF DistinctSeqs
  <2>3. u' \in 1..(Len(unique') + 1)
    BY <2>1, <2>2
  <2> QED
    BY <1>1, <2>1, <2>2, <2>3, BeginLoadType DEF Phases
<1>3. CASE LoadAgain
  <2>1. /\ again' = TRUE /\ BeginLoad(<<unique[u]>>)
        /\ UNCHANGED <<shape, budget, cached, read, unique, u>>
    BY <1>3 DEF LoadAgain
  <2> QED
    BY <1>1, <2>1, BeginLoadType DEF Phases
<1>4. CASE SubmitOne
  BY <1>1, <1>4, JobAtType DEF SubmitOne, callVars, NumJobs
<1>5. CASE SubmittedAll
  <2>1. NumJobs \in Nat
    BY <1>1, CountsArePositive DEF NumJobs
  <2> QED
    BY <1>1, <1>5, <2>1 DEF SubmittedAll, callVars, NumJobs, Phases
<1>6. CASE Waited
  <2>1. k + 1 \in 0..NumJobs /\ JobAt(k)[1] \in Experts
    BY <1>1, <1>6, JobAtType DEF Waited, LoadInv, CallInv, Jobs
  <2>2. /\ k' = k + 1
        /\ UNCHANGED <<raw, shape, budget, callVars, pending>>
        /\ pc' \in {"use", pc} /\ alloc' \in {alloc, FALSE}
    BY <1>6 DEF Waited
  <2>3. cached' \in SUBSET Experts /\ read' \in [Experts -> BOOLEAN]
    <3>1. CASE (k + 1) % Parts = 0
      <4>1. /\ Put(JobAt(k)[1])
            /\ read' = [read EXCEPT ![JobAt(k)[1]] = \A p \in 1..Parts : raw[<<JobAt(k)[1], p>>]]
        BY <1>6, <3>1 DEF Waited
      <4>2. (\A p \in 1..Parts : raw[<<JobAt(k)[1], p>>]) \in BOOLEAN
        OBVIOUS
      <4> QED
        BY <1>1, <2>1, <4>1, <4>2, PutType
    <3>2. CASE (k + 1) % Parts # 0
      BY <1>1, <1>6, <3>2 DEF Waited
    <3> QED
      BY <3>1, <3>2
  <2> QED
    BY <1>1, <2>1, <2>2, <2>3 DEF callVars, NumJobs, Phases
<1>7. CASE \/ \E ids \in DistinctSeqs : ForwardFails(ids)
           \/ SubmitFails \/ WaitFailed \/ Vanished \/ Quit \/ StartJob
  BY <1>1, <1>7 DEF ForwardFails, SubmitFails, WaitFailed, Vanished, Quit, StartJob, callVars,
                    NumJobs, Phases
<1>8. CASE Use
  <2>1. /\ u' = u + 1 /\ u <= Len(unique) /\ again' = FALSE
        /\ UNCHANGED <<raw, alloc, shape, budget, cached, read, unique, pending, k, pc>>
    BY <1>8 DEF Use
  <2>2. u' \in 1..(Len(unique') + 1)
    BY <1>1, <2>1
  <2> QED
    BY <1>1, <2>1, <2>2 DEF NumJobs
<1>9. CASE Return
  <2>1. NumJobs' = 0
    BY <1>9, CountsArePositive DEF Return, NumJobs
  <2> QED
    BY <1>1, <1>9, <2>1 DEF Return, Phases
<1>10. ASSUME NEW j \in Jobs, FinishJob(j)
       PROVE  TypeOK'
  BY <1>1, <1>10 DEF FinishJob, callVars, NumJobs
<1>11. CASE UNCHANGED vars
  BY <1>1, <1>11 DEF vars, NumJobs
<1> QED
  BY <1>2, <1>3, <1>4, <1>5, <1>6, <1>7, <1>8, <1>9, <1>10, <1>11 DEF Next, CallerStep

-----------------------------------------------------------------------------
(* The jobs of the call under way *)

LEMMA NextCallInv == LoadInv /\ [Next]_vars => CallInv'
<1> SUFFICES ASSUME LoadInv, [Next]_vars
             PROVE  CallInv'
  OBVIOUS
<1>1. /\ TypeOK /\ Pool!TypeOK /\ PoolInv /\ CallInv
      /\ pending \in Seq(Experts) /\ k \in 0..NumJobs /\ NumJobs \in Nat
      /\ NumJobs = Len(pending) * Parts
      /\ outcome \in [Jobs -> {Pool!Idle, Pool!Pending} \cup Statuses]
  BY CountsArePositive DEF LoadInv, TypeOK, Pool!TypeOK, NumJobs
<1>2. pc \in {"idle", "use", "vanished", "quit"} => \A j \in Jobs : outcome[j] = Pool!Idle
  BY <1>1 DEF CallInv, Outstanding
<1>3. ASSUME NEW ids, BeginLoad(ids), pc \in {"idle", "use"}, UNCHANGED poolVars
      PROVE  CallInv'
  <2>1. IsInjective(pending')
    BY <1>1, <1>3, BeginLoadType
  <2>2. pc' = "submit" => alloc' /\ pending' # <<>>
    BY <1>3 DEF BeginLoad
  <2>3. pc' \in {"use", "submit"}
    BY <1>1, <1>3, BeginLoadType
  <2>4. \A j \in Jobs : outcome'[j] = Pool!Idle
    BY <1>2, <1>3 DEF poolVars
  <2>5. pc' = "use" => ~alloc'
    BY <1>1, <1>3 DEF BeginLoad, CallInv
  <2> QED
    BY <2>1, <2>2, <2>3, <2>4, <2>5 DEF CallInv
<1>4. CASE \/ \E ids \in DistinctSeqs : Forward(ids)
           \/ LoadAgain
  BY <1>3, <1>4 DEF Forward, LoadAgain
<1>5. CASE SubmitOne
  <2>1. /\ pc = "submit" /\ k < NumJobs /\ k' = k + 1
        /\ UNCHANGED <<alloc, pending, pc>>
        /\ outcome' = [outcome EXCEPT ![JobAt(k)] = Pool!Pending]
    BY <1>5 DEF SubmitOne, Pool!Submit
  <2>2. k \in Indexes(pending) /\ JobAt(k) = JobOf(pending, k)
    BY <1>1, <2>1, JobAtType
  <2>3. Outstanding' = Outstanding \cup {k}
    BY <1>1, <2>1, <2>2 DEF Outstanding, Indexes
  <2>4. \A j \in Jobs : outcome'[j] # Pool!Idle => \E i \in Outstanding' : j = JobOf(pending', i)
    BY <1>1, <2>1, <2>2, <2>3 DEF CallInv, JobOf
  <2> QED
    BY <1>1, <2>1, <2>4 DEF CallInv
<1>6. CASE SubmittedAll
  <2>1. /\ pc = "submit" /\ k = NumJobs /\ pc' = "wait" /\ k' = 0
        /\ UNCHANGED <<outcome, alloc, pending>>
    BY <1>6 DEF SubmittedAll, poolVars
  <2>2. Outstanding = Indexes(pending) /\ Outstanding' = Indexes(pending)
    BY <1>1, <2>1 DEF Outstanding, Indexes
  <2>3. NumJobs' = NumJobs /\ NumJobs > 0
    <3>1. Len(pending) \in Nat /\ Len(pending) > 0
      BY <1>1, <2>1, EmptySeq DEF CallInv
    <3> QED
      BY <1>1, <2>1, <3>1, CountsArePositive DEF NumJobs
  <2>4. \A j \in Jobs : outcome'[j] # Pool!Idle => \E i \in Outstanding' : j = JobOf(pending', i)
    BY <1>1, <2>1, <2>2 DEF CallInv, JobOf
  <2> QED
    BY <1>1, <2>1, <2>3, <2>4 DEF CallInv
<1>7. CASE Waited
  <2>1. /\ pc = "wait" /\ k < NumJobs /\ k' = k + 1
        /\ UNCHANGED pending
        /\ outcome' = [outcome EXCEPT ![JobAt(k)] = Pool!Idle]
    BY <1>1, <1>7 DEF Waited, Pool!Collect, CallInv
  <2>2. /\ k \in Indexes(pending) /\ JobAt(k) = JobOf(pending, k)
        /\ JobAt(k) \in Jobs
    BY <1>1, <2>1, JobAtType
  <2>3. \A j \in Jobs : outcome'[j] # Pool!Idle
                          => \E i \in Indexes(pending) : i > k /\ j = JobOf(pending, i)
    <3>1. SUFFICES ASSUME NEW j \in Jobs, outcome'[j] # Pool!Idle
                   PROVE  \E i \in Indexes(pending) : i > k /\ j = JobOf(pending, i)
      OBVIOUS
    <3>2. outcome[j] # Pool!Idle /\ j # JobAt(k)
      BY <1>1, <2>1, <2>2, <3>1
    <3>3. PICK i \in Indexes(pending) : i >= k /\ j = JobOf(pending, i)
      BY <1>1, <2>1, <3>2 DEF CallInv, Outstanding
    <3>4. i # k
      BY <2>2, <3>2, <3>3
    <3> QED
      BY <1>1, <3>3, <3>4 DEF Indexes
  <2>4. CASE k + 1 = NumJobs
    <3>1. pc' = "use" /\ alloc' = FALSE
      BY <1>7, <2>4 DEF Waited
    <3>2. \A j \in Jobs : outcome'[j] = Pool!Idle
      BY <1>1, <2>3, <2>4 DEF Indexes
    <3> QED
      BY <1>1, <2>1, <3>1, <3>2 DEF CallInv
  <2>5. CASE k + 1 # NumJobs
    <3>1. UNCHANGED <<pc, alloc>>
      BY <1>7, <2>5 DEF Waited
    <3>2. Outstanding' = {i \in Indexes(pending) : i > k}
      BY <1>1, <2>1, <3>1 DEF Outstanding, Indexes
    <3>3. k' < NumJobs'
      BY <1>1, <2>1, <2>5 DEF NumJobs
    <3>4. \A j \in Jobs : outcome'[j] # Pool!Idle => \E i \in Outstanding' : j = JobOf(pending', i)
      BY <2>1, <2>3, <3>2 DEF JobOf
    <3> QED
      BY <1>1, <2>1, <3>1, <3>3, <3>4 DEF CallInv
  <2> QED
    BY <2>4, <2>5
<1>8. CASE \/ \E ids \in DistinctSeqs : ForwardFails(ids)
           \/ SubmitFails \/ WaitFailed
  BY <1>1, <1>8 DEF ForwardFails, SubmitFails, WaitFailed, CallInv
<1>9. CASE Use \/ Vanished \/ Return \/ Quit
  <2>1. pc \in {"idle", "use"} /\ pc' \in {"use", "vanished", "idle", "quit"}
    BY <1>9 DEF Use, Vanished, Return, Quit
  <2>2. UNCHANGED <<outcome, alloc>> /\ pending' \in {pending, <<>>}
    BY <1>9 DEF Use, Vanished, Return, Quit, Pool!Close, poolVars
  <2>3. IsInjective(pending')
    BY <1>1, <2>2 DEF CallInv, IsInjective
  <2>4. ~alloc
    BY <1>1, <2>1 DEF CallInv
  <2> QED
    BY <1>2, <2>1, <2>2, <2>3, <2>4 DEF CallInv
<1>10. CASE StartJob \/ UNCHANGED vars
  <2>1. UNCHANGED <<outcome, alloc, pending, k, pc>>
    BY <1>10 DEF StartJob, Pool!Start, vars
  <2>2. UNCHANGED <<Outstanding, NumJobs>>
    BY <2>1 DEF Outstanding, NumJobs, Indexes
  <2>3. \A i : JobOf(pending', i) = JobOf(pending, i)
    BY <2>1
  <2> QED
    BY <1>1, <2>1, <2>2, <2>3 DEF CallInv
<1>11. ASSUME NEW j \in Jobs, FinishJob(j)
       PROVE  CallInv'
  <2>1. UNCHANGED <<alloc, pending, k, pc>>
    BY <1>11 DEF FinishJob
  <2>2. outcome[j] # Pool!Idle /\ \A i \in Jobs : i # j => outcome'[i] = outcome[i]
    BY <1>1, <1>11 DEF FinishJob, Pool!Finish, PoolInv, Pool!Idle, Pool!Pending
  <2>3. UNCHANGED <<Outstanding, NumJobs>>
    BY <2>1 DEF Outstanding, NumJobs, Indexes
  <2>4. \A i : JobOf(pending', i) = JobOf(pending, i)
    BY <2>1
  <2> QED
    BY <1>1, <2>1, <2>2, <2>3, <2>4 DEF CallInv
<1> QED
  BY <1>4, <1>5, <1>6, <1>7, <1>8, <1>9, <1>10, <1>11 DEF Next, CallerStep

-----------------------------------------------------------------------------
(* What has been read from disk *)

LEMMA NextReadInv == LoadInv /\ [Next]_vars => ReadInv'
<1> SUFFICES ASSUME LoadInv, [Next]_vars
             PROVE  ReadInv'
  OBVIOUS
<1>1. /\ TypeOK /\ PoolInv /\ CallInv /\ ReadInv
      /\ pending \in Seq(Experts) /\ k \in 0..NumJobs /\ NumJobs \in Nat
      /\ NumJobs = Len(pending) * Parts
      /\ outcome \in [Jobs -> {Pool!Idle, Pool!Pending} \cup Statuses]
      /\ raw \in [Jobs -> BOOLEAN] /\ read \in [Experts -> BOOLEAN]
      /\ cached \in SUBSET Experts
      /\ Zero \notin {Pool!Idle, Pool!Pending}
  BY CountsArePositive, ZeroIsAStatus, StatusesAreResults
     DEF LoadInv, TypeOK, Pool!TypeOK, NumJobs
<1>2. pc \in {"idle", "use"} => \A j \in Jobs : outcome[j] # Zero
  BY <1>1 DEF CallInv, Outstanding
<1>3. ASSUME NEW ids, BeginLoad(ids), pc \in {"idle", "use"}, UNCHANGED <<poolVars, cached, read>>
      PROVE  ReadInv'
  <2>1. pc' # "wait"
    BY <1>1, <1>3, BeginLoadType
  <2>2. \A j \in Jobs : outcome'[j] # Zero
    BY <1>2, <1>3 DEF poolVars
  <2> QED
    BY <1>1, <1>3, <2>1, <2>2 DEF ReadInv, CachedWereRead
<1>4. CASE \/ \E ids \in DistinctSeqs : Forward(ids)
           \/ LoadAgain
  BY <1>3, <1>4 DEF Forward, LoadAgain
<1>5. CASE SubmitOne
  <2>1. /\ UNCHANGED <<raw, cached, read, pc>> /\ pc = "submit"
        /\ outcome' = [outcome EXCEPT ![JobAt(k)] = Pool!Pending]
    BY <1>5 DEF SubmitOne, Pool!Submit
  <2> QED
    BY <1>1, <2>1 DEF ReadInv, CachedWereRead
<1>6. CASE SubmittedAll
  <2>1. /\ UNCHANGED <<outcome, raw, cached, read>> /\ k' = 0
    BY <1>6 DEF SubmittedAll, poolVars
  <2>2. \A i \in Indexes(pending') : ~(i < k')
    BY <2>1 DEF Indexes
  <2> QED
    BY <1>1, <2>1, <2>2 DEF ReadInv, CachedWereRead
<1>7. CASE Waited
  <2>1. /\ pc = "wait" /\ k < NumJobs /\ k' = k + 1
        /\ UNCHANGED <<pending, raw>>
        /\ outcome' = [outcome EXCEPT ![JobAt(k)] = Pool!Idle]
        /\ outcome[JobAt(k)] = Zero
    BY <1>1, <1>7 DEF Waited, Pool!Collect, CallInv
  <2>2. /\ k \in Indexes(pending) /\ JobAt(k) = JobOf(pending, k)
        /\ JobAt(k) \in Jobs
    BY <1>1, <2>1, JobAtType
  <2>3. \A j \in Jobs : outcome'[j] = Zero => raw'[j]
    BY <1>1, <2>1 DEF ReadInv
  <2>4. \A i \in Indexes(pending) : i < k + 1 => raw[JobOf(pending, i)]
    <3>1. \A i \in Indexes(pending) : i < k + 1 => i < k \/ i = k
      BY <1>1 DEF Indexes
    <3> QED
      BY <1>1, <2>1, <2>2, <3>1 DEF ReadInv
  <2>5. \A e \in cached' : read'[e]
    <3>1. CASE (k + 1) % Parts = 0
      <4>1. /\ Put(JobAt(k)[1]) /\ JobAt(k)[1] \in Experts
            /\ read' = [read EXCEPT ![JobAt(k)[1]] = \A p \in 1..Parts : raw[<<JobAt(k)[1], p>>]]
        BY <1>7, <2>2, <3>1 DEF Waited, Jobs
      <4>2. \A p \in 1..Parts : raw[<<JobAt(k)[1], p>>]
        <5>1. SUFFICES ASSUME NEW p \in 1..Parts
                       PROVE  raw[<<JobAt(k)[1], p>>]
          OBVIOUS
        <5>2. PICK h \in Indexes(pending) : h <= k /\ JobOf(pending, h) = <<JobAt(k)[1], p>>
          BY <1>1, <2>2, <3>1, LastPart
        <5>3. h < k + 1
          BY <1>1, <5>2 DEF Indexes
        <5> QED
          BY <2>4, <5>2, <5>3
      <4>3. cached' \subseteq cached \cup {JobAt(k)[1]}
        BY <1>1, <4>1, PutType
      <4> QED
        BY <1>1, <4>1, <4>2, <4>3 DEF ReadInv, CachedWereRead
    <3>2. CASE (k + 1) % Parts # 0
      BY <1>1, <1>7, <3>2 DEF Waited, ReadInv, CachedWereRead
    <3> QED
      BY <3>1, <3>2
  <2>6. \A i \in Indexes(pending') : i < k' => raw'[JobOf(pending', i)]
    BY <2>1, <2>4 DEF JobOf
  <2> QED
    BY <2>3, <2>5, <2>6 DEF ReadInv, CachedWereRead
<1>8. CASE WaitFailed
  <2>1. /\ UNCHANGED <<raw, cached, read>> /\ pc' = "failed"
        /\ outcome' = [outcome EXCEPT ![JobAt(k)] = Pool!Idle]
    BY <1>8 DEF WaitFailed, Pool!Collect
  <2> QED
    BY <1>1, <2>1 DEF ReadInv, CachedWereRead
<1>9. CASE Use \/ Vanished \/ Return \/ Quit
  <2>1. /\ pc \in {"idle", "use"} /\ pc' # "wait"
        /\ UNCHANGED <<outcome, cached, read>>
    BY <1>9 DEF Use, Vanished, Return, Quit, Pool!Close, poolVars
  <2> QED
    BY <1>1, <1>2, <2>1 DEF ReadInv, CachedWereRead
<1>12. CASE (\E ids \in DistinctSeqs : ForwardFails(ids)) \/ SubmitFails
  <2>1. UNCHANGED <<outcome, raw, cached, read>> /\ pc' = "failed"
    BY <1>12 DEF ForwardFails, SubmitFails, poolVars
  <2> QED
    BY <1>1, <2>1 DEF ReadInv, CachedWereRead
<1>10. CASE StartJob \/ UNCHANGED vars
  <2>1. UNCHANGED <<outcome, raw, cached, read, pending, k, pc>>
    BY <1>10 DEF StartJob, Pool!Start, vars
  <2> QED
    BY <1>1, <2>1 DEF ReadInv, CachedWereRead, JobOf, Indexes
<1>11. ASSUME NEW j \in Jobs, FinishJob(j)
       PROVE  ReadInv'
  <2>1. PICK s \in Statuses : Pool!Finish(j, s) /\ raw' = [raw EXCEPT ![j] = (s = Zero)]
    BY <1>11 DEF FinishJob
  <2>2. /\ UNCHANGED <<cached, read, pending, k, pc>>
        /\ outcome' = [outcome EXCEPT ![j] = s]
        /\ outcome[j] = Pool!Pending
    BY <1>1, <1>11, <2>1 DEF FinishJob, Pool!Finish, PoolInv
  <2>3. \A i \in Jobs : outcome'[i] = Zero => raw'[i]
    BY <1>1, <2>1, <2>2 DEF ReadInv
  <2>4. ASSUME pc = "wait", NEW i \in Indexes(pending), i < k
        PROVE  raw'[JobOf(pending, i)]
    <3>1. PICK h \in Indexes(pending) : h >= k /\ j = JobOf(pending, h)
      BY <1>1, <2>2, <2>4 DEF CallInv, Outstanding, Pool!Idle, Pool!Pending
    <3>2. j # JobOf(pending, i)
      BY <1>1, <2>4, <3>1, JobOfInjective DEF CallInv, Indexes
    <3>3. JobOf(pending, i) \in Jobs /\ raw[JobOf(pending, i)]
      BY <1>1, <2>4, JobOfType DEF ReadInv
    <3> QED
      BY <1>1, <2>1, <3>2, <3>3
  <2>5. pc' = "wait" => \A i \in Indexes(pending') : i < k' => raw'[JobOf(pending', i)]
    BY <2>2, <2>4 DEF JobOf, Indexes
  <2> QED
    BY <1>1, <2>2, <2>3, <2>5 DEF ReadInv, CachedWereRead
<1> QED
  BY <1>4, <1>5, <1>6, <1>7, <1>8, <1>9, <1>10, <1>11, <1>12 DEF Next, CallerStep

-----------------------------------------------------------------------------
(* The second load of an expert *)

LEMMA OnlyMember ==
  ASSUME NEW e, NEW s \in Seq(Experts), IsInjective(s), Range(s) = {e}
  PROVE  s = <<e>>
<1>1. Len(s) \in Nat /\ DOMAIN s = 1..Len(s)
  OBVIOUS
<1>2. \A i \in 1..Len(s) : s[i] = e
  BY <1>1 DEF Range
<1>3. Len(s) # 0
  BY <1>1 DEF Range
<1>4. ~(Len(s) > 1)
  <2>1. ASSUME Len(s) > 1
        PROVE  FALSE
    <3>1. 1 \in 1..Len(s) /\ 2 \in 1..Len(s)
      BY <1>1, <2>1
    <3> QED
      BY <1>1, <1>2, <3>1 DEF IsInjective
  <2> QED
    BY <2>1
<1>5. Len(s) = 1
  BY <1>1, <1>3, <1>4
<1> QED
  BY <1>2, <1>5

LEMMA NextAgainInv == LoadInv /\ [Next]_vars => AgainInv'
<1> SUFFICES ASSUME LoadInv, [Next]_vars
             PROVE  AgainInv'
  OBVIOUS
<1>1. TypeOK /\ CallInv /\ AgainInv
  BY DEF LoadInv
<1> USE DEF AgainInv, VanishesOnlyIfNothingFits
<1>2. ASSUME NEW ids \in DistinctSeqs, Forward(ids)
      PROVE  AgainInv'
  BY <1>1, <1>2, BeginLoadType DEF Forward
<1>3. CASE LoadAgain
  <2>1. /\ u <= Len(unique) /\ unique[u] \notin cached
        /\ BeginLoad(<<unique[u]>>)
        /\ UNCHANGED <<budget, cached, unique, u>>
    BY <1>3 DEF LoadAgain
  <2>2. Range(<<unique[u]>>) \ cached = {unique[u]}
    BY <2>1 DEF Range
  <2>3. pending' = <<unique[u]>>
    BY <1>1, <2>1, <2>2, BeginLoadType, OnlyMember
  <2>4. pc' = "submit"
    BY <2>1, <2>3 DEF BeginLoad
  <2> QED
    BY <2>1, <2>3, <2>4
<1>4. CASE Waited
  <2>1. /\ pc = "wait" /\ pc' \in {"use", pc} /\ k < NumJobs
        /\ pc' = "use" => k + 1 = NumJobs
        /\ UNCHANGED <<budget, unique, u, again, pending>>
    BY <1>1, <1>4 DEF Waited, callVars, CallInv
  <2>2. ASSUME again, pc' = "use"
        PROVE  budget = 0 \/ unique[u] \in cached'
    <3>1. pending = <<unique[u]>> /\ k + 1 = NumJobs
      BY <1>1, <2>1, <2>2
    <3>2. NumJobs = Parts /\ k = Parts - 1 /\ k \in Nat
      BY <1>1, <3>1, CountsArePositive DEF NumJobs, TypeOK
    <3>3. (k + 1) % Parts = 0
      BY <3>2, CountsArePositive
    <3>4. JobAt(k)[1] = unique[u]
      <4>1. k \div Parts \in 0..0
        <5>1. k \in Indexes(pending) /\ pending \in Seq(Experts) /\ Len(pending) = 1
          BY <1>1, <2>1, <3>1, JobAtType DEF TypeOK
        <5>2. k \div Parts \in 0..(Len(pending) - 1)
          BY <5>1, JobOfType
        <5> QED
          BY <5>1, <5>2
      <4> QED
        BY <3>1, <4>1 DEF JobAt
    <3>5. Put(unique[u])
      BY <1>4, <3>3, <3>4 DEF Waited
    <3>6. unique[u] \in Experts
      BY <1>1, <2>1, <3>4, JobAtType DEF Jobs
    <3> QED
      BY <1>1, <3>5, <3>6, PutType DEF TypeOK
  <2> QED
    BY <1>1, <2>1, <2>2
<1>5. CASE \/ \E ids \in DistinctSeqs : ForwardFails(ids)
           \/ SubmitOne \/ SubmitFails \/ SubmittedAll \/ WaitFailed \/ StartJob \/ Quit
  BY <1>1, <1>5 DEF ForwardFails, SubmitOne, SubmitFails, SubmittedAll, WaitFailed, StartJob, Quit,
                    callVars
<1>6. CASE Use
  BY <1>1, <1>6 DEF Use
<1>7. CASE Vanished
  BY <1>1, <1>7 DEF Vanished, callVars
<1>8. CASE Return
  <2>1. ~again
    BY <1>1, <1>8 DEF Return, TypeOK
  <2> QED
    BY <1>8, <2>1 DEF Return
<1>9. ASSUME NEW j \in Jobs, FinishJob(j)
      PROVE  AgainInv'
  BY <1>1, <1>9 DEF FinishJob, callVars
<1>10. CASE UNCHANGED vars
  BY <1>1, <1>10 DEF vars
<1> QED
  BY <1>2, <1>3, <1>4, <1>5, <1>6, <1>7, <1>8, <1>9, <1>10 DEF Next, CallerStep

-----------------------------------------------------------------------------
(* Theorems *)

LEMMA InitLoadInv == Init => LoadInv
<1> SUFFICES ASSUME Init
             PROVE  LoadInv
  OBVIOUS
<1> USE DEF Init, Pool!Init
<1>1. NumJobs = 0
  BY CountsArePositive DEF NumJobs
<1>2. Pool!TypeOK
  BY EmptySeq DEF Pool!TypeOK
<1>3. TypeOK
  <2>1. u \in 1..(Len(unique) + 1) /\ k \in 0..NumJobs
    BY <1>1
  <2>2. unique \in Seq(Experts) /\ pending \in Seq(Experts)
    BY EmptySeq
  <2> QED
    BY <1>2, <2>1, <2>2 DEF TypeOK, Phases
<1>4. PoolInv
  BY DEF PoolInv
<1>5. CallInv
  BY DEF CallInv, IsInjective
<1>6. ReadInv
  BY ZeroIsAStatus, StatusesAreResults DEF ReadInv, CachedWereRead
<1>7. AgainInv
  BY DEF AgainInv, VanishesOnlyIfNothingFits
<1> QED
  BY <1>3, <1>4, <1>5, <1>6, <1>7 DEF LoadInv

LEMMA NextLoadInv == LoadInv /\ [Next]_vars => LoadInv'
<1>1. LoadInv => Pool!TypeOK /\ PoolInv
  BY DEF LoadInv, TypeOK
<1> QED
  BY <1>1, UsesPool, PoolStep, NextTypeOK, NextCallInv, NextReadInv, NextAgainInv DEF LoadInv

\* The inductive invariant: what is queued, read, collected and cached agrees
\* with where experts_load and moe_forward are.
THEOREM LoadInvariant == Spec => []LoadInv
BY InitLoadInv, NextLoadInv, PTL DEF Spec

\* Types, and the counters u and k within the lists they go through.
THEOREM LoadTypeCorrect == Spec => []TypeOK
<1>1. LoadInv => TypeOK
  BY DEF LoadInv
<1> QED
  BY <1>1, LoadInvariant, PTL

\* Until a call fails, the pool never holds a job whose buffers are freed, which
\* is what reader.h:37 asks of a caller; and a call that has returned has waited
\* for all its jobs and freed all its buffers.  For any interleaving of the
\* threads and any checkpoint.
THEOREM BuffersOutlive == Spec => []BuffersOutliveGoodCalls
<1>1. LoadInv => BuffersOutliveGoodCalls
  <2>1. SUFFICES ASSUME LoadInv, pc # "failed"
                 PROVE  /\ ~alloc => queue = <<>> /\ running = {}
                        /\ pc \in {"idle", "use", "vanished", "quit"} => ~alloc
    BY DEF BuffersOutliveGoodCalls, BuffersOutliveReads
  <2>2. ~alloc => Outstanding = {}
    BY <2>1 DEF LoadInv, CallInv, Outstanding
  <2>3. ~alloc => queue = <<>> /\ running = {}
    BY <2>1, <2>2, PoolIsEmpty DEF LoadInv, TypeOK, CallInv
  <2> QED
    BY <2>1, <2>3 DEF LoadInv, CallInv
<1> QED
  BY <1>1, LoadInvariant, PTL

\* An expert is dequantised and cached only after each of its parts was read.
THEOREM CachedAreRead == Spec => []CachedWereRead
<1>1. LoadInv => CachedWereRead
  BY DEF LoadInv, ReadInv
<1> QED
  BY <1>1, LoadInvariant, PTL

\* The second load of an expert leaves it in the cache, unless none fits.
THEOREM VanishesIfNothingFits == Spec => []VanishesOnlyIfNothingFits
<1>1. LoadInv => VanishesOnlyIfNothingFits
  BY DEF LoadInv, AgainInv
<1> QED
  BY <1>1, LoadInvariant, PTL

\* experts_load uses the pool as JobQueue lets it: in any behaviour of
\* ExpertsLoad the pool goes through a behaviour of JobQueue, where no job is
\* submitted again before it was collected and the pool closes empty.
THEOREM ImplementsPool == Spec => Pool!Spec
<1>1. Init => Pool!Init
  BY DEF Init
<1> QED
  BY <1>1, UsesPool, LoadInvariant, PTL DEF Spec, Pool!Spec

-----------------------------------------------------------------------------
(* The rows of PleStore *)

\* _futures holds a result and the mark of a prefetch for each row.
FuturesInv ==
  rowFutures \in [DOMAIN rowFutures -> [result : {Pending, "value", "error"},
                                       prefetched : BOOLEAN]]

\* What a group has still to set is pending, until close forgets the futures.
GroupsInv ==
  /\ groups \subseteq [rows : SUBSET Rows, todo : SUBSET Rows, phase : {"reading", "setting"}]
  /\ \A g \in groups : g.phase = "reading" => g.todo = g.rows
  /\ ~rowsClosed => \A g \in groups : \A r \in g.todo : Unset(r)

\* A prefetched row in _futures has been counted and is not yet a hit.
Marked == {r \in DOMAIN rowFutures : rowFutures[r].prefetched}
MarksInv == /\ rowsSubmitted \in Nat
            /\ rowHits + Cardinality(Marked) <= rowsSubmitted

\* The thread is in get_rows as long as it wants rows.
ThreadInv == rowPc = "fetch" <=> wanted # <<>>

RowsInv == /\ RowsTypeOK /\ FuturesInv /\ GroupsInv /\ MarksInv /\ ThreadInv
           /\ RowsReadOnce /\ RowCachedOrPending

-----------------------------------------------------------------------------
(* Finite sets of rows *)

LEMMA RowsAreFinite ==
  ASSUME RowParameters, NEW S, S \subseteq Rows
  PROVE  IsFiniteSet(S) /\ Cardinality(S) \in Nat
<1>1. IsFiniteSet(Rows)
  BY FS_Interval DEF RowParameters, Rows
<1> QED
  BY <1>1, FS_Subset, FS_CardinalityType

\* Putting a row in the cache leaves it within its budget, and what was cached
\* besides the row was cached before.
LEMMA PutKeepsBudget ==
  ASSUME RowParameters, rowCache \subseteq Rows, Cardinality(rowCache) <= RowSlots,
         NEW r \in Rows, rowCache' \in AfterPut(r)
  PROVE  /\ rowCache' \subseteq rowCache \cup {r}
         /\ Cardinality(rowCache') <= RowSlots
<1>1. IsFiniteSet(rowCache) /\ Cardinality(rowCache) \in Nat /\ RowSlots \in Nat
  BY RowsAreFinite DEF RowParameters
<1>2. CASE rowCache' = rowCache \cup {r} /\ (r \in rowCache \/ Cardinality(rowCache) < RowSlots)
  <2>1. Cardinality(rowCache \cup {r}) = IF r \in rowCache THEN Cardinality(rowCache)
                                         ELSE Cardinality(rowCache) + 1
    BY <1>1, FS_AddElement
  <2>2. Cardinality(rowCache \cup {r}) <= RowSlots
    BY <1>1, <1>2, <2>1
  <2> QED
    BY <1>2, <2>2
<1>3. ASSUME NEW v \in rowCache, rowCache' = (rowCache \ {v}) \cup {r}
      PROVE  rowCache' \subseteq rowCache \cup {r} /\ Cardinality(rowCache') <= RowSlots
  <2> DEFINE rest == rowCache \ {v}
  <2>1. IsFiniteSet(rest) /\ Cardinality(rest) = Cardinality(rowCache) - 1
    BY <1>1, FS_RemoveElement
  <2> HIDE DEF rest
  <2>2. Cardinality(rest \cup {r}) = IF r \in rest THEN Cardinality(rest)
                                     ELSE Cardinality(rest) + 1
    BY <2>1, FS_AddElement
  <2>3. Cardinality(rest \cup {r}) <= RowSlots
    BY <1>1, <2>1, <2>2
  <2> QED
    BY <1>3, <2>3 DEF rest
<1> QED
  BY <1>2, <1>3 DEF AfterPut

-----------------------------------------------------------------------------
(* Requests *)

\* The rows a request reads are of its shard, and neither cached nor pending.
LEMMA MissingRows ==
  ASSUME NEW request \in Requests, NEW shard
  PROVE  /\ Range(request) \subseteq Rows
         /\ MissingOf(Range(request), shard)
              \subseteq {r \in Rows \ (rowCache \cup DOMAIN rowFutures) : ShardOf(r) = shard}
<1>1. Range(request) \subseteq Rows
  BY DEF Requests, Range
<1> QED
  BY <1>1 DEF MissingOf

\* Submitting groups of rows that are neither cached nor pending, each of its
\* own shard, reads no row that is being read.
LEMMA SubmittedGroups ==
  ASSUME RowsInv, ~rowsClosed, UNCHANGED <<rowCache, rowsClosed>>,
         NEW parts \in [Shards -> SUBSET Rows],
         \A s \in Shards : parts[s] \subseteq {r \in Rows \ (rowCache \cup DOMAIN rowFutures) : ShardOf(r) = s},
         NEW prefetch \in BOOLEAN, Submitted(parts, prefetch)
  PROVE  /\ DOMAIN rowFutures' = DOMAIN rowFutures \cup UNION Range(parts)
         /\ DOMAIN rowFutures' \subseteq Rows
         /\ Marked' = IF prefetch THEN Marked \cup UNION Range(parts) ELSE Marked
         /\ FuturesInv' /\ GroupsInv' /\ RowsReadOnce' /\ RowCachedOrPending'
<1> DEFINE rows == UNION Range(parts)
           new == {[rows |-> parts[s], todo |-> parts[s], phase |-> "reading"] :
                     s \in {x \in Shards : parts[x] # {}}}
<1>1. /\ rowFutures' = [r \in DOMAIN rowFutures \cup rows |->
                          IF r \in rows THEN [result |-> Pending, prefetched |-> prefetch]
                          ELSE rowFutures[r]]
      /\ groups' = groups \cup new
  BY DEF Submitted
<1>2. \A r : r \in rows <=> \E s \in Shards : r \in parts[s]
  BY DEF Range
<1>3. rows \subseteq Rows /\ rows \cap (rowCache \cup DOMAIN rowFutures) = {}
  BY <1>2
<1> HIDE DEF rows
<1>4. DOMAIN rowFutures' = DOMAIN rowFutures \cup rows
  BY <1>1
<1>5. DOMAIN rowFutures' \subseteq Rows
  BY <1>3, <1>4 DEF RowsInv, RowsTypeOK
<1>6. FuturesInv'
  BY <1>1 DEF RowsInv, FuturesInv
<1>7. RowCachedOrPending'
  BY <1>3, <1>4 DEF RowsInv, RowCachedOrPending
<1>8. \A r \in DOMAIN rowFutures : Unset(r) => Unset(r)'
  BY <1>1, <1>3 DEF Unset
<1>9. \A r \in rows : Unset(r)'
  BY <1>1 DEF Unset
<1>10. \A g \in new : /\ g \in [rows : SUBSET Rows, todo : SUBSET Rows, phase : {"reading", "setting"}]
                      /\ g.phase = "reading" /\ g.todo = g.rows
                      /\ g.todo \subseteq rows
  BY <1>2
<1>11. \A g \in groups : \A r \in g.todo : r \in DOMAIN rowFutures /\ Unset(r)
  BY DEF RowsInv, GroupsInv, Unset
<1>12. GroupsInv'
  <2>1. groups' \subseteq [rows : SUBSET Rows, todo : SUBSET Rows, phase : {"reading", "setting"}]
    BY <1>1, <1>10 DEF RowsInv, GroupsInv
  <2>2. \A g \in groups' : g.phase = "reading" => g.todo = g.rows
    BY <1>1, <1>10 DEF RowsInv, GroupsInv
  <2>3. \A g \in groups' : \A r \in g.todo : Unset(r)'
    <3> HIDE DEF new
    <3> QED
      BY <1>1, <1>8, <1>9, <1>10, <1>11
  <2> QED
    BY <2>1, <2>2, <2>3 DEF GroupsInv
<1>13. \A g, h \in groups' : g # h => g.todo \cap h.todo = {}
  <2>1. \A g, h \in groups : g # h => g.todo \cap h.todo = {}
    BY DEF RowsInv, RowsReadOnce
  <2>2. \A g \in groups, h \in new : g.todo \cap h.todo = {}
    <3> HIDE DEF new
    <3> QED
      BY <1>3, <1>10, <1>11
  <2>3. \A g, h \in new : g # h => g.todo \cap h.todo = {}
    <3>1. SUFFICES ASSUME NEW s \in Shards, NEW x \in Shards,
                          NEW r \in parts[s] \cap parts[x]
                   PROVE  s = x
      OBVIOUS
    <3> QED
      OBVIOUS
  <2> HIDE DEF new
  <2> QED
    BY <1>1, <2>1, <2>2, <2>3
<1>14. Marked' = IF prefetch THEN Marked \cup rows ELSE Marked
  BY <1>1, <1>3 DEF Marked
<1> QED
  BY <1>4, <1>5, <1>6, <1>7, <1>12, <1>13, <1>14 DEF RowsReadOnce, rows

LEMMA MarkedType ==
  ASSUME RowParameters, RowsInv
  PROVE  IsFiniteSet(Marked) /\ Cardinality(Marked) \in Nat
BY RowsAreFinite DEF RowsInv, RowsTypeOK, Marked

LEMMA PrefetchRowsInv ==
  ASSUME RowParameters, RowsInv, NEW request \in Requests, PrefetchRows(request)
  PROVE  RowsInv'
<1>1. /\ UNCHANGED <<rowCache, rowsClosed, rowHits, rowsWasted, rowPc, wanted, failures>>
      /\ ~rowsClosed /\ rowCalls > 0 /\ rowCalls' = rowCalls - 1
  BY DEF PrefetchRows, Calls
<1>2. PICK parts \in Prefetched(request) :
        /\ Submitted(parts, TRUE)
        /\ rowsSubmitted' = rowsSubmitted + Cardinality(UNION Range(parts))
  BY DEF PrefetchRows
<1> DEFINE rows == UNION Range(parts)
<1>3. /\ parts \in [Shards -> SUBSET Rows]
      /\ \A s \in Shards : parts[s] \subseteq MissingOf(Range(request), s)
  BY MissingRows DEF Prefetched, FirstOf
<1>4. \A s \in Shards :
        parts[s] \subseteq {r \in Rows \ (rowCache \cup DOMAIN rowFutures) : ShardOf(r) = s}
  BY <1>3, MissingRows
<1>5. /\ DOMAIN rowFutures' \subseteq Rows
      /\ FuturesInv' /\ GroupsInv' /\ RowsReadOnce' /\ RowCachedOrPending'
      /\ Marked' = Marked \cup rows
  BY <1>1, <1>2, <1>3, <1>4, SubmittedGroups
<1>6. /\ rows \subseteq Rows /\ IsFiniteSet(rows) /\ Cardinality(rows) \in Nat
  <2>1. rows \subseteq Rows
    BY <1>3 DEF Range
  <2> HIDE DEF rows
  <2> QED
    BY <2>1, RowsAreFinite
<1>7. Cardinality(Marked') \in Nat /\ Cardinality(Marked') <= Cardinality(Marked) + Cardinality(rows)
  <2> HIDE DEF rows
  <2>1. /\ IsFiniteSet(Marked) /\ Cardinality(Marked) \in Nat
        /\ Cardinality(Marked \cap rows) \in Nat /\ Cardinality(Marked \cup rows) \in Nat
    BY <1>6, MarkedType, FS_Intersection, FS_Union, FS_CardinalityType
  <2>2. Cardinality(Marked \cup rows)
          = Cardinality(Marked) + Cardinality(rows) - Cardinality(Marked \cap rows)
    BY <1>6, <2>1, FS_Union
  <2> QED
    BY <1>5, <1>6, <2>1, <2>2
<1>8. MarksInv' /\ rowHits' \in 0..rowsSubmitted'
  <2>1. rowHits \in Nat /\ rowsSubmitted \in Nat /\ rowHits + Cardinality(Marked) <= rowsSubmitted
    BY DEF RowsInv, RowsTypeOK, MarksInv
  <2>2. rowsSubmitted' = rowsSubmitted + Cardinality(rows) /\ rowHits' = rowHits
    BY <1>1, <1>2
  <2> HIDE DEF rows
  <2> QED
    BY <1>6, <1>7, <2>1, <2>2, MarkedType DEF MarksInv
<1>9. Range(rowFutures') \subseteq [result : {Pending, "value", "error"}, prefetched : BOOLEAN]
  BY <1>5 DEF FuturesInv, Range
<1>10. \A g \in groups' : g.todo \subseteq g.rows /\ g.rows \subseteq Rows
  <2>1. \A s \in Shards : parts[s] \subseteq Rows
    BY <1>3
  <2> QED
    BY <1>2, <2>1 DEF Submitted, RowsInv, RowsTypeOK
<1>11. rowCalls' \in 0..MaxCalls
  BY <1>1 DEF RowsInv, RowsTypeOK, RowParameters
<1> QED
  BY <1>1, <1>5, <1>8, <1>9, <1>10, <1>11 DEF RowsInv, RowsTypeOK, ThreadInv

LEMMA GetRowsInv ==
  ASSUME RowParameters, RowsInv, NEW request \in Requests, GetRows(request)
  PROVE  RowsInv'
<1> DEFINE parts == [s \in Shards |-> MissingOf(Range(request), s)]
<1>1. /\ UNCHANGED <<rowCache, rowsClosed, rowsSubmitted, rowHits, rowsWasted, failures>>
      /\ ~rowsClosed /\ rowCalls > 0 /\ rowCalls' = rowCalls - 1
      /\ rowPc' = "fetch" /\ wanted' = request
      /\ Submitted(parts, FALSE)
  BY DEF GetRows, Calls
<1>2. /\ parts \in [Shards -> SUBSET Rows]
      /\ \A s \in Shards :
           parts[s] \subseteq {r \in Rows \ (rowCache \cup DOMAIN rowFutures) : ShardOf(r) = s}
  BY MissingRows
<1> HIDE DEF parts
<1>3. /\ DOMAIN rowFutures' \subseteq Rows
      /\ FuturesInv' /\ GroupsInv' /\ RowsReadOnce' /\ RowCachedOrPending'
      /\ Marked' = Marked
  BY <1>1, <1>2, SubmittedGroups
<1>4. MarksInv'
  BY <1>1, <1>3 DEF RowsInv, MarksInv
<1>5. Range(rowFutures') \subseteq [result : {Pending, "value", "error"}, prefetched : BOOLEAN]
  BY <1>3 DEF FuturesInv, Range
<1>6. \A g \in groups' : g.todo \subseteq g.rows /\ g.rows \subseteq Rows
  BY <1>1, <1>2 DEF Submitted, RowsInv, RowsTypeOK
<1>7. rowCalls' \in 0..MaxCalls
  BY <1>1 DEF RowsInv, RowsTypeOK, RowParameters
<1>8. request \in Seq(Rows) /\ request # <<>>
  <2>1. PICK n \in 1..MaxRows : request \in [1..n -> Rows]
    BY DEF Requests
  <2> QED
    BY <2>1 DEF RowParameters
<1> QED
  BY <1>1, <1>3, <1>4, <1>5, <1>6, <1>7, <1>8 DEF RowsInv, RowsTypeOK, ThreadInv

-----------------------------------------------------------------------------
(* The loop of get_rows and close *)

LEMMA AdvanceInv ==
  ASSUME RowsInv, rowPc = "fetch", Advance
  PROVE  /\ rowPc' \in {"idle", "fetch"} /\ wanted' \in Seq(Rows)
         /\ ThreadInv' /\ Head(wanted) \in Rows
BY DEF RowsInv, RowsTypeOK, ThreadInv, Advance

\* Popping the future of a row that is not pending takes no row from a group.
LEMMA PopFuture ==
  ASSUME RowParameters, RowsInv, NEW r \in DOMAIN rowFutures, ~Unset(r),
         rowFutures' = Restrict(rowFutures, DOMAIN rowFutures \ {r}),
         UNCHANGED <<groups, rowsClosed>>
  PROVE  /\ DOMAIN rowFutures' = DOMAIN rowFutures \ {r}
         /\ Range(rowFutures') \subseteq [result : {Pending, "value", "error"}, prefetched : BOOLEAN]
         /\ FuturesInv' /\ GroupsInv' /\ RowsReadOnce'
         /\ Cardinality(Marked') = IF rowFutures[r].prefetched THEN Cardinality(Marked) - 1
                                   ELSE Cardinality(Marked)
<1>1. /\ DOMAIN rowFutures' = DOMAIN rowFutures \ {r}
      /\ \A x \in DOMAIN rowFutures' : rowFutures'[x] = rowFutures[x]
      /\ rowFutures' = [x \in DOMAIN rowFutures \ {r} |-> rowFutures[x]]
  BY DEF Restrict
<1>2. FuturesInv'
  BY <1>1 DEF RowsInv, FuturesInv
<1>3. GroupsInv'
  <2>1. \A x : Unset(x) => Unset(x)'
    BY <1>1 DEF Unset
  <2> QED
    BY <2>1 DEF RowsInv, GroupsInv
<1>4. Range(rowFutures') \subseteq [result : {Pending, "value", "error"}, prefetched : BOOLEAN]
  BY <1>2 DEF FuturesInv, Range
<1>5. Marked' = Marked \ {r} /\ (r \in Marked <=> rowFutures[r].prefetched)
  BY <1>1 DEF Marked
<1>6. Cardinality(Marked \ {r}) = IF r \in Marked THEN Cardinality(Marked) - 1
                                  ELSE Cardinality(Marked)
  BY MarkedType, FS_RemoveElement
<1>7. RowsReadOnce'
  BY DEF RowsInv, RowsReadOnce
<1> QED
  BY <1>1, <1>2, <1>3, <1>4, <1>5, <1>6, <1>7

LEMMA FetchReadInv ==
  ASSUME RowParameters, RowsInv, FetchRead
  PROVE  RowsInv'
<1> DEFINE r == Head(wanted)
<1>1. /\ rowPc = "fetch" /\ r \in DOMAIN rowFutures \ rowCache /\ ~Unset(r)
      /\ rowFutures' = Restrict(rowFutures, DOMAIN rowFutures \ {r})
      /\ rowHits' = IF rowFutures[r].prefetched THEN rowHits + 1 ELSE rowHits
      /\ rowCache' \in AfterPut(r)
      /\ Advance
      /\ UNCHANGED <<groups, rowsClosed, rowsSubmitted, rowsWasted, rowCalls, failures>>
  BY DEF FetchRead, Unset, Pending
<1>2. /\ rowPc' \in {"idle", "fetch"} /\ wanted' \in Seq(Rows)
      /\ ThreadInv' /\ r \in Rows
  BY <1>1, AdvanceInv
<1>3. rowCache' \subseteq rowCache \cup {r} /\ Cardinality(rowCache') <= RowSlots
  BY <1>1, <1>2, PutKeepsBudget DEF RowsInv, RowsTypeOK
<1> HIDE DEF r
<1>4. /\ DOMAIN rowFutures' = DOMAIN rowFutures \ {r}
      /\ Range(rowFutures') \subseteq [result : {Pending, "value", "error"}, prefetched : BOOLEAN]
      /\ FuturesInv' /\ GroupsInv' /\ RowsReadOnce'
      /\ Cardinality(Marked') = IF rowFutures[r].prefetched THEN Cardinality(Marked) - 1
                                ELSE Cardinality(Marked)
  BY <1>1, PopFuture
<1>5. Cardinality(Marked') \in Nat
  <2>1. DOMAIN rowFutures' \subseteq Rows
    BY <1>4 DEF RowsInv, RowsTypeOK
  <2> QED
    BY <2>1, RowsAreFinite DEF Marked
<1>6. MarksInv' /\ rowHits' \in 0..rowsSubmitted'
  <2>1. rowHits \in Nat /\ rowsSubmitted \in Nat /\ rowHits + Cardinality(Marked) <= rowsSubmitted
    BY DEF RowsInv, RowsTypeOK, MarksInv
  <2>2. CASE rowFutures[r].prefetched
    BY <1>1, <1>4, <1>5, <2>1, <2>2, MarkedType DEF MarksInv
  <2>3. CASE ~rowFutures[r].prefetched
    BY <1>1, <1>4, <1>5, <2>1, <2>3, MarkedType DEF MarksInv
  <2> QED
    BY <2>2, <2>3
<1>7. RowCachedOrPending'
  BY <1>3, <1>4 DEF RowsInv, RowCachedOrPending
<1>8. rowCache' \subseteq Rows /\ DOMAIN rowFutures' \subseteq Rows
  BY <1>2, <1>3, <1>4 DEF RowsInv, RowsTypeOK
<1> QED
  BY <1>1, <1>2, <1>3, <1>4, <1>6, <1>7, <1>8 DEF RowsInv, RowsTypeOK

LEMMA FetchFailedInv ==
  ASSUME RowParameters, RowsInv, FetchFailed
  PROVE  RowsInv'
<1> DEFINE r == Head(wanted)
<1>1. /\ r \in DOMAIN rowFutures /\ ~Unset(r)
      /\ rowFutures' = Restrict(rowFutures, DOMAIN rowFutures \ {r})
      /\ rowPc' = "idle" /\ wanted' = <<>> /\ failures' = failures \cup {"read"}
      /\ UNCHANGED <<rowCache, groups, rowsClosed, rowsSubmitted, rowHits, rowsWasted, rowCalls>>
  BY DEF FetchFailed, Unset, Pending, Raise
<1> HIDE DEF r
<1>2. /\ DOMAIN rowFutures' = DOMAIN rowFutures \ {r}
      /\ Range(rowFutures') \subseteq [result : {Pending, "value", "error"}, prefetched : BOOLEAN]
      /\ FuturesInv' /\ GroupsInv' /\ RowsReadOnce'
      /\ Cardinality(Marked') = IF rowFutures[r].prefetched THEN Cardinality(Marked) - 1
                                ELSE Cardinality(Marked)
  BY <1>1, PopFuture
<1>3. MarksInv'
  <2>1. rowHits \in Nat /\ rowsSubmitted \in Nat /\ rowHits + Cardinality(Marked) <= rowsSubmitted
    BY DEF RowsInv, RowsTypeOK, MarksInv
  <2> QED
    BY <1>1, <1>2, <2>1, MarkedType DEF MarksInv
<1>4. RowCachedOrPending' /\ DOMAIN rowFutures' \subseteq Rows
  BY <1>1, <1>2 DEF RowsInv, RowsTypeOK, RowCachedOrPending
<1>5. rowPc' \in {"idle", "fetch"} /\ wanted' \in Seq(Rows) /\ ThreadInv'
  BY <1>1 DEF ThreadInv
<1> QED
  BY <1>1, <1>2, <1>3, <1>4, <1>5 DEF RowsInv, RowsTypeOK

LEMMA CloseInv ==
  ASSUME RowParameters, RowsInv, Close
  PROVE  RowsInv'
<1>1. /\ rowCalls > 0 /\ rowCalls' = rowCalls - 1
      /\ rowsClosed' /\ rowsClosed' = TRUE /\ rowFutures' = <<>>
      /\ rowsWasted' = rowsWasted + Cardinality(DOMAIN rowFutures)
      /\ UNCHANGED <<rowCache, groups, rowsSubmitted, rowHits, rowPc, wanted, failures>>
  BY DEF Close, Calls
<1>2. Cardinality(DOMAIN rowFutures) \in Nat
  BY RowsAreFinite DEF RowsInv, RowsTypeOK
<1>3. DOMAIN rowFutures' = {} /\ Range(rowFutures') = {}
  BY <1>1 DEF Range
<1>4. FuturesInv'
  BY <1>1 DEF FuturesInv
<1>5. MarksInv'
  <2>1. Marked' = {}
    BY <1>3 DEF Marked
  <2>2. rowHits \in Nat /\ rowsSubmitted \in Nat /\ rowHits <= rowsSubmitted
    BY DEF RowsInv, RowsTypeOK, MarksInv
  <2> QED
    BY <1>1, <2>1, <2>2, FS_EmptySet DEF MarksInv
<1>6. GroupsInv' /\ RowsReadOnce' /\ RowCachedOrPending'
  BY <1>1, <1>3 DEF RowsInv, GroupsInv, RowsReadOnce, RowCachedOrPending
<1>7. rowCalls' \in 0..MaxCalls /\ rowsWasted' \in Nat
  BY <1>1, <1>2 DEF RowsInv, RowsTypeOK, RowParameters
<1> QED
  BY <1>1, <1>3, <1>4, <1>5, <1>6, <1>7 DEF RowsInv, RowsTypeOK, ThreadInv

-----------------------------------------------------------------------------
(* The executor *)

\* A group that goes on, with no more to set than before, or ends.
LEMMA ReplaceInv ==
  ASSUME RowsInv, NEW g \in groups,
         NEW h \in [rows : SUBSET Rows, todo : SUBSET Rows, phase : {"setting"}],
         h.rows = g.rows, h.todo \subseteq g.todo,
         groups' \in {(groups \ {g}) \cup {h}, groups \ {g}},
         ~rowsClosed => \A x \in groups' : \A r \in x.todo : Unset(r)',
         rowsClosed' = rowsClosed
  PROVE  /\ GroupsInv' /\ RowsReadOnce'
         /\ \A x \in groups' : x.todo \subseteq x.rows /\ x.rows \subseteq Rows
<1>1. \A x \in groups' : x \in groups \ {g} \/ x = h
  OBVIOUS
<1>2. GroupsInv'
  BY <1>1 DEF RowsInv, GroupsInv
<1>3. RowsReadOnce'
  BY <1>1 DEF RowsInv, RowsReadOnce
<1>4. \A x \in groups' : x.todo \subseteq x.rows /\ x.rows \subseteq Rows
  BY <1>1 DEF RowsInv, RowsTypeOK
<1> QED
  BY <1>2, <1>3, <1>4

LEMMA ReadGroupInv ==
  ASSUME RowsInv, NEW g \in groups, ReadGroup(g)
  PROVE  RowsInv'
<1> DEFINE h == [g EXCEPT !.phase = "setting"]
<1>1. /\ groups' \in {(groups \ {g}) \cup {h}, groups \ {g}}
      /\ UNCHANGED <<rowCache, rowFutures, rowsClosed, rowsSubmitted, rowHits, rowsWasted,
                     rowCalls, rowPc, wanted, failures>>
  BY DEF ReadGroup, Replace
<1>2. g \in [rows : SUBSET Rows, todo : SUBSET Rows, phase : {"reading", "setting"}]
  BY DEF RowsInv, GroupsInv
<1>3. /\ h \in [rows : SUBSET Rows, todo : SUBSET Rows, phase : {"setting"}]
      /\ h.rows = g.rows /\ h.todo = g.todo
  BY <1>2
<1> HIDE DEF h
<1>4. ~rowsClosed => \A x \in groups' : \A r \in x.todo : Unset(r)'
  BY <1>1, <1>3 DEF RowsInv, GroupsInv, Unset
<1>5. /\ GroupsInv' /\ RowsReadOnce'
      /\ \A x \in groups' : x.todo \subseteq x.rows /\ x.rows \subseteq Rows
  BY <1>1, <1>3, <1>4, ReplaceInv
<1> QED
  BY <1>1, <1>5 DEF RowsInv, RowsTypeOK, FuturesInv, MarksInv, Marked, ThreadInv, RowCachedOrPending

\* Setting a result changes neither the rows in _futures nor their marks.
LEMMA ResultsInv ==
  ASSUME RowsInv, rowFutures' \in [DOMAIN rowFutures -> [result : {Pending, "value", "error"},
                                                        prefetched : BOOLEAN]],
         \A r \in DOMAIN rowFutures : rowFutures'[r].prefetched = rowFutures[r].prefetched,
         UNCHANGED <<rowCache, rowsClosed, rowsSubmitted, rowHits>>
  PROVE  /\ FuturesInv' /\ MarksInv' /\ RowCachedOrPending'
         /\ DOMAIN rowFutures' \subseteq Rows
         /\ Range(rowFutures') \subseteq [result : {Pending, "value", "error"}, prefetched : BOOLEAN]
<1>1. DOMAIN rowFutures' = DOMAIN rowFutures /\ Marked' = Marked
  BY DEF Marked
<1> QED
  BY <1>1 DEF RowsInv, RowsTypeOK, FuturesInv, MarksInv, RowCachedOrPending, Range

LEMMA SetRowInv ==
  ASSUME RowsInv, NEW g \in groups, NEW r \in g.todo, SetRow(g, r)
  PROVE  RowsInv'
<1> DEFINE h == [g EXCEPT !.todo = @ \ {r}]
<1>1. /\ g.phase = "setting"
      /\ rowFutures' = IF Unset(r) THEN [rowFutures EXCEPT ![r].result = "value"] ELSE rowFutures
      /\ groups' \in {(groups \ {g}) \cup {h}, groups \ {g}}
      /\ UNCHANGED <<rowCache, rowsClosed, rowsSubmitted, rowHits, rowsWasted, rowCalls, rowPc,
                     wanted, failures>>
  BY DEF SetRow, Replace
<1>2. g \in [rows : SUBSET Rows, todo : SUBSET Rows, phase : {"reading", "setting"}]
  BY DEF RowsInv, GroupsInv
<1>3. /\ h \in [rows : SUBSET Rows, todo : SUBSET Rows, phase : {"setting"}]
      /\ h.rows = g.rows /\ h.todo = g.todo \ {r}
  BY <1>1, <1>2
<1> HIDE DEF h
<1>4. /\ rowFutures' \in [DOMAIN rowFutures -> [result : {Pending, "value", "error"},
                                               prefetched : BOOLEAN]]
      /\ \A x \in DOMAIN rowFutures : rowFutures'[x].prefetched = rowFutures[x].prefetched
      /\ \A x : x # r /\ Unset(x) => Unset(x)'
  BY <1>1 DEF RowsInv, FuturesInv, Unset
<1>5. ~rowsClosed => \A x \in groups' : \A y \in x.todo : Unset(y)'
  <2> SUFFICES ASSUME ~rowsClosed, NEW x \in groups', NEW y \in x.todo
               PROVE  Unset(y)'
    OBVIOUS
  <2>1. y # r /\ Unset(y)
    BY <1>1, <1>3 DEF RowsInv, GroupsInv, RowsReadOnce
  <2> QED
    BY <1>4, <2>1
<1>6. /\ GroupsInv' /\ RowsReadOnce'
      /\ \A x \in groups' : x.todo \subseteq x.rows /\ x.rows \subseteq Rows
  BY <1>1, <1>3, <1>5, ReplaceInv
<1>7. /\ FuturesInv' /\ MarksInv' /\ RowCachedOrPending'
      /\ DOMAIN rowFutures' \subseteq Rows
      /\ Range(rowFutures') \subseteq [result : {Pending, "value", "error"}, prefetched : BOOLEAN]
  BY <1>1, <1>4, ResultsInv
<1> QED
  BY <1>1, <1>6, <1>7 DEF RowsInv, RowsTypeOK, ThreadInv

LEMMA FailGroupInv ==
  ASSUME RowsInv, NEW g \in groups, FailGroup(g)
  PROVE  RowsInv'
<1> DEFINE h == [g EXCEPT !.phase = "setting"]
<1>1. /\ g.phase = "reading"
      /\ rowFutures' = [r \in DOMAIN rowFutures |->
                          IF r \in g.rows /\ Unset(r) THEN [rowFutures[r] EXCEPT !.result = "error"]
                          ELSE rowFutures[r]]
      /\ groups' = groups \ {g}
      /\ UNCHANGED <<rowCache, rowsClosed, rowsSubmitted, rowHits, rowsWasted, rowCalls, rowPc,
                     wanted, failures>>
  BY DEF FailGroup
<1>2. /\ g \in [rows : SUBSET Rows, todo : SUBSET Rows, phase : {"reading", "setting"}]
      /\ g.todo = g.rows
  BY <1>1 DEF RowsInv, GroupsInv
<1>3. /\ h \in [rows : SUBSET Rows, todo : SUBSET Rows, phase : {"setting"}]
      /\ h.rows = g.rows /\ h.todo = g.todo
  BY <1>2
<1> HIDE DEF h
<1>4. /\ rowFutures' \in [DOMAIN rowFutures -> [result : {Pending, "value", "error"},
                                               prefetched : BOOLEAN]]
      /\ \A x \in DOMAIN rowFutures : rowFutures'[x].prefetched = rowFutures[x].prefetched
      /\ \A x : x \notin g.rows /\ Unset(x) => Unset(x)'
  BY <1>1 DEF RowsInv, FuturesInv, Unset
<1>5. ~rowsClosed => \A x \in groups' : \A y \in x.todo : Unset(y)'
  BY <1>1, <1>2, <1>4 DEF RowsInv, GroupsInv, RowsReadOnce
<1>6. /\ GroupsInv' /\ RowsReadOnce'
      /\ \A x \in groups' : x.todo \subseteq x.rows /\ x.rows \subseteq Rows
  BY <1>1, <1>3, <1>5, ReplaceInv
<1>7. /\ FuturesInv' /\ MarksInv' /\ RowCachedOrPending'
      /\ DOMAIN rowFutures' \subseteq Rows
      /\ Range(rowFutures') \subseteq [result : {Pending, "value", "error"}, prefetched : BOOLEAN]
  BY <1>1, <1>4, ResultsInv
<1> QED
  BY <1>1, <1>6, <1>7 DEF RowsInv, RowsTypeOK, ThreadInv

-----------------------------------------------------------------------------
(* The invariant *)

LEMMA InitRowsInv == RowParameters /\ RowsInit => RowsInv
<1> SUFFICES ASSUME RowParameters, RowsInit
             PROVE  RowsInv
  OBVIOUS
<1>1. /\ rowCache = {} /\ rowFutures = <<>> /\ groups = {} /\ rowsClosed = FALSE
      /\ rowsSubmitted = 0 /\ rowHits = 0 /\ rowsWasted = 0 /\ rowCalls = MaxCalls
      /\ rowPc = "idle" /\ wanted = <<>> /\ failures = {}
  BY DEF RowsInit
<1>2. DOMAIN rowFutures = {} /\ Range(rowFutures) = {} /\ FuturesInv
  BY <1>1 DEF Range, FuturesInv
<1>3. MarksInv
  BY <1>1, <1>2, FS_EmptySet DEF MarksInv, Marked
<1>4. RowsTypeOK
  <2>1. rowCache \subseteq Rows /\ Cardinality(rowCache) <= RowSlots
    BY <1>1, FS_EmptySet DEF RowParameters
  <2>2. rowHits \in 0..rowsSubmitted /\ rowsWasted \in Nat /\ rowCalls \in 0..MaxCalls
    BY <1>1 DEF RowParameters
  <2>3. wanted \in Seq(Rows)
    BY <1>1
  <2> QED
    BY <1>1, <1>2, <2>1, <2>2, <2>3 DEF RowsTypeOK
<1>5. GroupsInv /\ ThreadInv /\ RowsReadOnce /\ RowCachedOrPending
  BY <1>1 DEF GroupsInv, ThreadInv, RowsReadOnce, RowCachedOrPending
<1> QED
  BY <1>2, <1>3, <1>4, <1>5 DEF RowsInv

LEMMA NextRowsInv == RowParameters /\ RowsInv /\ [RowsNext]_rowVars => RowsInv'
<1> SUFFICES ASSUME RowParameters, RowsInv, [RowsNext]_rowVars
             PROVE  RowsInv'
  OBVIOUS
<1>1. ASSUME NEW request \in Requests, PrefetchRows(request) \/ GetRows(request)
      PROVE  RowsInv'
  BY <1>1, PrefetchRowsInv, GetRowsInv
<1>2. CASE FetchCached
  <2>1. /\ rowPc = "fetch" /\ Advance
        /\ UNCHANGED <<rowCache, rowFutures, groups, rowsClosed, rowsSubmitted, rowHits,
                       rowsWasted, rowCalls, failures>>
    BY <1>2 DEF FetchCached
  <2>2. rowPc' \in {"idle", "fetch"} /\ wanted' \in Seq(Rows) /\ ThreadInv'
    BY <2>1, AdvanceInv
  <2> QED
    BY <2>1, <2>2 DEF RowsInv, RowsTypeOK, FuturesInv, GroupsInv, Unset, MarksInv, Marked,
                      RowsReadOnce, RowCachedOrPending
<1>3. CASE FetchNothing
  <2>1. /\ rowPc' = "idle" /\ wanted' = <<>> /\ failures' = failures \cup {"KeyError"}
        /\ UNCHANGED <<rowCache, rowFutures, groups, rowsClosed, rowsSubmitted, rowHits,
                       rowsWasted, rowCalls>>
    BY <1>3 DEF FetchNothing, Raise
  <2>2. rowPc' \in {"idle", "fetch"} /\ wanted' \in Seq(Rows) /\ ThreadInv'
    BY <2>1 DEF ThreadInv
  <2> QED
    BY <2>1, <2>2 DEF RowsInv, RowsTypeOK, FuturesInv, GroupsInv, Unset, MarksInv, Marked,
                      RowsReadOnce, RowCachedOrPending
<1>4. CASE FetchRead
  BY <1>4, FetchReadInv
<1>5. CASE FetchFailed
  BY <1>5, FetchFailedInv
<1>6. CASE Close
  BY <1>6, CloseInv
<1>7. ASSUME NEW g \in groups,
             ReadGroup(g) \/ FailGroup(g) \/ \E r \in g.todo : SetRow(g, r)
      PROVE  RowsInv'
  BY <1>7, ReadGroupInv, FailGroupInv, SetRowInv
<1>8. CASE UNCHANGED rowVars
  BY <1>8 DEF rowVars, RowsInv, RowsTypeOK, FuturesInv, GroupsInv, Unset, MarksInv, Marked,
              ThreadInv, RowsReadOnce, RowCachedOrPending
<1> QED
  BY <1>1, <1>2, <1>3, <1>4, <1>5, <1>6, <1>7, <1>8 DEF RowsNext, Fetch, Work

\* For any table, shards, requests and cache: between two steps, what a group
\* read has still to set is pending in _futures, in that group alone.
THEOREM RowsInvariant ==
  ASSUME RowParameters
  PROVE  RowsSpec => []RowsInv
<1>1. RowsInit => RowsInv
  BY InitRowsInv
<1>2. RowsInv /\ [RowsNext]_rowVars => RowsInv'
  BY NextRowsInv
<1> QED
  BY <1>1, <1>2, PTL DEF RowsSpec

\* streaming.py:623-631 for any store: as long as it is open, no row is read by
\* two groups at a time, however prefetches and get_rows overlap.
THEOREM RowsAreReadOnce ==
  ASSUME RowParameters
  PROVE  RowsSpec => []RowsReadOnce
<1>1. RowsInv => RowsReadOnce
  BY DEF RowsInv
<1> QED
  BY <1>1, RowsInvariant, PTL

\* For any store: no future is left in _futures for a row that is cached, also
\* after reads that failed.
THEOREM NoRowLeftBehind ==
  ASSUME RowParameters
  PROVE  RowsSpec => []RowCachedOrPending
<1>1. RowsInv => RowCachedOrPending
  BY DEF RowsInv
<1> QED
  BY <1>1, RowsInvariant, PTL

\* For any store: the cache stays within its budget, there are no more hits than
\* prefetches, and every variable keeps its range.
THEOREM RowsTypeCorrect ==
  ASSUME RowParameters
  PROVE  RowsSpec => []RowsTypeOK
<1>1. RowsInv => RowsTypeOK
  BY DEF RowsInv
<1> QED
  BY <1>1, RowsInvariant, PTL

-----------------------------------------------------------------------------
(* The composition *)

LoadingInv == /\ part = "store" => Store!StoreInv
              /\ part = "rows" => RowsInv

LEMMA InitLoadingInv == AllInit => LoadingInv
<1> SUFFICES ASSUME AllInit
             PROVE  LoadingInv
  OBVIOUS
<1>1. part = "store" => Store!StoreInv
  <2>1. Store!Parameters /\ Store!Init => Store!StoreInv
    BY Store!InitStoreInv
  <2> QED
    BY <2>1, ParametersFit DEF AllInit
<1>2. part = "rows" => RowsInv
  <2>1. RowParameters /\ RowsInit => RowsInv
    BY InitRowsInv
  <2> QED
    BY <2>1, ParametersFit DEF AllInit
<1> QED
  BY <1>1, <1>2 DEF LoadingInv

LEMMA NextLoadingInv == LoadingInv /\ [AllNext]_allVars => LoadingInv'
<1> SUFFICES ASSUME LoadingInv, [AllNext]_allVars
             PROVE  LoadingInv'
  OBVIOUS
<1>1. part' = part
  BY DEF AllNext, allVars
<1>2. part = "store" => [Store!Next]_(Store!vars)
  BY DEF AllNext, allVars, storeVars, Store!vars, Store!store, Store!counters
<1>3. part = "rows" => [RowsNext]_rowVars
  BY DEF AllNext, allVars
<1>4. part = "store" => Store!StoreInv'
  <2>1. Store!Parameters /\ Store!StoreInv /\ [Store!Next]_(Store!vars) => Store!StoreInv'
    BY Store!NextStoreInv
  <2> QED
    BY <1>2, <2>1, ParametersFit DEF LoadingInv
<1>5. part = "rows" => RowsInv'
  <2>1. RowParameters /\ RowsInv /\ [RowsNext]_rowVars => RowsInv'
    BY NextRowsInv
  <2> QED
    BY <1>3, <2>1, ParametersFit DEF LoadingInv
<1> QED
  BY <1>1, <1>4, <1>5 DEF LoadingInv

\* The invariants of the components hold of the behaviours in which they run.
THEOREM LoadingInvariant == AllSpec => []LoadingInv
BY InitLoadingInv, NextLoadingInv, PTL DEF AllSpec

\* ExpertsLoad behaves as its specification says, or not at all.
LEMMA BehavesAsLoad == AllSpec => Spec
<1>1. AllInit => Init
  BY DEF AllInit
<1>2. [AllNext]_allVars => [Next]_vars
  BY DEF AllNext, allVars
<1> QED
  BY <1>1, <1>2, PTL DEF AllSpec, Spec

\* The types of all three components: the marks and the caches within their
\* bounds, the counters in theirs, no future that is referred to unknown.
THEOREM LoadingTypeCorrect == AllSpec => []AllTypeOK
<1>1. part = "store" /\ Store!StoreInv => Store!TypeOK
  <2>1. Store!Parameters /\ Store!StoreInv => Store!TypeOK
    BY Store!StoreTypes
  <2> QED
    BY <2>1, ParametersFit
<1>2. part = "rows" /\ RowsInv => RowsTypeOK
  BY DEF RowsInv
<1>3. TypeOK /\ LoadingInv => AllTypeOK
  BY <1>1, <1>2 DEF LoadingInv, AllTypeOK
<1> QED
  BY <1>3, BehavesAsLoad, LoadTypeCorrect, LoadingInvariant, PTL

\* streaming.py:250-268 and 623-631: while a store is open, no expert and no row
\* is read by two group reads at a time.
THEOREM ReadOnceAtATime == AllSpec => []OneReadAtATime
<1>1. part = "store" /\ Store!StoreInv => Store!OneReadAtATime
  <2>1. Store!Parameters /\ Store!StoreInv => Store!OneReadAtATime
    BY Store!ReadsOnce
  <2> QED
    BY <2>1, ParametersFit
<1>2. part = "rows" /\ RowsInv => RowsReadOnce
  BY DEF RowsInv
<1>3. LoadingInv => OneReadAtATime
  BY <1>1, <1>2 DEF LoadingInv, OneReadAtATime
<1> QED
  BY <1>3, LoadingInvariant, PTL

\* streaming.py:361: one thread alone never finds the expert it asked for gone.
THEOREM DemandsAreMet == AllSpec => []NeverDisappears
<1>1. Store!StoreInv => Store!NeverDisappears
  BY Store!DemandedIsThere
<1>2. LoadingInv => NeverDisappears
  BY <1>1 DEF LoadingInv, NeverDisappears
<1> QED
  BY <1>2, LoadingInvariant, PTL

\* The counters of one thread's store: a prefetch is a hit or wasted, once.
THEOREM PrefetchesEndOnce == AllSpec => []PrefetchesCountedOnce
<1>1. Store!StoreInv => Store!PrefetchesCountedOnce
  BY DEF Store!StoreInv
<1>2. LoadingInv => PrefetchesCountedOnce
  BY <1>1 DEF LoadingInv, PrefetchesCountedOnce
<1> QED
  BY <1>2, LoadingInvariant, PTL

\* streaming.py:673-706: get_rows leaves no future behind for a cached row.
THEOREM NoCachedRowPends == AllSpec => []CachedOrPending
<1>1. RowsInv => RowCachedOrPending
  BY DEF RowsInv
<1>2. LoadingInv => CachedOrPending
  BY <1>1 DEF LoadingInv, CachedOrPending
<1> QED
  BY <1>2, LoadingInvariant, PTL
=============================================================================
