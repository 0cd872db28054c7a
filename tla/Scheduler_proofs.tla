--------------------------- MODULE Scheduler_proofs ---------------------------
(***************************************************************************)
(* Proofs about Scheduler: for any number of jobs, permits and attempts,   *)
(* whatever raises and however reconciliation interleaves with the         *)
(* threads, no permit is counted twice or given back twice, and no job     *)
(* starts more attempts than it has.  When nobody reconciles during a run, *)
(* a status says what the handler did, and a settled job stays settled.    *)
(***************************************************************************)
EXTENDS Scheduler, FiniteSetTheorems, TLAPS

\* The threads that hold a permit.
Holders == {j \in Job : worker[j] \in Inside}

\* Threads exist during a run only, and only for the jobs it claimed.
ThreadsOfTheRun ==
    \A j \in Job : worker[j] # "off" => caller = "running" /\ j \in claimed

\* What reconcile_stale and claim rely on of each other.
AttemptsLeft ==
    \A j \in Job : /\ status[j] = "absent" => attempt[j] = 0
                   /\ status[j] = "QUEUED" => attempt[j] < MaxAttempts
                   /\ status[j] = "RETRY_EXHAUSTED" => attempt[j] = MaxAttempts

\* The latest answer of the handler and the status agree.
Tells(j) ==
    /\ answer[j] = "result" => status[j] = "SUCCEEDED"
    /\ answer[j] = "error" => status[j] = "FAILED"

\* What the place of a thread says of its job when nobody reconciles beside it:
\* where the status was checked and is assigned next, it is still RUNNING.
PlaceTells(j) ==
    /\ worker[j] \in {"off", "releasing", "unwinding"} \cup Over => Tells(j)
    /\ \/ caller = "claiming" /\ j \in claimed
       \/ worker[j] \in {"submitted", "waiting", "woken", "reserved", "handling"}
       => status[j] = "RUNNING" /\ answer[j] = "none"
    /\ worker[j] \in {"succeeding", "storing"} => status[j] = "RUNNING" /\ answer[j] = "result"
    /\ worker[j] = "marking" => status[j] = "RUNNING" /\ answer[j] = "error"
    /\ worker[j] = "failing" => \/ status[j] = "RUNNING" /\ answer[j] = "error"
                                \/ status[j] = "SUCCEEDED" /\ answer[j] = "result"
    /\ worker[j] = "reporting" => status[j] = "SUCCEEDED" /\ answer[j] = "result"
    /\ worker[j] = "reportingFailure" => status[j] = "FAILED" /\ answer[j] = "error"

\* Without a monitor, reconciliation and runs keep out of each other's way.
Alone ==
    ~monitored => /\ stale # NoJob => caller = "idle" /\ status[stale] = "RUNNING"
                  /\ \A j \in Job : PlaceTells(j)

IInv ==
    /\ TypeOK
    /\ ThreadsOfTheRun
    /\ AttemptsLeft
    /\ PermitsAccounted
    /\ Alone

\* The set of holders is finite, so that its cardinality counts.
LEMMA HoldersFinite == IsFiniteSet(Holders)
<1>1. Holders \subseteq Job
  BY DEF Holders
<1> QED
  BY <1>1, SchedulerAssumption, FS_Subset

\* A step in which nobody enters or leaves keeps the accounts.
LEMMA NobodyMoves ==
    ASSUME PermitsAccounted, Holders' = Holders, active' = active, lost' = lost
    PROVE  PermitsAccounted'
  BY DEF PermitsAccounted, Holders

\* A thread that enters takes one permit.
LEMMA OneEnters ==
    ASSUME PermitsAccounted, TypeOK, NEW j \in Job, j \notin Holders,
           Holders' = Holders \cup {j}, active' = active + 1, lost' = lost
    PROVE  PermitsAccounted'
<1>1. Cardinality(Holders') = Cardinality(Holders) + 1
  BY HoldersFinite, FS_AddElement
<1>2. Cardinality(Holders) \in Nat
  BY HoldersFinite, FS_CardinalityType
<1> QED
  BY <1>1, <1>2 DEF PermitsAccounted, Holders, TypeOK

\* A thread that leaves gives its permit back, or it is lost.
LEMMA OneLeaves ==
    ASSUME PermitsAccounted, TypeOK, NEW j \in Job, j \in Holders,
           Holders' = Holders \ {j},
           \/ active' = active - 1 /\ lost' = lost
           \/ active' = active /\ lost' = lost + 1
    PROVE  PermitsAccounted'
<1>1. Cardinality(Holders') = Cardinality(Holders) - 1
  BY HoldersFinite, FS_RemoveElement
<1>2. Cardinality(Holders) \in Nat
  BY HoldersFinite, FS_CardinalityType
<1> QED
  BY <1>1, <1>2 DEF PermitsAccounted, Holders, TypeOK
-----------------------------------------------------------------------------
LEMMA InitInv == Init => IInv
<1> SUFFICES ASSUME Init PROVE IInv
  OBVIOUS
<1>1. TypeOK
  BY SchedulerAssumption DEF Init, TypeOK
<1>2. ThreadsOfTheRun /\ AttemptsLeft
  BY SchedulerAssumption DEF Init, ThreadsOfTheRun, AttemptsLeft
<1>3. Holders = {}
  BY DEF Init, Holders, Inside
<1>4. PermitsAccounted
  BY <1>3, FS_EmptySet DEF Init, PermitsAccounted, Holders
<1>5. Alone
  BY DEF Init, Alone, PlaceTells, Tells, Over
<1> QED
  BY <1>1, <1>2, <1>4, <1>5 DEF IInv

\* The steps of a thread that keep it inside, or outside.
StaysInside(j) ==
    \/ Handle(j) \/ Succeed(j) \/ Store(j) \/ ReportSucceeded(j)
    \/ Fail(j) \/ Mark(j) \/ ReportFailed(j)

LEMMA NextType ==
    ASSUME TypeOK, ThreadsOfTheRun, AttemptsLeft, [Next]_vars
    PROVE  TypeOK'
<1> USE SchedulerAssumption DEF TypeOK, queueVars, Moves, Final, Inside, Over
<1>1. ASSUME NEW j \in Job, Enqueue(j) PROVE TypeOK'
  BY <1>1 DEF Enqueue
<1>2. CASE RunBegins
  BY <1>2 DEF RunBegins
<1>3. ASSUME NEW j \in Job, Claim(j) PROVE TypeOK'
  BY <1>3 DEF Claim, AttemptsLeft
<1>4. CASE Submit
  BY <1>4 DEF Submit
<1>5. CASE RunEnds
  BY <1>5 DEF RunEnds
<1>6. ASSUME NEW j \in Job, Acquire(j) \/ Wait(j) PROVE TypeOK'
  BY <1>6 DEF Acquire, Wait
<1>7. ASSUME NEW j \in Job, ReportRunning(j) PROVE TypeOK'
  BY <1>7 DEF ReportRunning
<1>8. ASSUME NEW j \in Job, Handle(j) \/ Succeed(j) \/ Store(j) \/ ReportSucceeded(j)
      PROVE TypeOK'
  BY <1>8 DEF Handle, Succeed, Store, ReportSucceeded
<1>9. ASSUME NEW j \in Job, Fail(j) \/ Mark(j) \/ ReportFailed(j) PROVE TypeOK'
  BY <1>9 DEF Fail, Mark, ReportFailed
<1>10. ASSUME NEW j \in Job, Release(j) PROVE TypeOK'
  BY <1>10 DEF Release
<1>11. ASSUME NEW j \in Job, LeaseRunsOut(j) \/ FindStale(j) PROVE TypeOK'
  BY <1>11 DEF LeaseRunsOut, FindStale
<1>12. CASE Reconcile
  BY <1>12 DEF Reconcile
<1>13. CASE UNCHANGED vars
  BY <1>13 DEF vars
<1> QED
  BY <1>1, <1>2, <1>3, <1>4, <1>5, <1>6, <1>7, <1>8, <1>9, <1>10, <1>11, <1>12, <1>13
     DEF Next, Execute

LEMMA NextThreads ==
    ASSUME TypeOK, ThreadsOfTheRun, [Next]_vars
    PROVE  ThreadsOfTheRun'
<1> USE DEF TypeOK, ThreadsOfTheRun, queueVars, Moves
<1>1. CASE RunBegins
  BY <1>1 DEF RunBegins
<1>2. CASE Submit
  BY <1>2 DEF Submit
<1>3. CASE RunEnds
  BY <1>3 DEF RunEnds
<1>4. ASSUME NEW j \in Job, Enqueue(j) \/ Claim(j) \/ LeaseRunsOut(j) \/ FindStale(j)
      PROVE ThreadsOfTheRun'
  BY <1>4 DEF Enqueue, Claim, LeaseRunsOut, FindStale
<1>5. ASSUME NEW j \in Job, Acquire(j) \/ Wait(j) \/ ReportRunning(j) PROVE ThreadsOfTheRun'
  BY <1>5 DEF Acquire, Wait, ReportRunning
<1>6. ASSUME NEW j \in Job, StaysInside(j) PROVE ThreadsOfTheRun'
  BY <1>6 DEF StaysInside, Handle, Succeed, Store, ReportSucceeded, Fail, Mark, ReportFailed
<1>7. ASSUME NEW j \in Job, Release(j) PROVE ThreadsOfTheRun'
  BY <1>7 DEF Release
<1>8. CASE Reconcile \/ UNCHANGED vars
  BY <1>8 DEF Reconcile, vars
<1> QED
  BY <1>1, <1>2, <1>3, <1>4, <1>5, <1>6, <1>7, <1>8 DEF Next, Execute, StaysInside

LEMMA NextAttempts ==
    ASSUME TypeOK, AttemptsLeft, [Next]_vars
    PROVE  AttemptsLeft'
<1> USE SchedulerAssumption DEF TypeOK, AttemptsLeft, queueVars
<1>1. ASSUME NEW j \in Job, Enqueue(j) PROVE AttemptsLeft'
  BY <1>1 DEF Enqueue
<1>2. ASSUME NEW j \in Job, Claim(j) PROVE AttemptsLeft'
  BY <1>2 DEF Claim
<1>3. ASSUME NEW j \in Job, Store(j) \/ Mark(j) PROVE AttemptsLeft'
  BY <1>3 DEF Store, Mark
<1>4. CASE Reconcile
  BY <1>4 DEF Reconcile
<1>5. CASE UNCHANGED <<status, attempt>>
  BY <1>5
<1>6. (RunBegins \/ Submit \/ RunEnds \/ UNCHANGED vars) => UNCHANGED <<status, attempt>>
  BY DEF RunBegins, Submit, RunEnds, vars
<1>7. ASSUME NEW j \in Job,
             \/ LeaseRunsOut(j) \/ FindStale(j) \/ Acquire(j) \/ Wait(j) \/ ReportRunning(j)
             \/ Handle(j) \/ Succeed(j) \/ ReportSucceeded(j) \/ Fail(j) \/ ReportFailed(j)
             \/ Release(j)
      PROVE  UNCHANGED <<status, attempt>>
  BY <1>7 DEF LeaseRunsOut, FindStale, Acquire, Wait, ReportRunning, Handle, Succeed,
              ReportSucceeded, Fail, ReportFailed, Release
<1> QED
  BY <1>1, <1>2, <1>3, <1>4, <1>5, <1>6, <1>7 DEF Next, Execute

LEMMA NextPermits ==
    ASSUME TypeOK, ThreadsOfTheRun, PermitsAccounted, [Next]_vars
    PROVE  PermitsAccounted'
<1>1. ASSUME NEW j \in Job, Acquire(j) PROVE PermitsAccounted'
  <2>1. j \notin Holders /\ Holders' = Holders \cup {j}
    BY <1>1 DEF Acquire, Holders, Inside, TypeOK
  <2> QED
    BY <1>1, <2>1, OneEnters DEF Acquire
<1>2. ASSUME NEW j \in Job, ReportRunning(j) PROVE PermitsAccounted'
  <2>1. CASE worker' = [worker EXCEPT ![j] = "handling"] /\ UNCHANGED lost
    <3>1. Holders' = Holders
      BY <1>2, <2>1 DEF ReportRunning, Moves, Holders, Inside, TypeOK
    <3> QED
      BY <1>2, <2>1, <3>1, NobodyMoves DEF ReportRunning
  <2>2. CASE worker' = [worker EXCEPT ![j] = "raised"] /\ lost' = lost + 1
    <3>1. j \in Holders /\ Holders' = Holders \ {j}
      BY <1>2, <2>2 DEF ReportRunning, Moves, Holders, Inside, TypeOK
    <3> QED
      BY <1>2, <2>2, <3>1, OneLeaves DEF ReportRunning
  <2> QED
    BY <1>2, <2>1, <2>2 DEF ReportRunning, Moves
<1>3. ASSUME NEW j \in Job, StaysInside(j) PROVE PermitsAccounted'
  <2>1. Holders' = Holders
    BY <1>3 DEF StaysInside, Handle, Succeed, Store, ReportSucceeded, Fail, Mark,
                ReportFailed, Moves, Holders, Inside, TypeOK
  <2>2. UNCHANGED <<active, lost>>
    BY <1>3 DEF StaysInside, Handle, Succeed, Store, ReportSucceeded, Fail, Mark, ReportFailed
  <2> QED
    BY <2>1, <2>2, NobodyMoves
<1>4. ASSUME NEW j \in Job, Release(j) PROVE PermitsAccounted'
  <2>1. j \in Holders /\ Holders' = Holders \ {j}
    BY <1>4 DEF Release, Holders, Inside, TypeOK
  <2> QED
    BY <1>4, <2>1, OneLeaves DEF Release
<1>5. ASSUME NEW j \in Job, Wait(j) PROVE PermitsAccounted'
  <2>1. Holders' = Holders
    BY <1>5 DEF Wait, Holders, Inside, TypeOK
  <2> QED
    BY <1>5, <2>1, NobodyMoves DEF Wait
<1>6. CASE Submit
  <2>1. Holders' = Holders
    BY <1>6 DEF Submit, Holders, Inside, TypeOK, ThreadsOfTheRun
  <2> QED
    BY <1>6, <2>1, NobodyMoves DEF Submit
<1>7. CASE RunEnds
  <2>1. Holders' = Holders
    BY <1>7 DEF RunEnds, Holders, Inside, Over, TypeOK, ThreadsOfTheRun
  <2> QED
    BY <1>7, <2>1, NobodyMoves DEF RunEnds
<1>8. CASE UNCHANGED <<worker, active, lost>>
  BY <1>8, NobodyMoves DEF Holders
<1>9. (RunBegins \/ Reconcile \/ UNCHANGED vars) => UNCHANGED <<worker, active, lost>>
  BY DEF RunBegins, Reconcile, vars
<1>10. ASSUME NEW j \in Job, Enqueue(j) \/ Claim(j) \/ LeaseRunsOut(j) \/ FindStale(j)
       PROVE  UNCHANGED <<worker, active, lost>>
  BY <1>10 DEF Enqueue, Claim, LeaseRunsOut, FindStale
<1> QED
  BY <1>1, <1>2, <1>3, <1>4, <1>5, <1>6, <1>7, <1>8, <1>9, <1>10
     DEF Next, Execute, StaysInside

\* One step keeps the place and the status of every job together: a step of a
\* job's own thread moves both, and no other step comes between.
LEMMA NextAlone ==
    ASSUME TypeOK, ThreadsOfTheRun, Alone, [Next]_vars
    PROVE  Alone'
<1> USE DEF TypeOK, Alone, PlaceTells, Tells, queueVars, Over
<1>1. ASSUME NEW j \in Job, Enqueue(j) PROVE Alone'
  BY <1>1 DEF Enqueue, ThreadsOfTheRun
<1>2. CASE RunBegins
  BY <1>2 DEF RunBegins, ThreadsOfTheRun
<1>3. ASSUME NEW j \in Job, Claim(j) PROVE Alone'
  BY <1>3 DEF Claim, ThreadsOfTheRun
<1>4. CASE Submit
  BY <1>4 DEF Submit, ThreadsOfTheRun
<1>5. CASE RunEnds
  BY <1>5 DEF RunEnds, ThreadsOfTheRun
<1>6. ASSUME NEW j \in Job, Acquire(j) \/ Wait(j) PROVE Alone'
  BY <1>6 DEF Acquire, Wait
<1>7. ASSUME NEW j \in Job, ReportRunning(j) PROVE Alone'
  BY <1>7 DEF ReportRunning, Moves
<1>8. ASSUME NEW j \in Job, Handle(j) PROVE Alone'
  BY <1>8, SchedulerAssumption DEF Handle, Moves, ThreadsOfTheRun
<1>9. ASSUME NEW j \in Job, Succeed(j) \/ ReportSucceeded(j) \/ Fail(j) \/ ReportFailed(j)
      PROVE  Alone'
  BY <1>9 DEF Succeed, ReportSucceeded, Fail, ReportFailed, Moves
<1>10. ASSUME NEW j \in Job, Store(j) PROVE Alone'
  BY <1>10 DEF Store, Moves, ThreadsOfTheRun
<1>11. ASSUME NEW j \in Job, Mark(j) PROVE Alone'
  BY <1>11 DEF Mark, Moves, ThreadsOfTheRun
<1>12. ASSUME NEW j \in Job, Release(j) PROVE Alone'
  BY <1>12 DEF Release
<1>13. ASSUME NEW j \in Job, LeaseRunsOut(j) PROVE Alone'
  BY <1>13 DEF LeaseRunsOut
<1>14. ASSUME NEW j \in Job, FindStale(j) PROVE Alone'
  BY <1>14 DEF FindStale
<1>15. CASE Reconcile
  BY <1>15, SchedulerAssumption DEF Reconcile, ThreadsOfTheRun
<1>16. CASE UNCHANGED vars
  BY <1>16 DEF vars
<1> QED
  BY <1>1, <1>2, <1>3, <1>4, <1>5, <1>6, <1>7, <1>8, <1>9, <1>10, <1>11, <1>12, <1>13,
     <1>14, <1>15, <1>16 DEF Next, Execute

\* A settled job is not where any step assigns a status.
LEMMA NextSettled ==
    ASSUME TypeOK, ThreadsOfTheRun, Alone, [Next]_vars, ~monitored,
           NEW k \in Job, status[k] \in Final
    PROVE  status'[k] = status[k]
<1> USE DEF TypeOK, Final, queueVars
<1>1. ASSUME NEW j \in Job, Enqueue(j) \/ Claim(j) PROVE status'[k] = status[k]
  BY <1>1 DEF Enqueue, Claim
<1>2. ASSUME NEW j \in Job, Store(j) \/ Mark(j) PROVE status'[k] = status[k]
  BY <1>2 DEF Store, Mark, Moves, Alone, PlaceTells
<1>3. CASE Reconcile
  BY <1>3 DEF Reconcile, Alone
<1>4. (RunBegins \/ Submit \/ RunEnds \/ UNCHANGED vars) => status' = status
  BY DEF RunBegins, Submit, RunEnds, vars
<1>5. ASSUME NEW j \in Job,
             \/ LeaseRunsOut(j) \/ FindStale(j) \/ Acquire(j) \/ Wait(j) \/ ReportRunning(j)
             \/ Handle(j) \/ Succeed(j) \/ ReportSucceeded(j) \/ Fail(j) \/ ReportFailed(j)
             \/ Release(j)
      PROVE  status' = status
  BY <1>5 DEF LeaseRunsOut, FindStale, Acquire, Wait, ReportRunning, Handle, Succeed,
              ReportSucceeded, Fail, ReportFailed, Release
<1> QED
  BY <1>1, <1>2, <1>3, <1>4, <1>5 DEF Next, Execute

\* The invariant holds in every reachable state.
THEOREM Invariance == Spec => []IInv
<1>1. IInv /\ [Next]_vars => IInv'
  BY NextType, NextThreads, NextAttempts, NextPermits, NextAlone DEF IInv
<1> QED
  BY InitInv, <1>1, PTL DEF Spec

\* The limit and the ranges of all state hold for any jobs and limits: at most
\* MaxConcurrency permits are taken and no job starts more than MaxAttempts
\* attempts (resource_manager.py:19-24, queue.py:40-67).
THEOREM TypeCorrect == Spec => []TypeOK
<1>1. IInv => TypeOK
  BY DEF IInv
<1> QED
  BY Invariance, <1>1, PTL

\* Every permit taken belongs to one thread between acquire and release, or to
\* one that died before its try, whatever handlers, heartbeats and settlements
\* raise (scheduler.py:36-69).
THEOREM Accounting == Spec => []PermitsAccounted
<1>1. IInv => PermitsAccounted
  BY DEF IInv
<1> QED
  BY Invariance, <1>1, PTL

\* A job is retried exactly until its attempts are used up, however
\* reconciliation interleaves with the threads (queue.py:51-67).
THEOREM Retries == Spec => []RetriesAreUsedUp
<1>1. IInv => RetriesAreUsedUp
  BY DEF IInv, AttemptsLeft, RetriesAreUsedUp
<1> QED
  BY Invariance, <1>1, PTL

\* Between runs a status says what the handler did in the last attempt, for any
\* jobs and whatever the heartbeats raise, as long as nobody reconciles during
\* a run (scheduler.py:48-67).
THEOREM Answers == Spec => []AnswerDecides
<1>1. IInv => AnswerDecides
  BY DEF IInv, ThreadsOfTheRun, Alone, PlaceTells, Tells, AnswerDecides, TypeOK
<1> QED
  BY Invariance, <1>1, PTL

\* A settled job keeps its status for good under the same condition
\* (queue.py:51-81).
THEOREM Settlement == Spec => SettledStays
<1>1. IInv /\ [Next]_vars => (~monitored => \A j \in Job : status[j] \in Final => status'[j] = status[j])
  BY NextSettled DEF IInv
<1> QED
  BY Invariance, <1>1, PTL DEF Spec, SettledStays
=============================================================================
