------------------------------ MODULE Scheduler ------------------------------
(***************************************************************************)
(* The local job runtime: JobQueue (runtime/queue.py), the threads of      *)
(* LocalScheduler.run (runtime/scheduler.py), the permits they share       *)
(* (runtime/resource_manager.py) and the heartbeat files they write        *)
(* (runtime/heartbeat.py).                                                 *)
(*                                                                         *)
(* One caller enqueues jobs, runs them and reconciles stale leases; when   *)
(* it is monitored a second thread reconciles while jobs run.  The queue   *)
(* has no lock, so a method that checks a status and then assigns it takes *)
(* two steps.  A handler returns or raises, a heartbeat is written or      *)
(* raises, and a lease is live until it is past.  A claim loop is assumed  *)
(* shorter than a lease.                                                   *)
(***************************************************************************)
EXTENDS Naturals, FiniteSets

CONSTANTS Job,             \* job ids
          NoJob,           \* None
          MaxConcurrency,  \* ResourceManager.max_concurrency
          MaxAttempts      \* Job.max_attempts

ASSUME SchedulerAssumption ==
    /\ IsFiniteSet(Job) /\ NoJob \notin Job
    /\ MaxConcurrency \in Nat \ {0}
    /\ MaxAttempts \in Nat \ {0}

VARIABLES monitored, \* is there a thread that reconciles beside run?
          status,   \* Job.status, or "absent" before enqueue
          attempt,  \* Job.attempt
          lease,    \* Job.lease_until: "none", "live" or "past"
          caller,   \* where the thread that calls run is
          claimed,  \* the jobs of the current run
          worker,   \* where _execute is, for each of them
          active,   \* ResourceManager._active
          stale,    \* the job reconcile_stale has found stale, or NoJob
          answer,   \* history: what the handler did in the latest attempt
          lost      \* history: permits whose holder is gone

queueVars == <<status, attempt, lease>>
vars == <<monitored, queueVars, caller, claimed, worker, active, stale, answer, lost>>

Final == {"SUCCEEDED", "FAILED", "RETRY_EXHAUSTED"}
\* The places between acquire and release.
Inside == {"reserved", "handling", "succeeding", "storing", "reporting", "failing",
           "marking", "reportingFailure", "releasing", "unwinding"}
\* The places where the future of _execute is done.
Over == {"returned", "raised"}

TypeOK ==
    /\ monitored \in BOOLEAN
    /\ status \in [Job -> {"absent", "QUEUED", "RUNNING"} \cup Final]
    /\ attempt \in [Job -> 0..MaxAttempts]
    /\ lease \in [Job -> {"none", "live", "past"}]
    /\ caller \in {"idle", "claiming", "running"}
    /\ claimed \subseteq Job
    /\ worker \in [Job -> {"off", "submitted", "waiting", "woken"} \cup Inside \cup Over]
    /\ active \in 0..MaxConcurrency
    /\ stale \in Job \cup {NoJob}
    /\ answer \in [Job -> {"none", "result", "error"}]
    /\ lost \in Nat

Init ==
    /\ monitored \in BOOLEAN
    /\ status = [j \in Job |-> "absent"]
    /\ attempt = [j \in Job |-> 0]
    /\ lease = [j \in Job |-> "none"]
    /\ caller = "idle" /\ claimed = {}
    /\ worker = [j \in Job |-> "off"]
    /\ active = 0 /\ stale = NoJob
    /\ answer = [j \in Job |-> "none"] /\ lost = 0
-----------------------------------------------------------------------------
(* The caller. *)

Enqueue(j) ==
    /\ caller = "idle" /\ status[j] = "absent"
    /\ status' = [status EXCEPT ![j] = "QUEUED"]
    /\ UNCHANGED <<monitored, attempt, lease, caller, claimed, worker, active, stale, answer, lost>>

RunBegins ==
    /\ caller = "idle" /\ (monitored \/ stale = NoJob)
    /\ caller' = "claiming" /\ claimed' = {}
    /\ UNCHANGED <<monitored, queueVars, worker, active, stale, answer, lost>>

\* claim takes the oldest queued job; run claims until none is left, so the
\* order does not show.
Claim(j) ==
    /\ caller = "claiming" /\ status[j] = "QUEUED"
    /\ status' = [status EXCEPT ![j] = "RUNNING"]
    /\ attempt' = [attempt EXCEPT ![j] = @ + 1]
    /\ lease' = [lease EXCEPT ![j] = "live"]
    /\ claimed' = claimed \cup {j}
    /\ answer' = [answer EXCEPT ![j] = "none"]
    /\ UNCHANGED <<monitored, caller, worker, active, stale, lost>>

\* One thread per claimed job: ThreadPoolExecutor(max_workers=len(claimed)).
Submit ==
    /\ caller = "claiming" /\ \A j \in Job : status[j] # "QUEUED"
    /\ caller' = "running"
    /\ worker' = [j \in Job |-> IF j \in claimed THEN "submitted" ELSE "off"]
    /\ UNCHANGED <<monitored, queueVars, claimed, active, stale, answer, lost>>

\* The executor waits for every future; run returns, or raises what one raised.
RunEnds ==
    /\ caller = "running" /\ \A j \in claimed : worker[j] \in Over
    /\ caller' = "idle" /\ claimed' = {}
    /\ worker' = [j \in Job |-> "off"]
    /\ UNCHANGED <<monitored, queueVars, active, stale, answer, lost>>
-----------------------------------------------------------------------------
(* The thread of one job. *)

Moves(j, from, to) == worker[j] = from /\ worker' = [worker EXCEPT ![j] = to]

\* Variant: acquire that checks once: a woken thread takes its permit unseen.
AcquireIfWoken(j) ==
    /\ worker[j] \in {"submitted", "woken"}
    /\ worker[j] = "woken" \/ active < MaxConcurrency
    /\ active' = active + 1
    /\ worker' = [worker EXCEPT ![j] = "reserved"]
    /\ UNCHANGED <<monitored, queueVars, caller, claimed, stale, answer, lost>>

\* acquire: a thread that was woken checks again, another may have come first.
Acquire(j) ==
    /\ worker[j] \in {"submitted", "woken"} /\ active < MaxConcurrency
    /\ active' = active + 1
    /\ worker' = [worker EXCEPT ![j] = "reserved"]
    /\ UNCHANGED <<monitored, queueVars, caller, claimed, stale, answer, lost>>

Wait(j) ==
    /\ worker[j] \in {"submitted", "woken"} /\ active >= MaxConcurrency
    /\ worker' = [worker EXCEPT ![j] = "waiting"]
    /\ UNCHANGED <<monitored, queueVars, caller, claimed, active, stale, answer, lost>>

\* The first heartbeat is written before the try: if it raises, nothing
\* releases the permit and the job stays RUNNING.
ReportRunning(j) ==
    /\ \/ Moves(j, "reserved", "handling") /\ UNCHANGED lost
       \/ Moves(j, "reserved", "raised") /\ lost' = lost + 1
    /\ UNCHANGED <<monitored, queueVars, caller, claimed, active, stale, answer>>

Handle(j) ==
    /\ \/ Moves(j, "handling", "succeeding") /\ answer' = [answer EXCEPT ![j] = "result"]
       \/ Moves(j, "handling", "failing") /\ answer' = [answer EXCEPT ![j] = "error"]
    /\ UNCHANGED <<monitored, queueVars, caller, claimed, active, stale, lost>>

\* succeed: _require_running, whose ValueError the except clause catches ...
Succeed(j) ==
    /\ IF status[j] = "RUNNING" THEN Moves(j, "succeeding", "storing")
                                ELSE Moves(j, "succeeding", "failing")
    /\ UNCHANGED <<monitored, queueVars, caller, claimed, active, stale, answer, lost>>

\* ... and then the assignments.
Store(j) ==
    /\ Moves(j, "storing", "reporting")
    /\ status' = [status EXCEPT ![j] = "SUCCEEDED"]
    /\ lease' = [lease EXCEPT ![j] = "none"]
    /\ UNCHANGED <<monitored, attempt, caller, claimed, active, stale, answer, lost>>

ReportSucceeded(j) ==
    /\ \/ Moves(j, "reporting", "releasing")
       \/ Moves(j, "reporting", "failing")
    /\ UNCHANGED <<monitored, queueVars, caller, claimed, active, stale, answer, lost>>

\* Variant: fail without _require_running.
FailUnchecked(j) ==
    /\ Moves(j, "failing", "marking")
    /\ UNCHANGED <<monitored, queueVars, caller, claimed, active, stale, answer, lost>>

\* fail raises again when the job is no longer RUNNING.
Fail(j) ==
    /\ IF status[j] = "RUNNING" THEN Moves(j, "failing", "marking")
                                ELSE Moves(j, "failing", "unwinding")
    /\ UNCHANGED <<monitored, queueVars, caller, claimed, active, stale, answer, lost>>

Mark(j) ==
    /\ Moves(j, "marking", "reportingFailure")
    /\ status' = [status EXCEPT ![j] = "FAILED"]
    /\ lease' = [lease EXCEPT ![j] = "none"]
    /\ UNCHANGED <<monitored, attempt, caller, claimed, active, stale, answer, lost>>

ReportFailed(j) ==
    /\ \/ Moves(j, "reportingFailure", "releasing")
       \/ Moves(j, "reportingFailure", "unwinding")
    /\ UNCHANGED <<monitored, queueVars, caller, claimed, active, stale, answer, lost>>

\* Variant: release without notify.
ReleaseQuietly(j) ==
    /\ worker[j] \in {"releasing", "unwinding"} /\ active > 0
    /\ active' = active - 1
    /\ worker' = [worker EXCEPT ![j] = IF @ = "releasing" THEN "returned" ELSE "raised"]
    /\ UNCHANGED <<monitored, queueVars, caller, claimed, stale, answer, lost>>

\* The finally clause: release wakes one waiting thread, if there is one.
Release(j) ==
    /\ worker[j] \in {"releasing", "unwinding"} /\ active > 0
    /\ active' = active - 1
    /\ LET over == [worker EXCEPT ![j] = IF @ = "releasing" THEN "returned" ELSE "raised"]
           asleep == {k \in Job : worker[k] = "waiting"}
       IN IF asleep = {} THEN worker' = over
          ELSE \E k \in asleep : worker' = [over EXCEPT ![k] = "woken"]
    /\ UNCHANGED <<monitored, queueVars, caller, claimed, stale, answer, lost>>
-----------------------------------------------------------------------------
(* Leases. *)

LeaseRunsOut(j) ==
    /\ caller # "claiming" /\ lease[j] = "live"
    /\ lease' = [lease EXCEPT ![j] = "past"]
    /\ UNCHANGED <<monitored, status, attempt, caller, claimed, worker, active, stale, answer, lost>>

\* Variant: reconcile_stale that does not look at the status.
FindAnyStale(j) ==
    /\ stale = NoJob /\ (monitored \/ caller = "idle")
    /\ status[j] # "absent" /\ lease[j] # "live"
    /\ stale' = j
    /\ UNCHANGED <<monitored, queueVars, caller, claimed, worker, active, answer, lost>>

\* reconcile_stale, for one job: what it reads ...
FindStale(j) ==
    /\ stale = NoJob /\ (monitored \/ caller = "idle")
    /\ status[j] = "RUNNING" /\ lease[j] = "past"
    /\ stale' = j
    /\ UNCHANGED <<monitored, queueVars, caller, claimed, worker, active, answer, lost>>

\* Variant: reconcile_stale that compares with > instead of >=.
ReconcileOnceMore ==
    /\ stale # NoJob
    /\ status' = [status EXCEPT ![stale] =
                    IF attempt[stale] > MaxAttempts THEN "RETRY_EXHAUSTED" ELSE "QUEUED"]
    /\ lease' = [lease EXCEPT ![stale] = "none"]
    /\ stale' = NoJob
    /\ UNCHANGED <<monitored, attempt, caller, claimed, worker, active, answer, lost>>

\* Variant: a reconciled job whose permit is also given back.
ReconcileReleasing ==
    /\ stale # NoJob
    /\ status' = [status EXCEPT ![stale] =
                    IF attempt[stale] >= MaxAttempts THEN "RETRY_EXHAUSTED" ELSE "QUEUED"]
    /\ lease' = [lease EXCEPT ![stale] = "none"]
    /\ active' = IF active > 0 THEN active - 1 ELSE 0
    /\ stale' = NoJob
    /\ UNCHANGED <<monitored, attempt, caller, claimed, worker, answer, lost>>

\* ... and what it assigns.
Reconcile ==
    /\ stale # NoJob
    /\ status' = [status EXCEPT ![stale] =
                    IF attempt[stale] >= MaxAttempts THEN "RETRY_EXHAUSTED" ELSE "QUEUED"]
    /\ lease' = [lease EXCEPT ![stale] = "none"]
    /\ stale' = NoJob
    /\ UNCHANGED <<monitored, attempt, caller, claimed, worker, active, answer, lost>>
-----------------------------------------------------------------------------
Execute(j) ==
    \/ Acquire(j) \/ Wait(j) \/ ReportRunning(j) \/ Handle(j)
    \/ Succeed(j) \/ Store(j) \/ ReportSucceeded(j)
    \/ Fail(j) \/ Mark(j) \/ ReportFailed(j) \/ Release(j)

Next ==
    \/ RunBegins \/ Submit \/ RunEnds \/ Reconcile
    \/ \E j \in Job : Enqueue(j) \/ Claim(j) \/ Execute(j) \/ LeaseRunsOut(j) \/ FindStale(j)

Spec == Init /\ [][Next]_vars

\* Threads are scheduled and handlers end; nobody must start a run or reconcile.
LiveSpec ==
    /\ Spec
    /\ WF_vars(Submit) /\ WF_vars(RunEnds)
    /\ \A j \in Job : WF_vars(Claim(j)) /\ WF_vars(Execute(j))
-----------------------------------------------------------------------------
(* Properties. *)

\* The permits taken (_active) are those of the threads between acquire and
\* release, and those whose thread died before its try: none is counted twice
\* or given back twice, whatever raises (scheduler.py:37-69).
PermitsAccounted ==
    active = lost + Cardinality({j \in Job : worker[j] \in Inside})

\* Without a thread that reconciles beside it, a job that settled keeps its
\* status: no later attempt, report or reconciliation changes a SUCCEEDED,
\* FAILED or RETRY_EXHAUSTED job (queue.py:51-81).
SettledStays ==
    [][~monitored => \A j \in Job : status[j] \in Final => status'[j] = status[j]]_vars

\* Without that thread, between runs the status says what the handler did in the job's last attempt:
\* a returned handler means SUCCEEDED and a raised one FAILED, although a
\* heartbeat written in between may itself raise (scheduler.py:48-67).
AnswerDecides ==
    ~monitored /\ caller = "idle" =>
        \A j \in Job : /\ answer[j] = "result" => status[j] = "SUCCEEDED"
                       /\ answer[j] = "error" => status[j] = "FAILED"

\* RETRY_EXHAUSTED is reached exactly at max_attempts, and a job is queued
\* again only while it has attempts left, also when its worker answers while
\* the lease is being reconciled (queue.py:59-64).
RetriesAreUsedUp ==
    \A j \in Job : /\ status[j] = "RETRY_EXHAUSTED" => attempt[j] = MaxAttempts
                   /\ status[j] = "QUEUED" => attempt[j] < MaxAttempts

\* A run ends: every thread gets a permit in the end, although release wakes
\* one waiter only and an arriving thread may overtake it, and although a late
\* answer makes fail raise (resource_manager.py:19-30).  Only threads that died
\* with every permit can hold it up.
RunsEnd == caller = "running" ~> caller = "idle" \/ lost >= MaxConcurrency
=============================================================================
