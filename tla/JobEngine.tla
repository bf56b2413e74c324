------------------------------ MODULE JobEngine ------------------------------
(***************************************************************************)
(* The broker's job engine: the jobs table of the SQLite store             *)
(* (deckhand/store.py), the workers that execute jobs (deckhand/worker.py, *)
(* worker_main.py), the scheduler that expires leases and reconciles       *)
(* unknown outcomes (deckhand/reconciler.py, scheduler_main.py) and the    *)
(* cancel requests of clients (deckhand/cancellation.py).                  *)
(*                                                                         *)
(* The processes share nothing but the table.  Every store call is one     *)
(* BEGIN IMMEDIATE transaction and so one atomic step; between two store   *)
(* calls, and across every awaited adapter call, anything may happen: the  *)
(* other processes run, leases lapse, the process itself dies.             *)
(*                                                                         *)
(* Time is abstracted to the order of events.  A lease is "live" until it  *)
(* lapses, at any moment; a queued job may be past its TTL at any tick.    *)
(* result_json is abstracted to the kinds of evidence it holds.            *)
(***************************************************************************)
EXTENDS Naturals, FiniteSets, JobStates

CONSTANTS
  MaxJobs,          \* how many jobs are submitted
  Worker,           \* the worker processes
  Caller,           \* concurrent cancel requests
  MaxAttempts,      \* settings.reconcile_max_attempts
  BatchLimit,       \* LIMIT of claim_reconcile_candidates
  Poison,           \* jobs whose action the catalog no longer accepts
  WorkerMayFail,    \* a worker iteration may die at any point
  SchedulerMayFail  \* a scheduler iteration may die at any point

ASSUME EngineConstants ==
  /\ MaxJobs \in Nat
  /\ MaxAttempts \in Nat \ {0}
  /\ BatchLimit \in Nat \ {0}
  /\ Poison \subseteq 1 .. MaxJobs
  /\ WorkerMayFail \in BOOLEAN /\ SchedulerMayFail \in BOOLEAN

\* Jobs are numbered by created_at.
Job == 1 .. MaxJobs

NoJob == 0
NoToken == 0

VARIABLES
  \* The jobs table.
  state,        \* state column; "absent" when the job has no row
  lease_token,  \* lease_token column; NoToken is NULL
  lease,        \* lease_expires_at: "none" (NULL), "live" or "lapsed"
  result,       \* the kinds of evidence in result_json; {} is NULL
  attempts,     \* reconcile_attempts column
  older,        \* <<i, j>>: job i has the smaller updated_at
  exhausted,    \* number of job.reconcile_exhausted audit events
  issued,       \* lease tokens handed out so far (uuid4: never repeats)
  \* A worker iteration.
  wpc, wjob, wtoken,
  \* A scheduler iteration: the candidates still to do, the results their
  \* views carry, their updated_at order when claimed, and the current one.
  spc, pending, view, order, sjob,
  \* A cancel request: the job, the state and result it read, and the
  \* adapter's disposition.
  cpc, cjob, cstate, cresult, cdisp,
  \* The target systems, seen through the adapters.
  effect,       \* what became of the job's operation at its target
  executions    \* how often it was sent there

storeVars  == <<state, lease_token, lease, result, attempts, older, exhausted,
                issued>>
workerVars == <<wpc, wjob, wtoken>>
schedVars  == <<spc, pending, view, order, sjob>>
callerVars == <<cpc, cjob, cstate, cresult, cdisp>>
targetVars == <<effect, executions>>
vars == <<storeVars, workerVars, schedVars, callerVars, targetVars>>

Evidence == {"execution", "verification", "cancellation"}

\* The states a job's row is ever in: RECEIVED to AWAITING_CONFIRMATION, DENIED
\* and REJECTED name stages of a request that the store never records.
DurableState ==
  {"absent", "queued", "running", "verifying", "succeeded", "expired",
   "cancelled", "failed", "unknown_outcome"}

Leased == {"running", "verifying"}
Terminal(j) == state[j] \in TERMINAL_JOB_STATES

Init ==
  /\ state = [j \in Job |-> "absent"]
  /\ lease_token = [j \in Job |-> NoToken]
  /\ lease = [j \in Job |-> "none"]
  /\ result = [j \in Job |-> {}]
  /\ attempts = [j \in Job |-> 0]
  /\ older = {}
  /\ exhausted = [j \in Job |-> 0]
  /\ issued = 0
  /\ wpc = [w \in Worker |-> "idle"]
  /\ wjob = [w \in Worker |-> NoJob]
  /\ wtoken = [w \in Worker |-> NoToken]
  /\ spc = "idle"
  /\ pending = {}
  /\ view = [j \in Job |-> {}]
  /\ order = {}
  /\ sjob = NoJob
  /\ cpc = [c \in Caller |-> "idle"]
  /\ cjob = [c \in Caller |-> NoJob]
  /\ cstate = [c \in Caller |-> "absent"]
  /\ cresult = [c \in Caller |-> {}]
  /\ cdisp = [c \in Caller |-> "none"]
  /\ effect = [j \in Job |-> "never"]
  /\ executions = [j \in Job |-> 0]

-----------------------------------------------------------------------------
(***************************************************************************)
(* Store writes.                                                           *)
(***************************************************************************)

\* updated_at = now for the jobs of S, all in one transaction.
Touch(S) ==
  older' = {p \in older : p[1] \notin S} \cup ((Job \ S) \X S)

\* Faults: the lease is never dropped, is dropped too late, or too early.
keep_lease_always(target) == TRUE
keep_lease_late(target) == target \in {"verifying", "unknown_outcome"}
keep_lease_never(target) == FALSE

\* The lease survives a transition only into VERIFYING.
keep_lease(target) == target = "verifying"

\* The UPDATE of transition_job: state and result are overwritten.
Write(j, target, res) ==
  /\ state' = [state EXCEPT ![j] = target]
  /\ result' = [result EXCEPT ![j] = res]
  /\ lease_token' = [lease_token EXCEPT ![j] = IF keep_lease(target) THEN @ ELSE NoToken]
  /\ lease' = [lease EXCEPT ![j] = IF keep_lease(target) THEN @ ELSE "none"]
  /\ Touch({j})
  /\ UNCHANGED <<attempts, exhausted, issued>>

\* When transition_job writes: the state machine allows the edge and, where
\* they are given, the fence is still the row's token and the state is still
\* the expected one.  Otherwise it raises and the transaction is rolled back.
Unfenced(j, target) == require_transition(state[j], target)

\* Fault: the fence is not compared.
Fenced_unchecked(j, target, fence) == Unfenced(j, target)

Fenced(j, target, fence) == lease_token[j] = fence /\ Unfenced(j, target)

\* Fault: the expected state is not compared.
Expected_unchecked(j, target, expected) == Unfenced(j, target)

Expected(j, target, expected) == state[j] = expected /\ Unfenced(j, target)

\* Fault: the view is built without result_json.
JobView_blank(j) == {}

\* The part of a JobView that its reader writes back later.
JobView(j) == result[j]

\* The UPDATEs of the two expiry sweeps, all in one transaction.
ExpireRows(S, target) ==
  /\ state' = [j \in Job |-> IF j \in S THEN target ELSE state[j]]
  /\ lease_token' = [j \in Job |-> IF j \in S THEN NoToken ELSE lease_token[j]]
  /\ lease' = [j \in Job |-> IF j \in S THEN "none" ELSE lease[j]]
  /\ Touch(S)
  /\ UNCHANGED <<result, attempts, exhausted, issued>>

\* create_job for a fresh idempotency key; the key's handling is a matter of
\* the submission path.
create_job ==
  \E j \in Job :
    /\ state[j] = "absent" /\ \A i \in 1 .. (j - 1) : state[i] # "absent"
    /\ state' = [state EXCEPT ![j] = "queued"]
    /\ Touch({j})
    /\ UNCHANGED <<lease_token, lease, result, attempts, exhausted, issued,
                   workerVars, schedVars, callerVars, targetVars>>
-----------------------------------------------------------------------------
(***************************************************************************)
(* Worker.run_once.                                                        *)
(***************************************************************************)
\* Fault: the iteration goes on without its job.
WorkerTo_jobless(w, pc) ==
  /\ wpc' = [wpc EXCEPT ![w] = pc] /\ wjob' = [wjob EXCEPT ![w] = NoJob]
  /\ UNCHANGED wtoken

WorkerTo(w, pc) == wpc' = [wpc EXCEPT ![w] = pc] /\ UNCHANGED <<wjob, wtoken>>

WorkerDone(w) ==
  /\ wpc' = [wpc EXCEPT ![w] = "idle"]
  /\ wjob' = [wjob EXCEPT ![w] = NoJob]
  /\ wtoken' = [wtoken EXCEPT ![w] = NoToken]

\* Fault: an abandoned job is claimed again.
Claimable_again(j) == state[j] \in {"queued", "unknown_outcome"} /\ lease[j] # "live"

Claimable(j) == state[j] = "queued" /\ lease[j] # "live"

claim_next_job(w) ==
  /\ wpc[w] = "idle"
  /\ \E j \in Job :
       /\ Claimable(j) /\ \A i \in 1 .. (j - 1) : ~Claimable(i)
       /\ state' = [state EXCEPT ![j] = "running"]
       /\ lease_token' = [lease_token EXCEPT ![j] = issued + 1]
       /\ lease' = [lease EXCEPT ![j] = "live"]
       /\ issued' = issued + 1
       /\ Touch({j})
       /\ wpc' = [wpc EXCEPT ![w] = "claimed"]
       /\ wjob' = [wjob EXCEPT ![w] = j]
       /\ wtoken' = [wtoken EXCEPT ![w] = issued + 1]
  /\ UNCHANGED <<result, attempts, exhausted, schedVars, callerVars,
                 targetVars>>

\* A fenced transition_job that ends the iteration, whether it is applied or
\* raises StaleLease.
WorkerResolve(w, target, res) ==
  /\ IF Fenced(wjob[w], target, wtoken[w])
       THEN Write(wjob[w], target, res)
       ELSE UNCHANGED storeVars
  /\ WorkerDone(w)

\* The adapter call goes out.  Nothing re-checks the lease before it does.
BeginExecute(w) ==
  /\ wpc[w] = "claimed" /\ wjob[w] \notin Poison
  /\ effect' = [effect EXCEPT ![wjob[w]] = "inflight"]
  /\ executions' = [executions EXCEPT ![wjob[w]] = @ + 1]
  /\ WorkerTo(w, "executing")
  /\ UNCHANGED <<storeVars, schedVars, callerVars>>

\* adapter.execute returned, though the effect may still be to come: the
\* evidence is recorded and the lease kept.
ExecuteReturns(w) ==
  /\ wpc[w] = "executing"
  /\ IF Fenced(wjob[w], "verifying", wtoken[w])
       THEN Write(wjob[w], "verifying", {"execution"}) /\ WorkerTo(w, "renew")
       ELSE UNCHANGED storeVars /\ WorkerDone(w)
  /\ UNCHANGED <<schedVars, callerVars, targetVars>>

\* adapter.execute raised an AdapterError, before or after the operation was
\* sent.  Whether it asks for reconciliation says nothing of the effect: the
\* resilience guard makes one that does not of any unexpected exception.
ExecuteFails(w) ==
  /\ wpc[w] \in {"claimed", "executing"} /\ wjob[w] \notin Poison
  /\ \E target \in {"failed", "unknown_outcome"} : WorkerResolve(w, target, {})
  /\ UNCHANGED <<schedVars, callerVars, targetVars>>

\* renew_lease; its answer is not looked at.
RenewLease(w) ==
  /\ wpc[w] = "renew"
  /\ IF lease_token[wjob[w]] = wtoken[w] /\ state[wjob[w]] \in Leased
       THEN lease' = [lease EXCEPT ![wjob[w]] = "live"] /\ Touch({wjob[w]})
       ELSE UNCHANGED <<lease, older>>
  /\ WorkerTo(w, "observing")
  /\ UNCHANGED <<state, lease_token, result, attempts, exhausted, issued,
                 schedVars, callerVars, targetVars>>

\* observe and verify came back: satisfied, or raised as an AdapterError, with
\* a reconciliation (also when not yet satisfied) or without.
WorkerVerifies(w) ==
  /\ wpc[w] = "observing"
  /\ \/ /\ effect[wjob[w]] = "applied"
        /\ WorkerResolve(w, "succeeded", {"execution", "verification"})
     \/ WorkerResolve(w, "unknown_outcome", {})
     \/ WorkerResolve(w, "failed", {})
  /\ UNCHANGED <<schedVars, callerVars, targetVars>>

\* The iteration dies: a crash, a store error, or a job the catalog refuses
\* (raised outside the try block).  The row keeps its state and its lease.
WorkerFails(w) ==
  /\ wpc[w] # "idle"
  /\ WorkerMayFail \/ (wpc[w] = "claimed" /\ wjob[w] \in Poison)
  /\ WorkerDone(w)
  /\ UNCHANGED <<storeVars, schedVars, callerVars, targetVars>>

WorkerStep(w) ==
  \/ claim_next_job(w) \/ BeginExecute(w) \/ ExecuteReturns(w)
  \/ ExecuteFails(w) \/ RenewLease(w) \/ WorkerVerifies(w) \/ WorkerFails(w)
-----------------------------------------------------------------------------
(***************************************************************************)
(* scheduler_loop: expire_stale_queued, then Reconciler.run_once.          *)
(***************************************************************************)
SchedulerDone ==
  /\ spc' = "idle" /\ pending' = {} /\ order' = {} /\ sjob' = NoJob
  /\ view' = [j \in Job |-> {}]

\* Queued jobs created before the cutoff, wherever the cutoff falls.
expire_stale_queued ==
  /\ spc = "idle"
  /\ \E cutoff \in 0 .. MaxJobs :
       ExpireRows({j \in Job : j <= cutoff /\ state[j] = "queued"}, "expired")
  /\ spc' = "leases"
  /\ UNCHANGED <<pending, view, order, sjob, workerVars, callerVars,
                 targetVars>>

\* Fault: a worker that dies while it verifies is overlooked.
Abandoned_running == {j \in Job : state[j] = "running" /\ lease[j] = "lapsed"}

Abandoned == {j \in Job : state[j] \in Leased /\ lease[j] = "lapsed"}

expire_leases ==
  /\ spc = "leases"
  /\ ExpireRows(Abandoned, "unknown_outcome")
  /\ spc' = "candidates"
  /\ UNCHANGED <<pending, view, order, sjob, workerVars, callerVars,
                 targetVars>>

Unknown == {j \in Job : state[j] = "unknown_outcome"}

\* The rows of SELECT ... ORDER BY updated_at LIMIT BatchLimit.
OldestUnknown(S) ==
  /\ S \subseteq Unknown
  /\ Cardinality(S) <= BatchLimit
  /\ S # Unknown => Cardinality(S) = BatchLimit
  /\ \A i \in Unknown \ S, j \in S : <<i, j>> \notin older

\* Fault: one attempt too many.
WithinBudget_plus_one(j) == attempts[j] <= MaxAttempts

WithinBudget(j) == attempts[j] < MaxAttempts

\* Jobs over budget are dropped AFTER the limit was applied.
claim_reconcile_candidates ==
  /\ spc = "candidates"
  /\ \E S \in SUBSET Unknown :
       LET C == {j \in S : WithinBudget(j)} IN
       /\ OldestUnknown(S)
       /\ attempts' = [j \in Job |-> IF j \in C THEN attempts[j] + 1 ELSE attempts[j]]
       /\ exhausted' = [j \in Job |-> IF j \in C /\ attempts[j] + 1 = MaxAttempts
                                        THEN exhausted[j] + 1 ELSE exhausted[j]]
       /\ pending' = C
       /\ order' = older \cap (C \X C)
       /\ view' = [j \in Job |-> IF j \in C THEN JobView(j) ELSE {}]
  /\ spc' = "batch"
  /\ UNCHANGED <<state, lease_token, lease, result, older, issued, sjob,
                 workerVars, callerVars, targetVars>>

\* The next candidate of the batch: job_context, catalog and adapter are looked
\* up, then an unfenced transition to VERIFYING.  A refused action or an
\* InvalidTransition escapes run_once and drops the rest of the batch.
OpenVerification ==
  /\ spc = "batch"
  /\ \E j \in pending :
       /\ \A i \in pending : <<i, j>> \notin order
       /\ IF j \notin Poison /\ Unfenced(j, "verifying")
            THEN /\ Write(j, "verifying", view[j])
                 /\ spc' = "reconciling" /\ sjob' = j
                 /\ pending' = pending \ {j}
                 /\ UNCHANGED <<view, order>>
            ELSE UNCHANGED storeVars /\ SchedulerDone
  /\ UNCHANGED <<workerVars, callerVars, targetVars>>

\* observe and verify came back; the outcome is written unfenced.
ReconcilerResolves ==
  /\ spc = "reconciling"
  /\ \E target \in {"succeeded", "unknown_outcome", "failed"} :
       /\ target = "succeeded" => effect[sjob] = "applied"
       /\ IF Unfenced(sjob, target)
            THEN /\ Write(sjob, target, IF target = "succeeded"
                                          THEN view[sjob] \cup {"verification"}
                                          ELSE view[sjob])
                 /\ spc' = "batch" /\ sjob' = NoJob
                 /\ UNCHANGED <<pending, view, order>>
            ELSE UNCHANGED storeVars /\ SchedulerDone
  /\ UNCHANGED <<workerVars, callerVars, targetVars>>

BatchDone ==
  /\ spc = "batch" /\ pending = {}
  /\ SchedulerDone
  /\ UNCHANGED <<storeVars, workerVars, callerVars, targetVars>>

\* The iteration dies between two transactions: a crash or a store error.
SchedulerFails ==
  /\ SchedulerMayFail /\ spc # "idle"
  /\ SchedulerDone
  /\ UNCHANGED <<storeVars, workerVars, callerVars, targetVars>>

SchedulerStep ==
  \/ expire_stale_queued \/ expire_leases \/ claim_reconcile_candidates
  \/ OpenVerification \/ ReconcilerResolves \/ BatchDone
-----------------------------------------------------------------------------
(***************************************************************************)
(* Canceller.cancel, for the owner of the job.  A job that is already      *)
(* terminal is refused without a trace.                                    *)
(***************************************************************************)
CallerDone(c) ==
  /\ cpc' = [cpc EXCEPT ![c] = "idle"]
  /\ cjob' = [cjob EXCEPT ![c] = NoJob]
  /\ cstate' = [cstate EXCEPT ![c] = "absent"]
  /\ cresult' = [cresult EXCEPT ![c] = {}]
  /\ cdisp' = [cdisp EXCEPT ![c] = "none"]

CallerSees(c, j, pc) ==
  /\ cpc' = [cpc EXCEPT ![c] = pc]
  /\ cjob' = [cjob EXCEPT ![c] = j]
  /\ cstate' = [cstate EXCEPT ![c] = state[j]]
  /\ cresult' = [cresult EXCEPT ![c] = JobView(j)]
  /\ UNCHANGED cdisp

CancelReads(c) ==
  /\ cpc[c] = "idle"
  /\ \E j \in Job :
       /\ state[j] # "absent" /\ ~Terminal(j)
       /\ CallerSees(c, j, IF state[j] = "queued" THEN "queued" ELSE "adapter")
  /\ UNCHANGED <<storeVars, workerVars, schedVars, targetVars>>

\* Compare-and-set on QUEUED; a StaleLease leads to a second read.
CancelQueued(c) ==
  /\ cpc[c] = "queued"
  /\ IF Expected(cjob[c], "cancelled", "queued")
       THEN Write(cjob[c], "cancelled", cresult[c]) /\ CallerDone(c)
       ELSE /\ cpc' = [cpc EXCEPT ![c] = "reread"]
            /\ UNCHANGED <<storeVars, cjob, cstate, cresult, cdisp>>
  /\ UNCHANGED <<workerVars, schedVars, targetVars>>

CancelRereads(c) ==
  /\ cpc[c] = "reread"
  /\ IF Terminal(cjob[c]) THEN CallerDone(c) ELSE CallerSees(c, cjob[c], "adapter")
  /\ UNCHANGED <<storeVars, workerVars, schedVars, targetVars>>

\* adapter.cancel answers.  "refused" is not_supported, already_terminal, an
\* error without reconciliation or a job the catalog refuses; "unknown" is the
\* disposition of that name or an error that needs reconciliation.
AdapterCancels(c) ==
  /\ cpc[c] = "adapter"
  /\ \/ CallerDone(c)
     \/ /\ cjob[c] \notin Poison
        /\ \E d \in {"cancelled", "unknown"} :
             /\ d = "cancelled" => effect[cjob[c]] = "stopped"
             /\ cdisp' = [cdisp EXCEPT ![c] = d]
             /\ cpc' = [cpc EXCEPT ![c] = "apply"]
        /\ UNCHANGED <<cjob, cstate, cresult>>
  /\ UNCHANGED <<storeVars, workerVars, schedVars, targetVars>>

\* Fault: the adapter's answer is not put on record.
CancelResult_bare(c) == cresult[c]

\* The result _apply writes: the one that was read before the adapter was asked,
\* with the adapter's answer if it has cancelled.
CancelResult(c) ==
  IF cdisp[c] = "cancelled" THEN cresult[c] \cup {"cancellation"} ELSE cresult[c]

\* _apply: an unfenced write over whatever the row has become.
CancelApplies(c) ==
  /\ cpc[c] = "apply"
  /\ LET target == IF cdisp[c] = "cancelled" THEN "cancelled" ELSE "unknown_outcome"
         skip == cdisp[c] = "unknown" /\ cstate[c] = "unknown_outcome"
     IN IF ~skip /\ Unfenced(cjob[c], target)
          THEN Write(cjob[c], target, CancelResult(c))
          ELSE UNCHANGED storeVars
  /\ CallerDone(c)
  /\ UNCHANGED <<workerVars, schedVars, targetVars>>

\* The request is dropped: the client went away or the broker restarted.
CallerFails(c) ==
  /\ cpc[c] # "idle"
  /\ CallerDone(c)
  /\ UNCHANGED <<storeVars, workerVars, schedVars, targetVars>>

CallerStep(c) ==
  \/ CancelReads(c) \/ CancelQueued(c) \/ CancelRereads(c)
  \/ AdapterCancels(c) \/ CancelApplies(c) \/ CallerFails(c)
-----------------------------------------------------------------------------
(***************************************************************************)
(* The clock and the targets.                                              *)
(***************************************************************************)
LeaseLapses(j) ==
  /\ lease[j] = "live"
  /\ lease' = [lease EXCEPT ![j] = "lapsed"]
  /\ UNCHANGED <<state, lease_token, result, attempts, older, exhausted, issued,
                 workerVars, schedVars, callerVars, targetVars>>

\* The target acts on an operation in flight, or drops it for good, even when
\* the worker that sent it is gone.
TargetSettles(j) ==
  /\ effect[j] = "inflight"
  /\ \E e \in {"applied", "stopped"} : effect' = [effect EXCEPT ![j] = e]
  /\ UNCHANGED <<storeVars, workerVars, schedVars, callerVars, executions>>

Next ==
  \/ create_job
  \/ \E w \in Worker : WorkerStep(w)
  \/ SchedulerStep \/ SchedulerFails
  \/ \E c \in Caller : CallerStep(c)
  \/ \E j \in Job : LeaseLapses(j) \/ TargetSettles(j)

Spec == Init /\ [][Next]_vars

\* Every process keeps running its loop (worker_main and scheduler_main catch
\* whatever an iteration raises and go on), every adapter call returns (the
\* resilience guard bounds it with a timeout), and time passes.
Fairness ==
  /\ \A w \in Worker : WF_vars(WorkerStep(w))
  /\ WF_vars(SchedulerStep)
  /\ \A j \in Job : WF_vars(LeaseLapses(j))

FairSpec == Spec /\ Fairness
-----------------------------------------------------------------------------
(***************************************************************************)
(* Properties.                                                             *)
(***************************************************************************)
\* Every variable keeps its type; in particular a process that is not idle has
\* a job at hand.
TypeOK ==
  /\ state \in [Job -> DurableState]
  /\ lease_token \in [Job -> Nat]
  /\ lease \in [Job -> {"none", "live", "lapsed"}]
  /\ result \in [Job -> SUBSET Evidence]
  /\ attempts \in [Job -> Nat] /\ exhausted \in [Job -> Nat]
  /\ older \subseteq Job \X Job
  /\ issued \in Nat
  /\ wpc \in [Worker -> {"idle", "claimed", "executing", "renew", "observing"}]
  /\ wjob \in [Worker -> Job \cup {NoJob}]
  /\ wtoken \in [Worker -> Nat]
  /\ \A w \in Worker : wpc[w] # "idle" => wjob[w] \in Job
  /\ spc \in {"idle", "leases", "candidates", "batch", "reconciling"}
  /\ pending \subseteq Job /\ order \subseteq Job \X Job
  /\ view \in [Job -> SUBSET Evidence]
  /\ sjob \in Job \cup {NoJob}
  /\ spc = "reconciling" => sjob \in Job
  /\ cpc \in [Caller -> {"idle", "queued", "reread", "adapter", "apply"}]
  /\ cjob \in [Caller -> Job \cup {NoJob}]
  /\ \A c \in Caller : cpc[c] # "idle" => cjob[c] \in Job
  /\ cstate \in [Caller -> DurableState]
  /\ cresult \in [Caller -> SUBSET Evidence]
  /\ cdisp \in [Caller -> {"none", "cancelled", "unknown"}]
  /\ effect \in [Job -> {"never", "inflight", "applied", "stopped"}]
  /\ executions \in [Job -> Nat]

\* The operation of a job is sent to its target at most once, whatever dies and
\* whoever takes over (store.py: "never replay them blindly").
ExecutedAtMostOnce == \A j \in Job : executions[j] <= 1

\* While a row carries a worker's token, the row is the one that worker works
\* on and it is in the state the worker left it in: a fenced write of the
\* holder is never refused by the state machine, and no one else changed the
\* row under a lease that still looks valid.
TokenMeansOwnership ==
  \A w \in Worker, j \in Job :
    wpc[w] # "idle" /\ lease_token[j] = wtoken[w] =>
      /\ wjob[w] = j
      /\ state[j] = IF wpc[w] \in {"claimed", "executing"}
                      THEN "running" ELSE "verifying"

\* A running job always carries a lease with an expiry, so that a worker that
\* dies can never strand it; and no lease outlives the states expire_leases
\* looks at.
RunningIsLeased ==
  \A j \in Job :
    /\ lease_token[j] = NoToken <=> lease[j] = "none"
    /\ state[j] = "running" => lease_token[j] # NoToken
    /\ lease_token[j] # NoToken => state[j] \in Leased

\* Once a job has left the hands of its worker (its lease is gone), no worker
\* writes its row again, however late the worker wakes up.
ZombiesDoNotWrite ==
  [][\A j \in Job :
       /\ state[j] \in {"verifying", "unknown_outcome"} /\ lease_token[j] = NoToken
       /\ <<state[j], result[j]>> # <<state'[j], result'[j]>>
       => UNCHANGED workerVars]_vars

\* No job is reconciled beyond its budget, and running out of it is audited
\* exactly once.
ExhaustionAuditedOnce ==
  \A j \in Job :
    /\ attempts[j] <= MaxAttempts
    /\ exhausted[j] = IF attempts[j] = MaxAttempts THEN 1 ELSE 0

\* Nobody but a cancel request touches a row the reconciler holds.  Until it is
\* opened it is unknown, with the very result the view carries; from then on it
\* is under verification, with that result; or else a cancel request was there.
\* If that cancelled the job, the reconciler's write is refused.  If it left the
\* job unknown, the write is accepted and replaces the result the request had
\* put back: the one case in which the reconciler writes over what it has not
\* read.
OnlyCancelInterferes ==
  /\ \A j \in pending :
       \/ state[j] = "unknown_outcome" /\ view[j] = result[j]
       \/ state[j] = "cancelled"
  /\ spc = "reconciling" =>
       \/ state[sjob] = "verifying" /\ view[sjob] = result[sjob]
       \/ state[sjob] \in {"unknown_outcome", "cancelled"}

\* The unfenced writes put back results that were read long before, and still a
\* row's result tells the truth of its job.  It shows a verification exactly if
\* the job has succeeded, and a cancellation only if it was cancelled; a
\* cancelled job without one was never sent, and one with it was stopped; what
\* shows an execution was sent.
RecordIsTruthful ==
  \A j \in Job :
    /\ state[j] = "succeeded" <=> "verification" \in result[j]
    /\ "cancellation" \in result[j] => state[j] = "cancelled"
    /\ state[j] = "cancelled" =>
         effect[j] = IF "cancellation" \in result[j] THEN "stopped" ELSE "never"
    /\ "execution" \in result[j] => effect[j] # "never"

\* A job under verification without a lease is in the hands of the scheduler:
\* nobody else would ever look at it again (expire_leases only sees leases,
\* claim_reconcile_candidates only unknown outcomes).
VerificationHasAnOwner ==
  \A j \in Job :
    state[j] = "verifying" /\ lease_token[j] = NoToken =>
      spc = "reconciling" /\ sjob = j

\* Each job, taken alone, behaves as JobLifecycle promises: the conjunction of
\* L(j)!LifecycleSpec over the jobs, in the form TLC can check.
L(j) == INSTANCE JobLifecycle WITH state <- state[j], effect <- effect[j]
Lifecycle ==
  /\ \A j \in Job : L(j)!LifecycleInit
  /\ [][\A j \in Job : [L(j)!LifecycleNext]_(L(j)!lifecycleVars)]_vars

\* Terminal, or given up by the reconciler and left to the operator.
Settled(j) ==
  \/ Terminal(j)
  \/ state[j] = "unknown_outcome" /\ attempts[j] = MaxAttempts /\ j \notin pending

\* Every accepted job is eventually settled, although workers may die at any
\* point and cancel requests race with everything.
EveryJobSettles == \A j \in Job : state[j] # "absent" ~> Settled(j)

=============================================================================
