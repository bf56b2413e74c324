--------------------------- MODULE JobEngineProofs ---------------------------
(***************************************************************************)
(* TLAPS proofs about JobEngine, for any number of jobs, workers and       *)
(* cancel requests, any reconcile budget and any batch limit.              *)
(***************************************************************************)
EXTENDS JobEngine, TLAPS

-----------------------------------------------------------------------------
(***************************************************************************)
(* Type correctness.                                                       *)
(***************************************************************************)
StoreTypeOK ==
  /\ state \in [Job -> DurableState]
  /\ lease_token \in [Job -> Nat]
  /\ lease \in [Job -> {"none", "live", "lapsed"}]
  /\ result \in [Job -> SUBSET Evidence]
  /\ attempts \in [Job -> Nat] /\ exhausted \in [Job -> Nat]
  /\ older \subseteq Job \X Job
  /\ issued \in Nat

\* The write of transition_job keeps the table well typed.
LEMMA WriteType ==
  ASSUME StoreTypeOK, NEW j \in Job, NEW target \in DurableState,
         NEW res \in SUBSET Evidence, Write(j, target, res)
  PROVE  StoreTypeOK'
  BY DEF StoreTypeOK, Write, Touch, NoToken

\* So do the expiry sweeps.
LEMMA ExpireType ==
  ASSUME StoreTypeOK, NEW S \in SUBSET Job, NEW target \in DurableState,
         ExpireRows(S, target)
  PROVE  StoreTypeOK'
  BY DEF StoreTypeOK, ExpireRows, Touch, NoToken

\* A step of a worker keeps every variable in its type.
LEMMA WorkerType ==
  ASSUME TypeOK, NEW w \in Worker, WorkerStep(w)
  PROVE  TypeOK'
<1> USE DEF NoJob, NoToken
<1>0. StoreTypeOK
  BY DEF TypeOK, StoreTypeOK
<1>1. CASE claim_next_job(w)
  BY <1>1 DEF TypeOK, claim_next_job, Touch, DurableState, schedVars, callerVars,
              targetVars
<1>2. CASE BeginExecute(w)
  BY <1>2 DEF TypeOK, BeginExecute, WorkerTo, storeVars, schedVars, callerVars
<1>3. CASE ExecuteReturns(w)
  <2>1. wjob[w] \in Job
    BY <1>3 DEF TypeOK, ExecuteReturns
  <2>2. StoreTypeOK'
    <3>1. CASE Write(wjob[w], "verifying", {"execution"})
      BY <1>0, <2>1, <3>1, WriteType DEF DurableState, Evidence
    <3>2. CASE UNCHANGED storeVars
      BY <1>0, <3>2 DEF StoreTypeOK, storeVars
    <3> QED
      BY <1>3, <3>1, <3>2 DEF ExecuteReturns
  <2>3. WorkerTo(w, "renew") \/ WorkerDone(w)
    BY <1>3 DEF ExecuteReturns
  <2>4. UNCHANGED <<schedVars, callerVars, targetVars>>
    BY <1>3 DEF ExecuteReturns
  <2>5. CASE WorkerTo(w, "renew")
    BY <2>1, <2>2, <2>4, <2>5 DEF TypeOK, StoreTypeOK, WorkerTo, schedVars,
       callerVars, targetVars
  <2>6. CASE WorkerDone(w)
    BY <2>2, <2>4, <2>6 DEF TypeOK, StoreTypeOK, WorkerDone, schedVars,
       callerVars, targetVars
  <2> QED
    BY <2>3, <2>5, <2>6
<1>4. ASSUME NEW target \in DurableState, NEW res \in SUBSET Evidence,
             wjob[w] \in Job, WorkerResolve(w, target, res),
             UNCHANGED <<schedVars, callerVars, targetVars>>
      PROVE  TypeOK'
  <2>1. StoreTypeOK'
    <3>1. CASE Write(wjob[w], target, res)
      BY <1>0, <1>4, <3>1, WriteType
    <3>2. CASE UNCHANGED storeVars
      BY <1>0, <3>2 DEF StoreTypeOK, storeVars
    <3> QED
      BY <1>4, <3>1, <3>2 DEF WorkerResolve
  <2> QED
    BY <1>4, <2>1 DEF TypeOK, StoreTypeOK, WorkerResolve, WorkerDone,
       schedVars, callerVars, targetVars
<1>5. CASE ExecuteFails(w)
  <2>1. wjob[w] \in Job
    BY <1>5 DEF TypeOK, ExecuteFails
  <2> QED
    BY <1>4, <1>5, <2>1 DEF ExecuteFails, DurableState
<1>6. CASE RenewLease(w)
  BY <1>6 DEF TypeOK, RenewLease, Touch, WorkerTo, schedVars, callerVars, targetVars
<1>7. CASE WorkerVerifies(w)
  <2>1. wjob[w] \in Job
    BY <1>7 DEF TypeOK, WorkerVerifies
  <2> QED
    BY <1>4, <1>7, <2>1 DEF WorkerVerifies, DurableState, Evidence
<1>8. CASE WorkerFails(w)
  BY <1>8 DEF TypeOK, WorkerFails, WorkerDone, storeVars, schedVars, callerVars,
              targetVars
<1> QED
  BY <1>1, <1>2, <1>3, <1>5, <1>6, <1>7, <1>8 DEF WorkerStep

\* A step of the scheduler keeps every variable in its type.
LEMMA SchedulerType ==
  ASSUME TypeOK, SchedulerStep \/ SchedulerFails
  PROVE  TypeOK'
<1> USE DEF NoJob, NoToken
<1>0. StoreTypeOK
  BY DEF TypeOK, StoreTypeOK
<1>1. CASE expire_stale_queued
  <2>1. StoreTypeOK'
    BY <1>0, <1>1, ExpireType DEF expire_stale_queued, DurableState
  <2> QED
    BY <1>1, <2>1 DEF TypeOK, StoreTypeOK, expire_stale_queued, workerVars,
                      callerVars, targetVars
<1>2. CASE expire_leases
  <2>1. StoreTypeOK'
    BY <1>0, <1>2, ExpireType DEF expire_leases, Abandoned, DurableState
  <2> QED
    BY <1>2, <2>1 DEF TypeOK, StoreTypeOK, expire_leases, workerVars,
                      callerVars, targetVars
<1>3. CASE claim_reconcile_candidates
  BY <1>3 DEF TypeOK, claim_reconcile_candidates, Unknown, JobView, workerVars,
              callerVars, targetVars
<1>4. CASE OpenVerification
  <2>1. PICK j \in pending :
          IF j \notin Poison /\ Unfenced(j, "verifying")
            THEN /\ Write(j, "verifying", view[j])
                 /\ spc' = "reconciling" /\ sjob' = j
                 /\ pending' = pending \ {j}
                 /\ UNCHANGED <<view, order>>
            ELSE UNCHANGED storeVars /\ SchedulerDone
    BY <1>4 DEF OpenVerification
  <2>2. j \in Job /\ view[j] \in SUBSET Evidence
    BY DEF TypeOK
  <2>3. CASE j \notin Poison /\ Unfenced(j, "verifying")
    <3>1. StoreTypeOK'
      BY <1>0, <2>1, <2>2, <2>3, WriteType DEF DurableState
    <3>2. UNCHANGED <<workerVars, callerVars, targetVars>>
      BY <1>4 DEF OpenVerification
    <3> QED
      BY <2>1, <2>2, <2>3, <3>1, <3>2 DEF TypeOK, StoreTypeOK, workerVars,
         callerVars, targetVars
  <2>4. CASE ~(j \notin Poison /\ Unfenced(j, "verifying"))
    BY <1>4, <2>1, <2>4 DEF TypeOK, OpenVerification, SchedulerDone, storeVars,
       workerVars, callerVars, targetVars
  <2> QED
    BY <2>3, <2>4
<1>5. CASE ReconcilerResolves
  <2>1. PICK target \in {"succeeded", "unknown_outcome", "failed"} :
          IF Unfenced(sjob, target)
            THEN /\ Write(sjob, target, IF target = "succeeded"
                                          THEN view[sjob] \cup {"verification"}
                                          ELSE view[sjob])
                 /\ spc' = "batch" /\ sjob' = NoJob
                 /\ UNCHANGED <<pending, view, order>>
            ELSE UNCHANGED storeVars /\ SchedulerDone
    BY <1>5 DEF ReconcilerResolves
  <2>2. sjob \in Job /\ view[sjob] \in SUBSET Evidence
    BY <1>5 DEF TypeOK, ReconcilerResolves
  <2>3. CASE Unfenced(sjob, target)
    <3>1. StoreTypeOK'
      BY <1>0, <2>1, <2>2, <2>3, WriteType DEF DurableState, Evidence
    <3> QED
      BY <1>5, <2>1, <2>3, <3>1 DEF TypeOK, StoreTypeOK, ReconcilerResolves,
         workerVars, callerVars, targetVars
  <2>4. CASE ~Unfenced(sjob, target)
    BY <1>5, <2>1, <2>4 DEF TypeOK, ReconcilerResolves, SchedulerDone, storeVars,
       workerVars, callerVars, targetVars
  <2> QED
    BY <2>3, <2>4
<1>6. CASE BatchDone \/ SchedulerFails
  BY <1>6 DEF TypeOK, BatchDone, SchedulerFails, SchedulerDone, storeVars,
              workerVars, callerVars, targetVars
<1> QED
  BY <1>1, <1>2, <1>3, <1>4, <1>5, <1>6 DEF SchedulerStep

\* A step of a cancel request keeps every variable in its type.
LEMMA CallerType ==
  ASSUME TypeOK, NEW c \in Caller, CallerStep(c)
  PROVE  TypeOK'
<1> USE DEF NoJob, NoToken
<1>0. StoreTypeOK
  BY DEF TypeOK, StoreTypeOK
<1>a. "absent" \in DurableState
  BY DEF DurableState
<1>1. CASE CancelReads(c)
  BY <1>1 DEF TypeOK, CancelReads, CallerSees, JobView, storeVars, workerVars,
              schedVars, targetVars
<1>2. CASE CancelQueued(c)
  <2>1. cjob[c] \in Job /\ cresult[c] \in SUBSET Evidence
    BY <1>2 DEF TypeOK, CancelQueued
  <2>2. StoreTypeOK'
    <3>1. CASE Write(cjob[c], "cancelled", cresult[c])
      BY <1>0, <2>1, <3>1, WriteType DEF DurableState
    <3>2. CASE UNCHANGED storeVars
      BY <1>0, <3>2 DEF StoreTypeOK, storeVars
    <3> QED
      BY <1>2, <3>1, <3>2 DEF CancelQueued, storeVars
  <2>3. UNCHANGED <<workerVars, schedVars, targetVars>>
    BY <1>2 DEF CancelQueued
  <2>4. CASE CallerDone(c)
    BY <1>a, <2>2, <2>3, <2>4 DEF TypeOK, StoreTypeOK, CallerDone, workerVars,
       schedVars, targetVars
  <2>5. CASE /\ cpc' = [cpc EXCEPT ![c] = "reread"]
             /\ UNCHANGED <<cjob, cstate, cresult, cdisp>>
    BY <2>1, <2>2, <2>3, <2>5 DEF TypeOK, StoreTypeOK, workerVars, schedVars,
       targetVars
  <2> QED
    BY <1>2, <2>4, <2>5 DEF CancelQueued
<1>d. ASSUME CallerDone(c), UNCHANGED <<storeVars, workerVars, schedVars, targetVars>>
      PROVE  TypeOK'
  BY <1>a, <1>d DEF TypeOK, CallerDone, storeVars, workerVars, schedVars, targetVars
<1>3. CASE CancelRereads(c)
  <2>1. UNCHANGED <<storeVars, workerVars, schedVars, targetVars>>
    BY <1>3 DEF CancelRereads
  <2>2. cjob[c] \in Job
    BY <1>3 DEF TypeOK, CancelRereads
  <2>3. CASE CallerSees(c, cjob[c], "adapter")
    BY <2>1, <2>2, <2>3 DEF TypeOK, CallerSees, JobView, storeVars, workerVars,
       schedVars, targetVars
  <2> QED
    BY <1>3, <1>d, <2>1, <2>3 DEF CancelRereads
<1>4. CASE AdapterCancels(c)
  <2>1. UNCHANGED <<storeVars, workerVars, schedVars, targetVars>>
    BY <1>4 DEF AdapterCancels
  <2>2. cjob[c] \in Job
    BY <1>4 DEF TypeOK, AdapterCancels
  <2>3. ASSUME NEW d \in {"cancelled", "unknown"}, cdisp' = [cdisp EXCEPT ![c] = d],
               cpc' = [cpc EXCEPT ![c] = "apply"], UNCHANGED <<cjob, cstate, cresult>>
        PROVE  TypeOK'
    BY <2>1, <2>2, <2>3 DEF TypeOK, storeVars, workerVars, schedVars, targetVars
  <2> QED
    BY <1>4, <1>d, <2>1, <2>3 DEF AdapterCancels
<1>5. CASE CancelApplies(c)
  <2>1. cjob[c] \in Job /\ cresult[c] \in SUBSET Evidence
    BY <1>5 DEF TypeOK, CancelApplies
  <2>2. StoreTypeOK'
    <3>1. ASSUME NEW target \in {"cancelled", "unknown_outcome"},
                 NEW res \in {cresult[c], cresult[c] \cup {"cancellation"}},
                 Write(cjob[c], target, res)
          PROVE  StoreTypeOK'
      BY <1>0, <2>1, <3>1, WriteType DEF DurableState, Evidence
    <3>2. CASE UNCHANGED storeVars
      BY <1>0, <3>2 DEF StoreTypeOK, storeVars
    <3>3. CancelResult(c) \in {cresult[c], cresult[c] \cup {"cancellation"}}
      BY DEF CancelResult
    <3> QED
      BY <1>5, <3>1, <3>2, <3>3 DEF CancelApplies
  <2> QED
    BY <1>5, <1>a, <2>2 DEF TypeOK, StoreTypeOK, CancelApplies, CallerDone,
       workerVars, schedVars, targetVars
<1>6. CASE CallerFails(c)
  BY <1>6, <1>a DEF TypeOK, CallerFails, CallerDone, storeVars, workerVars,
              schedVars, targetVars
<1> QED
  BY <1>1, <1>2, <1>3, <1>4, <1>5, <1>6 DEF CallerStep

\* Steps that only the clock, a target or a new submission takes.
LEMMA EnvironmentType ==
  ASSUME TypeOK, create_job \/ \E j \in Job : LeaseLapses(j) \/ TargetSettles(j)
  PROVE  TypeOK'
<1>1. CASE create_job
  BY <1>1 DEF TypeOK, create_job, Touch, DurableState, workerVars, schedVars,
              callerVars, targetVars
<1>2. ASSUME NEW j \in Job, LeaseLapses(j) PROVE TypeOK'
  BY <1>2 DEF TypeOK, LeaseLapses, workerVars, schedVars, callerVars, targetVars
<1>3. ASSUME NEW j \in Job, TargetSettles(j) PROVE TypeOK'
  BY <1>3 DEF TypeOK, TargetSettles, storeVars, workerVars, schedVars, callerVars
<1> QED
  BY <1>1, <1>2, <1>3

\* Every variable keeps its type and a busy process always has a job at hand,
\* in every behaviour of the job engine.
THEOREM TypeCorrect == Spec => []TypeOK
<1>1. Init => TypeOK
  BY EngineConstants DEF Init, TypeOK, NoJob, NoToken, DurableState
<1>2. TypeOK /\ [Next]_vars => TypeOK'
  <2> SUFFICES ASSUME TypeOK, [Next]_vars PROVE TypeOK'
    OBVIOUS
  <2>1. CASE UNCHANGED vars
    BY <2>1 DEF TypeOK, vars, storeVars, workerVars, schedVars, callerVars, targetVars
  <2> QED
    BY <2>1, WorkerType, SchedulerType, CallerType, EnvironmentType DEF Next
<1> QED
  BY <1>1, <1>2, PTL DEF Spec
-----------------------------------------------------------------------------
(***************************************************************************)
(* The inductive invariant.  Fencing rests on tokens being fresh: a token  *)
(* in the table or in a worker's hands was issued, no two busy workers     *)
(* hold the same one, and a row's token belongs to nobody but the worker   *)
(* it was issued to.  At-most-once execution rests on a job being given    *)
(* out only once: a job that can still be claimed is in nobody's hands and *)
(* was never sent.                                                         *)
(***************************************************************************)
Busy(w) == wpc[w] # "idle"

\* The states in which a job has not been given to any worker.
Unclaimed == {"absent", "queued", "expired"}

TokensAreIssued ==
  /\ \A j \in Job : lease_token[j] <= issued
  /\ \A w \in Worker : Busy(w) => wtoken[w] \in 1 .. issued

OneHolder ==
  \A v, w \in Worker :
    Busy(v) /\ Busy(w) /\ v # w => wjob[v] # wjob[w] /\ wtoken[v] # wtoken[w]

UnclaimedIsUntouched ==
  \A j \in Job :
    state[j] \in Unclaimed \/ (state[j] = "cancelled" /\ effect[j] = "never") =>
      effect[j] = "never" /\ \A w \in Worker : Busy(w) => wjob[w] # j

OutcomesAreTruthful ==
  /\ \A j \in Job : state[j] = "cancelled" => effect[j] \in {"never", "stopped"}
  /\ \A j \in Job : state[j] = "succeeded" => effect[j] = "applied"
  /\ \A c \in Caller :
       cpc[c] = "apply" /\ cdisp[c] = "cancelled" => effect[cjob[c]] = "stopped"

ClaimedIsUnsent ==
  \A w \in Worker : wpc[w] = "claimed" => effect[wjob[w]] = "never"

ExecutionsAreEffects ==
  \A j \in Job : executions[j] = IF effect[j] = "never" THEN 0 ELSE 1

CandidatesWereClaimed ==
  \A j \in pending : state[j] \notin Unclaimed \cup {"running"}

\* What the steps below preserve together with TypeOK.
Inv ==
  /\ TypeOK
  /\ RunningIsLeased
  /\ TokenMeansOwnership
  /\ TokensAreIssued
  /\ OneHolder
  /\ UnclaimedIsUntouched
  /\ OutcomesAreTruthful
  /\ ClaimedIsUnsent
  /\ ExecutionsAreEffects
  /\ CandidatesWereClaimed

\* Most steps end an iteration or leave the workers alone, ...
WorkersOnlyLeave ==
  \A w \in Worker :
    \/ wpc'[w] = "idle"
    \/ wpc'[w] = wpc[w] /\ wjob'[w] = wjob[w] /\ wtoken'[w] = wtoken[w]

\* ... and make no cancel request believe in a cancellation that did not happen.
CallersStayHonest ==
  \A c \in Caller :
    cpc'[c] = "apply" /\ cdisp'[c] = "cancelled" => effect[cjob'[c]] = "stopped"

\* A step that does not touch the table or the targets.
LEMMA QuietStep ==
  ASSUME Inv, TypeOK', UNCHANGED <<storeVars, targetVars>>, WorkersOnlyLeave,
         CallersStayHonest, pending' \subseteq pending
  PROVE  Inv'
<1> USE DEF Inv, storeVars, targetVars, WorkersOnlyLeave, Busy
<1>1. RunningIsLeased'
  BY DEF RunningIsLeased
<1>2. TokenMeansOwnership'
  BY DEF TokenMeansOwnership
<1>3. TokensAreIssued'
  BY DEF TokensAreIssued
<1>4. OneHolder'
  BY DEF OneHolder
<1>5. UnclaimedIsUntouched'
  BY DEF UnclaimedIsUntouched
<1>6. OutcomesAreTruthful'
  BY DEF OutcomesAreTruthful, CallersStayHonest
<1>7. ClaimedIsUnsent'
  BY DEF ClaimedIsUnsent
<1>8. ExecutionsAreEffects' /\ CandidatesWereClaimed'
  BY DEF ExecutionsAreEffects, CandidatesWereClaimed
<1> QED
  BY <1>1, <1>2, <1>3, <1>4, <1>5, <1>6, <1>7, <1>8

\* A transition_job that gives up the lease.
LEMMA ResolvingStep ==
  ASSUME Inv, TypeOK', NEW j \in Job,
         NEW target \in {"succeeded", "failed", "unknown_outcome", "cancelled"},
         NEW res, Write(j, target, res), Unfenced(j, target),
         target = "cancelled" => effect[j] = "stopped" \/ state[j] = "queued",
         target = "succeeded" => effect[j] = "applied",
         UNCHANGED targetVars, WorkersOnlyLeave, CallersStayHonest,
         pending' \subseteq pending
  PROVE  Inv'
<1> USE DEF Inv, targetVars, WorkersOnlyLeave, Busy
<1>0. /\ state' = [state EXCEPT ![j] = target]
      /\ lease_token' = [lease_token EXCEPT ![j] = NoToken]
      /\ lease' = [lease EXCEPT ![j] = "none"]
      /\ issued' = issued
  BY DEF Write, keep_lease
<1>t. /\ state \in [Job -> DurableState]
      /\ lease_token \in [Job -> Nat]
      /\ lease \in [Job -> {"none", "live", "lapsed"}]
      /\ issued \in Nat
  BY DEF TypeOK
<1>1. RunningIsLeased'
  BY <1>0, <1>t DEF RunningIsLeased, NoToken, Leased
<1>2. TokenMeansOwnership'
  BY <1>0, <1>t DEF TokenMeansOwnership, TokensAreIssued, NoToken
<1>3. TokensAreIssued'
  BY <1>0, <1>t DEF TokensAreIssued, NoToken
<1>4. OneHolder'
  BY DEF OneHolder
<1>5. UnclaimedIsUntouched'
  BY <1>0, <1>t DEF UnclaimedIsUntouched, Unclaimed, Unfenced, require_transition,
     ALLOWED_TRANSITIONS
<1>6. OutcomesAreTruthful'
  BY <1>0, <1>t DEF OutcomesAreTruthful, CallersStayHonest, UnclaimedIsUntouched,
     Unclaimed
<1>7. ClaimedIsUnsent'
  BY DEF ClaimedIsUnsent
<1>8. ExecutionsAreEffects' /\ CandidatesWereClaimed'
  BY <1>0, <1>t DEF ExecutionsAreEffects, CandidatesWereClaimed, Unclaimed, TypeOK
<1> QED
  BY <1>1, <1>2, <1>3, <1>4, <1>5, <1>6, <1>7, <1>8

\* A step of a worker preserves the invariant.
LEMMA WorkerInv ==
  ASSUME Inv, NEW w \in Worker, WorkerStep(w)
  PROVE  Inv'
<1> USE DEF Inv
<1>0. TypeOK'
  BY WorkerType
<1>t. /\ state \in [Job -> DurableState]
      /\ lease_token \in [Job -> Nat]
      /\ lease \in [Job -> {"none", "live", "lapsed"}]
      /\ issued \in Nat
      /\ wpc \in [Worker -> {"idle", "claimed", "executing", "renew", "observing"}]
      /\ wjob \in [Worker -> Job \cup {NoJob}]
      /\ wtoken \in [Worker -> Nat]
      /\ effect \in [Job -> {"never", "inflight", "applied", "stopped"}]
      /\ executions \in [Job -> Nat]
      /\ pending \subseteq Job
  BY DEF TypeOK
<1>1. ASSUME WorkerDone(w), UNCHANGED <<storeVars, schedVars, callerVars, targetVars>>
      PROVE  Inv'
  <2>1. WorkersOnlyLeave
    BY <1>1, <1>t DEF WorkersOnlyLeave, WorkerDone
  <2>2. CallersStayHonest
    BY <1>1 DEF CallersStayHonest, OutcomesAreTruthful, callerVars, targetVars
  <2> QED
    BY <1>0, <1>1, <2>1, <2>2, QuietStep DEF schedVars
<1>2. ASSUME NEW target \in {"succeeded", "failed", "unknown_outcome"}, NEW res,
             wjob[w] \in Job, WorkerResolve(w, target, res),
             target = "succeeded" => effect[wjob[w]] = "applied",
             UNCHANGED <<schedVars, callerVars, targetVars>>
      PROVE  Inv'
  <2>1. WorkersOnlyLeave
    BY <1>2, <1>t DEF WorkersOnlyLeave, WorkerDone, WorkerResolve
  <2>2. CallersStayHonest
    BY <1>2 DEF CallersStayHonest, OutcomesAreTruthful, callerVars, targetVars
  <2>3. CASE Fenced(wjob[w], target, wtoken[w])
    BY <1>0, <1>2, <2>1, <2>2, <2>3, ResolvingStep
       DEF WorkerResolve, Fenced, schedVars
  <2>4. CASE ~Fenced(wjob[w], target, wtoken[w])
    BY <1>1, <1>2, <2>4 DEF WorkerResolve
  <2> QED
    BY <2>3, <2>4
<1>3. CASE claim_next_job(w)
  <2>1. PICK j \in Job :
          /\ state[j] = "queued"
          /\ state' = [state EXCEPT ![j] = "running"]
          /\ lease_token' = [lease_token EXCEPT ![j] = issued + 1]
          /\ lease' = [lease EXCEPT ![j] = "live"]
          /\ issued' = issued + 1
          /\ wpc' = [wpc EXCEPT ![w] = "claimed"]
          /\ wjob' = [wjob EXCEPT ![w] = j]
          /\ wtoken' = [wtoken EXCEPT ![w] = issued + 1]
    BY <1>3 DEF claim_next_job, Claimable
  <2>2. UNCHANGED <<pending, cpc, cjob, cdisp, effect, executions>>
    BY <1>3 DEF claim_next_job, schedVars, callerVars, targetVars
  <2>3. effect[j] = "never" /\ \A v \in Worker : Busy(v) => wjob[v] # j
    BY <2>1 DEF UnclaimedIsUntouched, Unclaimed
  <2>4. RunningIsLeased'
    BY <1>t, <2>1 DEF RunningIsLeased, NoToken, Leased
  <2>5. TokenMeansOwnership'
    BY <1>t, <2>1 DEF TokenMeansOwnership, TokensAreIssued, Busy
  <2>6. TokensAreIssued'
    BY <1>t, <2>1 DEF TokensAreIssued, Busy
  <2>7. OneHolder'
    BY <1>t, <2>1, <2>3 DEF OneHolder, TokensAreIssued, Busy
  <2>8. UnclaimedIsUntouched' /\ OutcomesAreTruthful'
    BY <1>t, <2>1, <2>2, <2>3 DEF UnclaimedIsUntouched, OutcomesAreTruthful, Unclaimed, Busy
  <2>9. ClaimedIsUnsent'
    BY <1>t, <2>1, <2>2, <2>3 DEF ClaimedIsUnsent
  <2>10. ExecutionsAreEffects' /\ CandidatesWereClaimed'
    BY <1>t, <2>1, <2>2 DEF ExecutionsAreEffects, CandidatesWereClaimed, Unclaimed
  <2> QED
    BY <1>0, <2>4, <2>5, <2>6, <2>7, <2>8, <2>9, <2>10
<1>4. CASE BeginExecute(w)
  <2>1. /\ wpc[w] = "claimed" /\ wjob[w] \in Job
        /\ effect' = [effect EXCEPT ![wjob[w]] = "inflight"]
        /\ executions' = [executions EXCEPT ![wjob[w]] = @ + 1]
        /\ wpc' = [wpc EXCEPT ![w] = "executing"]
        /\ UNCHANGED <<wjob, wtoken, state, lease_token, lease, issued, pending,
                       cpc, cjob, cdisp>>
    BY <1>4 DEF TypeOK, BeginExecute, WorkerTo, storeVars, schedVars, callerVars
  <2>2. effect[wjob[w]] = "never"
    BY <2>1 DEF ClaimedIsUnsent
  <2>3. RunningIsLeased' /\ TokensAreIssued' /\ CandidatesWereClaimed'
    BY <1>t, <2>1 DEF RunningIsLeased, TokensAreIssued, CandidatesWereClaimed, Busy
  <2>4. TokenMeansOwnership'
    BY <1>t, <2>1 DEF TokenMeansOwnership
  <2>5. OneHolder'
    BY <1>t, <2>1 DEF OneHolder, Busy
  <2>6. UnclaimedIsUntouched'
    BY <1>t, <2>1 DEF UnclaimedIsUntouched, Busy
  <2>7. OutcomesAreTruthful'
    BY <1>t, <2>1, <2>2 DEF OutcomesAreTruthful, UnclaimedIsUntouched, Busy, TypeOK
  <2>8. ClaimedIsUnsent'
    BY <1>t, <2>1 DEF ClaimedIsUnsent, OneHolder, Busy
  <2>9. ExecutionsAreEffects'
    BY <1>t, <2>1, <2>2 DEF ExecutionsAreEffects
  <2> QED
    BY <1>0, <2>3, <2>4, <2>5, <2>6, <2>7, <2>8, <2>9
<1>5. CASE ExecuteReturns(w)
  <2>1. CASE Fenced(wjob[w], "verifying", wtoken[w])
    <3>a. wjob[w] \in Job /\ Write(wjob[w], "verifying", {"execution"})
      BY <1>5, <2>1 DEF TypeOK, ExecuteReturns
    <3>b. /\ lease_token' = [lease_token EXCEPT ![wjob[w]] = @]
          /\ lease' = [lease EXCEPT ![wjob[w]] = @]
      BY <3>a DEF Write, keep_lease
    <3>c. UNCHANGED <<lease_token, lease>>
      BY <1>t, <3>a, <3>b
    <3>1. /\ wpc[w] = "executing" /\ wjob[w] \in Job
          /\ lease_token[wjob[w]] = wtoken[w]
          /\ state' = [state EXCEPT ![wjob[w]] = "verifying"]
          /\ UNCHANGED <<lease_token, lease, issued, wjob, wtoken, pending, cpc, cjob,
                         cdisp, effect, executions>>
          /\ wpc' = [wpc EXCEPT ![w] = "renew"]
      BY <1>5, <2>1, <3>a, <3>c DEF ExecuteReturns, Write, WorkerTo, Fenced,
         schedVars, callerVars, targetVars
    <3>2. RunningIsLeased' /\ TokensAreIssued' /\ CandidatesWereClaimed'
      BY <1>t, <3>1 DEF RunningIsLeased, TokensAreIssued, CandidatesWereClaimed, Busy,
         Leased, Unclaimed
    <3>3. TokenMeansOwnership'
      BY <1>t, <3>1 DEF TokenMeansOwnership, OneHolder, Busy
    <3>4. OneHolder' /\ ClaimedIsUnsent' /\ ExecutionsAreEffects'
      BY <1>t, <3>1 DEF OneHolder, ClaimedIsUnsent, ExecutionsAreEffects, Busy
    <3>5. UnclaimedIsUntouched' /\ OutcomesAreTruthful'
      BY <1>t, <3>1 DEF UnclaimedIsUntouched, OutcomesAreTruthful, Unclaimed, Busy
    <3> QED
      BY <1>0, <3>2, <3>3, <3>4, <3>5
  <2>2. CASE ~Fenced(wjob[w], "verifying", wtoken[w])
    BY <1>1, <1>5, <2>2 DEF ExecuteReturns
  <2> QED
    BY <2>1, <2>2
<1>6. CASE ExecuteFails(w)
  <2>1. wjob[w] \in Job
    BY <1>6 DEF TypeOK, ExecuteFails
  <2> QED
    BY <1>2, <1>6, <2>1 DEF ExecuteFails
<1>7. CASE RenewLease(w)
  <2>1. /\ wpc[w] = "renew" /\ wjob[w] \in Job
        /\ \/ /\ lease_token[wjob[w]] = wtoken[w]
              /\ lease' = [lease EXCEPT ![wjob[w]] = "live"]
           \/ UNCHANGED lease
        /\ wpc' = [wpc EXCEPT ![w] = "observing"]
        /\ UNCHANGED <<state, lease_token, issued, wjob, wtoken, pending, cpc, cjob, cdisp,
                       effect, executions>>
    BY <1>7 DEF TypeOK, RenewLease, WorkerTo, schedVars, callerVars, targetVars
  <2>2. RunningIsLeased'
    BY <1>t, <2>1 DEF RunningIsLeased, TokensAreIssued, Busy, NoToken
  <2>3. TokenMeansOwnership' /\ TokensAreIssued' /\ OneHolder'
    BY <1>t, <2>1 DEF TokenMeansOwnership, TokensAreIssued, OneHolder, Busy
  <2>4. UnclaimedIsUntouched' /\ OutcomesAreTruthful' /\ ClaimedIsUnsent'
    BY <1>t, <2>1 DEF UnclaimedIsUntouched, OutcomesAreTruthful, ClaimedIsUnsent, Busy
  <2>5. ExecutionsAreEffects' /\ CandidatesWereClaimed'
    BY <2>1 DEF ExecutionsAreEffects, CandidatesWereClaimed
  <2> QED
    BY <1>0, <2>2, <2>3, <2>4, <2>5
<1>8. CASE WorkerVerifies(w)
  <2>1. wjob[w] \in Job
    BY <1>8 DEF TypeOK, WorkerVerifies
  <2> QED
    BY <1>2, <1>8, <2>1 DEF WorkerVerifies
<1>9. CASE WorkerFails(w)
  BY <1>1, <1>9 DEF WorkerFails
<1> QED
  BY <1>3, <1>4, <1>5, <1>6, <1>7, <1>8, <1>9 DEF WorkerStep

\* A step of the scheduler preserves the invariant.
LEMMA SchedulerInv ==
  ASSUME Inv, SchedulerStep \/ SchedulerFails
  PROVE  Inv'
<1> USE DEF Inv
<1>0. TypeOK'
  BY SchedulerType
<1>t. /\ state \in [Job -> DurableState]
      /\ lease_token \in [Job -> Nat]
      /\ lease \in [Job -> {"none", "live", "lapsed"}]
      /\ issued \in Nat
      /\ pending \subseteq Job
      /\ effect \in [Job -> {"never", "inflight", "applied", "stopped"}]
  BY DEF TypeOK
<1>1. ASSUME SchedulerDone, UNCHANGED <<storeVars, workerVars, callerVars, targetVars>>
      PROVE  Inv'
  <2>1. WorkersOnlyLeave
    BY <1>1 DEF WorkersOnlyLeave, workerVars
  <2>2. CallersStayHonest
    BY <1>1 DEF CallersStayHonest, OutcomesAreTruthful, callerVars, targetVars
  <2> QED
    BY <1>0, <1>1, <2>1, <2>2, QuietStep DEF SchedulerDone
<1>2. ASSUME NEW S \in SUBSET Job, NEW target \in {"expired", "unknown_outcome"},
             ExpireRows(S, target),
             target = "expired" => \A j \in S : state[j] = "queued",
             target = "unknown_outcome" => \A j \in S : state[j] \in Leased,
             UNCHANGED <<pending, workerVars, callerVars, targetVars>>
      PROVE  Inv'
  <2>1. /\ state' = [j \in Job |-> IF j \in S THEN target ELSE state[j]]
        /\ lease_token' = [j \in Job |-> IF j \in S THEN NoToken ELSE lease_token[j]]
        /\ lease' = [j \in Job |-> IF j \in S THEN "none" ELSE lease[j]]
        /\ issued' = issued
        /\ UNCHANGED <<pending, wpc, wjob, wtoken, cpc, cjob, cdisp, effect, executions>>
    BY <1>2 DEF ExpireRows, workerVars, callerVars, targetVars
  <2>2. RunningIsLeased'
    BY <1>2, <2>1 DEF RunningIsLeased, NoToken, Leased
  <2>3. TokenMeansOwnership'
    BY <1>2, <2>1 DEF TokenMeansOwnership, TokensAreIssued, NoToken, Busy
  <2>4. TokensAreIssued' /\ OneHolder' /\ ClaimedIsUnsent' /\ ExecutionsAreEffects'
    BY <1>t, <2>1 DEF TokensAreIssued, OneHolder, ClaimedIsUnsent, ExecutionsAreEffects,
       NoToken, Busy
  <2>5. UnclaimedIsUntouched' /\ OutcomesAreTruthful'
    BY <1>2, <2>1 DEF UnclaimedIsUntouched, OutcomesAreTruthful, Unclaimed, Busy
  <2>6. CandidatesWereClaimed'
    BY <1>t, <1>2, <2>1 DEF CandidatesWereClaimed, Unclaimed, Leased
  <2> QED
    BY <1>0, <2>2, <2>3, <2>4, <2>5, <2>6
<1>3. CASE expire_stale_queued
  BY <1>2, <1>3 DEF expire_stale_queued
<1>4. CASE expire_leases
  BY <1>2, <1>4 DEF expire_leases, Abandoned
<1>5. CASE claim_reconcile_candidates
  <2>1. /\ pending' \subseteq Unknown
        /\ UNCHANGED <<state, lease_token, lease, issued, wpc, wjob, wtoken, cpc, cjob,
                       cdisp, effect, executions>>
    BY <1>5 DEF claim_reconcile_candidates, workerVars, callerVars, targetVars
  <2>2. CandidatesWereClaimed'
    BY <2>1 DEF CandidatesWereClaimed, Unknown, Unclaimed
  <2>3. RunningIsLeased' /\ TokenMeansOwnership' /\ TokensAreIssued' /\ OneHolder'
    BY <2>1 DEF RunningIsLeased, TokenMeansOwnership, TokensAreIssued, OneHolder, Busy
  <2>4. UnclaimedIsUntouched' /\ OutcomesAreTruthful' /\ ClaimedIsUnsent'
        /\ ExecutionsAreEffects'
    BY <2>1 DEF UnclaimedIsUntouched, OutcomesAreTruthful, ClaimedIsUnsent,
       ExecutionsAreEffects, Busy
  <2> QED
    BY <1>0, <2>2, <2>3, <2>4
<1>6. CASE OpenVerification
  <2>1. PICK j \in pending :
          IF j \notin Poison /\ Unfenced(j, "verifying")
            THEN /\ Write(j, "verifying", view[j])
                 /\ pending' = pending \ {j}
            ELSE UNCHANGED storeVars /\ SchedulerDone
    BY <1>6 DEF OpenVerification
  <2>2. UNCHANGED <<workerVars, callerVars, targetVars>>
    BY <1>6 DEF OpenVerification
  <2>3. CASE j \notin Poison /\ Unfenced(j, "verifying")
    <3>1. j \in Job /\ state[j] = "unknown_outcome"
      BY <1>t, <2>3 DEF CandidatesWereClaimed, Unclaimed, Unfenced, require_transition,
         ALLOWED_TRANSITIONS, DurableState
    <3>2. /\ lease_token' = [lease_token EXCEPT ![j] = @]
          /\ lease' = [lease EXCEPT ![j] = @]
          /\ state' = [state EXCEPT ![j] = "verifying"]
          /\ issued' = issued
          /\ pending' \subseteq pending
      BY <2>1, <2>3 DEF Write, keep_lease
    <3>3. UNCHANGED <<lease_token, lease>>
      BY <1>t, <3>1, <3>2
    <3>4. UNCHANGED <<wpc, wjob, wtoken, cpc, cjob, cdisp, effect, executions>>
      BY <2>2 DEF workerVars, callerVars, targetVars
    <3>5. lease_token[j] = NoToken
      BY <3>1 DEF RunningIsLeased, Leased
    <3>6. RunningIsLeased'
      BY <1>t, <3>1, <3>2, <3>3 DEF RunningIsLeased, Leased
    <3>7. TokenMeansOwnership'
      BY <1>t, <3>1, <3>2, <3>3, <3>4, <3>5 DEF TokenMeansOwnership, TokensAreIssued,
         NoToken, Busy
    <3>8. TokensAreIssued' /\ OneHolder' /\ ClaimedIsUnsent' /\ ExecutionsAreEffects'
      BY <3>2, <3>3, <3>4 DEF TokensAreIssued, OneHolder, ClaimedIsUnsent,
         ExecutionsAreEffects, Busy
    <3>9. UnclaimedIsUntouched' /\ OutcomesAreTruthful'
      BY <1>t, <3>1, <3>2, <3>4 DEF UnclaimedIsUntouched, OutcomesAreTruthful, Unclaimed,
         Busy
    <3>10. CandidatesWereClaimed'
      BY <1>t, <3>1, <3>2 DEF CandidatesWereClaimed, Unclaimed
    <3> QED
      BY <1>0, <3>6, <3>7, <3>8, <3>9, <3>10
  <2>4. CASE ~(j \notin Poison /\ Unfenced(j, "verifying"))
    BY <1>1, <2>1, <2>2, <2>4 DEF storeVars
  <2> QED
    BY <2>3, <2>4
<1>7. CASE ReconcilerResolves
  <2>1. PICK target \in {"succeeded", "unknown_outcome", "failed"} :
          /\ target = "succeeded" => effect[sjob] = "applied"
          /\ IF Unfenced(sjob, target)
               THEN /\ Write(sjob, target, IF target = "succeeded"
                                             THEN view[sjob] \cup {"verification"}
                                             ELSE view[sjob])
                    /\ UNCHANGED pending
               ELSE UNCHANGED storeVars /\ SchedulerDone
    BY <1>7 DEF ReconcilerResolves
  <2>2. sjob \in Job /\ UNCHANGED <<workerVars, callerVars, targetVars>>
    BY <1>7 DEF TypeOK, ReconcilerResolves
  <2>3. CASE Unfenced(sjob, target)
    <3>1. WorkersOnlyLeave
      BY <2>2 DEF WorkersOnlyLeave, workerVars
    <3>2. CallersStayHonest
      BY <2>2 DEF CallersStayHonest, OutcomesAreTruthful, callerVars, targetVars
    <3> QED
      BY <1>0, <2>1, <2>2, <2>3, <3>1, <3>2, ResolvingStep
  <2>4. CASE ~Unfenced(sjob, target)
    BY <1>1, <2>1, <2>2, <2>4
  <2> QED
    BY <2>3, <2>4
<1>8. CASE BatchDone \/ SchedulerFails
  BY <1>1, <1>8 DEF BatchDone, SchedulerFails
<1> QED
  BY <1>3, <1>4, <1>5, <1>6, <1>7, <1>8 DEF SchedulerStep

\* A step of a cancel request preserves the invariant.
LEMMA CallerInv ==
  ASSUME Inv, NEW c \in Caller, CallerStep(c)
  PROVE  Inv'
<1> USE DEF Inv
<1>0. TypeOK'
  BY CallerType
<1>t. /\ cpc \in [Caller -> {"idle", "queued", "reread", "adapter", "apply"}]
      /\ cjob \in [Caller -> Job \cup {NoJob}]
      /\ cdisp \in [Caller -> {"none", "cancelled", "unknown"}]
  BY DEF TypeOK
<1>1. UNCHANGED <<workerVars, schedVars, targetVars>>
  BY DEF CallerStep, CancelReads, CancelQueued, CancelRereads, AdapterCancels,
     CancelApplies, CallerFails
<1>2. WorkersOnlyLeave /\ pending' \subseteq pending
  BY <1>1 DEF WorkersOnlyLeave, workerVars, schedVars
<1>3. CallersStayHonest
  <2>1. CASE CallerDone(c)
    BY <1>t, <2>1 DEF CallersStayHonest, OutcomesAreTruthful, CallerDone
  <2>2. ASSUME NEW j, NEW pc \in {"queued", "adapter"}, CallerSees(c, j, pc)
        PROVE  CallersStayHonest
    BY <1>t, <2>2 DEF CallersStayHonest, OutcomesAreTruthful, CallerSees
  <2>3. CASE cpc' = [cpc EXCEPT ![c] = "reread"] /\ UNCHANGED <<cjob, cdisp>>
    BY <1>t, <2>3 DEF CallersStayHonest, OutcomesAreTruthful
  <2>4. ASSUME NEW d, d = "cancelled" => effect[cjob[c]] = "stopped",
               cdisp' = [cdisp EXCEPT ![c] = d],
               cpc' = [cpc EXCEPT ![c] = "apply"], UNCHANGED cjob
        PROVE  CallersStayHonest
    BY <1>t, <2>4 DEF CallersStayHonest, OutcomesAreTruthful
  <2> QED
    BY <2>1, <2>2, <2>3, <2>4 DEF CallerStep, CancelReads, CancelQueued, CancelRereads,
       AdapterCancels, CancelApplies, CallerFails
<1>4. CASE UNCHANGED storeVars
  BY <1>0, <1>1, <1>2, <1>3, <1>4, QuietStep
<1>5. ASSUME cpc[c] = "queued", Expected(cjob[c], "cancelled", "queued"),
             Write(cjob[c], "cancelled", cresult[c])
      PROVE  Inv'
  <2>1. cjob[c] \in Job
    BY <1>5 DEF TypeOK
  <2> QED
    BY <1>0, <1>1, <1>2, <1>3, <1>5, <2>1, ResolvingStep DEF Expected
<1>6. ASSUME cpc[c] = "apply", NEW target \in {"cancelled", "unknown_outcome"}, NEW res,
             target = "cancelled" => cdisp[c] = "cancelled",
             Unfenced(cjob[c], target), Write(cjob[c], target, res)
      PROVE  Inv'
  <2>1. cjob[c] \in Job
    BY <1>6 DEF TypeOK
  <2>2. target = "cancelled" => effect[cjob[c]] = "stopped"
    BY <1>6 DEF OutcomesAreTruthful
  <2> QED
    BY <1>0, <1>1, <1>2, <1>3, <1>6, <2>1, <2>2, ResolvingStep
<1>7. CASE CancelQueued(c)
  BY <1>4, <1>5, <1>7 DEF CancelQueued, storeVars
<1>8. CASE CancelApplies(c)
  BY <1>4, <1>6, <1>8 DEF CancelApplies
<1> QED
  BY <1>4, <1>7, <1>8 DEF CallerStep, CancelReads, CancelRereads, AdapterCancels,
     CallerFails

\* A submission, the passing of time and the targets preserve the invariant.
LEMMA EnvironmentInv ==
  ASSUME Inv, create_job \/ \E j \in Job : LeaseLapses(j) \/ TargetSettles(j)
  PROVE  Inv'
<1> USE DEF Inv
<1>0. TypeOK'
  BY EnvironmentType
<1>t. /\ state \in [Job -> DurableState]
      /\ lease_token \in [Job -> Nat]
      /\ lease \in [Job -> {"none", "live", "lapsed"}]
      /\ wjob \in [Worker -> Job \cup {NoJob}]
      /\ cjob \in [Caller -> Job \cup {NoJob}]
      /\ pending \subseteq Job
      /\ effect \in [Job -> {"never", "inflight", "applied", "stopped"}]
  BY DEF TypeOK
<1>1. CASE create_job
  <2>1. PICK j \in Job : state[j] = "absent" /\ state' = [state EXCEPT ![j] = "queued"]
    BY <1>1 DEF create_job
  <2>2. UNCHANGED <<lease_token, lease, issued, wpc, wjob, wtoken, pending, cpc, cjob,
                    cdisp, effect, executions>>
    BY <1>1 DEF create_job, workerVars, schedVars, callerVars, targetVars
  <2>3. RunningIsLeased' /\ TokenMeansOwnership'
    BY <1>t, <2>1, <2>2 DEF RunningIsLeased, TokenMeansOwnership, Leased
  <2>4. TokensAreIssued' /\ OneHolder' /\ ClaimedIsUnsent' /\ ExecutionsAreEffects'
    BY <2>2 DEF TokensAreIssued, OneHolder, ClaimedIsUnsent, ExecutionsAreEffects, Busy
  <2>5. UnclaimedIsUntouched' /\ OutcomesAreTruthful' /\ CandidatesWereClaimed'
    BY <1>t, <2>1, <2>2 DEF UnclaimedIsUntouched, OutcomesAreTruthful,
       CandidatesWereClaimed, Unclaimed, Busy
  <2> QED
    BY <1>0, <2>3, <2>4, <2>5
<1>2. ASSUME NEW j \in Job, LeaseLapses(j) PROVE Inv'
  <2>1. /\ lease[j] = "live" /\ lease' = [lease EXCEPT ![j] = "lapsed"]
        /\ UNCHANGED <<state, lease_token, issued, wpc, wjob, wtoken, pending, cpc, cjob,
                       cdisp, effect, executions>>
    BY <1>2 DEF LeaseLapses, workerVars, schedVars, callerVars, targetVars
  <2>2. RunningIsLeased'
    BY <1>t, <2>1 DEF RunningIsLeased
  <2>3. TokenMeansOwnership' /\ TokensAreIssued' /\ OneHolder' /\ ClaimedIsUnsent'
    BY <2>1 DEF TokenMeansOwnership, TokensAreIssued, OneHolder, ClaimedIsUnsent, Busy
  <2>4. UnclaimedIsUntouched' /\ OutcomesAreTruthful' /\ ExecutionsAreEffects'
        /\ CandidatesWereClaimed'
    BY <2>1 DEF UnclaimedIsUntouched, OutcomesAreTruthful, ExecutionsAreEffects,
       CandidatesWereClaimed, Busy
  <2> QED
    BY <1>0, <2>2, <2>3, <2>4
<1>3. ASSUME NEW j \in Job, TargetSettles(j) PROVE Inv'
  <2>1. /\ effect[j] = "inflight"
        /\ \E e \in {"applied", "stopped"} : effect' = [effect EXCEPT ![j] = e]
        /\ UNCHANGED <<state, lease_token, lease, issued, wpc, wjob, wtoken, pending, cpc,
                       cjob, cdisp, executions>>
    BY <1>3 DEF TargetSettles, storeVars, workerVars, schedVars, callerVars
  <2>2. RunningIsLeased' /\ TokenMeansOwnership' /\ TokensAreIssued' /\ OneHolder'
        /\ CandidatesWereClaimed'
    BY <2>1 DEF RunningIsLeased, TokenMeansOwnership, TokensAreIssued, OneHolder,
       CandidatesWereClaimed, Busy
  <2>3. UnclaimedIsUntouched' /\ ExecutionsAreEffects'
    BY <1>t, <2>1 DEF UnclaimedIsUntouched, ExecutionsAreEffects, Busy
  <2>4. OutcomesAreTruthful' /\ ClaimedIsUnsent'
    BY <1>t, <2>1 DEF OutcomesAreTruthful, ClaimedIsUnsent, TypeOK
  <2> QED
    BY <1>0, <2>2, <2>3, <2>4
<1> QED
  BY <1>1, <1>2, <1>3

\* The invariant holds throughout every behaviour of the job engine.
THEOREM Invariance == Spec => []Inv
<1>1. Init => Inv
  <2> SUFFICES ASSUME Init PROVE Inv
    OBVIOUS
  <2>1. TypeOK
    BY EngineConstants DEF Init, TypeOK, NoJob, NoToken, DurableState
  <2> QED
    BY <2>1 DEF Init, Inv, RunningIsLeased, TokenMeansOwnership, TokensAreIssued,
       OneHolder, UnclaimedIsUntouched, OutcomesAreTruthful, ClaimedIsUnsent,
       ExecutionsAreEffects, CandidatesWereClaimed, Busy, NoToken
<1>2. Inv /\ [Next]_vars => Inv'
  <2> SUFFICES ASSUME Inv, [Next]_vars PROVE Inv'
    OBVIOUS
  <2>1. CASE UNCHANGED vars
    <3>1. TypeOK'
      BY <2>1 DEF Inv, TypeOK, vars, storeVars, workerVars, schedVars, callerVars,
         targetVars
    <3>2. WorkersOnlyLeave
      BY <2>1 DEF WorkersOnlyLeave, vars, workerVars
    <3>3. CallersStayHonest
      BY <2>1 DEF Inv, CallersStayHonest, OutcomesAreTruthful, vars, callerVars
    <3> QED
      BY <2>1, <3>1, <3>2, <3>3, QuietStep DEF vars, schedVars
  <2> QED
    BY <2>1, WorkerInv, SchedulerInv, CallerInv, EnvironmentInv DEF Next
<1> QED
  BY <1>1, <1>2, PTL DEF Spec

\* No job's operation is ever sent to its target twice, however workers,
\* scheduler and cancel requests interleave, stall and die.
THEOREM AtMostOnce == Spec => []ExecutedAtMostOnce
<1>1. Inv => ExecutedAtMostOnce
  BY DEF Inv, ExecutedAtMostOnce, ExecutionsAreEffects
<1> QED
  BY <1>1, Invariance, PTL

\* A row that carries a worker's token is that worker's, in the state the
\* worker left it in.
THEOREM Fencing == Spec => []TokenMeansOwnership
<1>1. Inv => TokenMeansOwnership
  BY DEF Inv
<1> QED
  BY <1>1, Invariance, PTL

\* A running job always has a lease that expires.
THEOREM Leasing == Spec => []RunningIsLeased
<1>1. Inv => RunningIsLeased
  BY DEF Inv
<1> QED
  BY <1>1, Invariance, PTL

\* Once a job's lease is gone, a step that writes its row is not a worker's.
THEOREM NoZombieWrite == Spec => ZombiesDoNotWrite
<1> DEFINE Handed(j) == state[j] \in {"verifying", "unknown_outcome"}
                        /\ lease_token[j] = NoToken
<1>1. ASSUME Inv, NEW w \in Worker, WorkerStep(w), NEW j \in Job, Handed(j)
      PROVE  state'[j] = state[j] /\ result'[j] = result[j]
  <2>t. /\ state \in [Job -> DurableState]
        /\ result \in [Job -> SUBSET Evidence]
    BY <1>1 DEF Inv, TypeOK
  <2>1. Busy(w) => lease_token[j] # wtoken[w]
    BY <1>1 DEF Inv, TokensAreIssued, NoToken
  <2>2. ASSUME NEW target, NEW res, Busy(w), Fenced(wjob[w], target, wtoken[w]),
               Write(wjob[w], target, res)
        PROVE  state'[j] = state[j] /\ result'[j] = result[j]
    BY <2>t, <2>1, <2>2 DEF Fenced, Write
  <2>3. CASE claim_next_job(w)
    BY <1>1, <2>t, <2>3 DEF claim_next_job, Claimable
  <2>4. CASE BeginExecute(w) \/ WorkerFails(w)
    BY <2>4 DEF BeginExecute, WorkerFails, storeVars
  <2>5. CASE ExecuteReturns(w)
    BY <2>2, <2>5 DEF ExecuteReturns, Busy, storeVars
  <2>6. CASE ExecuteFails(w)
    BY <2>2, <2>6 DEF ExecuteFails, WorkerResolve, Busy, storeVars
  <2>7. CASE RenewLease(w)
    BY <2>7 DEF RenewLease
  <2>8. CASE WorkerVerifies(w)
    BY <2>2, <2>8 DEF WorkerVerifies, WorkerResolve, Busy, storeVars
  <2> QED
    BY <1>1, <2>3, <2>4, <2>5, <2>6, <2>7, <2>8 DEF WorkerStep
<1>2. ASSUME SchedulerStep \/ SchedulerFails \/ create_job
             \/ (\E c \in Caller : CallerStep(c))
             \/ (\E j \in Job : LeaseLapses(j) \/ TargetSettles(j))
      PROVE  UNCHANGED workerVars
  <2>1. CASE SchedulerStep \/ SchedulerFails
    BY <2>1 DEF SchedulerStep, SchedulerFails, expire_stale_queued, expire_leases,
       claim_reconcile_candidates, OpenVerification, ReconcilerResolves, BatchDone
  <2>2. CASE \E c \in Caller : CallerStep(c)
    BY <2>2 DEF CallerStep, CancelReads, CancelQueued, CancelRereads, AdapterCancels,
       CancelApplies, CallerFails
  <2>3. CASE create_job \/ \E j \in Job : LeaseLapses(j) \/ TargetSettles(j)
    BY <2>3 DEF create_job, LeaseLapses, TargetSettles
  <2> QED
    BY <1>2, <2>1, <2>2, <2>3
<1>3. Inv /\ [Next]_vars =>
        [\A j \in Job :
           /\ state[j] \in {"verifying", "unknown_outcome"} /\ lease_token[j] = NoToken
           /\ <<state[j], result[j]>> # <<state'[j], result'[j]>>
           => UNCHANGED workerVars]_vars
  BY <1>1, <1>2 DEF Next
<1> QED
  BY <1>3, Invariance, PTL DEF Spec, ZombiesDoNotWrite

-----------------------------------------------------------------------------
(***************************************************************************)
(* Every job follows JobLifecycle.                                         *)
(***************************************************************************)

\* What a step may do to job j, as JobLifecycle sees it.
Lawful(j) == [L(j)!LifecycleNext]_(L(j)!lifecycleVars)

\* A step that leaves the state and the effect of a job alone is a stutter.
LEMMA StutterIsLawful ==
  ASSUME NEW j \in Job, state'[j] = state[j], effect'[j] = effect[j]
  PROVE  Lawful(j)
  BY DEF Lawful, L!lifecycleVars

\* A write of transition_job along an edge of ALLOWED_TRANSITIONS, provided
\* that success and cancellation are truthful.
LEMMA WriteIsLawful ==
  ASSUME Inv, NEW i \in Job, NEW j \in Job, NEW target \in DurableState, NEW res,
         Write(i, target, res), Unfenced(i, target),
         target \in {"verifying", "succeeded", "failed", "unknown_outcome", "cancelled"},
         target = "succeeded" => effect[i] = "applied",
         target = "cancelled" => effect[i] = "stopped" \/ state[i] = "queued",
         UNCHANGED effect
  PROVE  Lawful(j)
<1>1. state' = [state EXCEPT ![i] = target] /\ state \in [Job -> DurableState]
  BY DEF Inv, TypeOK, Write
<1>2. CASE i # j
  BY <1>1, <1>2, StutterIsLawful
<1>3. CASE i = j
  <2>1. state'[j] = target /\ effect'[j] = effect[j]
    BY <1>1, <1>3
  <2>2. state[j] \in DurableState /\ target \in ALLOWED_TRANSITIONS[state[j]]
    BY <1>1, <1>3 DEF Unfenced, require_transition
  <2>3. state[j] \in JobState
    BY <1>3 DEF Unfenced, require_transition
  <2>4. \/ state[j] = "queued" /\ target = "cancelled"
        \/ state[j] = "running" /\ target # "succeeded"
        \/ state[j] = "verifying" /\ target # "verifying"
        \/ state[j] = "unknown_outcome" /\ target # "unknown_outcome"
    BY <2>2, <2>3 DEF DurableState, ALLOWED_TRANSITIONS
  <2>5. state[j] = "queued" => effect[j] = "never"
    BY DEF Inv, UnclaimedIsUntouched, Unclaimed
  <2> QED
    BY <1>3, <2>1, <2>4, <2>5 DEF Lawful, L!LifecycleNext, L!lifecycleVars, L!Move,
       L!Check, L!LoseSight, L!Fail, L!Succeed, L!Withdraw, L!Cancel
<1> QED
  BY <1>2, <1>3

\* A worker's step is lawful for every job.
LEMMA WorkerIsLawful ==
  ASSUME Inv, NEW w \in Worker, WorkerStep(w), NEW j \in Job
  PROVE  Lawful(j)
<1>t. /\ state \in [Job -> DurableState]
      /\ effect \in [Job -> {"never", "inflight", "applied", "stopped"}]
  BY DEF Inv, TypeOK
<1>1. Busy(w) => wjob[w] \in Job
  BY DEF Inv, TypeOK, Busy
<1>2. CASE claim_next_job(w)
  <2>1. PICK i \in Job : state[i] = "queued" /\ state' = [state EXCEPT ![i] = "running"]
    BY <1>2 DEF claim_next_job, Claimable
  <2>2. effect' = effect
    BY <1>2 DEF claim_next_job, targetVars
  <2> QED
    BY <1>t, <2>1, <2>2 DEF Lawful, L!LifecycleNext, L!lifecycleVars, L!Claim, L!Move
<1>3. CASE BeginExecute(w)
  <2>1. /\ Busy(w) /\ wpc[w] = "claimed"
        /\ effect' = [effect EXCEPT ![wjob[w]] = "inflight"]
        /\ state' = state
    BY <1>3 DEF BeginExecute, Busy, storeVars
  <2>2. CASE wjob[w] # j
    BY <1>t, <2>1, <2>2, StutterIsLawful
  <2>3. CASE wjob[w] = j
    <3>1. effect[j] = "never"
      BY <2>1, <2>3 DEF Inv, ClaimedIsUnsent
    <3>2. state[j] \notin {"absent", "queued", "expired", "cancelled"}
      BY <2>1, <2>3, <3>1 DEF Inv, UnclaimedIsUntouched, Unclaimed
    <3>3. state[j] # "succeeded"
      BY <3>1 DEF Inv, OutcomesAreTruthful
    <3> QED
      BY <1>t, <2>1, <2>3, <3>1, <3>2, <3>3 DEF DurableState, Lawful, L!LifecycleNext,
         L!lifecycleVars, L!Dispatch
  <2> QED
    BY <2>2, <2>3
<1>4. ASSUME NEW target \in {"verifying", "succeeded", "failed", "unknown_outcome"}, NEW res,
             Busy(w), Fenced(wjob[w], target, wtoken[w]), Write(wjob[w], target, res),
             target = "succeeded" => effect[wjob[w]] = "applied", UNCHANGED targetVars
      PROVE  Lawful(j)
  BY <1>1, <1>4, WriteIsLawful DEF Fenced, targetVars, DurableState
<1>5. CASE UNCHANGED <<storeVars, targetVars>>
  BY <1>5, StutterIsLawful DEF storeVars, targetVars
<1>6. CASE ExecuteReturns(w)
  BY <1>4, <1>5, <1>6 DEF ExecuteReturns, Busy
<1>7. CASE ExecuteFails(w)
  BY <1>4, <1>5, <1>7 DEF ExecuteFails, WorkerResolve, Busy
<1>8. CASE RenewLease(w)
  BY <1>8, StutterIsLawful DEF RenewLease, targetVars
<1>9. CASE WorkerVerifies(w)
  BY <1>4, <1>5, <1>9 DEF WorkerVerifies, WorkerResolve, Busy
<1>10. CASE WorkerFails(w)
  BY <1>5, <1>10 DEF WorkerFails
<1> QED
  BY <1>2, <1>3, <1>6, <1>7, <1>8, <1>9, <1>10 DEF WorkerStep

\* A scheduler's step is lawful for every job.
LEMMA SchedulerIsLawful ==
  ASSUME Inv, SchedulerStep \/ SchedulerFails, NEW j \in Job
  PROVE  Lawful(j)
<1>t. state \in [Job -> DurableState] /\ pending \subseteq Job
  BY DEF Inv, TypeOK
<1>0. effect' = effect
  BY DEF SchedulerStep, SchedulerFails, expire_stale_queued, expire_leases,
     claim_reconcile_candidates, OpenVerification, ReconcilerResolves, BatchDone, targetVars
<1>1. CASE UNCHANGED state
  BY <1>0, <1>1, StutterIsLawful
<1>2. CASE expire_stale_queued
  <2>1. state'[j] = state[j] \/ (state[j] = "queued" /\ state'[j] = "expired")
    BY <1>2 DEF expire_stale_queued, ExpireRows
  <2> QED
    BY <1>0, <2>1 DEF Lawful, L!LifecycleNext, L!lifecycleVars, L!Lapse, L!Move
<1>3. CASE expire_leases
  <2>1. state'[j] = state[j] \/ (state[j] \in Leased /\ state'[j] = "unknown_outcome")
    BY <1>3 DEF expire_leases, ExpireRows, Abandoned
  <2> QED
    BY <1>0, <2>1 DEF Leased, Lawful, L!LifecycleNext, L!lifecycleVars, L!LoseSight, L!Move
<1>4. CASE claim_reconcile_candidates \/ BatchDone \/ SchedulerFails
  BY <1>1, <1>4 DEF claim_reconcile_candidates, BatchDone, SchedulerFails, storeVars
<1>5. CASE OpenVerification
  <2>1. PICK i \in pending :
          \/ Unfenced(i, "verifying") /\ Write(i, "verifying", view[i])
          \/ UNCHANGED state
    BY <1>5 DEF OpenVerification, storeVars
  <2> QED
    BY <1>t, <1>0, <1>1, <2>1, WriteIsLawful DEF DurableState
<1>6. CASE ReconcilerResolves
  <2>1. sjob \in Job
    BY <1>6 DEF ReconcilerResolves, Inv, TypeOK
  <2>2. PICK target \in {"succeeded", "unknown_outcome", "failed"}, res \in SUBSET Evidence :
          /\ target = "succeeded" => effect[sjob] = "applied"
          /\ \/ Unfenced(sjob, target) /\ Write(sjob, target, res)
             \/ UNCHANGED state
    <3>1. view[sjob] \in SUBSET Evidence /\ view[sjob] \cup {"verification"} \in SUBSET Evidence
      BY <2>1 DEF Inv, TypeOK, Evidence
    <3> QED
      BY <1>6, <3>1 DEF ReconcilerResolves, storeVars
  <2> QED
    BY <1>0, <1>1, <2>1, <2>2, WriteIsLawful DEF DurableState
<1> QED
  BY <1>2, <1>3, <1>4, <1>5, <1>6 DEF SchedulerStep

\* A cancel request's step is lawful for every job.
LEMMA CallerIsLawful ==
  ASSUME Inv, NEW c \in Caller, CallerStep(c), NEW j \in Job
  PROVE  Lawful(j)
<1>0. effect' = effect
  BY DEF CallerStep, CancelReads, CancelQueued, CancelRereads, AdapterCancels,
     CancelApplies, CallerFails, targetVars
<1>1. cpc[c] # "idle" => cjob[c] \in Job
  BY DEF Inv, TypeOK
<1>2. CASE UNCHANGED state
  BY <1>0, <1>2, StutterIsLawful
<1>3. CASE CancelQueued(c)
  BY <1>0, <1>1, <1>2, <1>3, WriteIsLawful DEF CancelQueued, Expected, storeVars, DurableState
<1>4. CASE CancelApplies(c)
  <2>1. ASSUME NEW target \in {"cancelled", "unknown_outcome"}, NEW res, cpc[c] = "apply",
               target = "cancelled" => cdisp[c] = "cancelled",
               Unfenced(cjob[c], target), Write(cjob[c], target, res)
        PROVE  Lawful(j)
    <3>1. target = "cancelled" => effect[cjob[c]] = "stopped"
      BY <2>1 DEF Inv, OutcomesAreTruthful
    <3> QED
      BY <1>0, <1>1, <2>1, <3>1, WriteIsLawful DEF DurableState
  <2> QED
    BY <1>2, <1>4, <2>1 DEF CancelApplies, storeVars
<1> QED
  BY <1>2, <1>3, <1>4 DEF CallerStep, CancelReads, CancelRereads, AdapterCancels,
     CallerFails, storeVars

\* The rest of the world's steps are lawful for every job.
LEMMA EnvironmentIsLawful ==
  ASSUME Inv, create_job \/ \E i \in Job : LeaseLapses(i) \/ TargetSettles(i), NEW j \in Job
  PROVE  Lawful(j)
<1>t. /\ state \in [Job -> DurableState]
      /\ effect \in [Job -> {"never", "inflight", "applied", "stopped"}]
  BY DEF Inv, TypeOK
<1>1. CASE create_job
  BY <1>t, <1>1 DEF create_job, targetVars, Lawful, L!LifecycleNext, L!lifecycleVars,
     L!Accept, L!Move
<1>2. CASE \E i \in Job : LeaseLapses(i)
  BY <1>2, StutterIsLawful DEF LeaseLapses, targetVars
<1>3. CASE \E i \in Job : TargetSettles(i)
  BY <1>t, <1>3 DEF TargetSettles, storeVars, Lawful, L!LifecycleNext, L!lifecycleVars,
     L!TakesEffect, L!Stops
<1> QED
  BY <1>1, <1>2, <1>3

\* The job engine implements JobLifecycle, job by job: at-most-once dispatch,
\* final terminal states, truthful success and truthful cancellation.
THEOREM Refinement == Spec => Lifecycle
<1>1. Init => \A j \in Job : L(j)!LifecycleInit
  BY DEF Init, L!LifecycleInit
<1>2. Inv /\ [Next]_vars => [\A j \in Job : [L(j)!LifecycleNext]_(L(j)!lifecycleVars)]_vars
  BY WorkerIsLawful, SchedulerIsLawful, CallerIsLawful, EnvironmentIsLawful
     DEF Next, Lawful
<1> QED
  BY <1>1, <1>2, Invariance, PTL DEF Spec, Lifecycle

-----------------------------------------------------------------------------
(***************************************************************************)
(* The reconciler's budget and the rows it works on.                       *)
(***************************************************************************)

\* Only the reconciler's claim counts attempts, and it counts and audits in one
\* transaction: nobody is reconciled beyond the budget, and running out of it
\* is audited once (claim_reconcile_candidates).
THEOREM AuditedOnce == Spec => []ExhaustionAuditedOnce
<1>1. Init => ExhaustionAuditedOnce
  BY EngineConstants DEF Init, ExhaustionAuditedOnce
<1>2. ASSUME TypeOK, ExhaustionAuditedOnce, [Next]_vars PROVE ExhaustionAuditedOnce'
  <2>1. CASE UNCHANGED <<attempts, exhausted>>
    BY <1>2, <2>1 DEF ExhaustionAuditedOnce
  <2>2. CASE claim_reconcile_candidates
    <3>1. PICK C \in SUBSET Job :
            /\ \A j \in C : attempts[j] < MaxAttempts
            /\ attempts' = [j \in Job |-> IF j \in C THEN attempts[j] + 1 ELSE attempts[j]]
            /\ exhausted' = [j \in Job |-> IF j \in C /\ attempts[j] + 1 = MaxAttempts
                                             THEN exhausted[j] + 1 ELSE exhausted[j]]
      BY <2>2 DEF claim_reconcile_candidates, Unknown, WithinBudget
    <3>2. attempts \in [Job -> Nat] /\ exhausted \in [Job -> Nat] /\ MaxAttempts \in Nat
      BY <1>2, EngineConstants DEF TypeOK
    <3> QED
      BY <1>2, <3>1, <3>2 DEF ExhaustionAuditedOnce
  <2>3. ASSUME NEW w \in Worker, WorkerStep(w) PROVE UNCHANGED <<attempts, exhausted>>
    BY <2>3 DEF WorkerStep, claim_next_job, BeginExecute, ExecuteReturns, ExecuteFails,
       RenewLease, WorkerVerifies, WorkerFails, WorkerResolve, Write, storeVars
  <2>4. ASSUME NEW c \in Caller, CallerStep(c) PROVE UNCHANGED <<attempts, exhausted>>
    BY <2>4 DEF CallerStep, CancelReads, CancelQueued, CancelRereads, AdapterCancels,
       CancelApplies, CallerFails, Write, storeVars
  <2>5. ASSUME expire_stale_queued \/ expire_leases \/ OpenVerification \/ ReconcilerResolves
               \/ BatchDone \/ SchedulerFails
        PROVE  UNCHANGED <<attempts, exhausted>>
    BY <2>5 DEF expire_stale_queued, expire_leases, OpenVerification, ReconcilerResolves,
       BatchDone, SchedulerFails, ExpireRows, Write, storeVars
  <2>6. ASSUME create_job \/ \E j \in Job : LeaseLapses(j) \/ TargetSettles(j)
        PROVE  UNCHANGED <<attempts, exhausted>>
    BY <2>6 DEF create_job, LeaseLapses, TargetSettles, storeVars
  <2>7. CASE UNCHANGED vars
    BY <2>1, <2>7 DEF vars, storeVars
  <2> QED
    BY <1>2, <2>1, <2>2, <2>3, <2>4, <2>5, <2>6, <2>7 DEF Next, SchedulerStep
<1> QED
  BY <1>1, <1>2, TypeCorrect, PTL DEF Spec

\* What the reconciler holds: candidates that nobody leases and that are still
\* unknown, with the result they had, or were cancelled.
Fresh(j) == state[j] = "unknown_outcome" => view[j] = result[j]

BatchIsHeld ==
  /\ pending # {} => spc \in {"batch", "reconciling"}
  /\ \A j \in pending : Fresh(j) /\ state[j] \in {"unknown_outcome", "cancelled"}
  /\ spc = "reconciling" =>
       /\ sjob \notin pending /\ lease_token[sjob] = NoToken
       /\ state[sjob] \in {"verifying", "unknown_outcome", "cancelled"}
       /\ state[sjob] = "verifying" => view[sjob] = result[sjob]

\* A row without a lease that is past its worker: others leave it alone, cancel
\* it, or send it back to unknown.
LEMMA OutsiderStep ==
  ASSUME Inv, NEW j \in Job, lease_token[j] = NoToken,
         state[j] \in {"verifying", "unknown_outcome", "cancelled"},
         \/ \E w \in Worker : WorkerStep(w)
         \/ \E c \in Caller : CallerStep(c)
         \/ create_job \/ \E i \in Job : LeaseLapses(i) \/ TargetSettles(i)
  PROVE  /\ lease_token'[j] = NoToken
         /\ \/ state'[j] = state[j] /\ result'[j] = result[j]
            \/ state'[j] = "cancelled"
            \/ state[j] = "verifying" /\ state'[j] = "unknown_outcome"
<1> DEFINE Goal == /\ lease_token'[j] = NoToken
                   /\ \/ state'[j] = state[j] /\ result'[j] = result[j]
                      \/ state'[j] = "cancelled"
                      \/ state[j] = "verifying" /\ state'[j] = "unknown_outcome"
<1>t. /\ state \in [Job -> DurableState]
      /\ result \in [Job -> SUBSET Evidence]
      /\ lease_token \in [Job -> Nat]
  BY DEF Inv, TypeOK
<1>0. CASE UNCHANGED <<state, result, lease_token>>
  BY <1>0
<1>1. ASSUME NEW w \in Worker, WorkerStep(w) PROVE Goal
  <2>1. Busy(w) => lease_token[j] # wtoken[w]
    BY DEF Inv, TokensAreIssued, NoToken
  <2>2. ASSUME NEW target, NEW res, Busy(w), Fenced(wjob[w], target, wtoken[w]),
               Write(wjob[w], target, res)
        PROVE  Goal
    BY <1>t, <2>1, <2>2 DEF Fenced, Write
  <2>3. CASE claim_next_job(w)
    BY <1>t, <2>3 DEF claim_next_job, Claimable
  <2>4. CASE UNCHANGED storeVars \/ RenewLease(w)
    BY <1>0, <2>4 DEF storeVars, RenewLease
  <2>5. CASE ExecuteReturns(w) \/ ExecuteFails(w) \/ WorkerVerifies(w)
    BY <2>2, <2>4, <2>5 DEF ExecuteReturns, ExecuteFails, WorkerVerifies, WorkerResolve, Busy
  <2> QED
    BY <1>1, <2>3, <2>4, <2>5 DEF WorkerStep, BeginExecute, WorkerFails
<1>2. ASSUME NEW c \in Caller, CallerStep(c) PROVE Goal
  <2>1. CASE UNCHANGED storeVars
    BY <1>0, <2>1 DEF storeVars
  <2>2. ASSUME NEW target \in {"cancelled", "unknown_outcome"}, NEW res,
               Unfenced(cjob[c], target), Write(cjob[c], target, res)
        PROVE  Goal
    <3>1. CASE cjob[c] # j
      BY <1>t, <2>2, <3>1 DEF Write
    <3>2. CASE cjob[c] = j
      <4>1. lease_token'[j] = NoToken /\ state'[j] = target
        BY <1>t, <2>2, <3>2 DEF Write, keep_lease
      <4>2. target \in ALLOWED_TRANSITIONS[state[j]] /\ state[j] \in JobState
        BY <2>2, <3>2 DEF Unfenced, require_transition
      <4>3. target = "unknown_outcome" => state[j] = "verifying"
        BY <4>2 DEF ALLOWED_TRANSITIONS
      <4> QED
        BY <4>1, <4>3
    <3> QED
      BY <3>1, <3>2
  <2>3. CASE CancelQueued(c)
    BY <2>1, <2>2, <2>3 DEF CancelQueued, Expected, storeVars
  <2>4. CASE CancelApplies(c)
    BY <2>1, <2>2, <2>4 DEF CancelApplies
  <2> QED
    BY <1>2, <2>1, <2>3, <2>4 DEF CallerStep, CancelReads, CancelRereads, AdapterCancels,
       CallerFails
<1>3. CASE create_job
  BY <1>t, <1>3 DEF create_job
<1>4. CASE \E i \in Job : LeaseLapses(i) \/ TargetSettles(i)
  BY <1>0, <1>4 DEF LeaseLapses, TargetSettles, storeVars
<1> QED
  BY <1>1, <1>2, <1>3, <1>4

\* Every step leaves the reconciler's batch as it holds it.
LEMMA BatchStep ==
  ASSUME Inv, BatchIsHeld, [Next]_vars
  PROVE  BatchIsHeld'
<1>t. /\ state \in [Job -> DurableState] /\ pending \subseteq Job
      /\ result \in [Job -> SUBSET Evidence] /\ view \in [Job -> SUBSET Evidence]
      /\ lease_token \in [Job -> Nat]
      /\ spc = "reconciling" => sjob \in Job
  BY DEF Inv, TypeOK
<1>u. \A j \in pending : lease_token[j] = NoToken
  BY <1>t DEF BatchIsHeld, Inv, RunningIsLeased, Leased
<1>0. CASE UNCHANGED vars
  BY <1>0 DEF BatchIsHeld, Fresh, vars, storeVars, schedVars
<1>1. CASE \/ \E w \in Worker : WorkerStep(w)
           \/ \E c \in Caller : CallerStep(c)
           \/ create_job \/ \E i \in Job : LeaseLapses(i) \/ TargetSettles(i)
  <2>1. UNCHANGED <<spc, pending, view, sjob>>
    BY <1>1 DEF WorkerStep, claim_next_job, BeginExecute, ExecuteReturns, ExecuteFails,
       RenewLease, WorkerVerifies, WorkerFails, CallerStep, CancelReads, CancelQueued,
       CancelRereads, AdapterCancels, CancelApplies, CallerFails, create_job, LeaseLapses,
       TargetSettles, schedVars
  <2>2. ASSUME NEW j \in pending
        PROVE  Fresh(j)' /\ state'[j] \in {"unknown_outcome", "cancelled"}
    <3>1. /\ j \in Job /\ lease_token[j] = NoToken /\ Fresh(j)
          /\ state[j] \in {"unknown_outcome", "cancelled"}
      BY <1>t, <1>u, <2>2 DEF BatchIsHeld
    <3>2. \/ state'[j] = state[j] /\ result'[j] = result[j]
          \/ state'[j] = "cancelled"
          \/ state[j] = "verifying" /\ state'[j] = "unknown_outcome"
      BY <1>1, <3>1, OutsiderStep
    <3> QED
      BY <2>1, <3>1, <3>2 DEF Fresh
  <2>3. CASE spc = "reconciling"
    <3>1. /\ sjob \in Job /\ lease_token[sjob] = NoToken /\ sjob \notin pending
          /\ state[sjob] \in {"verifying", "unknown_outcome", "cancelled"}
          /\ state[sjob] = "verifying" => view[sjob] = result[sjob]
      BY <1>t, <2>3 DEF BatchIsHeld
    <3>2. /\ lease_token'[sjob] = NoToken
          /\ \/ state'[sjob] = state[sjob] /\ result'[sjob] = result[sjob]
             \/ state'[sjob] = "cancelled"
             \/ state[sjob] = "verifying" /\ state'[sjob] = "unknown_outcome"
      BY <1>1, <3>1, OutsiderStep
    <3> QED
      BY <2>1, <2>2, <3>1, <3>2 DEF BatchIsHeld
  <2>4. CASE spc # "reconciling"
    BY <2>1, <2>2, <2>4 DEF BatchIsHeld
  <2> QED
    BY <2>3, <2>4
<1>2. CASE SchedulerDone
  BY <1>2 DEF SchedulerDone, BatchIsHeld
<1>3. CASE expire_stale_queued \/ expire_leases
  <2>1. pending = {} /\ pending' = pending /\ spc' # "reconciling"
    BY <1>3 DEF expire_stale_queued, expire_leases, BatchIsHeld
  <2> QED
    BY <2>1 DEF BatchIsHeld
<1>4. CASE claim_reconcile_candidates
  <2>1. PICK C \in SUBSET Unknown :
          pending' = C /\ view' = [j \in Job |-> IF j \in C THEN result[j] ELSE {}]
    BY <1>4 DEF claim_reconcile_candidates, JobView
  <2>2. spc' = "batch" /\ UNCHANGED <<state, result>>
    BY <1>4 DEF claim_reconcile_candidates
  <2> QED
    BY <2>1, <2>2 DEF BatchIsHeld, Fresh, Unknown
<1>5. CASE OpenVerification
  <2>1. PICK j \in pending :
          IF j \notin Poison /\ Unfenced(j, "verifying")
            THEN /\ Write(j, "verifying", view[j])
                 /\ spc' = "reconciling" /\ sjob' = j
                 /\ pending' = pending \ {j}
                 /\ UNCHANGED view
            ELSE SchedulerDone
    BY <1>5 DEF OpenVerification
  <2>2. CASE j \notin Poison /\ Unfenced(j, "verifying")
    <3>1. /\ spc' = "reconciling" /\ sjob' = j /\ pending' = pending \ {j} /\ view' = view
          /\ Write(j, "verifying", view[j])
      BY <2>1, <2>2
    <3>2. /\ state' = [state EXCEPT ![j] = "verifying"]
          /\ result' = [result EXCEPT ![j] = view[j]]
          /\ lease_token'[j] = NoToken
      BY <1>t, <1>u, <3>1 DEF Write, keep_lease
    <3>3. \A i \in pending' : i \in pending /\ i # j /\ i \in Job
      BY <1>t, <3>1
    <3>4. \A i \in pending' : state'[i] = state[i] /\ result'[i] = result[i]
      BY <1>t, <3>2, <3>3
    <3>5. state'[j] = "verifying" /\ view'[j] = result'[j]
      BY <1>t, <3>1, <3>2
    <3> QED
      BY <3>1, <3>2, <3>3, <3>4, <3>5 DEF BatchIsHeld, Fresh
  <2> QED
    BY <1>2, <2>1, <2>2
<1>6. CASE ReconcilerResolves
  <2>1. \/ SchedulerDone
        \/ \E target, res : /\ Write(sjob, target, res)
                            /\ spc = "reconciling" /\ spc' = "batch"
                            /\ UNCHANGED <<pending, view>>
    BY <1>6 DEF ReconcilerResolves
  <2>2. ASSUME NEW target, NEW res, Write(sjob, target, res), spc = "reconciling",
               spc' = "batch", UNCHANGED <<pending, view>>
        PROVE  BatchIsHeld'
    <3>1. \A i \in pending : i # sjob /\ i \in Job
      BY <1>t, <2>2 DEF BatchIsHeld
    <3>2. \A i \in pending : state'[i] = state[i] /\ result'[i] = result[i]
      BY <1>t, <2>2, <3>1 DEF Write
    <3> QED
      BY <2>2, <3>2 DEF BatchIsHeld, Fresh
  <2> QED
    BY <1>2, <2>1, <2>2
<1>7. CASE BatchDone \/ SchedulerFails
  BY <1>2, <1>7 DEF BatchDone, SchedulerFails
<1> QED
  BY <1>0, <1>1, <1>3, <1>4, <1>5, <1>6, <1>7 DEF Next, SchedulerStep

\* Between a candidate's view and the reconciler's writes only a cancel request
\* gets at the row; without one, what is written back is what the row holds
\* (Reconciler.run_once, transition_job).
THEOREM HeldBatch == Spec => []OnlyCancelInterferes
<1>1. Init => BatchIsHeld
  BY DEF Init, BatchIsHeld
<1>2. BatchIsHeld => OnlyCancelInterferes
  BY DEF BatchIsHeld, Fresh, OnlyCancelInterferes
<1> QED
  BY <1>1, <1>2, BatchStep, Invariance, PTL DEF Spec

\* If no scheduler iteration dies, every verification has an owner: the worker
\* that holds the lease, or the reconciler that has opened it.
THEOREM OwnedVerification ==
  ASSUME ~SchedulerMayFail
  PROVE  Spec => []VerificationHasAnOwner
<1>1. Init => VerificationHasAnOwner
  BY DEF Init, VerificationHasAnOwner
<1>2. ASSUME Inv, VerificationHasAnOwner, [Next]_vars PROVE VerificationHasAnOwner'
  <2>t. /\ state \in [Job -> DurableState] /\ lease_token \in [Job -> Nat]
        /\ spc = "reconciling" => sjob \in Job
    BY <1>2 DEF Inv, TypeOK
  <2> SUFFICES ASSUME NEW j \in Job, state'[j] = "verifying", lease_token'[j] = NoToken
               PROVE  spc' = "reconciling" /\ sjob' = j
    BY DEF VerificationHasAnOwner
  <2>1. CASE /\ state[j] = "verifying" /\ lease_token[j] = NoToken
             /\ UNCHANGED <<spc, sjob>>
    BY <1>2, <2>1 DEF VerificationHasAnOwner
  <2>2. CASE UNCHANGED <<state, lease_token, spc, sjob>>
    BY <2>1, <2>2
  <2>3. ASSUME NEW w \in Worker, WorkerStep(w) PROVE spc' = "reconciling" /\ sjob' = j
    <3>1. UNCHANGED <<spc, sjob>>
      BY <2>3 DEF WorkerStep, claim_next_job, BeginExecute, ExecuteReturns, ExecuteFails,
         RenewLease, WorkerVerifies, WorkerFails, schedVars
    <3>2. Busy(w) => wtoken[w] # NoToken
      BY <1>2 DEF Inv, TokensAreIssued, NoToken
    <3>3. ASSUME NEW target, NEW res, Busy(w), Fenced(wjob[w], target, wtoken[w]),
                 Write(wjob[w], target, res)
          PROVE  state[j] = "verifying" /\ lease_token[j] = NoToken
      <4>1. CASE wjob[w] # j
        BY <2>t, <3>3, <4>1 DEF Write
      <4>2. CASE wjob[w] = j
        <5>1. state'[j] = target
          BY <2>t, <3>3, <4>2 DEF Write
        <5>2. lease_token'[j] = lease_token[j]
          BY <2>t, <3>3, <4>2, <5>1 DEF Write, keep_lease
        <5> QED
          BY <3>2, <3>3, <4>2, <5>2 DEF Fenced
      <4> QED
        BY <4>1, <4>2
    <3>4. CASE claim_next_job(w)
      BY <2>t, <2>1, <3>1, <3>4 DEF claim_next_job
    <3>5. CASE UNCHANGED <<state, lease_token>>
      BY <2>2, <3>1, <3>5
    <3>6. CASE ExecuteReturns(w) \/ ExecuteFails(w) \/ WorkerVerifies(w)
      BY <2>1, <3>1, <3>3, <3>5, <3>6 DEF ExecuteReturns, ExecuteFails, WorkerVerifies,
         WorkerResolve, Busy, storeVars
    <3> QED
      BY <2>3, <3>4, <3>5, <3>6 DEF WorkerStep, BeginExecute, WorkerFails, RenewLease, storeVars
  <2>4. ASSUME NEW c \in Caller, CallerStep(c) PROVE spc' = "reconciling" /\ sjob' = j
    <3>1. UNCHANGED <<spc, sjob>>
      BY <2>4 DEF CallerStep, CancelReads, CancelQueued, CancelRereads, AdapterCancels,
         CancelApplies, CallerFails, schedVars
    <3>2. CASE UNCHANGED <<state, lease_token>>
      BY <2>2, <3>1, <3>2
    <3>3. ASSUME NEW target \in {"cancelled", "unknown_outcome"}, NEW res,
                 Write(cjob[c], target, res)
          PROVE  state[j] = "verifying" /\ lease_token[j] = NoToken
      BY <2>t, <3>3 DEF Write
    <3> QED
      BY <2>1, <2>4, <3>1, <3>2, <3>3 DEF CallerStep, CancelReads, CancelQueued, CancelRereads,
         AdapterCancels, CancelApplies, CallerFails, storeVars
  <2>5. CASE create_job \/ \E i \in Job : LeaseLapses(i) \/ TargetSettles(i)
    BY <2>t, <2>1, <2>2, <2>5 DEF create_job, LeaseLapses, TargetSettles, storeVars, schedVars
  <2>6. ASSUME spc # "reconciling" PROVE ~(state[j] = "verifying" /\ lease_token[j] = NoToken)
    BY <1>2, <2>6 DEF VerificationHasAnOwner
  <2>7. CASE expire_stale_queued \/ expire_leases \/ claim_reconcile_candidates \/ BatchDone
    <3>1. spc # "reconciling"
      BY <2>7 DEF expire_stale_queued, expire_leases, claim_reconcile_candidates, BatchDone
    <3>2. state[j] = "verifying" /\ lease_token[j] = NoToken
      BY <2>7 DEF expire_stale_queued, expire_leases, claim_reconcile_candidates, BatchDone,
         ExpireRows, storeVars
    <3> QED
      BY <2>6, <3>1, <3>2
  <2>8. CASE OpenVerification
    <3>1. PICK i \in pending :
            \/ Write(i, "verifying", view[i]) /\ spc' = "reconciling" /\ sjob' = i
            \/ UNCHANGED storeVars
      BY <2>8 DEF OpenVerification
    <3>2. spc # "reconciling"
      BY <2>8 DEF OpenVerification
    <3>3. CASE UNCHANGED storeVars
      BY <2>6, <3>2, <3>3 DEF storeVars
    <3>4. CASE Write(i, "verifying", view[i]) /\ spc' = "reconciling" /\ sjob' = i
      <4>1. CASE i = j
        BY <3>4, <4>1
      <4>2. CASE i # j
        BY <2>t, <2>6, <3>2, <3>4, <4>2 DEF Write
      <4> QED
        BY <4>1, <4>2
    <3> QED
      BY <3>1, <3>3, <3>4
  <2>9. CASE ReconcilerResolves
    <3>1. PICK target \in {"succeeded", "unknown_outcome", "failed"} :
            IF Unfenced(sjob, target) THEN \E res : Write(sjob, target, res)
                                      ELSE UNCHANGED storeVars
      BY <2>9 DEF ReconcilerResolves
    <3>2. spc = "reconciling" /\ sjob \in Job
      BY <2>t, <2>9 DEF ReconcilerResolves
    <3>3. CASE Unfenced(sjob, target)
      <4>1. state' = [state EXCEPT ![sjob] = target]
        BY <3>1, <3>3 DEF Write
      <4>2. sjob # j /\ state[j] = "verifying"
        BY <2>t, <3>2, <4>1
      <4>3. lease_token[j] = NoToken
        BY <2>t, <3>1, <3>3, <4>2 DEF Write
      <4> QED
        BY <1>2, <4>2, <4>3 DEF VerificationHasAnOwner
    <3>4. CASE ~Unfenced(sjob, target)
      <4>1. state[j] = "verifying" /\ lease_token[j] = NoToken
        BY <3>1, <3>4 DEF storeVars
      <4>2. sjob = j
        BY <1>2, <4>1 DEF VerificationHasAnOwner
      <4> QED
        BY <3>4, <4>1, <4>2 DEF Unfenced, require_transition, JobState, ALLOWED_TRANSITIONS
    <3> QED
      BY <3>3, <3>4
  <2>10. CASE UNCHANGED vars
    BY <2>2, <2>10 DEF vars, storeVars, schedVars
  <2> QED
    BY <1>2, <2>3, <2>4, <2>5, <2>7, <2>8, <2>9, <2>10 DEF Next, SchedulerStep, SchedulerFails
<1> QED
  BY <1>1, <1>2, Invariance, PTL DEF Spec

-----------------------------------------------------------------------------
(***************************************************************************)
(* What the result of a row says.  The results that views and cancel       *)
(* requests carry around may be outdated, but they were read from jobs     *)
(* that were not settled: they can show an execution and nothing else.     *)
(***************************************************************************)
Truthful(s, res, e) ==
  /\ s = "succeeded" <=> "verification" \in res
  /\ "cancellation" \in res => s = "cancelled"
  /\ s = "cancelled" => e = IF "cancellation" \in res THEN "stopped" ELSE "never"
  /\ "execution" \in res => e # "never"

Carried(res, j) == res \subseteq {"execution"} /\ ("execution" \in res => effect[j] # "never")

SentByWorkers ==
  \A w \in Worker : wpc[w] \in {"executing", "renew", "observing"} => effect[wjob[w]] # "never"

ViewsAreCarried == \A j \in Job : Carried(view[j], j)

RequestsAreCarried == \A c \in Caller : cpc[c] # "idle" => Carried(cresult[c], cjob[c])

RecordInv == RecordIsTruthful /\ SentByWorkers /\ ViewsAreCarried /\ RequestsAreCarried

\* The property, row by row.
LEMMA RowByRow == RecordIsTruthful <=> \A j \in Job : Truthful(state[j], result[j], effect[j])
BY DEF RecordIsTruthful, Truthful

\* The result of a job that is not settled can be carried around.
LEMMA Unsettled ==
  ASSUME Inv, RecordIsTruthful, NEW j \in Job, state[j] \notin {"succeeded", "cancelled"}
  PROVE  Carried(result[j], j)
<1>1. result[j] \subseteq {"execution", "verification", "cancellation"}
  BY DEF Inv, TypeOK, Evidence
<1> QED
  BY <1>1 DEF RecordIsTruthful, Carried

\* A dispatch is for good.
LEMMA EffectStays ==
  ASSUME Inv, [Next]_vars, NEW j \in Job, effect[j] # "never"
  PROVE  effect'[j] # "never"
<1>t. effect \in [Job -> {"never", "inflight", "applied", "stopped"}]
  BY DEF Inv, TypeOK
<1>1. CASE UNCHANGED effect
  BY <1>1
<1>2. ASSUME NEW w \in Worker, WorkerStep(w) PROVE effect'[j] # "never"
  BY <1>t, <1>1, <1>2 DEF WorkerStep, claim_next_job, BeginExecute, ExecuteReturns, ExecuteFails,
     RenewLease, WorkerVerifies, WorkerFails, targetVars
<1>3. CASE SchedulerStep \/ SchedulerFails
  BY <1>1, <1>3 DEF SchedulerStep, SchedulerFails, expire_stale_queued, expire_leases,
     claim_reconcile_candidates, OpenVerification, ReconcilerResolves, BatchDone, targetVars
<1>4. ASSUME NEW c \in Caller, CallerStep(c) PROVE effect'[j] # "never"
  BY <1>1, <1>4 DEF CallerStep, CancelReads, CancelQueued, CancelRereads, AdapterCancels,
     CancelApplies, CallerFails, targetVars
<1>5. CASE create_job \/ \E i \in Job : LeaseLapses(i) \/ TargetSettles(i)
  BY <1>t, <1>1, <1>5 DEF create_job, LeaseLapses, TargetSettles, targetVars
<1>6. CASE UNCHANGED vars
  BY <1>1, <1>6 DEF vars, targetVars
<1> QED
  BY <1>2, <1>3, <1>4, <1>5, <1>6 DEF Next

\* One row is rewritten, and the targets do nothing meanwhile.
LEMMA RowStep ==
  ASSUME Inv, RecordIsTruthful, NEW j \in Job, NEW target, NEW res, Write(j, target, res),
         UNCHANGED effect, Truthful(target, res, effect[j])
  PROVE  RecordIsTruthful'
<1>t. state \in [Job -> DurableState] /\ result \in [Job -> SUBSET Evidence]
  BY DEF Inv, TypeOK
<1>1. /\ state' = [state EXCEPT ![j] = target] /\ result' = [result EXCEPT ![j] = res]
  BY DEF Write
<1>2. ASSUME NEW i \in Job PROVE Truthful(state'[i], result'[i], effect'[i])
  <2>1. CASE i = j
    BY <1>t, <1>1, <2>1
  <2>2. CASE i # j
    BY <1>t, <1>1, <2>2, RowByRow
  <2> QED
    BY <2>1, <2>2
<1> QED
  BY <1>2 DEF RecordIsTruthful, Truthful

\* A step that rewrites no result, and settles no job but by expiry.
LEMMA StateStep ==
  ASSUME Inv, RecordIsTruthful, UNCHANGED <<result, effect>>,
         \A j \in Job : \/ state'[j] = state[j]
                       \/ /\ state[j] \notin {"succeeded", "cancelled"}
                          /\ state'[j] \notin {"succeeded", "cancelled"}
  PROVE  RecordIsTruthful'
BY DEF RecordIsTruthful

\* Every step keeps the rows truthful ...
LEMMA TruthStep ==
  ASSUME Inv, RecordInv, [Next]_vars
  PROVE  RecordIsTruthful'
<1>t. /\ state \in [Job -> DurableState] /\ result \in [Job -> SUBSET Evidence]
      /\ effect \in [Job -> {"never", "inflight", "applied", "stopped"}]
      /\ pending \subseteq Job /\ (spc = "reconciling" => sjob \in Job)
      /\ \A w \in Worker : wpc[w] # "idle" => wjob[w] \in Job
      /\ \A c \in Caller : cpc[c] # "idle" => cjob[c] \in Job
      /\ RecordIsTruthful
  BY DEF Inv, TypeOK, RecordInv
<1>0. CASE UNCHANGED <<state, result, effect>>
  BY <1>t, <1>0, StateStep
<1>1. ASSUME NEW w \in Worker, WorkerStep(w) PROVE RecordIsTruthful'
  <2>1. CASE claim_next_job(w)
    <3>1. PICK j \in Job : state[j] = "queued" /\ state' = [state EXCEPT ![j] = "running"]
      BY <2>1 DEF claim_next_job, Claimable
    <3> QED
      BY <1>t, <2>1, <3>1, StateStep DEF claim_next_job, targetVars
  <2>2. CASE BeginExecute(w)
    <3>1. effect' = [effect EXCEPT ![wjob[w]] = "inflight"] /\ UNCHANGED <<state, result>>
      BY <2>2 DEF BeginExecute, storeVars
    <3>2. wjob[w] \in Job /\ effect[wjob[w]] = "never" /\ state[wjob[w]] # "cancelled"
      BY <1>t, <2>2 DEF BeginExecute, Inv, ClaimedIsUnsent, UnclaimedIsUntouched, Busy
    <3> QED
      BY <1>t, <3>1, <3>2 DEF RecordIsTruthful
  <2>3. ASSUME NEW target \in {"failed", "unknown_outcome"}, wpc[w] # "idle",
               WorkerResolve(w, target, {}), UNCHANGED targetVars
        PROVE  RecordIsTruthful'
    <3>1. Truthful(target, {}, effect[wjob[w]])
      BY DEF Truthful
    <3> QED
      BY <1>0, <1>t, <2>3, <3>1, RowStep DEF WorkerResolve, targetVars, storeVars
  <2>4. CASE ExecuteFails(w)
    BY <2>3, <2>4 DEF ExecuteFails
  <2>5. CASE ExecuteReturns(w)
    <3>1. effect[wjob[w]] # "never"
      BY <2>5 DEF ExecuteReturns, RecordInv, SentByWorkers
    <3>2. Truthful("verifying", {"execution"}, effect[wjob[w]])
      BY <3>1 DEF Truthful
    <3> QED
      BY <1>0, <1>t, <2>5, <3>2, RowStep DEF ExecuteReturns, targetVars, storeVars
  <2>6. CASE WorkerVerifies(w)
    <3>1. CASE effect[wjob[w]] = "applied"
               /\ WorkerResolve(w, "succeeded", {"execution", "verification"})
      <4>1. Truthful("succeeded", {"execution", "verification"}, effect[wjob[w]])
        BY <3>1 DEF Truthful
      <4> QED
        BY <1>0, <1>t, <2>6, <3>1, <4>1, RowStep DEF WorkerVerifies, WorkerResolve, targetVars,
           storeVars
    <3> QED
      BY <2>3, <2>6, <3>1 DEF WorkerVerifies
  <2>7. CASE RenewLease(w) \/ WorkerFails(w)
    BY <1>0, <2>7 DEF RenewLease, WorkerFails, storeVars, targetVars
  <2> QED
    BY <1>1, <2>1, <2>2, <2>4, <2>5, <2>6, <2>7 DEF WorkerStep
<1>2. CASE SchedulerStep \/ SchedulerFails
  <2>1. CASE expire_stale_queued \/ expire_leases
    BY <1>t, <2>1, StateStep DEF expire_stale_queued, expire_leases, ExpireRows, Abandoned,
       Leased, targetVars
  <2>2. CASE claim_reconcile_candidates \/ BatchDone \/ SchedulerFails
    BY <1>0, <2>2 DEF claim_reconcile_candidates, BatchDone, SchedulerFails, storeVars, targetVars
  <2>3. CASE OpenVerification
    <3>1. PICK j \in pending : Write(j, "verifying", view[j]) \/ UNCHANGED storeVars
      BY <2>3 DEF OpenVerification
    <3>2. j \in Job /\ Carried(view[j], j)
      BY <1>t DEF RecordInv, ViewsAreCarried
    <3>3. Truthful("verifying", view[j], effect[j])
      BY <3>2 DEF Truthful, Carried
    <3> QED
      BY <1>0, <1>t, <2>3, <3>1, <3>2, <3>3, RowStep DEF OpenVerification, targetVars, storeVars
  <2>4. CASE ReconcilerResolves
    <3>1. PICK target \in {"succeeded", "unknown_outcome", "failed"} :
            /\ target = "succeeded" => effect[sjob] = "applied"
            /\ \/ Write(sjob, target, IF target = "succeeded" THEN view[sjob] \cup {"verification"}
                                                             ELSE view[sjob])
               \/ UNCHANGED storeVars
      BY <2>4 DEF ReconcilerResolves
    <3>2. sjob \in Job /\ Carried(view[sjob], sjob)
      BY <1>t, <2>4 DEF ReconcilerResolves, RecordInv, ViewsAreCarried
    <3>3. CASE target = "succeeded"
      <4>1. Truthful("succeeded", view[sjob] \cup {"verification"}, effect[sjob])
        BY <3>1, <3>2, <3>3 DEF Truthful, Carried
      <4> QED
        BY <1>0, <1>t, <2>4, <3>1, <3>2, <3>3, <4>1, RowStep
           DEF ReconcilerResolves, targetVars, storeVars
    <3>4. CASE target # "succeeded"
      <4>1. Truthful(target, view[sjob], effect[sjob])
        BY <3>1, <3>2, <3>4 DEF Truthful, Carried
      <4> QED
        BY <1>0, <1>t, <2>4, <3>1, <3>2, <3>4, <4>1, RowStep
           DEF ReconcilerResolves, targetVars, storeVars
    <3> QED
      BY <3>3, <3>4
  <2> QED
    BY <1>2, <2>1, <2>2, <2>3, <2>4 DEF SchedulerStep
<1>3. ASSUME NEW c \in Caller, CallerStep(c) PROVE RecordIsTruthful'
  <2>0. UNCHANGED effect
    BY <1>3 DEF CallerStep, CancelReads, CancelQueued, CancelRereads, AdapterCancels,
       CancelApplies, CallerFails, targetVars
  <2>1. cpc[c] # "idle" => cjob[c] \in Job /\ Carried(cresult[c], cjob[c])
    BY <1>t DEF RecordInv, RequestsAreCarried
  <2>2. CASE CancelQueued(c)
    <3>1. \/ cpc[c] = "queued" /\ state[cjob[c]] = "queued" /\ Write(cjob[c], "cancelled", cresult[c])
          \/ UNCHANGED storeVars
      BY <2>2 DEF CancelQueued, Expected, storeVars
    <3>2. CASE cpc[c] = "queued" /\ state[cjob[c]] = "queued"
               /\ Write(cjob[c], "cancelled", cresult[c])
      <4>1. effect[cjob[c]] = "never"
        BY <2>1, <3>2 DEF Inv, UnclaimedIsUntouched, Unclaimed
      <4>2. Truthful("cancelled", cresult[c], effect[cjob[c]])
        BY <2>1, <3>2, <4>1 DEF Truthful, Carried
      <4> QED
        BY <1>t, <2>0, <2>1, <3>2, <4>2, RowStep
    <3> QED
      BY <1>0, <2>0, <3>1, <3>2 DEF storeVars
  <2>3. CASE CancelApplies(c)
    <3>1. PICK target \in {"cancelled", "unknown_outcome"} :
            /\ target = "cancelled" <=> cdisp[c] = "cancelled"
            /\ Write(cjob[c], target, CancelResult(c)) \/ UNCHANGED storeVars
      BY <2>3 DEF CancelApplies
    <3>2. target = "cancelled" => effect[cjob[c]] = "stopped"
      BY <2>3, <3>1 DEF CancelApplies, Inv, OutcomesAreTruthful
    <3>3. Truthful(target, CancelResult(c), effect[cjob[c]])
      BY <2>1, <2>3, <3>1, <3>2 DEF CancelApplies, CancelResult, Truthful, Carried
    <3>4. cjob[c] \in Job
      BY <2>1, <2>3 DEF CancelApplies
    <3> QED
      BY <1>0, <1>t, <2>0, <3>1, <3>3, <3>4, RowStep DEF storeVars
  <2> QED
    BY <1>0, <1>3, <2>0, <2>2, <2>3 DEF CallerStep, CancelReads, CancelRereads, AdapterCancels,
       CallerFails, storeVars
<1>4. CASE create_job
  <2>1. PICK j \in Job : state[j] = "absent" /\ state' = [state EXCEPT ![j] = "queued"]
    BY <1>4 DEF create_job
  <2> QED
    BY <1>t, <1>4, <2>1, StateStep DEF create_job, targetVars
<1>5. CASE \E i \in Job : LeaseLapses(i)
  BY <1>0, <1>5 DEF LeaseLapses, targetVars
<1>6. ASSUME NEW i \in Job, TargetSettles(i) PROVE RecordIsTruthful'
  <2>1. /\ effect[i] = "inflight" /\ UNCHANGED <<state, result>>
        /\ effect'[i] \in {"applied", "stopped"} /\ \A j \in Job \ {i} : effect'[j] = effect[j]
    BY <1>t, <1>6 DEF TargetSettles, storeVars
  <2> QED
    BY <1>t, <2>1 DEF RecordIsTruthful
<1>7. CASE UNCHANGED vars
  BY <1>0, <1>7 DEF vars, storeVars, targetVars
<1> QED
  BY <1>1, <1>2, <1>3, <1>4, <1>5, <1>6, <1>7 DEF Next

\* ... and what the processes carry around an honest copy of some past.
LEMMA CarryStep ==
  ASSUME Inv, RecordInv, [Next]_vars
  PROVE  SentByWorkers' /\ ViewsAreCarried' /\ RequestsAreCarried'
<1>t. /\ state \in [Job -> DurableState] /\ view \in [Job -> SUBSET Evidence]
      /\ wpc \in [Worker -> {"idle", "claimed", "executing", "renew", "observing"}]
      /\ wjob \in [Worker -> Job \cup {NoJob}]
      /\ effect \in [Job -> {"never", "inflight", "applied", "stopped"}]
      /\ cpc \in [Caller -> {"idle", "queued", "reread", "adapter", "apply"}]
      /\ cjob \in [Caller -> Job \cup {NoJob}] /\ cresult \in [Caller -> SUBSET Evidence]
      /\ \A w \in Worker : wpc[w] # "idle" => wjob[w] \in Job
      /\ \A c \in Caller : cpc[c] # "idle" => cjob[c] \in Job
  BY DEF Inv, TypeOK
<1>e. \A j \in Job : effect[j] # "never" => effect'[j] # "never"
  BY EffectStays
<1>s. ASSUME UNCHANGED <<wpc, wjob>> PROVE SentByWorkers'
  BY <1>t, <1>e, <1>s DEF RecordInv, SentByWorkers
<1>v. ASSUME \A j \in Job : view'[j] = view[j] \/ view'[j] = {} PROVE ViewsAreCarried'
  BY <1>e, <1>v DEF RecordInv, ViewsAreCarried, Carried
<1>r. ASSUME UNCHANGED <<cpc, cjob, cresult>> PROVE RequestsAreCarried'
  BY <1>t, <1>e, <1>r DEF RecordInv, RequestsAreCarried, Carried
<1>1. ASSUME NEW w \in Worker, WorkerStep(w)
      PROVE  SentByWorkers' /\ ViewsAreCarried' /\ RequestsAreCarried'
  <2>1. UNCHANGED <<schedVars, callerVars>>
    BY <1>1 DEF WorkerStep, claim_next_job, BeginExecute, ExecuteReturns, ExecuteFails,
       RenewLease, WorkerVerifies, WorkerFails
  <2>2. SentByWorkers'
    <3>1. CASE WorkerDone(w)
      BY <1>t, <1>e, <3>1 DEF WorkerDone, RecordInv, SentByWorkers
    <3>2. CASE claim_next_job(w)
      BY <1>t, <1>e, <3>2 DEF claim_next_job, RecordInv, SentByWorkers
    <3>3. CASE BeginExecute(w)
      <4>1. wjob[w] \in Job /\ effect'[wjob[w]] = "inflight"
        BY <1>t, <3>3 DEF BeginExecute
      <4> QED
        BY <1>t, <1>e, <3>3, <4>1 DEF BeginExecute, WorkerTo, RecordInv, SentByWorkers
    <3>4. CASE ExecuteReturns(w)
      BY <1>t, <1>e, <3>1, <3>4 DEF ExecuteReturns, WorkerTo, RecordInv, SentByWorkers
    <3>5. CASE RenewLease(w)
      BY <1>t, <1>e, <3>5 DEF RenewLease, WorkerTo, RecordInv, SentByWorkers
    <3> QED
      BY <1>1, <3>1, <3>2, <3>3, <3>4, <3>5
         DEF WorkerStep, ExecuteFails, WorkerVerifies, WorkerFails, WorkerResolve
  <2> QED
    BY <1>v, <1>r, <2>1, <2>2 DEF schedVars, callerVars
<1>2. CASE SchedulerStep \/ SchedulerFails
  <2>1. UNCHANGED <<workerVars, callerVars>>
    BY <1>2 DEF SchedulerStep, SchedulerFails, expire_stale_queued, expire_leases,
       claim_reconcile_candidates, OpenVerification, ReconcilerResolves, BatchDone
  <2>2. CASE SchedulerDone \/ UNCHANGED view
    BY <1>s, <1>v, <1>r, <2>1, <2>2 DEF SchedulerDone, workerVars, callerVars
  <2>3. CASE claim_reconcile_candidates
    <3>1. PICK C \in SUBSET Unknown : view' = [j \in Job |-> IF j \in C THEN result[j] ELSE {}]
      BY <2>3 DEF claim_reconcile_candidates, JobView
    <3>2. UNCHANGED effect
      BY <2>3 DEF claim_reconcile_candidates, targetVars
    <3>3. \A j \in C : Carried(result[j], j)
      BY <3>1, Unsettled DEF Unknown, RecordInv
    <3>4. ViewsAreCarried'
      BY <3>1, <3>2, <3>3 DEF ViewsAreCarried, Carried
    <3> QED
      BY <1>s, <1>r, <2>1, <3>4 DEF workerVars, callerVars
  <2> QED
    BY <1>2, <2>2, <2>3 DEF SchedulerStep, SchedulerFails, expire_stale_queued, expire_leases,
       OpenVerification, ReconcilerResolves, BatchDone
<1>3. ASSUME NEW c \in Caller, CallerStep(c)
      PROVE  SentByWorkers' /\ ViewsAreCarried' /\ RequestsAreCarried'
  <2>1. UNCHANGED <<workerVars, schedVars, effect>>
    BY <1>3 DEF CallerStep, CancelReads, CancelQueued, CancelRereads, AdapterCancels,
       CancelApplies, CallerFails, targetVars
  <2>2. ASSUME CallerDone(c) PROVE RequestsAreCarried'
    BY <1>t, <2>1, <2>2 DEF CallerDone, RecordInv, RequestsAreCarried, Carried
  <2>3. ASSUME NEW j \in Job, NEW pc, ~Terminal(j), CallerSees(c, j, pc) PROVE RequestsAreCarried'
    <3>1. Carried(result[j], j)
      BY <2>3, Unsettled DEF Terminal, TERMINAL_JOB_STATES, RecordInv
    <3> QED
      BY <1>t, <2>1, <2>3, <3>1 DEF CallerSees, JobView, RecordInv, RequestsAreCarried, Carried
  <2>4. ASSUME cpc[c] # "idle", NEW pc, cpc' = [cpc EXCEPT ![c] = pc], UNCHANGED <<cjob, cresult>>
        PROVE  RequestsAreCarried'
    BY <1>t, <2>1, <2>4 DEF RecordInv, RequestsAreCarried, Carried
  <2>5. RequestsAreCarried'
    <3>1. CASE CancelReads(c)
      BY <2>3, <3>1 DEF CancelReads
    <3>2. CASE CancelQueued(c)
      BY <2>2, <2>4, <3>2 DEF CancelQueued
    <3>3. CASE CancelRereads(c)
      BY <1>t, <2>2, <2>3, <3>3 DEF CancelRereads
    <3>4. CASE AdapterCancels(c)
      BY <2>2, <2>4, <3>4 DEF AdapterCancels
    <3>5. CASE CancelApplies(c) \/ CallerFails(c)
      BY <2>2, <3>5 DEF CancelApplies, CallerFails
    <3> QED
      BY <1>3, <3>1, <3>2, <3>3, <3>4, <3>5 DEF CallerStep
  <2> QED
    BY <1>s, <1>v, <2>1, <2>5 DEF workerVars, schedVars
<1>4. CASE create_job \/ \E i \in Job : LeaseLapses(i) \/ TargetSettles(i)
  <2>1. CASE create_job
    BY <1>s, <1>v, <1>r, <2>1 DEF create_job, workerVars, schedVars, callerVars
  <2>2. CASE \E i \in Job : LeaseLapses(i)
    BY <1>s, <1>v, <1>r, <2>2 DEF LeaseLapses, workerVars, schedVars, callerVars
  <2>3. CASE \E i \in Job : TargetSettles(i)
    BY <1>s, <1>v, <1>r, <2>3 DEF TargetSettles, workerVars, schedVars, callerVars
  <2> QED
    BY <1>4, <2>1, <2>2, <2>3
<1>5. CASE UNCHANGED vars
  BY <1>s, <1>v, <1>r, <1>5 DEF vars, workerVars, schedVars, callerVars
<1> QED
  BY <1>1, <1>2, <1>3, <1>4, <1>5 DEF Next

\* Whatever outdated results the canceller and the reconciler write back, the
\* result of a row tells the truth of its job (cancellation.py _apply,
\* Reconciler.run_once, transition_job).
THEOREM TruthfulRecord == Spec => []RecordIsTruthful
<1>1. Init => RecordInv
  BY DEF Init, RecordInv, RecordIsTruthful, SentByWorkers, ViewsAreCarried, RequestsAreCarried,
     Carried
<1>2. Inv /\ RecordInv /\ [Next]_vars => RecordInv'
  BY TruthStep, CarryStep DEF RecordInv
<1>3. RecordInv => RecordIsTruthful
  BY DEF RecordInv
<1> QED
  BY <1>1, <1>2, <1>3, Invariance, PTL DEF Spec
=============================================================================
