---------------------------- MODULE JobLifecycle ----------------------------
(***************************************************************************)
(* What the broker promises about ONE job, whatever its workers, its       *)
(* scheduler and its cancelling clients do:                                *)
(*   - it is dispatched to its target at most once, and only after a       *)
(*     worker was given it;                                                *)
(*   - it moves along the edges below and rests in a terminal state;       *)
(*   - it is called succeeded only if its effect is on the target, and     *)
(*     cancelled only if the effect is not there and never will be.        *)
(* It promises nothing of the effect behind a failed job.                  *)
(***************************************************************************)
VARIABLES
  state,   \* the job's durable state; "absent" before it is accepted
  effect   \* what became of the operation at the target

lifecycleVars == <<state, effect>>

LifecycleInit == state = "absent" /\ effect = "never"

Move(from, to) == state \in from /\ state' = to /\ UNCHANGED effect

Accept   == Move({"absent"}, "queued")
Claim    == Move({"queued"}, "running")
Lapse    == Move({"queued"}, "expired")
Check    == Move({"running", "unknown_outcome"}, "verifying")
LoseSight == Move({"running", "verifying"}, "unknown_outcome")
Fail     == Move({"running", "verifying", "unknown_outcome"}, "failed")

Succeed == /\ effect = "applied"
           /\ Move({"verifying", "unknown_outcome"}, "succeeded")

Withdraw == effect = "never" /\ Move({"queued"}, "cancelled")

Cancel == /\ effect = "stopped"
          /\ Move({"running", "verifying", "unknown_outcome"}, "cancelled")

\* The one dispatch.  A stalled worker may still take it when the job it was
\* given has moved on, but never for a job that was withdrawn or cancelled.
Dispatch == /\ effect = "never"
            /\ state \in {"running", "verifying", "unknown_outcome", "failed"}
            /\ effect' = "inflight"
            /\ UNCHANGED state

TakesEffect == effect = "inflight" /\ effect' = "applied" /\ UNCHANGED state

\* The operation is refused, lost or cancelled at the target.
Stops == effect = "inflight" /\ effect' = "stopped" /\ UNCHANGED state

LifecycleNext ==
  \/ Accept \/ Claim \/ Lapse \/ Check \/ LoseSight \/ Fail
  \/ Succeed \/ Withdraw \/ Cancel
  \/ Dispatch \/ TakesEffect \/ Stops

LifecycleSpec == LifecycleInit /\ [][LifecycleNext]_lifecycleVars
=============================================================================
