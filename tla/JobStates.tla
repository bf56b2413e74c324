----------------------------- MODULE JobStates -----------------------------
(***************************************************************************)
(* The job states and the transition table every store write is checked    *)
(* against (deckhand/models.py, deckhand/state_machine.py).  "absent" is   *)
(* not a state of the program: it stands for a job without a row.          *)
(***************************************************************************)

JobState ==
  {"received", "validated", "authorized", "awaiting_confirmation", "queued",
   "running", "verifying", "succeeded", "denied", "rejected", "expired",
   "cancelled", "failed", "unknown_outcome"}

TERMINAL_JOB_STATES ==
  {"succeeded", "denied", "rejected", "expired", "cancelled", "failed"}

ALLOWED_TRANSITIONS ==
  [s \in JobState |->
     CASE s = "received"              -> {"validated", "rejected"}
       [] s = "validated"             -> {"authorized", "denied", "rejected"}
       [] s = "authorized"            -> {"awaiting_confirmation", "queued"}
       [] s = "awaiting_confirmation" -> {"queued", "expired", "cancelled"}
       [] s = "queued"                -> {"running", "cancelled", "expired"}
       [] s = "running"               -> {"verifying", "failed",
                                          "unknown_outcome", "cancelled"}
       [] s = "verifying"             -> {"succeeded", "failed",
                                          "unknown_outcome", "cancelled"}
       [] s = "unknown_outcome"       -> {"verifying", "succeeded",
                                          "failed", "cancelled"}
       [] OTHER                       -> {}]

\* require_transition(current, target) raises InvalidTransition unless this
\* holds.  A job without a row never gets this far (StoreError, job not found).
require_transition(current, target) ==
  current \in JobState /\ target \in ALLOWED_TRANSITIONS[current]
=============================================================================
