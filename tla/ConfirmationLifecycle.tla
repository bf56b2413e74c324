------------------------ MODULE ConfirmationLifecycle ------------------------
(***************************************************************************)
(* What the broker promises about ONE confirmation, whatever requests race *)
(* for it, whoever gives it up and whenever the broker restarts: what it   *)
(* binds is fixed when it is issued; it is consumed by one request at most *)
(* and only while it is unused; that request makes one job of it or none;  *)
(* and neither what is withdrawn nor what is consumed ever comes back.     *)
(***************************************************************************)
CONSTANTS
  Request,   \* requests in progress at the same time
  Key        \* names of jobs

VARIABLES
  state,     \* "absent", "unused", "withdrawn" or "used"
  binds,     \* what it was issued for
  holder,    \* the request that has consumed it and not decided yet
  made       \* the job made of it

confirmationVars == <<state, binds, holder, made>>

ConfirmationInit == state = "absent" /\ holder = {} /\ made = {}

Issue ==
  /\ state = "absent" /\ state' = "unused"
  /\ UNCHANGED <<holder, made>>

\* It is cancelled, or lapses.
Withdraw ==
  /\ state = "unused" /\ state' = "withdrawn"
  /\ UNCHANGED <<binds, holder, made>>

Consume(r) ==
  /\ state = "unused" /\ state' = "used"
  /\ holder' = {r}
  /\ UNCHANGED <<binds, made>>

Spend(k) ==
  /\ state = "used" /\ holder # {} /\ holder' = {}
  /\ made = {} /\ made' = {k}
  /\ UNCHANGED <<state, binds>>

\* A denial, an error, a job that was there already, a restart.
Drop ==
  /\ state = "used" /\ holder # {} /\ holder' = {}
  /\ UNCHANGED <<state, binds, made>>

ConfirmationNext ==
  \/ Issue \/ Withdraw \/ Drop
  \/ \E r \in Request : Consume(r)
  \/ \E k \in Key : Spend(k)

ConfirmationSpec == ConfirmationInit /\ [][ConfirmationNext]_confirmationVars
=============================================================================
