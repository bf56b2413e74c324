---------------------------- MODULE StreamDeckKey ----------------------------
(***************************************************************************)
(* The Stream Deck's action keys (streamdeck-plugin typed-action.ts,       *)
(* client.ts) in front of the broker's endpoints (ActionSubmission).       *)
(*                                                                         *)
(* Every key press runs onKeyDown as a task of its own; the tasks          *)
(* interleave at their awaits and share the pending map.  Keys with the    *)
(* same action and target share one entry of it even when their parameters *)
(* differ: an entry is named by the set of authorities that share it.  The *)
(* plugin is one subject on one control.                                   *)
(*                                                                         *)
(* Request r is the HTTP request of handler r.  The handler may give up on *)
(* it (AbortSignal.timeout, a lost connection) while the broker goes on.   *)
(***************************************************************************)
EXTENDS ActionSubmission

CONSTANTS
  Entry,      \* the map's keys, each the set of authorities that share it
  NoPending   \* the map has no entry

\* Whether an action needs a confirmation is a matter of the action alone.
ASSUME DeckConstants ==
  /\ UNION Entry = Authority
  /\ \A e, f \in Entry : e # f => e \cap f = {}
  /\ \A e \in Entry : e \subseteq Unconfirmed \/ e \cap Unconfirmed = {}

VARIABLES
  pending,    \* the map: the challenge and the key an entry was planned with
  armed,      \* an entry's age: "fresh" (< ARM_DELAY_MS), "armed" or "stale" (> PENDING_TTL_MS)
  handler,    \* "idle", "planning" or "executing"
  entry,      \* the entry a handler works with
  minted      \* idempotency keys handed out by randomUUID

deckVars == <<pending, armed, handler, entry, minted>>
allVars == <<vars, deckVars>>

Deck == CHOOSE s \in Subject : TRUE
Streamdeck == CHOOSE c \in Control : TRUE

NoEntry == {}
key(a) == CHOOSE e \in Entry : a \in e

DeckInit ==
  /\ Init
  /\ pending = [e \in Entry |-> NoPending]
  /\ armed = [e \in Entry |-> "fresh"]
  /\ handler = [r \in Request |-> "idle"]
  /\ entry = [r \in Request |-> NoEntry]
  /\ minted = {}

request(a, k, token, dryRun) ==
  [authority |-> a, subject |-> Deck, control |-> Streamdeck, key |-> k,
   dry_run |-> dryRun, token |-> token]

HandlerTo(r, pc, e) ==
  /\ handler' = [handler EXCEPT ![r] = pc]
  /\ entry' = [entry EXCEPT ![r] = e]

HandlerDone(r) == HandlerTo(r, "idle", NoEntry)

Put(e, p) ==
  /\ pending' = [pending EXCEPT ![e] = p]
  /\ armed' = [armed EXCEPT ![e] = "fresh"]

Forget(e) == Put(e, NoPending)

-----------------------------------------------------------------------------
\* First press, or the first one after the entry went stale: plan with a new
\* idempotency key.
PressPlans(r, a) ==
  /\ handler[r] = "idle"
  /\ pending[key(a)] = NoPending \/ armed[key(a)] = "stale"
  /\ \E k \in Key \ minted :
       /\ Arrives(r, "plan", request(a, k, NoChallenge, TRUE))
       /\ minted' = minted \cup {k}
  /\ Forget(key(a)) /\ HandlerTo(r, "planning", key(a))

\* Second press: execute what was planned.  A press that comes too fast only
\* shows HOLD and is no step.
PressConfirms(r, a) ==
  /\ handler[r] = "idle" /\ pending[key(a)] # NoPending /\ armed[key(a)] = "armed"
  /\ Arrives(r, "execute", request(a, pending[key(a)].key, pending[key(a)].challenge, FALSE))
  /\ HandlerTo(r, "executing", key(a))
  /\ UNCHANGED <<pending, armed, minted>>

\* Fault: an entry that is there keeps its key.
PlanReturns_keeps_key(r) ==
  /\ handler[r] = "planning" /\ rpc[r] = "answered" /\ reply[r] = "challenge"
  /\ LET old == pending[entry[r]] IN
     Put(entry[r], [challenge |-> offer[r],
                    key |-> IF old = NoPending THEN req[r].key ELSE old.key])
  /\ Gone(r) /\ HandlerDone(r)
  /\ UNCHANGED minted

\* The plan came back.  A challenge in a mode the plugin cannot answer, or a
\* denial, is shown and the entry is left alone.
PlanReturns(r) ==
  /\ handler[r] = "planning" /\ rpc[r] = "answered"
  /\ IF reply[r] = "challenge" /\ req[r].authority \notin Typed
       THEN Put(entry[r], [challenge |-> offer[r], key |-> req[r].key])
       ELSE /\ reply[r] # "error" /\ reply[r] # "ready"
            /\ UNCHANGED <<pending, armed>>
  /\ Gone(r) /\ HandlerDone(r)
  /\ UNCHANGED minted

\* No confirmation needed: the same task executes at once.
PlanContinues(r) ==
  /\ handler[r] = "planning" /\ rpc[r] = "answered" /\ reply[r] = "ready"
  /\ rpc' = [rpc EXCEPT ![r] = "execute"]
  /\ req' = [req EXCEPT ![r].dry_run = FALSE]
  /\ reply' = [reply EXCEPT ![r] = "none"]
  /\ HandlerTo(r, "executing", entry[r])
  /\ UNCHANGED <<tableVars, granted, offer, pending, armed, minted>>

\* The job came back.  A confirming press drops the entry, whatever it is by
\* now; a press that needed no confirmation does not touch it.
ExecuteReturns(r) ==
  /\ handler[r] = "executing" /\ rpc[r] = "answered" /\ reply[r] = "job"
  /\ IF req[r].token = NoChallenge THEN UNCHANGED <<pending, armed>> ELSE Forget(entry[r])
  /\ Gone(r) /\ HandlerDone(r)
  /\ UNCHANGED minted

\* The catch block, for an answer that is an error: DENIED or OFFLINE.
PressRefused(r) ==
  /\ rpc[r] = "answered"
  /\ \/ handler[r] = "planning" /\ reply[r] = "error"
     \/ handler[r] = "executing" /\ reply[r] \in {"denied", "error"}
  /\ Forget(entry[r])
  /\ Gone(r) /\ HandlerDone(r)
  /\ UNCHANGED minted

\* The catch block, for an answer that does not come: OFFLINE.  The broker does
\* not notice.
PressTimesOut(r) ==
  /\ handler[r] # "idle"
  /\ Forget(entry[r])
  /\ HandlerDone(r)
  /\ UNCHANGED <<vars, minted>>

\* The answer to a handler that gave up goes nowhere; a restart of the broker
\* loses a request half way.
RequestGone(r) ==
  /\ handler[r] = "idle" \/ rpc[r] # "answered"
  /\ Gone(r)
  /\ UNCHANGED deckVars

\* ARM_DELAY_MS, and later PENDING_TTL_MS, have passed since the entry was set.
EntryAges(e) ==
  /\ pending[e] # NoPending /\ armed[e] # "stale"
  /\ armed' = [armed EXCEPT ![e] = IF @ = "fresh" THEN "armed" ELSE "stale"]
  /\ UNCHANGED <<vars, pending, handler, entry, minted>>

DeckNext ==
  \/ \E r \in Request :
       \/ \E a \in Authority : PressPlans(r, a) \/ PressConfirms(r, a)
       \/ PlanReturns(r) \/ PlanContinues(r) \/ ExecuteReturns(r)
       \/ PressRefused(r) \/ PressTimesOut(r) \/ RequestGone(r)
       \/ BrokerStep(r) /\ UNCHANGED deckVars
  \/ \E e \in Entry : EntryAges(e)
  \/ \E i \in Challenge : ChallengeLapses(i) /\ UNCHANGED deckVars

DeckSpec == DeckInit /\ [][DeckNext]_allVars

-----------------------------------------------------------------------------
(***************************************************************************)
(* Properties.                                                             *)
(***************************************************************************)
\* An entry's key and its challenge belong together: a job under the key was
\* made by that challenge and no other, although
\* several presses plan and execute at the same time and their answers come
\* back in any order.
PendingIsBound ==
  \A e \in Entry :
    pending[e] # NoPending /\ job[pending[e].key] # {} =>
      basis[pending[e].key] = pending[e].challenge

\* What runs is what the operator confirmed: keys that share the entry but
\* differ in their parameters never run on each other's confirmation.
DeckRunsWhatWasConfirmed == JobsAreApproved
=============================================================================
