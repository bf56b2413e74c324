--------------------------- MODULE ResilienceGuard ---------------------------
(***************************************************************************)
(* The guard every adapter and status-provider call of one plugin goes     *)
(* through (deckhand/resilience.py): a circuit breaker, a token bucket, a  *)
(* concurrency limit and a deadline, shared by concurrent asyncio tasks.   *)
(*                                                                         *)
(* The guard's lock is never held across an await, so _enter_circuit and   *)
(* the three _record_* methods are atomic steps.  A task is suspended, and *)
(* others run, while it waits for a rate token, for a slot of the          *)
(* semaphore, or for the plugin.  Time passes in ticks; a call that        *)
(* reaches its deadline ends before the next tick.                         *)
(*                                                                         *)
(* A call that _enter_circuit turns away leaves no trace (its error        *)
(* carries circuit_state, which _record_failure ignores): it is no step.   *)
(***************************************************************************)
EXTENDS Naturals, FiniteSets

CONSTANTS
  Call,              \* tasks that may be in the guard at the same time
  MaxConcurrency,    \* policy.max_concurrency
  Burst,             \* policy.burst
  Rate,              \* policy.requests_per_second, per tick
  FailureThreshold,  \* policy.failure_threshold
  Recovery,          \* policy.recovery_seconds, in ticks
  Deadline           \* policy.timeout_seconds, in ticks

ASSUME GuardConstants ==
  /\ IsFiniteSet(Call)
  /\ MaxConcurrency \in Nat \ {0} /\ Burst \in Nat \ {0} /\ Rate \in Nat \ {0}
  /\ FailureThreshold \in Nat \ {0}
  /\ Recovery \in Nat \ {0} /\ Deadline \in Nat \ {0}

VARIABLES
  circuit,   \* _state
  failures,  \* _consecutive_failures, counted up to FailureThreshold
  opened,    \* ticks since _opened_at, counted up to Recovery; NotOpened is None
  probing,   \* _half_open_probe_active
  tokens,    \* _tokens, whole ones
  free,      \* free slots of _semaphore
  pc,        \* where a call is: "idle", "token", "slot" or "running"
  age,       \* ticks since the call entered the circuit
  probe      \* the call was admitted as a half-open recovery probe

circuitVars == <<circuit, failures, opened, probing>>
vars == <<circuitVars, tokens, free, pc, age, probe>>

NotOpened == Recovery + 1

InFlight(c) == pc[c] # "idle"
AtMost(n, bound) == IF n < bound THEN n ELSE bound

Init ==
  /\ circuit = "closed" /\ failures = 0 /\ opened = NotOpened /\ probing = FALSE
  /\ tokens = Burst /\ free = MaxConcurrency
  /\ pc = [c \in Call |-> "idle"]
  /\ age = [c \in Call |-> 0]
  /\ probe = [c \in Call |-> FALSE]

-----------------------------------------------------------------------------
(***************************************************************************)
(* The circuit.                                                            *)
(***************************************************************************)
Close ==
  /\ circuit' = "closed" /\ failures' = 0
  /\ opened' = NotOpened /\ probing' = FALSE

Open(count) ==
  /\ circuit' = "open" /\ failures' = count
  /\ opened' = 0 /\ probing' = FALSE

\* Fault: the threshold is compared one failure late.
record_failure_transient_late ==
  LET count == failures + 1 IN
  IF circuit = "half_open" \/ count > FailureThreshold
    THEN Open(count)
    ELSE failures' = count /\ UNCHANGED <<circuit, opened, probing>>

\* _record_failure for a kind in TRANSIENT_FAILURES.
record_failure_transient ==
  LET count == AtMost(failures + 1, FailureThreshold) IN
  IF circuit = "half_open" \/ count >= FailureThreshold
    THEN Open(count)
    ELSE failures' = count /\ UNCHANGED <<circuit, opened, probing>>

\* _record_failure for any other kind: the dependency answered.
record_failure_permanent ==
  IF circuit = "half_open" THEN Close ELSE UNCHANGED circuitVars

\* Fault: a cancelled probe is forgotten.
record_cancellation_ignored == UNCHANGED circuitVars

record_cancellation ==
  IF circuit = "half_open" THEN Open(failures) ELSE UNCHANGED circuitVars

\* Fault: a half-open circuit admits everybody.
Admits_everybody == \/ circuit \in {"closed", "half_open"}
                    \/ circuit = "open" /\ opened >= Recovery

\* Fault: the recovery interval never ends.
Admits_never_again == circuit = "closed" \/ (circuit = "half_open" /\ ~probing)

Admits == \/ circuit = "closed"
          \/ circuit = "open" /\ opened >= Recovery
          \/ circuit = "half_open" /\ ~probing

EnterCircuit(c) ==
  /\ pc[c] = "idle" /\ Admits
  /\ IF circuit = "closed"
       THEN UNCHANGED circuitVars
       ELSE /\ circuit' = "half_open" /\ probing' = TRUE
            /\ UNCHANGED <<failures, opened>>
  /\ probe' = [probe EXCEPT ![c] = circuit # "closed"]
  /\ pc' = [pc EXCEPT ![c] = "token"]
  /\ UNCHANGED <<tokens, free, age>>

-----------------------------------------------------------------------------
(***************************************************************************)
(* Admission and the call itself.                                          *)
(***************************************************************************)
\* Fault: the bucket is not checked.
AcquireToken_unchecked(c) ==
  /\ pc[c] = "token"
  /\ tokens' = tokens - 1
  /\ pc' = [pc EXCEPT ![c] = "slot"]
  /\ UNCHANGED <<circuitVars, free, age, probe>>

AcquireToken(c) ==
  /\ pc[c] = "token" /\ tokens >= 1
  /\ tokens' = tokens - 1
  /\ pc' = [pc EXCEPT ![c] = "slot"]
  /\ UNCHANGED <<circuitVars, free, age, probe>>

AcquireSlot(c) ==
  /\ pc[c] = "slot" /\ free > 0
  /\ free' = free - 1
  /\ pc' = [pc EXCEPT ![c] = "running"]
  /\ UNCHANGED <<circuitVars, tokens, age, probe>>

\* Fault: the slot of a finished call is lost.
Leave_leaking(c) ==
  /\ pc' = [pc EXCEPT ![c] = "idle"]
  /\ age' = [age EXCEPT ![c] = 0]
  /\ probe' = [probe EXCEPT ![c] = FALSE]
  /\ UNCHANGED <<tokens, free>>

\* The finally block.
Leave(c) ==
  /\ free' = IF pc[c] = "running" THEN free + 1 ELSE free
  /\ pc' = [pc EXCEPT ![c] = "idle"]
  /\ age' = [age EXCEPT ![c] = 0]
  /\ probe' = [probe EXCEPT ![c] = FALSE]
  /\ UNCHANGED tokens

Succeeds(c) == pc[c] = "running" /\ Close /\ Leave(c)

\* The plugin raised: an AdapterError of either sort, or an exception that the
\* guard turns into one of kind UNEXPECTED (transient).
Fails(c) ==
  /\ pc[c] = "running"
  /\ record_failure_transient \/ record_failure_permanent
  /\ Leave(c)

\* asyncio.timeout: the action's own timeout may be shorter than the policy's.
TimesOut(c) ==
  /\ InFlight(c) /\ age[c] \in 1 .. Deadline
  /\ record_failure_transient
  /\ Leave(c)

\* The awaiting task is cancelled (a client gone, a shutdown).
Cancelled(c) == InFlight(c) /\ record_cancellation /\ Leave(c)

Ends(c) == Succeeds(c) \/ Fails(c) \/ TimesOut(c) \/ Cancelled(c)

Tick ==
  /\ \A c \in Call : InFlight(c) => age[c] < Deadline
  /\ age' = [c \in Call |-> IF InFlight(c) THEN age[c] + 1 ELSE 0]
  /\ opened' = IF opened < Recovery THEN opened + 1 ELSE opened
  /\ tokens' = AtMost(tokens + Rate, Burst)
  /\ UNCHANGED <<circuit, failures, probing, free, pc, probe>>

Next ==
  \/ Tick
  \/ \E c \in Call : \/ EnterCircuit(c) \/ AcquireToken(c) \/ AcquireSlot(c)
                     \/ Ends(c)

Spec == Init /\ [][Next]_vars

\* Time passes, calls do not outstay their deadline, and somebody keeps
\* calling (the Stream Deck polls the status of every plugin).
Fairness ==
  /\ WF_vars(Tick)
  /\ \A c \in Call : WF_vars(EnterCircuit(c)) /\ WF_vars(TimesOut(c))

FairSpec == Spec /\ Fairness

-----------------------------------------------------------------------------
(***************************************************************************)
(* Properties.                                                             *)
(***************************************************************************)
\* The guard's state stays in its types; the token bucket never runs negative
\* or over, and no call outlives its deadline.
TypeOK ==
  /\ circuit \in {"closed", "open", "half_open"}
  /\ failures \in 0 .. FailureThreshold
  /\ opened \in 0 .. NotOpened
  /\ probing \in BOOLEAN
  /\ tokens \in 0 .. Burst
  /\ free \in 0 .. MaxConcurrency
  /\ pc \in [Call -> {"idle", "token", "slot", "running"}]
  /\ age \in [Call -> 0 .. Deadline]
  /\ probe \in [Call -> BOOLEAN]

\* However calls end (result, error, timeout in a queue or in the plugin,
\* cancellation), every slot is either free or held by one running call.
SlotsConserved ==
  free + Cardinality({c \in Call : pc[c] = "running"}) = MaxConcurrency

\* A half-open circuit has its recovery probe in flight: no way a call can end
\* leaves the circuit half open and refusing everybody for ever.
HalfOpenHasAProbe ==
  circuit = "half_open" => probing /\ \E c \in Call : InFlight(c) /\ probe[c]

\* The circuit is closed exactly while the count is below the threshold and
\* the breaker has no opening time; an open one always knows when it opened.
CircuitMatchesCount ==
  /\ circuit = "closed" => failures < FailureThreshold /\ opened = NotOpened
  /\ circuit # "closed" => opened # NotOpened
  /\ probing => circuit = "half_open"

\* At most one recovery probe is in flight.
OneProbe == \A c, d \in Call : probe[c] /\ probe[d] => c = d

\* An open circuit is eventually tried again, although late failures of calls
\* admitted before it opened keep pushing its recovery back.
OpenIsRetried == circuit = "open" ~> circuit # "open"
=============================================================================
