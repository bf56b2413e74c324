------------------------ MODULE ResilienceGuardProofs ------------------------
(***************************************************************************)
(* TLAPS proofs about ResilienceGuard, for any number of calls and any     *)
(* policy.                                                                 *)
(***************************************************************************)
EXTENDS ResilienceGuard, FiniteSetTheorems, TLAPS

-----------------------------------------------------------------------------
(***************************************************************************)
(* The circuit.  A half-open circuit has a probe in flight because every   *)
(* way a call can end leaves the half-open state.                          *)
(***************************************************************************)

\* The types the circuit's argument needs.
CircuitTypeOK ==
  /\ circuit \in {"closed", "open", "half_open"}
  /\ failures \in 0 .. FailureThreshold
  /\ opened \in 0 .. NotOpened
  /\ probing \in BOOLEAN
  /\ pc \in [Call -> {"idle", "token", "slot", "running"}]
  /\ age \in [Call -> 0 .. Deadline]
  /\ probe \in [Call -> BOOLEAN]

OnlyCallsProbe == \A c \in Call : probe[c] => InFlight(c)

CircuitInv ==
  /\ CircuitTypeOK
  /\ CircuitMatchesCount
  /\ HalfOpenHasAProbe
  /\ OnlyCallsProbe

\* However a call ends, the circuit is left closed or open, or it was and stays so.
LEMMA EndingStep ==
  ASSUME CircuitInv, NEW c \in Call, Ends(c)
  PROVE  CircuitInv' /\ circuit' # "half_open"
<1> USE GuardConstants DEF CircuitInv, NotOpened
<1>1. /\ pc' = [pc EXCEPT ![c] = "idle"]
      /\ age' = [age EXCEPT ![c] = 0]
      /\ probe' = [probe EXCEPT ![c] = FALSE]
  BY DEF Ends, Succeeds, Fails, TimesOut, Cancelled, Leave
<1>2. Close \/ record_failure_transient \/ record_failure_permanent \/ record_cancellation
  BY DEF Ends, Succeeds, Fails, TimesOut, Cancelled
<1>3. /\ circuit' \in {"closed", "open"}
      /\ failures' \in 0 .. FailureThreshold /\ opened' \in 0 .. NotOpened
      /\ probing' = FALSE
      /\ circuit' = "closed" => failures' < FailureThreshold /\ opened' = NotOpened
      /\ circuit' = "open" => opened' # NotOpened
  <2> USE DEF CircuitTypeOK, CircuitMatchesCount
  <2>1. CASE Close
    BY <2>1 DEF Close
  <2>2. CASE record_failure_transient
    <3>1. CASE circuit = "half_open" \/ AtMost(failures + 1, FailureThreshold) >= FailureThreshold
      BY <2>2, <3>1 DEF record_failure_transient, Open, AtMost
    <3>2. CASE ~(circuit = "half_open" \/ AtMost(failures + 1, FailureThreshold) >= FailureThreshold)
      BY <2>2, <3>2 DEF record_failure_transient, AtMost
    <3> QED
      BY <3>1, <3>2
  <2>3. CASE record_failure_permanent
    BY <2>3 DEF record_failure_permanent, Close, circuitVars
  <2>4. CASE record_cancellation
    BY <2>4 DEF record_cancellation, Open, circuitVars
  <2> QED
    BY <1>2, <2>1, <2>2, <2>3, <2>4
<1>4. CircuitTypeOK' /\ OnlyCallsProbe'
  <2>1. probing' \in BOOLEAN
    BY <1>3, Zenon
  <2>2. /\ pc' \in [Call -> {"idle", "token", "slot", "running"}]
        /\ age' \in [Call -> 0 .. Deadline]
    BY <1>1 DEF CircuitTypeOK
  <2>3. probe' \in [Call -> BOOLEAN]
    BY <1>1 DEF CircuitTypeOK
  <2>4. OnlyCallsProbe'
    BY <1>1 DEF CircuitTypeOK, OnlyCallsProbe, InFlight
  <2>5. circuit' \in {"closed", "open", "half_open"}
    BY <1>3
  <2> QED
    BY <1>3, <2>1, <2>2, <2>3, <2>4, <2>5, Zenon DEF CircuitTypeOK
<1>5. CircuitMatchesCount'
  BY <1>3 DEF CircuitMatchesCount
<1>6. HalfOpenHasAProbe'
  BY <1>3 DEF HalfOpenHasAProbe
<1> QED
  BY <1>3, <1>4, <1>5, <1>6

\* The circuit's invariant holds in every behaviour of the guard.
THEOREM CircuitInvariance == Spec => []CircuitInv
<1> USE GuardConstants DEF NotOpened
<1>1. Init => CircuitInv
  <2> SUFFICES ASSUME Init PROVE CircuitInv
    OBVIOUS
  <2>1. CircuitTypeOK
    <3>1. probing \in BOOLEAN /\ probe \in [Call -> BOOLEAN]
      BY Zenon DEF Init
    <3>2. /\ circuit \in {"closed", "open", "half_open"}
          /\ failures \in 0 .. FailureThreshold /\ opened \in 0 .. NotOpened
          /\ pc \in [Call -> {"idle", "token", "slot", "running"}]
          /\ age \in [Call -> 0 .. Deadline]
      BY DEF Init
    <3> QED
      BY <3>1, <3>2, Zenon DEF CircuitTypeOK
  <2>2. CircuitMatchesCount
    BY DEF Init, CircuitMatchesCount
  <2>3. HalfOpenHasAProbe /\ OnlyCallsProbe
    BY DEF Init, HalfOpenHasAProbe, OnlyCallsProbe
  <2> QED
    BY <2>1, <2>2, <2>3 DEF CircuitInv
<1>2. CircuitInv /\ [Next]_vars => CircuitInv'
  <2> SUFFICES ASSUME CircuitInv, [Next]_vars PROVE CircuitInv'
    OBVIOUS
  <2> USE DEF CircuitInv
  <2>1. CASE Tick
    BY <2>1 DEF Tick, CircuitTypeOK, CircuitMatchesCount, HalfOpenHasAProbe,
       OnlyCallsProbe, InFlight
  <2>2. ASSUME NEW c \in Call, EnterCircuit(c) PROVE CircuitInv'
    <3>1. CircuitTypeOK'
      BY <2>2 DEF EnterCircuit, CircuitTypeOK, circuitVars
    <3>2. CircuitMatchesCount'
      BY <2>2 DEF EnterCircuit, Admits, CircuitTypeOK, CircuitMatchesCount, circuitVars
    <3>3. HalfOpenHasAProbe' /\ OnlyCallsProbe'
      BY <2>2 DEF EnterCircuit, CircuitTypeOK, HalfOpenHasAProbe, OnlyCallsProbe,
         InFlight, circuitVars
    <3> QED
      BY <3>1, <3>2, <3>3
  <2>3. ASSUME NEW c \in Call, AcquireToken(c) \/ AcquireSlot(c) PROVE CircuitInv'
    BY <2>3 DEF AcquireToken, AcquireSlot, CircuitTypeOK, CircuitMatchesCount,
       HalfOpenHasAProbe, OnlyCallsProbe, InFlight, circuitVars
  <2>4. CASE UNCHANGED vars
    BY <2>4 DEF vars, circuitVars, CircuitTypeOK, CircuitMatchesCount, HalfOpenHasAProbe,
       OnlyCallsProbe, InFlight
  <2> QED
    BY <2>1, <2>2, <2>3, <2>4, EndingStep DEF Next
<1> QED
  BY <1>1, <1>2, PTL DEF Spec

\* The circuit is never wedged half open: its probe is in flight.
THEOREM NeverWedged == Spec => []HalfOpenHasAProbe
<1>1. CircuitInv => HalfOpenHasAProbe
  BY DEF CircuitInv
<1> QED
  BY <1>1, CircuitInvariance, PTL

\* The circuit's state, its failure count and its opening time agree.
THEOREM CircuitConsistent == Spec => []CircuitMatchesCount
<1>1. CircuitInv => CircuitMatchesCount
  BY DEF CircuitInv
<1> QED
  BY <1>1, CircuitInvariance, PTL

-----------------------------------------------------------------------------
(***************************************************************************)
(* One probe at a time, for policies whose deadline is shorter than the    *)
(* recovery interval: a probe that is still in flight when the circuit     *)
(* opens again is older than the opening, and dies of its deadline before  *)
(* the circuit admits the next one.                                        *)
(***************************************************************************)
ProbesPredateOpening ==
  circuit = "open" => \A c \in Call : probe[c] => opened <= age[c]

ProbeInv == CircuitInv /\ OneProbe /\ ProbesPredateOpening

\* With Deadline < Recovery there are never two recovery probes in flight.
THEOREM SingleProbe == Deadline < Recovery /\ Spec => []OneProbe
<1> USE GuardConstants DEF NotOpened
<1> SUFFICES ASSUME Deadline < Recovery PROVE Spec => []OneProbe
  OBVIOUS
<1>1. Init => OneProbe /\ ProbesPredateOpening
  BY DEF Init, OneProbe, ProbesPredateOpening
<1>2. ProbeInv /\ [Next]_vars => OneProbe' /\ ProbesPredateOpening'
  <2> SUFFICES ASSUME ProbeInv, [Next]_vars PROVE OneProbe' /\ ProbesPredateOpening'
    OBVIOUS
  <2> USE DEF ProbeInv, CircuitInv
  <2>1. CASE Tick
    BY <2>1 DEF Tick, CircuitTypeOK, CircuitMatchesCount, OneProbe, ProbesPredateOpening,
       OnlyCallsProbe, InFlight
  <2>2. ASSUME NEW c \in Call, EnterCircuit(c) PROVE OneProbe' /\ ProbesPredateOpening'
    <3>1. CASE circuit = "closed"
      BY <2>2, <3>1 DEF EnterCircuit, CircuitTypeOK, OneProbe, ProbesPredateOpening,
         circuitVars
    <3>2. CASE circuit = "open"
      <4>1. \A d \in Call : ~probe[d]
        BY <2>2, <3>2 DEF EnterCircuit, Admits, CircuitTypeOK, ProbesPredateOpening
      <4> QED
        BY <2>2, <3>2, <4>1 DEF EnterCircuit, CircuitTypeOK, OneProbe, ProbesPredateOpening
    <3>3. circuit # "half_open"
      BY <2>2 DEF EnterCircuit, Admits, HalfOpenHasAProbe
    <3> QED
      BY <3>1, <3>2, <3>3 DEF CircuitTypeOK
  <2>3. ASSUME NEW c \in Call, AcquireToken(c) \/ AcquireSlot(c)
        PROVE  OneProbe' /\ ProbesPredateOpening'
    BY <2>3 DEF AcquireToken, AcquireSlot, OneProbe, ProbesPredateOpening, circuitVars
  <2>4. ASSUME NEW c \in Call, Ends(c) PROVE OneProbe' /\ ProbesPredateOpening'
    <3>1. age' = [age EXCEPT ![c] = 0] /\ probe' = [probe EXCEPT ![c] = FALSE]
      BY <2>4 DEF Ends, Succeeds, Fails, TimesOut, Cancelled, Leave
    <3>2. \/ circuit' = "open" /\ opened' = 0
          \/ circuit' # "open"
          \/ UNCHANGED <<circuit, opened>>
      BY <2>4 DEF Ends, Succeeds, Fails, TimesOut, Cancelled, Close,
         record_failure_transient, record_failure_permanent, record_cancellation, Open,
         circuitVars
    <3>3. OneProbe'
      BY <3>1 DEF CircuitTypeOK, OneProbe
    <3>4. ProbesPredateOpening'
      BY <3>1, <3>2 DEF CircuitTypeOK, ProbesPredateOpening
    <3> QED
      BY <3>3, <3>4
  <2>5. CASE UNCHANGED vars
    BY <2>5 DEF vars, circuitVars, OneProbe, ProbesPredateOpening
  <2> QED
    BY <2>1, <2>2, <2>3, <2>4, <2>5 DEF Next
<1>3. ProbeInv => OneProbe
  BY DEF ProbeInv
<1> QED
  BY <1>1, <1>2, <1>3, CircuitInvariance, PTL DEF Spec, ProbeInv
-----------------------------------------------------------------------------
(***************************************************************************)
(* Slots and tokens.  Only a running call holds a slot, and whoever stops  *)
(* running gives it back, so the free ones and the held ones add up; the   *)
(* bound on the free ones is a consequence, not a guard of the code.       *)
(***************************************************************************)
Holders == {c \in Call : pc[c] = "running"}

CountersOK == tokens \in 0 .. Burst /\ free \in Nat

SlotInv == CircuitTypeOK /\ CountersOK /\ SlotsConserved

\* The calls that hold a slot are finitely many.
LEMMA HoldersAreFinite ==
  IsFiniteSet(Holders) /\ Cardinality(Holders) \in Nat
<1>1. IsFiniteSet(Holders)
  BY GuardConstants, FS_Subset DEF Holders
<1> QED
  BY <1>1, FS_CardinalityType

\* A step that leaves the calls' places and the free slots alone conserves them.
LEMMA SlotsUntouched ==
  ASSUME SlotsConserved, free' = free, Holders' = Holders
  PROVE  SlotsConserved'
BY DEF SlotsConserved, Holders

\* Taking a slot moves it from the free ones to the held ones.
LEMMA SlotTaken ==
  ASSUME SlotInv, NEW c \in Call, AcquireSlot(c)
  PROVE  free' \in Nat /\ SlotsConserved'
<1> USE GuardConstants DEF SlotInv
<1>1. Holders' = Holders \cup {c} /\ c \notin Holders
  BY DEF AcquireSlot, Holders, CircuitTypeOK
<1>2. Cardinality(Holders') = Cardinality(Holders) + 1
  BY <1>1, HoldersAreFinite, FS_AddElement
<1>3. free' = free - 1 /\ free' \in Nat
  BY DEF AcquireSlot, CountersOK
<1> QED
  BY <1>2, <1>3, HoldersAreFinite DEF SlotsConserved, Holders, CountersOK

\* A call that ends gives back the slot it holds, and no other.
LEMMA SlotReturned ==
  ASSUME SlotInv, NEW c \in Call, Leave(c)
  PROVE  free' \in Nat /\ SlotsConserved'
<1> USE GuardConstants DEF SlotInv
<1>1. CASE pc[c] = "running"
  <2>1. Holders' = Holders \ {c} /\ c \in Holders
    BY <1>1 DEF Leave, Holders, CircuitTypeOK
  <2>2. Cardinality(Holders') = Cardinality(Holders) - 1
    BY <2>1, HoldersAreFinite, FS_RemoveElement
  <2>3. free' = free + 1 /\ free' \in Nat
    BY <1>1 DEF Leave, CountersOK
  <2> QED
    BY <2>2, <2>3, HoldersAreFinite DEF SlotsConserved, Holders, CountersOK
<1>2. CASE pc[c] # "running"
  <2>1. Holders' = Holders /\ free' = free
    BY <1>2 DEF Leave, Holders, CircuitTypeOK
  <2> QED
    BY <2>1, SlotsUntouched DEF CountersOK
<1> QED
  BY <1>1, <1>2

\* Every step keeps the slots and the tokens in their bounds.
LEMMA SlotStep ==
  ASSUME SlotInv, [Next]_vars
  PROVE  CountersOK' /\ SlotsConserved'
<1> USE GuardConstants
<1>1. CASE Tick
  <2>1. tokens' \in 0 .. Burst
    BY <1>1 DEF Tick, AtMost, SlotInv, CountersOK
  <2>2. free' = free /\ Holders' = Holders
    BY <1>1 DEF Tick, Holders
  <2> QED
    BY <2>1, <2>2, SlotsUntouched DEF SlotInv, CountersOK
<1>2. ASSUME NEW c \in Call, EnterCircuit(c) \/ AcquireToken(c)
      PROVE  CountersOK' /\ SlotsConserved'
  <2>1. free' = free /\ tokens' \in 0 .. Burst
    BY <1>2 DEF EnterCircuit, AcquireToken, SlotInv, CountersOK
  <2>2. Holders' = Holders
    BY <1>2 DEF EnterCircuit, AcquireToken, SlotInv, CircuitTypeOK, Holders
  <2> QED
    BY <2>1, <2>2, SlotsUntouched DEF SlotInv, CountersOK
<1>3. ASSUME NEW c \in Call, AcquireSlot(c) PROVE CountersOK' /\ SlotsConserved'
  <2>1. tokens' = tokens
    BY <1>3 DEF AcquireSlot
  <2> QED
    BY <1>3, <2>1, SlotTaken DEF SlotInv, CountersOK
<1>4. ASSUME NEW c \in Call, Ends(c) PROVE CountersOK' /\ SlotsConserved'
  <2>1. Leave(c)
    BY <1>4 DEF Ends, Succeeds, Fails, TimesOut, Cancelled
  <2>2. tokens' = tokens
    BY <2>1 DEF Leave
  <2> QED
    BY <2>1, <2>2, SlotReturned DEF SlotInv, CountersOK
<1>5. CASE UNCHANGED vars
  <2>1. tokens' = tokens /\ free' = free /\ Holders' = Holders
    BY <1>5 DEF vars, Holders
  <2> QED
    BY <2>1, SlotsUntouched DEF SlotInv, CountersOK
<1> QED
  BY <1>1, <1>2, <1>3, <1>4, <1>5 DEF Next

\* Counters and slots stay in their bounds in every behaviour of the guard.
LEMMA SlotInvariance == Spec => [](CountersOK /\ SlotsConserved)
<1>1. Init => CountersOK /\ SlotsConserved
  <2> SUFFICES ASSUME Init PROVE CountersOK /\ SlotsConserved
    OBVIOUS
  <2>1. Holders = {}
    BY DEF Init, Holders
  <2>2. Cardinality(Holders) = 0
    BY <2>1, FS_EmptySet
  <2> QED
    BY <2>2, GuardConstants DEF Init, CountersOK, SlotsConserved, Holders
<1>2. CircuitInv /\ CountersOK /\ SlotsConserved /\ [Next]_vars
        => (CountersOK /\ SlotsConserved)'
  BY SlotStep DEF SlotInv, CircuitInv
<1> QED
  BY <1>1, <1>2, CircuitInvariance, PTL DEF Spec

\* However calls end, in a queue or in the plugin, no slot is lost or made up.
THEOREM SlotConservation == Spec => []SlotsConserved
BY SlotInvariance, PTL

\* The guard keeps its types: the bucket and the semaphore stay in their bounds.
THEOREM GuardTypes == Spec => []TypeOK
<1>1. CircuitInv /\ CountersOK /\ SlotsConserved => TypeOK
  <2> SUFFICES ASSUME CircuitInv, CountersOK, SlotsConserved PROVE TypeOK
    OBVIOUS
  <2>1. free \in 0 .. MaxConcurrency
    BY GuardConstants, HoldersAreFinite DEF SlotsConserved, Holders, CountersOK
  <2> QED
    BY <2>1, Zenon DEF CircuitInv, CircuitTypeOK, CountersOK, TypeOK
<1> QED
  BY <1>1, CircuitInvariance, SlotInvariance, PTL
=============================================================================
