------------------------ MODULE PluginAdmissionProofs ------------------------
(***************************************************************************)
(* MutationIsHosted and HostIsLocked of PluginAdmission, for any number of *)
(* processes, plugins and components.                                      *)
(***************************************************************************)
EXTENDS PluginAdmission, TLAPS

Served == [component : Component, digest : Component]
AdapterEntry ==
  [name : AdapterName, via : {"python", "wasm", "socket"}, component : Component,
   digest : Component \cup {None}]

SiteTypes ==
  /\ disk \in [Plugin -> Site]
  /\ starting \in [Plugin -> Component \cup {None}]
  /\ host \in [Plugin -> Served \cup {None}]

ProcessTypes ==
  /\ phase \in [Process -> {"down", "configured", "loading", "verified", "up"}]
  /\ modes \in [Process -> [Plugin -> Mode]]
  /\ locked \in [Process -> [Plugin -> LockEntry \cup {None}]]
  /\ pending \in [Process -> SUBSET Plugin]
  /\ adapters \in [Process -> SUBSET AdapterEntry]
  /\ actions \in [Process -> SUBSET ActionDefinition]
  /\ catalog \in [Process -> SUBSET ActionDefinition]

\* Before the lock is read nothing is loaded.
Empty(r) == phase[r] \in {"down", "configured"} => adapters[r] = {} /\ actions[r] = {}

\* A contributed action's adapter is registered ...
Resolved(r) == \A a \in actions[r] : \E e \in adapters[r] : e.name = a.adapter

\* ... by the component that declares the action.
OwnComponent(r) ==
  \A a \in actions[r], e \in adapters[r] :
    e.name = a.adapter => a \in Describe[e.component].actions

ReadOnlyHere(r) ==
  \A e \in adapters[r] : e.via = "wasm" => \A a \in Describe[e.component].actions : ~a.mutation

\* Between the artifact and the handshake the digest is known to be signed.
Verified(r) ==
  phase[r] = "verified" =>
    \A p \in Plugin : Turn(r, p, "wasm", "socket") => locked[r][p].digest \in Trusted

Pinned(r) ==
  \A e \in adapters[r] :
    e.via = "socket" => e.digest = locked[r][e.name[1]].digest /\ e.digest \in Trusted

\* The catalog holds what was contributed and what its files define.
Catalogued(r) == catalog[r] \subseteq actions[r] \cup Files

Loaded(r) ==
  /\ Empty(r) /\ Resolved(r) /\ OwnComponent(r) /\ ReadOnlyHere(r) /\ Verified(r) /\ Pinned(r)
  /\ Catalogued(r)

\* The last call was no contributed mutation on gang in a process.
CalledHosted ==
  performed # None =>
    (performed.via = "wasm" /\ performed.action.mutation => performed.action \in Files)

AdmissionInv ==
  SiteTypes /\ ProcessTypes /\ (\A r \in Process : Loaded(r)) /\ CalledHosted

-----------------------------------------------------------------------------
\* Processes start with nothing loaded.
LEMMA InitialAdmission == Init => AdmissionInv
<1> SUFFICES ASSUME Init PROVE AdmissionInv
  OBVIOUS
<1>1. SiteTypes
  BY AdmissionConstants DEF Init, SiteTypes
<1>2. ProcessTypes
  BY DEF Init, ProcessTypes, Mode
<1>3. ASSUME NEW r \in Process PROVE Loaded(r)
  BY <1>3 DEF Init, Loaded, Empty, Resolved, OwnComponent, ReadOnlyHere, Verified, Pinned,
       Catalogued
<1>4. CalledHosted
  BY DEF Init, CalledHosted
<1> QED
  BY <1>1, <1>2, <1>3, <1>4 DEF AdmissionInv

\* A step that leaves the processes alone.
LEMMA ProcessFrame ==
  ASSUME ProcessTypes, \A r \in Process : Loaded(r), UNCHANGED <<phase, reading, registry>>
  PROVE  ProcessTypes' /\ (\A r \in Process : Loaded(r)')
BY DEF ProcessTypes, Loaded, Empty, Resolved, OwnComponent, ReadOnlyHere, Verified, Pinned,
       Catalogued, Turn,
       reading, registry

\* What a process knows when another one moves.
LEMMA OtherProcess ==
  ASSUME NEW q \in Process, Loaded(q),
         phase'[q] = phase[q], modes'[q] = modes[q], locked'[q] = locked[q],
         pending'[q] = pending[q], adapters'[q] = adapters[q], actions'[q] = actions[q],
         catalog'[q] = catalog[q]
  PROVE  Loaded(q)'
BY DEF Loaded, Empty, Resolved, OwnComponent, ReadOnlyHere, Verified, Pinned,
       Catalogued, Turn

\* Operator and hosts change files and hosts, not what a process has loaded.
LEMMA SiteStep ==
  ASSUME AdmissionInv, NEW p \in Plugin,
         OperatorEdits(p) \/ HostDescribes(p) \/ HostServes(p) \/ HostStops(p)
  PROVE  AdmissionInv'
<1>1. UNCHANGED <<phase, reading, registry, performed>>
  BY DEF OperatorEdits, HostDescribes, HostServes, HostStops
<1>2. SiteTypes'
  <2> USE DEF AdmissionInv, SiteTypes
  <2>1. CASE OperatorEdits(p)
    BY <2>1, AdmissionConstants DEF OperatorEdits
  <2>2. CASE HostDescribes(p)
    BY <2>2 DEF HostDescribes, Site
  <2>3. CASE HostServes(p)
    <3>1. starting[p] \in Component /\ disk[p].artifact \in Component
      BY <2>3 DEF HostServes, Site
    <3>2. [component |-> starting[p], digest |-> disk[p].artifact] \in Served
      BY <3>1 DEF Served
    <3> QED
      BY <2>3, <3>2 DEF HostServes
  <2>4. CASE HostStops(p)
    BY <2>4 DEF HostStops
  <2> QED
    BY <2>1, <2>2, <2>3, <2>4
<1>3. CalledHosted'
  BY <1>1 DEF AdmissionInv, CalledHosted
<1> QED
  BY <1>1, <1>2, <1>3, ProcessFrame DEF AdmissionInv

-----------------------------------------------------------------------------
\* A component that is merged: from where, and on what condition.
LEMMA Merges ==
  ASSUME AdmissionInv, NEW r \in Process, NEW p \in Plugin, NEW c \in Component,
         NEW via \in {"python", "wasm", "socket"}, NEW digest \in Component \cup {None},
         merge(r, p, c, via, digest),
         p \in pending[r], phase[r] \in {"loading", "verified"},
         via = "wasm" => \A a \in Describe[c].actions : ~a.mutation,
         via = "socket" => digest = locked[r][p].digest /\ digest \in Trusted
  PROVE  AdmissionInv'
<1> DEFINE d == Describe[c]
           new == {[name |-> n, via |-> via, component |-> c, digest |-> digest] : n \in d.adapters}
<1>1. d \in WasmDescription /\ d.adapters \subseteq AdapterName
      /\ d.actions \subseteq ActionDefinition
  BY AdmissionConstants DEF WasmDescription
<1>2. \A n \in d.adapters : n[1] = p
  <2>1. d.manifest \in PluginManifest /\ d.manifest.id = p /\ d.adapters = d.manifest.adapters
    BY <1>1 DEF WasmDescription, merge, validate_manifest, Mergeable
  <2> QED
    BY <2>1 DEF PluginManifest
<1>3. new \subseteq AdapterEntry
  BY <1>1 DEF AdapterEntry
<1>4. /\ adapters' = [adapters EXCEPT ![r] = @ \cup new]
      /\ actions' = [actions EXCEPT ![r] = @ \cup d.actions]
      /\ pending' = [pending EXCEPT ![r] = @ \ {p}]
      /\ phase' = [phase EXCEPT ![r] = "loading"]
      /\ UNCHANGED <<site, modes, locked, catalog, performed>>
  BY DEF merge
<1>5. SiteTypes' /\ CalledHosted'
  BY <1>4 DEF AdmissionInv, SiteTypes, CalledHosted, site
<1>6. ProcessTypes'
  BY <1>1, <1>3, <1>4 DEF AdmissionInv, ProcessTypes
<1>7. /\ adapters'[r] = adapters[r] \cup new /\ actions'[r] = actions[r] \cup d.actions
      /\ phase'[r] = "loading" /\ locked'[r] = locked[r]
  BY <1>4 DEF AdmissionInv, ProcessTypes
<1>8. Loaded(r)
  BY DEF AdmissionInv
<1>9. /\ \A a \in d.actions : a.adapter \in d.adapters
      /\ \A e \in adapters[r] : e.name \notin d.adapters
  BY DEF merge, Mergeable
<1>10. \A e \in new : /\ e.name \in d.adapters /\ e.via = via
                      /\ e.component = c /\ e.digest = digest
  OBVIOUS
<1>11. Loaded(r)'
  <2>1. Empty(r)' /\ Verified(r)'
    BY <1>7 DEF Empty, Verified
  <2>2. Resolved(r)'
    <3> SUFFICES ASSUME NEW a \in actions'[r] PROVE \E e \in adapters'[r] : e.name = a.adapter
      BY DEF Resolved
    <3>1. CASE a \in actions[r]
      BY <3>1, <1>7, <1>8 DEF Loaded, Resolved
    <3>2. CASE a \in d.actions
      <4>1. [name |-> a.adapter, via |-> via, component |-> c, digest |-> digest] \in new
        BY <3>2, <1>9
      <4> QED
        BY <4>1, <1>7
    <3> QED
      BY <3>1, <3>2, <1>7
  <2>3. OwnComponent(r)'
    <3> SUFFICES ASSUME NEW a \in actions'[r], NEW e \in adapters'[r], e.name = a.adapter
                 PROVE  a \in Describe[e.component].actions
      BY DEF OwnComponent
    <3>1. CASE a \in actions[r] /\ e \in adapters[r]
      BY <3>1, <1>8 DEF Loaded, OwnComponent
    <3>2. CASE a \in actions[r] /\ e \in new
      <4>1. PICK f \in adapters[r] : f.name = a.adapter
        BY <3>2, <1>8 DEF Loaded, Resolved
      <4> QED
        BY <4>1, <3>2, <1>9, <1>10
    <3>3. CASE a \in d.actions /\ e \in adapters[r]
      BY <3>3, <1>9
    <3>4. CASE a \in d.actions /\ e \in new
      BY <3>4, <1>10
    <3> QED
      BY <3>1, <3>2, <3>3, <3>4, <1>7
  <2>4. ReadOnlyHere(r)'
    BY <1>7, <1>8, <1>10 DEF Loaded, ReadOnlyHere
  <2>5. Pinned(r)'
    BY <1>2, <1>7, <1>8, <1>10 DEF Loaded, Pinned
  <2>6. Catalogued(r)'
    BY <1>4, <1>7, <1>8 DEF Loaded, Catalogued
  <2> QED
    BY <2>1, <2>2, <2>3, <2>4, <2>5, <2>6 DEF Loaded
<1>12. ASSUME NEW q \in Process, q # r PROVE Loaded(q)'
  BY <1>12, <1>4, OtherProcess DEF AdmissionInv, ProcessTypes
<1> QED
  BY <1>5, <1>6, <1>11, <1>12 DEF AdmissionInv

\* The four ways a plugin is taken up, of which three merge at once.
LEMMA PluginStep ==
  ASSUME AdmissionInv, NEW r \in Process, NEW p \in Plugin,
         \/ instantiate(r, p) \/ wasm_in_process(r, p)
         \/ verify_signed_artifact(r, p) \/ handshake(r, p)
  PROVE  AdmissionInv'
<1>1. disk[p].installed \in Component
  BY DEF AdmissionInv, SiteTypes, Site
<1>2. CASE instantiate(r, p)
  BY <1>1, <1>2, Merges DEF instantiate, Turn
<1>3. CASE wasm_in_process(r, p)
  <2>1. \A a \in Describe[disk[p].installed].actions : ~a.mutation
    BY <1>3 DEF wasm_in_process, description_is_mutation_capable
  <2> QED
    BY <1>1, <1>3, <2>1, Merges DEF wasm_in_process, Turn
<1>4. CASE handshake(r, p)
  <2>1. host[p] \in Served
    BY <1>4 DEF handshake, AdmissionInv, SiteTypes
  <2>2. host[p].component \in Component /\ host[p].digest \in Component
    BY <2>1 DEF Served
  <2>3. host[p].digest = locked[r][p].digest
    BY <1>4 DEF handshake, validate_handshake
  <2>4. locked[r][p].digest \in Trusted
    BY <1>4 DEF handshake, AdmissionInv, Loaded, Verified
  <2> QED
    BY <1>4, <2>2, <2>3, <2>4, Merges DEF handshake, Turn
<1>5. CASE verify_signed_artifact(r, p)
  <2>1. /\ phase' = [phase EXCEPT ![r] = "verified"]
        /\ UNCHANGED <<site, reading, registry, performed>>
    BY <1>5 DEF verify_signed_artifact
  <2>2. SiteTypes' /\ ProcessTypes' /\ CalledHosted'
    BY <2>1 DEF AdmissionInv, SiteTypes, ProcessTypes, CalledHosted, site, reading, registry
  <2>3. Verified(r)'
    <3> SUFFICES ASSUME NEW q \in Plugin, Turn(r, q, "wasm", "socket")
                 PROVE  locked[r][q].digest \in Trusted
      BY <2>1 DEF Verified, Turn, reading
    <3>1. q = p
      <4>1. p \in Nat /\ q \in Nat
        BY AdmissionConstants
      <4>2. p <= q /\ q <= p
        BY <1>5 DEF Turn, verify_signed_artifact
      <4> QED
        BY <4>1, <4>2
    <3>2. disk[p].signature \in Trusted /\ locked[r][p].digest = disk[p].signature
      BY <1>5 DEF verify_signed_artifact, AdmissionInv, SiteTypes, Site
    <3> QED
      BY <3>1, <3>2
  <2>4. Loaded(r)'
    <3>1. phase'[r] = "verified" /\ UNCHANGED <<locked, adapters, actions, catalog>>
      BY <2>1 DEF reading, registry, AdmissionInv, ProcessTypes
    <3>2. Loaded(r)
      BY DEF AdmissionInv
    <3> QED
      BY <2>3, <3>1, <3>2 DEF Loaded, Empty, Resolved, OwnComponent, ReadOnlyHere, Pinned, Catalogued
  <2>5. ASSUME NEW q \in Process, q # r PROVE Loaded(q)'
    BY <2>1, <2>5, OtherProcess DEF AdmissionInv, ProcessTypes, reading, registry
  <2> QED
    BY <2>2, <2>4, <2>5 DEF AdmissionInv
<1> QED
  BY <1>2, <1>3, <1>4, <1>5

\* Steps of loading that take no component.
LEMMA LoadStep ==
  ASSUME AdmissionInv, NEW r \in Process,
         load_plugin_configuration(r) \/ load_plugin_lock(r) \/ load_catalog(r) \/ Exits(r)
  PROVE  AdmissionInv'
<1>1. UNCHANGED <<site, performed>>
  BY DEF load_plugin_configuration, load_plugin_lock, load_catalog, Exits
<1>2. SiteTypes' /\ CalledHosted'
  BY <1>1 DEF AdmissionInv, SiteTypes, CalledHosted, site
<1>3. Loaded(r) /\ ProcessTypes /\ SiteTypes
  BY DEF AdmissionInv
<1>4. CASE load_plugin_configuration(r)
  <2>1. ProcessTypes'
    <3>1. [p \in Plugin |-> disk[p].mode] \in [Plugin -> Mode]
      BY <1>3 DEF SiteTypes, Site
    <3> QED
      BY <1>3, <1>4, <3>1 DEF load_plugin_configuration, ProcessTypes, registry
  <2>2. /\ phase'[r] = "configured" /\ phase[r] = "down"
        /\ UNCHANGED <<locked, adapters, actions, catalog>>
    BY <1>3, <1>4 DEF load_plugin_configuration, ProcessTypes, registry
  <2>3. Loaded(r)'
    BY <1>3, <2>2 DEF Loaded, Empty, Resolved, OwnComponent, ReadOnlyHere, Verified, Pinned,
       Catalogued
  <2>4. ASSUME NEW q \in Process, q # r PROVE Loaded(q)'
    BY <1>4, <2>4, OtherProcess
       DEF load_plugin_configuration, AdmissionInv, ProcessTypes, registry
  <2> QED
    BY <1>2, <2>1, <2>3, <2>4 DEF AdmissionInv
<1>5. CASE load_plugin_lock(r)
  <2>1. ProcessTypes'
    <3>1. [p \in Plugin |-> disk[p].lock] \in [Plugin -> LockEntry \cup {None}]
      BY <1>3 DEF SiteTypes, Site
    <3> QED
      BY <1>3, <1>5, <3>1 DEF load_plugin_lock, ProcessTypes, registry
  <2>2. /\ phase'[r] = "loading" /\ phase[r] = "configured"
        /\ UNCHANGED <<adapters, actions, catalog>>
    BY <1>3, <1>5 DEF load_plugin_lock, ProcessTypes, registry
  <2>3. Loaded(r)'
    BY <1>3, <2>2 DEF Loaded, Empty, Resolved, OwnComponent, ReadOnlyHere, Verified, Pinned,
       Catalogued
  <2>4. ASSUME NEW q \in Process, q # r PROVE Loaded(q)'
    BY <1>5, <2>4, OtherProcess DEF load_plugin_lock, AdmissionInv, ProcessTypes, registry
  <2> QED
    BY <1>2, <2>1, <2>3, <2>4 DEF AdmissionInv
<1>6. CASE load_catalog(r)
  <2>1. ProcessTypes'
    <3>1. actions[r] \cup Files \in SUBSET ActionDefinition
      BY <1>3, AdmissionConstants DEF ProcessTypes
    <3> QED
      BY <1>3, <1>6, <3>1 DEF load_catalog, ProcessTypes, reading
  <2>2. /\ phase'[r] = "up" /\ UNCHANGED <<locked, adapters, actions>>
        /\ catalog'[r] = actions[r] \cup Files
    BY <1>3, <1>6 DEF load_catalog, ProcessTypes, reading
  <2>3. Loaded(r)'
    BY <1>3, <2>2 DEF Loaded, Empty, Resolved, OwnComponent, ReadOnlyHere, Verified, Pinned,
       Catalogued
  <2>4. ASSUME NEW q \in Process, q # r PROVE Loaded(q)'
    BY <1>6, <2>4, OtherProcess DEF load_catalog, AdmissionInv, ProcessTypes, reading
  <2> QED
    BY <1>2, <2>1, <2>3, <2>4 DEF AdmissionInv
<1>7. CASE Exits(r)
  <2>1. ProcessTypes'
    BY <1>3, <1>7 DEF Exits, ProcessTypes, Mode
  <2>2. phase'[r] = "down" /\ adapters'[r] = {} /\ actions'[r] = {} /\ catalog'[r] = {}
    BY <1>3, <1>7 DEF Exits, ProcessTypes
  <2>3. Loaded(r)'
    BY <2>2 DEF Loaded, Empty, Resolved, OwnComponent, ReadOnlyHere, Verified, Pinned,
       Catalogued
  <2>4. ASSUME NEW q \in Process, q # r PROVE Loaded(q)'
    BY <1>7, <2>4, OtherProcess DEF Exits, AdmissionInv, ProcessTypes
  <2> QED
    BY <1>2, <2>1, <2>3, <2>4 DEF AdmissionInv
<1> QED
  BY <1>4, <1>5, <1>6, <1>7

\* Calls change nothing that was loaded, and no contributed mutation finds an
\* adapter on gang in the process.
LEMMA CallStep ==
  ASSUME AdmissionInv, NEW r \in Process, CallsHere(r) \/ CallsHost(r)
  PROVE  AdmissionInv'
<1>1. UNCHANGED <<site, phase, reading, registry>>
  BY DEF CallsHere, CallsHost
<1>2. SiteTypes'
  BY <1>1 DEF AdmissionInv, SiteTypes, site
<1>3. CalledHosted'
  <2>1. PICK a \in catalog[r], e \in adapters[r] :
          e.name = a.adapter /\ \E c : Reaches(a, e, c)
    <3>1. CASE CallsHere(r)
      BY <3>1 DEF CallsHere
    <3>2. CASE CallsHost(r)
      BY <3>2 DEF CallsHost
    <3> QED
      BY <3>1, <3>2
  <2>2. performed'.action = a /\ performed'.via = e.via
    BY <2>1 DEF Reaches
  <2>3. a \in actions[r] /\ e.via = "wasm" => ~a.mutation
    BY <2>1 DEF AdmissionInv, Loaded, OwnComponent, ReadOnlyHere
  <2>4. a \in actions[r] \/ a \in Files
    BY <2>1 DEF AdmissionInv, Loaded, Catalogued
  <2> QED
    BY <2>2, <2>3, <2>4 DEF CalledHosted
<1> QED
  BY <1>1, <1>2, <1>3, ProcessFrame DEF AdmissionInv

-----------------------------------------------------------------------------
\* The inductive invariant holds: in every process each contributed action is
\* registered by the component that declares it, gang in the process runs only
\* components that declare no mutation, and what came through a host is pinned.
THEOREM AdmissionInvariance == Spec => []AdmissionInv
<1>1. ASSUME AdmissionInv, [Next]_admissionVars PROVE AdmissionInv'
  <2>1. CASE UNCHANGED admissionVars
    BY <1>1, <2>1, ProcessFrame
       DEF AdmissionInv, SiteTypes, CalledHosted, admissionVars, site
  <2>2. CASE Next
    BY <1>1, <2>2, SiteStep, PluginStep, LoadStep, CallStep, AdmissionConstants DEF Next, Loads
  <2> QED
    BY <1>1, <2>1, <2>2
<1> QED
  BY <1>1, InitialAdmission, PTL DEF Spec

\* No contributed mutating action is bound to, or called on, gang inside a process
\* (wasm_in_process), for any plugins and components.
THEOREM HostedMutation == Spec => []MutationIsHosted
<1>1. AdmissionInv => MutationIsHosted
  <2> SUFFICES ASSUME AdmissionInv, NEW r \in Process, NEW a \in actions[r], NEW e \in adapters[r],
                      e.name = a.adapter, a.mutation, e.via = "wasm"
               PROVE  FALSE
    BY DEF MutationIsHosted, AdmissionInv, CalledHosted
  <2> QED
    BY DEF AdmissionInv, Loaded, OwnComponent, ReadOnlyHere
<1> QED
  BY <1>1, AdmissionInvariance, PTL

\* What came through a host is the locked and signed artifact's
\* (verify_signed_artifact and the handshake's digest).
THEOREM LockedHost == Spec => []HostIsLocked
<1>1. AdmissionInv => HostIsLocked
  BY DEF AdmissionInv, Loaded, Pinned, HostIsLocked
<1> QED
  BY <1>1, AdmissionInvariance, PTL
=============================================================================
