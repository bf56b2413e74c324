--------------------------- MODULE PluginAdmission ---------------------------
(***************************************************************************)
(* How the broker, the worker and the scheduler each load their plugins    *)
(* when they start (plugins.py, extensions.py, catalog.py), the host that  *)
(* serves a WASM component from a process of its own (wasm_host_main.py,   *)
(* WasmHostServer), and which of their calls reach a component later.      *)
(*                                                                         *)
(* The configuration, the lock, the artifact, its signature and what is    *)
(* installed are files: a process reads them one after the other while the *)
(* operator replaces them and restarts hosts.  A component is known by its *)
(* digest; Describe is what it says of itself.                             *)
(***************************************************************************)
EXTENDS Naturals

CONSTANTS
  Process,      \* processes that load plugins
  Plugin,       \* plugin ids, as numbers in the order of their names
  Hosted,       \* those with a deckhand-wasm-host unit
  Component,    \* builds of plugins
  Describe,     \* WasmDescription of each build: its manifest, adapters and actions
  Trusted,      \* builds whose digest the trusted key has signed
  Sites,        \* for each plugin, the states its files can be in
  Files,        \* the action definitions under catalog_path
  None

\* A plugin's files: its activation, lock entry, artifact, signature, and
\* what gang (or Python) has installed under its name.
Mode == {"off", "in_process", "wasm", "socket"}
LockEntry == [version : Nat, source : {"python", "wasm"}, digest : Component \cup {None}]
Site == [mode : Mode, lock : LockEntry \cup {None}, artifact : Component,
         signature : Trusted, installed : Component]

\* An adapter is named after its plugin, PluginManifest.validate_adapter_names.
AdapterName == Plugin \X Nat
ActionDefinition == [id : Nat, version : Nat, plugin : Plugin, adapter : AdapterName,
                     mutation : BOOLEAN]
PluginManifest ==
  {m \in [id : Plugin, version : Nat, adapters : SUBSET AdapterName, actions : SUBSET Nat,
          mutation : BOOLEAN] : \A name \in m.adapters : name[1] = m.id}
WasmDescription ==
  [manifest : PluginManifest, adapters : SUBSET AdapterName, actions : SUBSET ActionDefinition]

ASSUME AdmissionConstants ==
  /\ Plugin \subseteq Nat /\ Hosted \subseteq Plugin
  /\ None \notin Component \cup LockEntry
  /\ Trusted \subseteq Component
  /\ Describe \in [Component -> WasmDescription]
  /\ Sites \in [Plugin -> SUBSET Site]
  /\ Files \subseteq ActionDefinition

VARIABLES
  disk,       \* the files of each plugin
  starting,   \* what a host that is starting has described, or None
  host,       \* the described component and the digest of the artifact a host serves, or None
  phase,      \* of a process: "down", "configured", "loading", "verified" or "up"
  modes,      \* the configuration it has read
  locked,     \* the lock it has read
  pending,    \* enabled plugins it has not loaded
  adapters,   \* its registry: name, way to the component, what that described, and through a
              \* host the digest the host gave
  actions,    \* definitions its plugins have contributed
  catalog,    \* its catalog
  performed   \* the last call that reached a component, or None

site == <<disk, starting, host>>
reading == <<modes, locked, pending>>
registry == <<adapters, actions, catalog>>
admissionVars == <<site, phase, reading, registry, performed>>

Init ==
  /\ disk \in [Plugin -> UNION {Sites[p] : p \in Plugin}]
  /\ \A p \in Plugin : disk[p] \in Sites[p]
  /\ starting = [p \in Plugin |-> None]
  /\ host = [p \in Plugin |-> None]
  /\ phase = [r \in Process |-> "down"]
  /\ modes = [r \in Process |-> [p \in Plugin |-> "off"]]
  /\ locked = [r \in Process |-> [p \in Plugin |-> None]]
  /\ pending = [r \in Process |-> {}]
  /\ adapters = [r \in Process |-> {}]
  /\ actions = [r \in Process |-> {}]
  /\ catalog = [r \in Process |-> {}]
  /\ performed = None

-----------------------------------------------------------------------------
(***************************************************************************)
(* The operator and the hosts.                                             *)
(***************************************************************************)
OperatorEdits(p) ==
  /\ \E s \in Sites[p] : disk' = [disk EXCEPT ![p] = s]
  /\ UNCHANGED <<starting, host, phase, reading, registry, performed>>

\* The host asks gang what it has installed ...
HostDescribes(p) ==
  /\ host[p] = None /\ starting[p] = None
  /\ starting' = [starting EXCEPT ![p] = disk[p].installed]
  /\ UNCHANGED <<disk, host, phase, reading, registry, performed>>

Ids(defs) == {a.id : a \in defs}

\* WasmHostServer._validate_contribution.
Servable(d) == d.adapters = d.manifest.adapters /\ Ids(d.actions) = d.manifest.actions

\* ... and later reads the artifact for its digest.
HostServes(p) ==
  /\ starting[p] # None
  /\ Servable(Describe[starting[p]])
  /\ host' = [host EXCEPT ![p] = [component |-> starting[p], digest |-> disk[p].artifact]]
  /\ starting' = [starting EXCEPT ![p] = None]
  /\ UNCHANGED <<disk, phase, reading, registry, performed>>

HostStops(p) ==
  /\ host[p] # None \/ starting[p] # None
  /\ host' = [host EXCEPT ![p] = None]
  /\ starting' = [starting EXCEPT ![p] = None]
  /\ UNCHANGED <<disk, phase, reading, registry, performed>>

-----------------------------------------------------------------------------
(***************************************************************************)
(* A process loads its plugins.                                            *)
(***************************************************************************)
load_plugin_configuration(r) ==
  /\ phase[r] = "down"
  /\ phase' = [phase EXCEPT ![r] = "configured"]
  /\ modes' = [modes EXCEPT ![r] = [p \in Plugin |-> disk[p].mode]]
  /\ UNCHANGED <<site, locked, pending, registry, performed>>

load_plugin_lock(r) ==
  /\ phase[r] = "configured"
  /\ phase' = [phase EXCEPT ![r] = "loading"]
  /\ locked' = [locked EXCEPT ![r] = [p \in Plugin |-> disk[p].lock]]
  /\ pending' = [pending EXCEPT ![r] = {p \in Plugin : modes[r][p] # "off"}]
  /\ UNCHANGED <<site, modes, registry, performed>>

\* The next plugin, in the order of the ids; an unlocked one is not loaded.
Turn(r, p, source, mode) ==
  /\ p \in pending[r] /\ \A q \in pending[r] : p <= q
  /\ locked[r][p] # None
  /\ locked[r][p].source = source /\ modes[r][p] = mode

validate_manifest(p, manifest, entry) ==
  manifest.id = p /\ manifest.version = entry.version

\* What merge refuses, given what is loaded already.
Mergeable(r, p, d) ==
  /\ d.adapters = d.manifest.adapters
  /\ Ids(d.actions) \subseteq d.manifest.actions
  /\ \A a \in d.actions : a.plugin = p /\ a.adapter \in d.adapters
  /\ \A e \in adapters[r] : e.name \notin d.adapters
  /\ Ids(d.actions) \cap Ids(actions[r]) = {}

merge(r, p, c, via, digest) ==
  LET d == Describe[c]
  IN  /\ validate_manifest(p, d.manifest, locked[r][p])
      /\ Mergeable(r, p, d)
      /\ adapters' = [adapters EXCEPT ![r] = @ \cup
            {[name |-> n, via |-> via, component |-> c, digest |-> digest] : n \in d.adapters}]
      /\ actions' = [actions EXCEPT ![r] = @ \cup d.actions]
      /\ pending' = [pending EXCEPT ![r] = @ \ {p}]
      /\ phase' = [phase EXCEPT ![r] = "loading"]
      /\ UNCHANGED <<site, modes, locked, catalog, performed>>

\* A Python plugin, bundled or installed.
instantiate(r, p) ==
  /\ phase[r] = "loading" /\ Turn(r, p, "python", "in_process")
  /\ merge(r, p, disk[p].installed, "python", None)

\* Fault: only what the manifest permits is asked.
description_is_mutation_capable_manifest(d) == d.manifest.mutation

description_is_mutation_capable(d) ==
  d.manifest.mutation \/ \E a \in d.actions : a.mutation

\* gang in this process: the digest of the lock has to be there, and is not
\* compared with anything.
wasm_in_process(r, p) ==
  /\ phase[r] = "loading" /\ Turn(r, p, "wasm", "wasm") /\ locked[r][p].digest # None
  /\ ~description_is_mutation_capable(Describe[disk[p].installed])
  /\ merge(r, p, disk[p].installed, "wasm", None)

\* WasmHostClient is built ...
verify_signed_artifact(r, p) ==
  /\ phase[r] = "loading" /\ Turn(r, p, "wasm", "socket") /\ locked[r][p].digest # None
  /\ disk[p].artifact = locked[r][p].digest /\ disk[p].signature = locked[r][p].digest
  /\ phase' = [phase EXCEPT ![r] = "verified"]
  /\ UNCHANGED <<site, reading, registry, performed>>

\* Fault: the artifact on disk is enough, whatever the host was started with.
validate_handshake_unpinned(p, h, digest) ==
  LET d == Describe[h.component]
  IN  /\ d.manifest.id = p
      /\ Ids(d.actions) = d.manifest.actions
      /\ \A a \in d.actions : a.plugin = p /\ a.adapter \in d.manifest.adapters

validate_handshake(p, h, digest) ==
  LET d == Describe[h.component]
  IN  /\ d.manifest.id = p
      /\ h.digest = digest
      /\ Ids(d.actions) = d.manifest.actions
      /\ \A a \in d.actions : a.plugin = p /\ a.adapter \in d.manifest.adapters

\* ... and asks the host.
handshake(r, p) ==
  /\ phase[r] = "verified" /\ Turn(r, p, "wasm", "socket")
  /\ host[p] # None
  /\ validate_handshake(p, host[p], locked[r][p].digest)
  /\ merge(r, p, host[p].component, "socket", host[p].digest)

\* Catalog: nothing is defined twice under the same name and version.
Unambiguous(r) ==
  /\ \A a, b \in actions[r] \cup Files : a.id = b.id /\ a.version = b.version => a = b
  /\ actions[r] \cap Files = {}

\* Every action has a loaded plugin and a registered adapter.
load_catalog(r) ==
  /\ phase[r] = "loading" /\ pending[r] = {}
  /\ Unambiguous(r)
  /\ \A a \in actions[r] \cup Files :
       modes[r][a.plugin] # "off" /\ \E e \in adapters[r] : e.name = a.adapter
  /\ catalog' = [catalog EXCEPT ![r] = actions[r] \cup Files]
  /\ phase' = [phase EXCEPT ![r] = "up"]
  /\ UNCHANGED <<site, reading, adapters, actions, performed>>

\* Any refusal ends the process, as do I/O errors, and it keeps nothing.
Exits(r) ==
  /\ phase[r] # "down"
  /\ phase' = [phase EXCEPT ![r] = "down"]
  /\ modes' = [modes EXCEPT ![r] = [p \in Plugin |-> "off"]]
  /\ locked' = [locked EXCEPT ![r] = [p \in Plugin |-> None]]
  /\ pending' = [pending EXCEPT ![r] = {}]
  /\ adapters' = [adapters EXCEPT ![r] = {}]
  /\ actions' = [actions EXCEPT ![r] = {}]
  /\ catalog' = [catalog EXCEPT ![r] = {}]
  /\ UNCHANGED <<site, performed>>

-----------------------------------------------------------------------------
(***************************************************************************)
(* A process calls the adapter of an action of its catalog.                *)
(***************************************************************************)
Reaches(a, e, c) ==
  performed' = [action |-> a, via |-> e.via, component |-> c]

\* A Python adapter is an object of the process; gang runs what is installed.
CallsHere(r) ==
  /\ phase[r] = "up"
  /\ \E a \in catalog[r], e \in adapters[r] :
       /\ e.name = a.adapter /\ e.via # "socket"
       /\ Reaches(a, e, IF e.via = "python" THEN e.component ELSE disk[e.name[1]].installed)
  /\ UNCHANGED <<site, phase, reading, registry>>

\* WasmHostServer._invoke: the definition is the one the host described when it
\* started.
HostAccepts(h, a) ==
  LET d == Describe[h.component]
  IN  a.adapter \in d.adapters /\ a \in d.actions

\* _dispatch serves the plugin of its manifest only; the digest of the
\* handshake is not asked again.  Behind the host, too, gang runs what is
\* installed by the time of the call.
CallsHost(r) ==
  /\ phase[r] = "up"
  /\ \E a \in catalog[r], e \in adapters[r] :
       LET p == e.name[1]
       IN  /\ e.name = a.adapter /\ e.via = "socket"
           /\ host[p] # None
           /\ Describe[host[p].component].manifest.id = p
           /\ HostAccepts(host[p], a)
           /\ Reaches(a, e, disk[p].installed)
  /\ UNCHANGED <<site, phase, reading, registry>>

Loads(r) ==
  \/ load_plugin_configuration(r) \/ load_plugin_lock(r) \/ load_catalog(r) \/ Exits(r)
  \/ \E p \in Plugin :
       \/ instantiate(r, p) \/ wasm_in_process(r, p)
       \/ verify_signed_artifact(r, p) \/ handshake(r, p)

Next ==
  \/ \E p \in Plugin : OperatorEdits(p)
  \/ \E p \in Hosted : HostDescribes(p) \/ HostServes(p) \/ HostStops(p)
  \/ \E r \in Process : Loads(r) \/ CallsHere(r) \/ CallsHost(r)

Spec == Init /\ [][Next]_admissionVars

-----------------------------------------------------------------------------
(***************************************************************************)
(* Properties.                                                             *)
(***************************************************************************)
\* No contributed action that mutates is bound to gang inside a process, whatever
\* the operator swaps while it loads and whichever plugin's adapter it names
\* (mutation-capable components require the out-of-process host); and none is
\* ever called there: a mutation that reaches a component in the process was
\* written into the catalog's files.
MutationIsHosted ==
  /\ \A r \in Process : \A a \in actions[r], e \in adapters[r] :
       e.name = a.adapter /\ a.mutation => e.via # "wasm"
  /\ performed # None =>
       (performed.via = "wasm" /\ performed.action.mutation => performed.action \in Files)

\* What a process has loaded through a host came from a host that was started
\* on the very artifact that the process's lock names and the trusted key has
\* signed: a host left running over a replaced artifact is refused.
HostIsLocked ==
  \A r \in Process : \A e \in adapters[r] :
    e.via = "socket" => /\ e.digest = locked[r][e.name[1]].digest
                        /\ e.digest \in Trusted
=============================================================================
