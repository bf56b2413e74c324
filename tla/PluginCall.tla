------------------------------ MODULE PluginCall ------------------------------
(***************************************************************************)
(* A call of a mutation-capable plugin, from the resilience guard in the   *)
(* broker or worker through the Unix-socket transport to the WASM host and *)
(* the gang process that runs the component (deckhand/resilience.py,       *)
(* wasm_host_transport.py, ganglion.py).                                   *)
(*                                                                         *)
(* What matters is how an error is classified.  Whoever made the call      *)
(* records a job as failed on a plain error, and leaves it to              *)
(* reconciliation on an error with reconciliation_required.  Each side     *)
(* gives up on its own: a caller that has timed out leaves its request in  *)
(* the socket, where the host still finds it; a host that has timed out    *)
(* leaves the gang process running.                                        *)
(***************************************************************************)
CONSTANT Call   \* calls of one plugin, each on a connection of its own

VARIABLES
  pc,        \* the caller: "idle", "queued", "connecting", "waiting", "done"
  op,        \* the lifecycle operation
  mutation,  \* action.mutation
  host,      \* the host's side: "none", "request" (not yet read), "invoking"
  reply,     \* what the host has sent back
  gang,      \* the gang process: "none", "running"
  effect,    \* the mutation has reached its target
  verdict,   \* how the call ended for its caller
  up         \* the host process is running

callVars == <<pc, verdict>>
vars == <<callVars, op, mutation, host, reply, gang, effect, up>>

\* HostOperation; "plan" stands for health and status.observe as well, whose
\* errors nobody classifies.
Operation == {"plan", "execute", "observe", "verify", "cancel"}

\* HostResponse: ok; an error; an error with reconciliation_required.  Or the
\* connection closed without an answer, after the request was read or, "reset",
\* before; or a frame that is no JSON.
Reply == {"none", "result", "failed", "reconcile", "lost", "reset", "garbled"}

\* A result, an error that is final, an error with reconciliation_required;
\* "cancelled" is the caller's own end.
Verdict == {"none", "result", "plain", "unknown", "cancelled"}

Mutates(c) == op[c] = "execute" /\ mutation[c]

Init ==
  /\ pc = [c \in Call |-> "idle"]
  /\ op = [c \in Call |-> "plan"]
  /\ mutation = [c \in Call |-> FALSE]
  /\ host = [c \in Call |-> "none"]
  /\ reply = [c \in Call |-> "none"]
  /\ gang = [c \in Call |-> "none"]
  /\ effect = [c \in Call |-> FALSE]
  /\ verdict = [c \in Call |-> "none"]
  /\ up = TRUE

-----------------------------------------------------------------------------
(***************************************************************************)
(* The caller: ResilientAdapter, WasmHostAdapter, WasmHostClient.          *)
(***************************************************************************)
End(c, v) ==
  /\ pc' = [pc EXCEPT ![c] = "done"]
  /\ verdict' = [verdict EXCEPT ![c] = v]
  /\ UNCHANGED <<op, mutation, host, reply, gang, effect, up>>

\* Fault: a transport error stays a transport error.
Lost_plain(c) == "plain"

\* _raise_unknown_for_mutation: a HostTransportError of a mutation.
Lost(c) == IF mutation[c] /\ op[c] # "plan" THEN "unknown" ELSE "plain"

Enter(c, o, m) ==
  /\ pc[c] = "idle"
  /\ pc' = [pc EXCEPT ![c] = "queued"]
  /\ op' = [op EXCEPT ![c] = o]
  /\ mutation' = [mutation EXCEPT ![c] = m]
  /\ UNCHANGED <<verdict, host, reply, gang, effect, up>>

\* The circuit is open, or the deadline passes in a queue of the guard.
Rejected(c) == pc[c] = "queued" /\ End(c, "plain")

\* The guard has a slot: operation_started.
Admitted(c) ==
  /\ pc[c] = "queued"
  /\ pc' = [pc EXCEPT ![c] = "connecting"]
  /\ UNCHANGED <<verdict, op, mutation, host, reply, gang, effect, up>>

\* _validate_public_json raises outside the try block; the guard makes a plain
\* error of it.
PayloadRefused(c) == pc[c] = "connecting" /\ End(c, "plain")

\* The socket path, the connection, the peer's identity or the size of the
\* frame: nothing was sent.
ConnectFails(c) == pc[c] = "connecting" /\ End(c, Lost(c))

Sends(c) ==
  /\ pc[c] = "connecting" /\ up
  /\ pc' = [pc EXCEPT ![c] = "waiting"]
  /\ host' = [host EXCEPT ![c] = "request"]
  /\ UNCHANGED <<verdict, op, mutation, reply, gang, effect, up>>

\* _read_frame, _unwrap and _model: an error of the host is passed on as it is;
\* a closed connection, or a frame or result that does not validate, is a
\* transport error.  Two exceptions are no AdapterError, so that the guard makes
\* a plain error of them: what json.loads raises on a frame that is no JSON, and
\* the ConnectionResetError of a reset connection, which wait_closed raises once
\* more, in the finally clause, in place of the transport error.
Receives(c) ==
  /\ pc[c] = "waiting" /\ reply[c] # "none"
  /\ \/ reply[c] = "result" /\ End(c, "result")
     \/ reply[c] = "reconcile" /\ End(c, "unknown")
     \/ reply[c] \in {"failed", "reset", "garbled"} /\ End(c, "plain")
     \/ reply[c] \in {"result", "lost"} /\ End(c, Lost(c))

\* unknown_on_started_timeout is set for the execute of a mutation only.
GuardTimesOut(c) ==
  /\ pc[c] \in {"connecting", "waiting"}
  /\ End(c, IF Mutates(c) THEN "unknown" ELSE "plain")

TaskCancelled(c) ==
  /\ pc[c] \in {"queued", "connecting", "waiting"}
  /\ End(c, "cancelled")

CallerStep(c) ==
  \/ \E o \in Operation, m \in BOOLEAN : Enter(c, o, m)
  \/ Rejected(c) \/ Admitted(c) \/ PayloadRefused(c) \/ ConnectFails(c)
  \/ Sends(c) \/ Receives(c) \/ GuardTimesOut(c) \/ TaskCancelled(c)

-----------------------------------------------------------------------------
(***************************************************************************)
(* The host: WasmHostServer, GanglionAdapter, GanglionClient.  Closing the *)
(* caller's end of the connection does not stop it.                        *)
(***************************************************************************)
Answers(c, r) ==
  /\ host' = [host EXCEPT ![c] = "none"]
  /\ reply' = [reply EXCEPT ![c] = r]

\* GanglionAdapter: a WasmError of execute or observe of a mutation becomes an
\* UnknownOutcome; verify, cancel and plan let it pass.
WasmError(c) ==
  IF mutation[c] /\ op[c] \in {"execute", "observe"} THEN "reconcile" ELSE "failed"

\* A peer that is not the broker or a bad frame closes the connection, whether
\* or not the request has left the socket's buffer; a version, plugin, adapter or
\* action that does not match is a protocol error; a missing gang binary is a
\* WasmError.
HostRefuses(c) ==
  /\ host[c] = "request"
  /\ \E r \in {"lost", "reset", "failed", WasmError(c)} : Answers(c, r)
  /\ UNCHANGED <<callVars, op, mutation, gang, effect, up>>

HostInvokes(c) ==
  /\ host[c] = "request"
  /\ host' = [host EXCEPT ![c] = "invoking"]
  /\ gang' = [gang EXCEPT ![c] = "running"]
  /\ UNCHANGED <<callVars, op, mutation, reply, effect, up>>

\* The component runs; it is external what it does to its target and when.
GangActs(c) ==
  /\ gang[c] = "running" /\ Mutates(c)
  /\ effect' = [effect EXCEPT ![c] = TRUE]
  /\ UNCHANGED <<callVars, op, mutation, host, reply, gang, up>>

\* The gang process ends and the host, if it still waits, answers: a result;
\* a document the models or _validate_public_json reject, a protocol error;
\* an exit status, oversized or invalid output, a WasmError; or nothing, when
\* the answer does not fit a frame.
GangExits(c) ==
  /\ gang[c] = "running"
  /\ gang' = [gang EXCEPT ![c] = "none"]
  /\ IF host[c] = "invoking"
       THEN \E r \in {"result", "failed", "lost", WasmError(c)} : Answers(c, r)
       ELSE UNCHANGED <<host, reply>>
  /\ UNCHANGED <<callVars, op, mutation, effect, up>>

\* Fault: the timeout is reported like any other WasmError of the client.
InvokeTimesOut_safe(c) ==
  /\ host[c] = "invoking"
  /\ Answers(c, "failed")
  /\ UNCHANGED <<callVars, op, mutation, gang, effect, up>>

\* wait_for gives up on communicate(); the process is not killed.
InvokeTimesOut(c) ==
  /\ host[c] = "invoking"
  /\ Answers(c, "reconcile")
  /\ UNCHANGED <<callVars, op, mutation, gang, effect, up>>

\* The program behind the socket is known to the caller by its UID alone.
\* WasmHostServer encodes every response as JSON; another host may answer with
\* bytes that are none, whatever its gang process is doing.
HostGarbles(c) ==
  /\ host[c] # "none"
  /\ Answers(c, "garbled")
  /\ UNCHANGED <<callVars, op, mutation, gang, effect, up>>

\* Its connections close, those with an unread request by a reset; gang
\* processes live on until systemd clears the unit's control group and starts
\* the host again.
HostCrashes ==
  /\ up /\ up' = FALSE
  /\ host' = [c \in Call |-> "none"]
  /\ \E unread \in SUBSET {c \in Call : host[c] = "request"} :
       reply' = [c \in Call |-> IF host[c] = "none" THEN reply[c]
                                ELSE IF c \in unread THEN "reset" ELSE "lost"]
  /\ UNCHANGED <<callVars, op, mutation, gang, effect>>

HostRestarts ==
  /\ ~up /\ up' = TRUE
  /\ gang' = [c \in Call |-> "none"]
  /\ UNCHANGED <<callVars, op, mutation, host, reply, effect>>

HostStep(c) ==
  \/ HostRefuses(c) \/ HostInvokes(c) \/ GangActs(c) \/ GangExits(c)
  \/ InvokeTimesOut(c) \/ HostGarbles(c)

Next ==
  \/ \E c \in Call : CallerStep(c) \/ HostStep(c)
  \/ HostCrashes \/ HostRestarts

Spec == Init /\ [][Next]_vars

-----------------------------------------------------------------------------
(***************************************************************************)
(* Properties.                                                             *)
(***************************************************************************)
\* Every variable keeps its type.
TypeOK ==
  /\ pc \in [Call -> {"idle", "queued", "connecting", "waiting", "done"}]
  /\ op \in [Call -> Operation]
  /\ mutation \in [Call -> BOOLEAN]
  /\ host \in [Call -> {"none", "request", "invoking"}]
  /\ reply \in [Call -> Reply]
  /\ gang \in [Call -> {"none", "running"}]
  /\ effect \in [Call -> BOOLEAN]
  /\ verdict \in [Call -> Verdict]
  /\ up \in BOOLEAN

Failed(c) == Mutates(c) /\ verdict[c] = "plain"

\* The caller could make sense of what came back.
Decodable(c) == reply[c] # "garbled"

\* When the execute of a mutation is reported as failed, nothing of it is left
\* behind that could still act: no request in a socket, no handler in the host,
\* no gang process.  An answer that is no JSON is the one exception.
FailureIsSettled ==
  \A c \in Call :
    Failed(c) /\ Decodable(c) => host[c] = "none" /\ gang[c] = "none"

\* A failure that was reported stands, and from then on the call changes nothing
\* at its target: what the operator finds there when reading "failed" is final,
\* with the same exception.
FailureIsFinal ==
  [][\A c \in Call :
       Failed(c) /\ Decodable(c) => effect'[c] = effect[c] /\ Failed(c)']_vars

\* The broker's own side (guard, adapter proxy, socket client) reports a mutation
\* as failed that has had an effect on two grounds only: the host's own answer
\* says so, or the answer is no JSON, where the comment in WasmHostClient.call
\* asks for an unknown outcome.  Every other malformed, late or missing answer,
\* a reset connection included, is unknown or had no effect.
BrokerFailureHadNoEffect ==
  \A c \in Call :
    Failed(c) /\ effect[c] => reply[c] = "failed" \/ ~Decodable(c)
=============================================================================
