------------------------------- MODULE MacAgent -------------------------------
(***************************************************************************)
(* The agent on the Mac (macos-agent api.py, executor.py, obs.py,          *)
(* models.py): a local HTTP service that runs one handler per request.     *)
(*                                                                         *)
(* Handlers are asyncio tasks of one process that interleave wherever they *)
(* await a program (osascript, open, shortcuts, SwitchAudioSource) or OBS. *)
(* Of what they control only switches are told apart: the microphone       *)
(* (muted or live), the recorder, an application, a source of a scene.     *)
(* They may be moved by hand at any time, and a program may return without *)
(* having had its effect.  One caffeinate process, kept in a global under  *)
(* a lock, inhibits sleep.                                                 *)
(***************************************************************************)
EXTENDS FiniteSets

CONSTANTS
  Request,      \* requests in progress at the same time
  Switch,       \* what can be turned on and off
  Unchecked,    \* switches that are not read after they were written: OBS sources
  Unreadable,   \* switches whose query may give nothing: the microphone, an application
  Process,      \* caffeinate processes
  None

ASSUME AgentConstants ==
  /\ Unchecked \subseteq Switch /\ Unreadable \subseteq Switch
  /\ None \notin Request \cup Switch \cup Process

VARIABLES
  on,        \* the switches that are on
  pc,        \* where a handler waits
  op,        \* what its request asks for
  about,     \* the switch it is about, or the process it has just created
  want,      \* what the handler is about to write, or has written
  answer,    \* the state it reports, and whether it says it has verified it
  seen,      \* what the switch has been since the request came, or since it was written
  lock,      \* the handler in _caffeinate_lock
  tracked,   \* _caffeinate_process
  process    \* the processes: "none", "live", "terminating", "dead", or "reaped"
             \* (returncode is known)

machineVars == <<on, seen>>
inhibitorVars == <<lock, tracked, process>>
requestVars == <<pc, op, about, want, answer>>
vars == <<machineVars, inhibitorVars, requestVars>>

State == {"on", "off"}
NoAnswer == [state |-> "none", verified |-> FALSE]
Is(d) == IF d \in on THEN "on" ELSE "off"

Init ==
  /\ on \in SUBSET Switch
  /\ pc = [r \in Request |-> "idle"]
  /\ op = [r \in Request |-> "none"]
  /\ about = [r \in Request |-> None]
  /\ want = [r \in Request |-> "off"]
  /\ answer = [r \in Request |-> NoAnswer]
  /\ seen = [r \in Request |-> {}]
  /\ lock = None /\ tracked = None
  /\ process = [p \in Process |-> "none"]

-----------------------------------------------------------------------------
(***************************************************************************)
(* Handlers.                                                               *)
(***************************************************************************)
\* Where a handler awaits first.
FirstAwait(o) ==
  CASE o \in {"set", "run", "run and trust"} -> "writing"
    [] o \in {"toggle", "state"} -> "reading"
    [] o \in {"inhibit on", "inhibit off"} -> "waiting"

Locals(r, o, d, w) ==
  /\ op' = [op EXCEPT ![r] = o]
  /\ about' = [about EXCEPT ![r] = d]
  /\ want' = [want EXCEPT ![r] = w]

\* The handler goes on to its next await, or returns with an answer.
Goto(r, where) == pc' = [pc EXCEPT ![r] = where] /\ UNCHANGED answer
Says(r, state, verified) ==
  /\ pc' = [pc EXCEPT ![r] = "answered"]
  /\ answer' = [answer EXCEPT ![r] = [state |-> state, verified |-> verified]]
  /\ Locals(r, "none", None, "off")

\* An authorised request with a known alias reaches its handler.
execute(r, o, d, w) ==
  /\ pc[r] = "idle"
  /\ Locals(r, o, d, w) /\ Goto(r, FirstAwait(o))
  /\ seen' = [seen EXCEPT ![r] = IF d = None THEN {} ELSE {Is(d)}]
  /\ UNCHANGED <<on, inhibitorVars>>

\* No or another bearer token, an unreadable token file, an alias that is not
\* in the inventory or is missing; or a question nobody can answer.
AnswersAtOnce(r) ==
  /\ pc[r] = "idle"
  /\ \E state \in {"error", "unknown"} : Says(r, state, FALSE)
  /\ UNCHANGED <<machineVars, inhibitorVars>>

\* _sleep_inhibit_state reads the global without the lock.
Inhibited == tracked # None /\ process[tracked] # "reaped"
sleep_inhibit_state(r) ==
  /\ pc[r] = "idle"
  /\ Says(r, IF Inhibited THEN "inhibited" ELSE "released", TRUE)
  /\ UNCHANGED <<machineVars, inhibitorVars>>

\* A toggle mutes ("on") a microphone that is not known to be muted.
Opposite(state) == IF state = "on" THEN "off" ELSE "on"

\* The first query of a toggle, or the only one of a state request.
Reads(r) ==
  /\ pc[r] = "reading"
  /\ \E state \in {Is(about[r])} \cup (IF about[r] \in Unreadable THEN {"unknown"} ELSE {}) :
       IF op[r] = "toggle"
         THEN Locals(r, "set", about[r], Opposite(state)) /\ Goto(r, "writing")
         ELSE Says(r, state, TRUE)
  /\ UNCHANGED <<machineVars, inhibitorVars>>

\* A switch is moved; whoever asks about it sees it.
Turn(d, state) ==
  on' = IF state = "on" THEN on \cup {d} ELSE on \ {d}
Witness(d, state) ==
  [r \in Request |-> IF about[r] = d THEN seen[r] \cup {state} ELSE seen[r]]

\* The program that writes the switch is done, successfully as it says.
Writes(r) ==
  /\ pc[r] = "writing" /\ op[r] = "set"
  /\ \E state \in {want[r], Is(about[r])} :
       /\ Turn(about[r], state)
       /\ seen' = [Witness(about[r], state) EXCEPT ![r] = {state}]
       /\ about[r] \in Unchecked => state = want[r]
  /\ IF about[r] \in Unchecked THEN Says(r, want[r], TRUE)
                                ELSE Goto(r, "checking") /\ UNCHANGED <<op, about, want>>
  /\ UNCHANGED inhibitorVars

\* Fault: the exit code is trusted.
Checks_exit_code(r) ==
  /\ pc[r] = "checking"
  /\ Says(r, want[r], TRUE)
  /\ UNCHANGED <<machineVars, inhibitorVars>>

\* The switch is read back.
Checks(r) ==
  /\ pc[r] = "checking"
  /\ \E state \in {Is(about[r])} \cup (IF about[r] \in Unreadable THEN {"unknown"} ELSE {}) :
       Says(r, state, state = want[r])
  /\ UNCHANGED <<machineVars, inhibitorVars>>

\* A program that reports nothing but its exit code.
Runs(r) ==
  /\ pc[r] = "writing" /\ op[r] \in {"run", "run and trust"}
  /\ Says(r, "requested", op[r] = "run and trust")
  /\ UNCHANGED <<machineVars, inhibitorVars>>

\* A program fails, with or without an effect, or OBS does: LocalActionError.
Fails(r) ==
  /\ pc[r] \in {"reading", "writing", "checking"}
  /\ \/ UNCHANGED machineVars
     \/ /\ pc[r] = "writing" /\ op[r] = "set"
        /\ Turn(about[r], want[r]) /\ seen' = Witness(about[r], want[r])
  /\ Says(r, "error", FALSE)
  /\ UNCHANGED inhibitorVars

\* The answer is sent.
Gone(r) ==
  /\ pc[r] = "answered"
  /\ pc' = [pc EXCEPT ![r] = "idle"]
  /\ answer' = [answer EXCEPT ![r] = NoAnswer]
  /\ seen' = [seen EXCEPT ![r] = {}]
  /\ UNCHANGED <<on, op, about, want, inhibitorVars>>

-----------------------------------------------------------------------------
(***************************************************************************)
(* The sleep inhibitor.                                                    *)
(***************************************************************************)
\* Fault: nobody waits for the lock.
Enters_unlocked(r) == pc[r] = "waiting"

Enters(r) == pc[r] = "waiting" /\ lock = None

\* _sleep_inhibit_on: a live caffeinate is kept; otherwise one is created, and
\* the lock is held while the handler awaits it.
sleep_inhibit_on(r) ==
  /\ Enters(r) /\ op[r] = "inhibit on"
  /\ IF Inhibited
       THEN Says(r, "inhibited", TRUE) /\ UNCHANGED lock
       ELSE Goto(r, "creating") /\ lock' = r /\ UNCHANGED <<op, about, want>>
  /\ UNCHANGED <<tracked, process, machineVars>>

\* The process runs; the handler has not got hold of it yet.
Forks(r) ==
  /\ pc[r] = "creating"
  /\ \E p \in Process :
       /\ process[p] = "none"
       /\ process' = [process EXCEPT ![p] = "live"]
       /\ about' = [about EXCEPT ![r] = p]
  /\ Goto(r, "created")
  /\ UNCHANGED <<op, want, lock, tracked, machineVars>>

\* Nothing is left of a process that nobody refers to any more.
Forgotten(p) == IF process[p] = "reaped" THEN "none" ELSE process[p]

Created(r) ==
  /\ pc[r] = "created"
  /\ tracked' = about[r] /\ lock' = None
  /\ process' = [p \in Process |-> IF p = tracked THEN Forgotten(p) ELSE process[p]]
  /\ Says(r, "inhibited", TRUE)
  /\ UNCHANGED machineVars

\* Fault: an exception leaves the lock behind.
CreationFails_locked(r) ==
  /\ pc[r] = "creating"
  /\ Says(r, "error", FALSE)
  /\ UNCHANGED <<inhibitorVars, machineVars>>

\* create_subprocess_exec raises, and the lock is released.
CreationFails(r) ==
  /\ pc[r] = "creating"
  /\ lock' = None
  /\ Says(r, "error", FALSE)
  /\ UNCHANGED <<tracked, process, machineVars>>

\* _sleep_inhibit_off: the process is told to end and forgotten.
sleep_inhibit_off(r) ==
  /\ Enters(r) /\ op[r] = "inhibit off"
  /\ IF Inhibited
       THEN /\ process' = [process EXCEPT ![tracked] = IF @ = "live" THEN "terminating" ELSE "none"]
            /\ tracked' = None
       ELSE UNCHANGED <<tracked, process>>
  /\ Says(r, "released", TRUE)
  /\ UNCHANGED <<lock, machineVars>>

\* The process ends, as it was told or on its own, and some time later the
\* event loop hears of it.
ReferredTo(p) == p = tracked \/ \E r \in Request : pc[r] = "created" /\ about[r] = p
Exits(p) ==
  /\ process[p] \in {"live", "terminating"}
  /\ process' = [process EXCEPT ![p] = IF ReferredTo(p) THEN "dead" ELSE "none"]
  /\ UNCHANGED <<lock, tracked, requestVars, machineVars>>
Noticed(p) ==
  /\ process[p] = "dead" /\ p = tracked
  /\ process' = [process EXCEPT ![p] = "reaped"]
  /\ UNCHANGED <<lock, tracked, requestVars, machineVars>>

\* A switch is moved by hand, or belatedly.
MovedByHand(d) ==
  /\ \E state \in State : Turn(d, state) /\ seen' = Witness(d, state)
  /\ UNCHANGED <<requestVars, inhibitorVars>>

-----------------------------------------------------------------------------
Offered(r) ==
  \/ \E d \in Switch \ Unchecked, w \in State : execute(r, "set", d, w)
  \/ \E d \in Switch, o \in {"toggle", "state"} : execute(r, o, d, "off")
  \/ \E o \in {"run", "run and trust", "inhibit on", "inhibit off"} : execute(r, o, None, "off")

InhibitorStep(r) ==
  sleep_inhibit_on(r) \/ Forks(r) \/ Created(r) \/ CreationFails(r) \/ sleep_inhibit_off(r)

Next ==
  \/ \E r \in Request :
       \/ Offered(r) \/ AnswersAtOnce(r) \/ sleep_inhibit_state(r)
       \/ Reads(r) \/ Writes(r) \/ Checks(r) \/ Runs(r) \/ Fails(r) \/ Gone(r)
       \/ InhibitorStep(r)
  \/ \E p \in Process : Exits(p) \/ Noticed(p)
  \/ \E d \in Switch : MovedByHand(d)

\* The lock is handed on in the order of arrival; creating a process ends one
\* way or the other.  Nothing is assumed of the other programs: _run and the
\* OBS client wait without a timeout.
Fairness ==
  \A r \in Request :
    /\ SF_vars(sleep_inhibit_on(r)) /\ SF_vars(sleep_inhibit_off(r))
    /\ WF_vars(Forks(r) \/ CreationFails(r)) /\ WF_vars(Created(r))

Spec == Init /\ [][Next]_vars /\ Fairness

-----------------------------------------------------------------------------
(***************************************************************************)
(* Properties.                                                             *)
(***************************************************************************)
Live == {p \in Process : process[p] = "live"}

\* Every variable keeps its type; the lock is held by the handler that is
\* creating a process and by nobody else.
TypeOK ==
  /\ on \subseteq Switch
  /\ pc \in [Request -> {"idle", "reading", "writing", "checking", "waiting",
                         "creating", "created", "answered"}]
  /\ op \in [Request -> {"none", "set", "toggle", "state", "run", "run and trust",
                         "inhibit on", "inhibit off"}]
  /\ about \in [Request -> Switch \cup Process \cup {None}]
  /\ want \in [Request -> State]
  /\ answer \in [Request -> [state : State \cup {"none", "unknown", "requested", "error",
                                                 "inhibited", "released"},
                             verified : BOOLEAN]]
  /\ seen \in [Request -> SUBSET State]
  /\ lock \in Request \cup {None}
  /\ tracked \in Process \cup {None}
  /\ process \in [Process -> {"none", "live", "terminating", "dead", "reaped"}]
  /\ \A r \in Request : pc[r] \in {"creating", "created"} <=> lock = r

\* No caffeinate is ever leaked: one that runs and was not told to end is the
\* one the agent keeps, or is just being created to become it, and there are
\* never two, however requests to inhibit and to release interleave and
\* whenever the process dies (executor.py: "A single caffeinate process").
OneInhibitor ==
  \A p \in Live :
    /\ p = tracked \/ \E r \in Request : pc[r] = "created" /\ about[r] = p
    /\ \A q \in Live : q = p

\* A verified answer was true: the switch was in the reported state at some
\* moment after the handler wrote it (or, of a query, after the request came),
\* whatever other handlers and hands did in between.
AnswersWereTrue ==
  \A r \in Request :
    answer[r].verified /\ answer[r].state \in State => answer[r].state \in seen[r]

\* A request about the inhibitor is always answered, even while programs that
\* other handlers wait for never end and creations fail.
InhibitorAnswers ==
  \A r \in Request : pc[r] \in {"waiting", "creating", "created"} ~> pc[r] = "answered"
=============================================================================
