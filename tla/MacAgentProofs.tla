---------------------------- MODULE MacAgentProofs ----------------------------
(***************************************************************************)
(* Proofs about MacAgent, for any number of requests, switches and         *)
(* processes.                                                              *)
(*                                                                         *)
(* No process is leaked because a handler creates one only under the lock  *)
(* and only when the one that is kept is known to have ended; and answers  *)
(* are true because a handler that is about to read its switch has seen    *)
(* what the switch is now.                                                 *)
(***************************************************************************)
EXTENDS MacAgent, BrokerIdentity, TLAPS

\* The process the agent keeps has not been told to end.
Kept == tracked # None => process[tracked] \in {"live", "dead", "reaped"}

\* Whoever creates a process found none, and the new one is not kept yet.
Creation ==
  \A r \in Request :
    /\ pc[r] \in {"creating", "created"} => tracked = None \/ process[tracked] = "reaped"
    /\ pc[r] = "created" => /\ about[r] \in Process /\ about[r] # tracked
                            /\ process[about[r]] \in {"live", "dead"}

\* Every running process is kept or being created.
Owned ==
  \A p \in Process :
    process[p] = "live" => p = tracked \/ \E r \in Request : pc[r] = "created" /\ about[r] = p

\* A handler works on a switch, one that reads has seen what is, and none
\* claims anything before it answers.
UpToDate ==
  \A r \in Request :
    /\ pc[r] # "answered" => ~answer[r].verified
    /\ pc[r] \in {"reading", "checking"} => about[r] \in Switch /\ Is(about[r]) \in seen[r]
    /\ pc[r] = "writing" /\ op[r] = "set" => about[r] \in Switch

InhibitorInv == Kept /\ Creation /\ Owned
IInv == TypeOK /\ InhibitorInv /\ UpToDate /\ AnswersWereTrue

-----------------------------------------------------------------------------
\* The part of TypeOK that is about handlers.
HandlerTypes ==
  /\ op \in [Request -> {"none", "set", "toggle", "state", "run", "run and trust",
                         "inhibit on", "inhibit off"}]
  /\ about \in [Request -> Switch \cup Process \cup {None}]
  /\ want \in [Request -> State]
  /\ pc \in [Request -> {"idle", "reading", "writing", "checking", "waiting",
                         "creating", "created", "answered"}]
  /\ answer \in [Request -> [state : State \cup {"none", "unknown", "requested", "error",
                                                 "inhibited", "released"},
                             verified : BOOLEAN]]

\* Two running processes would both be kept, or be created by two holders of the lock.
LEMMA OneFollows == TypeOK /\ InhibitorInv => OneInhibitor
<1> SUFFICES ASSUME TypeOK, InhibitorInv, NEW p \in Live
             PROVE  /\ p = tracked \/ \E r \in Request : pc[r] = "created" /\ about[r] = p
                    /\ \A q \in Live : q = p
  BY DEF OneInhibitor
<1>1. p \in Process /\ process[p] = "live" /\ None \notin Process
  BY AgentConstants DEF Live
<1>2. p = tracked \/ \E r \in Request : pc[r] = "created" /\ about[r] = p
  BY <1>1 DEF InhibitorInv, Owned
<1>3. ASSUME NEW q \in Live PROVE q = p
  <2>1. q \in Process /\ process[q] = "live"
    BY <1>3 DEF Live
  <2>2. q = tracked \/ \E r \in Request : pc[r] = "created" /\ about[r] = q
    BY <2>1 DEF InhibitorInv, Owned
  <2>3. \A r, s \in Request : pc[r] = "created" /\ pc[s] = "created" => r = s
    BY DEF TypeOK
  <2>4. \A r \in Request : pc[r] = "created" => p # tracked /\ q # tracked
    BY <1>1, <2>1 DEF InhibitorInv, Creation
  <2> QED
    BY <1>2, <2>2, <2>3, <2>4
<1> QED
  BY <1>2, <1>3

-----------------------------------------------------------------------------
\* The agent starts without a process and without requests.
LEMMA InitHolds == Init => IInv
BY AgentConstants
DEF Init, IInv, TypeOK, InhibitorInv, Kept, Creation, Owned, UpToDate, AnswersWereTrue,
    NoAnswer, State

\* What all handlers outside the inhibitor's have in common.
Ordinary(r) ==
  /\ UNCHANGED inhibitorVars
  /\ pc[r] \notin {"creating", "created"} /\ pc'[r] \notin {"creating", "created"}
  /\ \A s \in Request \ {r} : pc'[s] = pc[s] /\ about'[s] = about[s]

\* A step outside the inhibitor leaves it alone.
LEMMA OrdinaryKeeps ==
  ASSUME TypeOK, TypeOK', InhibitorInv, NEW r \in Request, Ordinary(r)
  PROVE  InhibitorInv'
<1>1. Kept'
  BY DEF InhibitorInv, Kept, Ordinary, inhibitorVars
<1>2. Creation'
  BY DEF InhibitorInv, Creation, Ordinary, inhibitorVars
<1>3. Owned'
  BY DEF InhibitorInv, Owned, Ordinary, inhibitorVars
<1> QED
  BY <1>1, <1>2, <1>3 DEF InhibitorInv

\* What a switch is after a step.
After(d) == IF d \in on' THEN "on" ELSE "off"

\* An answer that claims nothing about a switch, or something the handler has
\* seen, does no harm to the others.
LEMMA SaysKeeps ==
  ASSUME IInv, NEW r \in Request, NEW state, NEW verified \in BOOLEAN,
         state \in State \cup {"unknown", "requested", "error", "inhibited", "released"},
         Says(r, state, verified), on' \subseteq Switch, seen' \in [Request -> SUBSET State],
         verified /\ state \in State => state \in seen'[r],
         \A s \in Request \ {r} :
           /\ seen[s] \subseteq seen'[s]
           /\ about[s] \in Switch =>
                After(about[s]) \in seen'[s] \/ After(about[s]) = Is(about[s])
  PROVE  /\ UpToDate' /\ AnswersWereTrue'
         /\ HandlerTypes'
         /\ pc'[r] = "answered"
         /\ \A s \in Request \ {r} : pc'[s] = pc[s] /\ about'[s] = about[s]
<1> USE DEF Says, Locals, IInv, TypeOK
<1>1. pc'[r] = "answered" /\ answer'[r].state = state /\ answer'[r].verified = verified
  OBVIOUS
<1>2. \A s \in Request \ {r} :
        pc'[s] = pc[s] /\ about'[s] = about[s] /\ op'[s] = op[s] /\ answer'[s] = answer[s]
  OBVIOUS
<1>3. AnswersWereTrue'
  <2> SUFFICES ASSUME NEW s \in Request, answer'[s].verified, answer'[s].state \in State
               PROVE  answer'[s].state \in seen'[s]
    BY DEF AnswersWereTrue
  <2>1. CASE s = r
    BY <2>1, <1>1
  <2>2. CASE s # r
    BY <2>2, <1>2 DEF AnswersWereTrue
  <2> QED
    BY <2>1, <2>2
<1>4. UpToDate'
  <2> SUFFICES ASSUME NEW s \in Request
               PROVE  /\ pc'[s] # "answered" => ~answer'[s].verified
                      /\ pc'[s] \in {"reading", "checking"} =>
                           about'[s] \in Switch /\ After(about'[s]) \in seen'[s]
                      /\ pc'[s] = "writing" /\ op'[s] = "set" => about'[s] \in Switch
    BY DEF UpToDate, Is, After
  <2>1. CASE s = r
    BY <2>1, <1>1
  <2>2. CASE s # r
    <3>1. /\ pc[s] # "answered" => ~answer[s].verified
          /\ pc[s] \in {"reading", "checking"} => about[s] \in Switch /\ Is(about[s]) \in seen[s]
          /\ pc[s] = "writing" /\ op[s] = "set" => about[s] \in Switch
      BY DEF UpToDate
    <3> HIDE DEF Says, Locals, IInv, TypeOK
    <3> QED
      BY <2>2, <1>2, <3>1
  <2> QED
    BY <2>1, <2>2
<1>5. /\ op' \in [Request -> {"none", "set", "toggle", "state", "run", "run and trust",
                              "inhibit on", "inhibit off"}]
      /\ about' \in [Request -> Switch \cup Process \cup {None}]
      /\ want' \in [Request -> State]
      /\ pc' \in [Request -> {"idle", "reading", "writing", "checking", "waiting",
                              "creating", "created", "answered"}]
  BY DEF State
<1>6. answer' \in [Request -> [state : State \cup {"none", "unknown", "requested", "error",
                                                  "inhibited", "released"},
                               verified : BOOLEAN]]
  OBVIOUS
<1>7. HandlerTypes'
  BY <1>5, <1>6 DEF HandlerTypes
<1> HIDE DEF Says, Locals, IInv, TypeOK
<1> QED
  BY <1>1, <1>2, <1>3, <1>4, <1>7

\* The same for a handler outside the inhibitor's, with the whole invariant.
LEMMA OrdinarySays ==
  ASSUME IInv, NEW r \in Request, NEW state, NEW verified \in BOOLEAN,
         state \in State \cup {"unknown", "requested", "error", "inhibited", "released"},
         Says(r, state, verified), on' \subseteq Switch, seen' \in [Request -> SUBSET State],
         verified /\ state \in State => state \in seen'[r],
         \A s \in Request \ {r} :
           /\ seen[s] \subseteq seen'[s]
           /\ about[s] \in Switch =>
                After(about[s]) \in seen'[s] \/ After(about[s]) = Is(about[s]),
         UNCHANGED inhibitorVars, pc[r] \notin {"creating", "created"}
  PROVE  IInv'
<1>1. /\ UpToDate' /\ AnswersWereTrue'
      /\ HandlerTypes'
      /\ pc'[r] = "answered"
      /\ \A s \in Request \ {r} : pc'[s] = pc[s] /\ about'[s] = about[s]
  BY SaysKeeps
<1>2. \A s \in Request : pc'[s] \in {"creating", "created"} <=> lock' = s
  <2>1. \A s \in Request : pc[s] \in {"creating", "created"} <=> lock = s
    BY DEF IInv, TypeOK
  <2> QED
    BY <1>1, <2>1 DEF inhibitorVars
<1>3. lock' \in Request \cup {None} /\ tracked' \in Process \cup {None}
      /\ process' \in [Process -> {"none", "live", "terminating", "dead", "reaped"}]
  BY DEF IInv, TypeOK, inhibitorVars
<1>4. TypeOK'
  BY <1>1, <1>2, <1>3 DEF TypeOK, HandlerTypes
<1>5. InhibitorInv'
  BY <1>1, <1>4, OrdinaryKeeps DEF IInv, Ordinary
<1> QED
  BY <1>1, <1>4, <1>5 DEF IInv

\* Nothing has moved.
LEMMA Still ==
  ASSUME IInv, UNCHANGED machineVars
  PROVE  /\ on' \subseteq Switch /\ seen' \in [Request -> SUBSET State]
         /\ \A s \in Request : seen'[s] = seen[s]
         /\ \A d : After(d) = Is(d)
BY DEF IInv, TypeOK, machineVars, After, Is

\* A switch was moved, and those concerned have seen it.
LEMMA Moved ==
  ASSUME IInv, NEW d \in Switch, NEW state \in State, Turn(d, state)
  PROVE  /\ on' \subseteq Switch
         /\ Witness(d, state) \in [Request -> SUBSET State]
         /\ \A s \in Request : /\ seen[s] \subseteq Witness(d, state)[s]
                               /\ about[s] = d => state \in Witness(d, state)[s]
         /\ After(d) = state
         /\ \A e : e # d => After(e) = Is(e)
BY DEF IInv, TypeOK, Turn, Witness, After, Is, State

\* A switch is on or off.
LEMMA IsState == \A d : Is(d) \in State
BY DEF Is, State

-----------------------------------------------------------------------------
\* Requests that are answered without an await.
LEMMA AtOnceKeeps ==
  ASSUME IInv, NEW r \in Request, AnswersAtOnce(r) \/ sleep_inhibit_state(r)
  PROVE  IInv'
<1>1. pc[r] = "idle" /\ UNCHANGED machineVars /\ UNCHANGED inhibitorVars
  BY DEF AnswersAtOnce, sleep_inhibit_state
<1>2. PICK state \in {"error", "unknown", "inhibited", "released"}, verified \in BOOLEAN :
        Says(r, state, verified)
  BY DEF AnswersAtOnce, sleep_inhibit_state
<1>3. state \notin State
  BY DEF State
<1> QED
  BY <1>1, <1>2, <1>3, Still, OrdinarySays

\* A request that reaches its handler has seen its switch as it is.
LEMMA ExecuteKeeps ==
  ASSUME IInv, NEW r \in Request, Offered(r)
  PROVE  IInv'
<1>1. PICK o \in {"set", "toggle", "state", "run", "run and trust", "inhibit on", "inhibit off"},
           d \in Switch \cup {None}, w \in State :
        /\ execute(r, o, d, w)
        /\ o \in {"set", "toggle", "state"} => d \in Switch
  BY DEF Offered, State
<1>2. FirstAwait(o) \in {"reading", "writing", "waiting"} /\ (FirstAwait(o) = "reading" => d \in Switch)
  BY <1>1 DEF FirstAwait
<1>3. TypeOK'
  <2>1. UNCHANGED <<on, answer, lock, tracked, process>>
    BY <1>1 DEF execute, Goto, inhibitorVars
  <2>2. /\ op' \in [Request -> {"none", "set", "toggle", "state", "run", "run and trust",
                                "inhibit on", "inhibit off"}]
        /\ about' \in [Request -> Switch \cup Process \cup {None}]
        /\ want' \in [Request -> State]
    BY <1>1 DEF execute, Locals, IInv, TypeOK
  <2>3. seen' \in [Request -> SUBSET State]
    BY <1>1, IsState DEF execute, IInv, TypeOK
  <2>4. pc[r] = "idle" /\ pc' = [pc EXCEPT ![r] = FirstAwait(o)]
    BY <1>1 DEF execute, Goto
  <2>5. /\ pc' \in [Request -> {"idle", "reading", "writing", "checking", "waiting",
                                "creating", "created", "answered"}]
        /\ \A s \in Request : pc'[s] \in {"creating", "created"} <=> lock = s
    BY <1>2, <2>4 DEF IInv, TypeOK
  <2> QED
    BY <2>1, <2>2, <2>3, <2>5 DEF IInv, TypeOK
<1>4. InhibitorInv'
  <2>1. Ordinary(r)
    BY <1>1, <1>2 DEF execute, Locals, Goto, IInv, TypeOK, Ordinary
  <2> QED
    BY <1>3, <2>1, OrdinaryKeeps DEF IInv
<1>5. UpToDate'
  <2>1. ASSUME NEW s \in Request, s # r PROVE
          /\ pc'[s] = pc[s] /\ about'[s] = about[s] /\ op'[s] = op[s]
          /\ seen'[s] = seen[s]
    BY <1>1, <2>1 DEF execute, Locals, Goto, IInv, TypeOK
  <2>2. pc'[r] = FirstAwait(o) /\ about'[r] = d /\ op'[r] = o
        /\ seen'[r] = IF d = None THEN {} ELSE {Is(d)}
    BY <1>1 DEF execute, Locals, Goto, IInv, TypeOK
  <2>3. on' = on /\ answer' = answer /\ pc[r] = "idle" /\ None \notin Switch
    BY <1>1, AgentConstants DEF execute, Goto
  <2> QED
    BY <1>1, <1>2, <2>1, <2>2, <2>3 DEF IInv, UpToDate, Is
<1>6. AnswersWereTrue'
  <2>1. answer' = answer /\ \A s \in Request \ {r} : seen'[s] = seen[s]
    BY <1>1 DEF execute, Goto, IInv, TypeOK
  <2>2. ~answer[r].verified
    BY <1>1 DEF execute, IInv, UpToDate
  <2> QED
    BY <2>1, <2>2 DEF IInv, AnswersWereTrue
<1> QED
  BY <1>3, <1>4, <1>5, <1>6 DEF IInv

\* A query, or the first half of a toggle.
LEMMA ReadsKeeps ==
  ASSUME IInv, NEW r \in Request, Reads(r)
  PROVE  IInv'
<1>1. PICK state \in {Is(about[r]), "unknown"} :
        IF op[r] = "toggle"
          THEN Locals(r, "set", about[r], Opposite(state)) /\ Goto(r, "writing")
          ELSE Says(r, state, TRUE)
  BY DEF Reads
<1>2. pc[r] = "reading" /\ UNCHANGED machineVars /\ UNCHANGED inhibitorVars
  BY DEF Reads
<1>3. about[r] \in Switch /\ Is(about[r]) \in seen[r] /\ ~answer[r].verified
  BY <1>2 DEF IInv, UpToDate
<1>4. CASE op[r] # "toggle"
  <2>1. state \in State \cup {"unknown"} /\ (state \in State => state \in seen[r])
    BY <1>3, IsState DEF State
  <2> QED
    BY <1>1, <1>2, <1>4, <2>1, Still, OrdinarySays
<1>5. CASE op[r] = "toggle"
  <2>1. Locals(r, "set", about[r], Opposite(state)) /\ Goto(r, "writing")
    BY <1>1, <1>5
  <2>2. Opposite(state) \in State
    BY DEF Opposite, State
  <2>3. TypeOK'
    BY <1>2, <1>3, <2>1, <2>2 DEF IInv, TypeOK, Locals, Goto, machineVars, inhibitorVars
  <2>4. InhibitorInv'
    <3>1. Ordinary(r)
      BY <1>2, <2>1 DEF Locals, Goto, IInv, TypeOK, Ordinary
    <3> QED
      BY <2>3, <3>1, OrdinaryKeeps DEF IInv
  <2>5. /\ pc'[r] = "writing" /\ about'[r] = about[r] /\ answer' = answer
        /\ \A s \in Request \ {r} : pc'[s] = pc[s] /\ about'[s] = about[s] /\ op'[s] = op[s]
    BY <2>1 DEF Locals, Goto, IInv, TypeOK
  <2>6. on' = on /\ seen' = seen
    BY <1>2 DEF machineVars
  <2>7. UpToDate'
    BY <1>3, <2>5, <2>6 DEF IInv, UpToDate, Is
  <2>8. AnswersWereTrue'
    BY <2>5, <2>6 DEF IInv, AnswersWereTrue
  <2> QED
    BY <2>3, <2>4, <2>7, <2>8 DEF IInv
<1> QED
  BY <1>4, <1>5

\* A write: the handlers concerned see what the switch has become.
LEMMA WritesKeeps ==
  ASSUME IInv, NEW r \in Request, Writes(r)
  PROVE  IInv'
<1>1. pc[r] = "writing" /\ about[r] \in Switch /\ ~answer[r].verified /\ UNCHANGED inhibitorVars
  BY DEF Writes, IInv, UpToDate
<1>2. want[r] \in State /\ Is(about[r]) \in State
  BY IsState DEF IInv, TypeOK
<1>3. PICK state \in State :
        /\ Turn(about[r], state)
        /\ seen' = [Witness(about[r], state) EXCEPT ![r] = {state}]
        /\ about[r] \in Unchecked => state = want[r]
  BY <1>2 DEF Writes
<1>4. /\ on' \subseteq Switch /\ seen' \in [Request -> SUBSET State] /\ seen'[r] = {state}
      /\ After(about[r]) = state
      /\ \A s \in Request \ {r} :
           /\ seen[s] \subseteq seen'[s]
           /\ After(about[s]) \in seen'[s] \/ After(about[s]) = Is(about[s])
  <2>1. /\ on' \subseteq Switch /\ Witness(about[r], state) \in [Request -> SUBSET State]
        /\ \A s \in Request : /\ seen[s] \subseteq Witness(about[r], state)[s]
                              /\ about[s] = about[r] => state \in Witness(about[r], state)[s]
        /\ After(about[r]) = state
        /\ \A e : e # about[r] => After(e) = Is(e)
    BY <1>1, <1>3, Moved
  <2> QED
    BY <1>3, <2>1
<1>5. CASE about[r] \in Unchecked
  <2>1. Says(r, want[r], TRUE) /\ state = want[r]
    BY <1>3, <1>5 DEF Writes
  <2> QED
    BY <1>1, <1>2, <1>4, <2>1, OrdinarySays
<1>6. CASE about[r] \notin Unchecked
  <2>1. Goto(r, "checking") /\ UNCHANGED <<op, about, want>>
    BY <1>6 DEF Writes
  <2>2. TypeOK'
    BY <1>1, <1>4, <2>1 DEF IInv, TypeOK, Goto, inhibitorVars
  <2>3. InhibitorInv'
    <3>1. Ordinary(r)
      BY <1>1, <2>1 DEF Goto, IInv, TypeOK, Ordinary
    <3> QED
      BY <2>2, <3>1, OrdinaryKeeps DEF IInv
  <2>4. /\ pc'[r] = "checking" /\ answer' = answer /\ about' = about /\ op' = op
        /\ \A s \in Request \ {r} : pc'[s] = pc[s]
    BY <2>1 DEF Goto, IInv, TypeOK
  <2>5. UpToDate'
    <3> SUFFICES ASSUME NEW s \in Request
                 PROVE  /\ pc'[s] # "answered" => ~answer[s].verified
                        /\ pc'[s] \in {"reading", "checking"} =>
                             about[s] \in Switch /\ After(about[s]) \in seen'[s]
                        /\ pc'[s] = "writing" /\ op[s] = "set" => about[s] \in Switch
      BY <2>4 DEF UpToDate, Is, After
    <3>1. CASE s = r
      BY <1>1, <1>4, <2>4, <3>1
    <3>2. CASE s # r
      <4>1. /\ pc[s] # "answered" => ~answer[s].verified
            /\ pc[s] \in {"reading", "checking"} => about[s] \in Switch /\ Is(about[s]) \in seen[s]
            /\ pc[s] = "writing" /\ op[s] = "set" => about[s] \in Switch
        BY DEF IInv, UpToDate
      <4> QED
        BY <1>4, <2>4, <3>2, <4>1
    <3> QED
      BY <3>1, <3>2
  <2>6. AnswersWereTrue'
    BY <1>1, <1>4, <2>4 DEF IInv, AnswersWereTrue
  <2> QED
    BY <2>2, <2>3, <2>5, <2>6 DEF IInv
<1> QED
  BY <1>5, <1>6

\* The query after a write.
LEMMA ChecksKeeps ==
  ASSUME IInv, NEW r \in Request, Checks(r)
  PROVE  IInv'
<1>1. pc[r] = "checking" /\ UNCHANGED machineVars /\ UNCHANGED inhibitorVars
  BY DEF Checks
<1>2. PICK state \in {Is(about[r]), "unknown"} : Says(r, state, state = want[r])
  BY DEF Checks
<1>3. about[r] \in Switch /\ Is(about[r]) \in seen[r]
  BY <1>1 DEF IInv, UpToDate
<1>4. /\ state \in State \cup {"unknown"} /\ (state \in State => state \in seen[r])
      /\ (state = want[r]) \in BOOLEAN
  BY <1>3, IsState DEF State
<1> QED
  BY <1>1, <1>2, <1>4, Still, OrdinarySays

\* A program that is no switch.
LEMMA RunsKeeps ==
  ASSUME IInv, NEW r \in Request, Runs(r)
  PROVE  IInv'
<1>1. /\ pc[r] = "writing" /\ UNCHANGED machineVars /\ UNCHANGED inhibitorVars
      /\ Says(r, "requested", op[r] = "run and trust")
  BY DEF Runs
<1>2. (op[r] = "run and trust") \in BOOLEAN /\ "requested" \notin State
  BY DEF State
<1> QED
  BY <1>1, <1>2, Still, OrdinarySays

\* A program or OBS that fails.
LEMMA FailsKeeps ==
  ASSUME IInv, NEW r \in Request, Fails(r)
  PROVE  IInv'
<1>1. pc[r] \in {"reading", "writing", "checking"} /\ UNCHANGED inhibitorVars /\ Says(r, "error", FALSE)
  BY DEF Fails
<1>2. CASE UNCHANGED machineVars
  BY <1>1, <1>2, Still, OrdinarySays
<1>3. CASE /\ pc[r] = "writing" /\ op[r] = "set"
           /\ Turn(about[r], want[r]) /\ seen' = Witness(about[r], want[r])
  <2>1. about[r] \in Switch /\ want[r] \in State
    BY <1>3 DEF IInv, UpToDate, TypeOK
  <2>2. /\ on' \subseteq Switch /\ seen' \in [Request -> SUBSET State]
        /\ \A s \in Request : /\ seen[s] \subseteq seen'[s]
                              /\ about[s] = about[r] => want[r] \in seen'[s]
        /\ After(about[r]) = want[r]
        /\ \A e : e # about[r] => After(e) = Is(e)
    BY <1>3, <2>1, Moved
  <2>3. \A s \in Request : After(about[s]) \in seen'[s] \/ After(about[s]) = Is(about[s])
    BY <2>2
  <2> QED
    BY <1>1, <2>2, <2>3, OrdinarySays
<1> QED
  BY <1>2, <1>3 DEF Fails

\* A request that is answered makes room.
LEMMA GoneKeeps ==
  ASSUME IInv, NEW r \in Request, Gone(r)
  PROVE  IInv'
<1>1. /\ pc[r] = "answered" /\ pc' = [pc EXCEPT ![r] = "idle"]
      /\ answer' = [answer EXCEPT ![r] = NoAnswer] /\ seen' = [seen EXCEPT ![r] = {}]
      /\ UNCHANGED <<on, op, about, want>> /\ UNCHANGED inhibitorVars
  BY DEF Gone
<1>2. TypeOK'
  BY <1>1 DEF IInv, TypeOK, inhibitorVars, NoAnswer
<1>3. InhibitorInv'
  <2>1. Ordinary(r)
    BY <1>1 DEF IInv, TypeOK, Ordinary
  <2> QED
    BY <1>2, <2>1, OrdinaryKeeps DEF IInv
<1>4. /\ pc'[r] = "idle" /\ ~answer'[r].verified
      /\ \A s \in Request \ {r} : pc'[s] = pc[s] /\ answer'[s] = answer[s] /\ seen'[s] = seen[s]
  BY <1>1 DEF IInv, TypeOK, NoAnswer
<1>5. UpToDate'
  BY <1>1, <1>4 DEF IInv, UpToDate, Is
<1>6. AnswersWereTrue'
  BY <1>4 DEF IInv, AnswersWereTrue
<1> QED
  BY <1>2, <1>3, <1>5, <1>6 DEF IInv

\* A switch that is moved by hand.
LEMMA HandKeeps ==
  ASSUME IInv, NEW d \in Switch, MovedByHand(d)
  PROVE  IInv'
<1>1. PICK state \in State : Turn(d, state) /\ seen' = Witness(d, state)
  BY DEF MovedByHand
<1>2. UNCHANGED requestVars /\ UNCHANGED inhibitorVars
  BY DEF MovedByHand
<1>3. /\ on' \subseteq Switch /\ seen' \in [Request -> SUBSET State]
      /\ \A s \in Request : /\ seen[s] \subseteq seen'[s]
                            /\ about[s] = d => state \in seen'[s]
      /\ After(d) = state
      /\ \A e : e # d => After(e) = Is(e)
  BY <1>1, Moved
<1>4. TypeOK'
  BY <1>2, <1>3 DEF IInv, TypeOK, requestVars, inhibitorVars
<1>5. InhibitorInv'
  BY <1>2 DEF IInv, InhibitorInv, Kept, Creation, Owned, requestVars, inhibitorVars
<1>6. UpToDate'
  <2> SUFFICES ASSUME NEW s \in Request
               PROVE  /\ pc[s] # "answered" => ~answer[s].verified
                      /\ pc[s] \in {"reading", "checking"} =>
                           about[s] \in Switch /\ After(about[s]) \in seen'[s]
                      /\ pc[s] = "writing" /\ op[s] = "set" => about[s] \in Switch
    BY <1>2 DEF UpToDate, Is, After, requestVars
  <2>1. /\ pc[s] # "answered" => ~answer[s].verified
        /\ pc[s] \in {"reading", "checking"} => about[s] \in Switch /\ Is(about[s]) \in seen[s]
        /\ pc[s] = "writing" /\ op[s] = "set" => about[s] \in Switch
    BY DEF IInv, UpToDate
  <2> QED
    BY <1>3, <2>1
<1>7. AnswersWereTrue'
  BY <1>2, <1>3 DEF IInv, AnswersWereTrue, requestVars
<1> QED
  BY <1>4, <1>5, <1>6, <1>7 DEF IInv

-----------------------------------------------------------------------------
\* A handler of the inhibitor that answers touches no switch.
LEMMA InhibitorSays ==
  ASSUME IInv, NEW r \in Request, NEW state \in {"error", "inhibited", "released"},
         NEW verified \in BOOLEAN, Says(r, state, verified), UNCHANGED machineVars,
         lock' \in Request \cup {None}, tracked' \in Process \cup {None},
         process' \in [Process -> {"none", "live", "terminating", "dead", "reaped"}],
         \A s \in Request : pc'[s] \in {"creating", "created"} <=> lock' = s,
         InhibitorInv'
  PROVE  IInv'
<1>1. state \notin State
  BY DEF State
<1>2. /\ UpToDate' /\ AnswersWereTrue'
      /\ HandlerTypes'
  <2>1. /\ on' \subseteq Switch /\ seen' \in [Request -> SUBSET State]
        /\ \A s \in Request : seen'[s] = seen[s] /\ After(about[s]) = Is(about[s])
    BY Still
  <2> QED
    BY <1>1, <2>1, SaysKeeps
<1>3. TypeOK'
  BY <1>2, Still DEF TypeOK, HandlerTypes
<1> QED
  BY <1>2, <1>3 DEF IInv

\* What a step of one handler says about the others.
LEMMA OthersStay ==
  ASSUME IInv, NEW r \in Request, NEW state, NEW verified, Says(r, state, verified)
  PROVE  /\ pc'[r] = "answered"
         /\ \A s \in Request \ {r} : pc'[s] = pc[s] /\ about'[s] = about[s]
BY DEF IInv, TypeOK, Says, Locals

\* _sleep_inhibit_on up to the creation of the process.
LEMMA OnKeeps ==
  ASSUME IInv, NEW r \in Request, sleep_inhibit_on(r)
  PROVE  IInv'
<1>1. /\ pc[r] = "waiting" /\ lock = None /\ UNCHANGED machineVars
      /\ tracked' = tracked /\ process' = process
  BY DEF sleep_inhibit_on, Enters
<1>2. \A s \in Request : pc[s] \notin {"creating", "created"}
  BY <1>1, AgentConstants DEF IInv, TypeOK
<1>3. tracked \in Process \cup {None}
      /\ process \in [Process -> {"none", "live", "terminating", "dead", "reaped"}]
  BY DEF IInv, TypeOK
<1>4. CASE Inhibited
  <2>1. Says(r, "inhibited", TRUE) /\ lock' = None
    BY <1>1, <1>4 DEF sleep_inhibit_on
  <2>2. \A s \in Request : pc'[s] \notin {"creating", "created"}
    BY <1>2, <2>1, OthersStay
  <2>3. InhibitorInv'
    BY <1>1, <1>2, <2>2 DEF IInv, InhibitorInv, Kept, Creation, Owned
  <2>4. \A s \in Request : pc'[s] \in {"creating", "created"} <=> lock' = s
    BY <2>1, <2>2, AgentConstants
  <2> QED
    BY <1>1, <1>3, <2>1, <2>3, <2>4, InhibitorSays
<1>5. CASE ~Inhibited
  <2>1. Goto(r, "creating") /\ lock' = r /\ UNCHANGED <<op, about, want>>
    BY <1>5 DEF sleep_inhibit_on
  <2>2. /\ pc'[r] = "creating" /\ answer' = answer /\ on' = on /\ seen' = seen
        /\ \A s \in Request \ {r} : pc'[s] = pc[s]
    BY <1>1, <2>1 DEF IInv, TypeOK, Goto, machineVars
  <2>3. TypeOK'
    <3>1. \A s \in Request : pc'[s] \in {"creating", "created"} <=> lock' = s
      BY <1>2, <2>1, <2>2
    <3> QED
      BY <1>1, <2>1, <2>2, <3>1 DEF IInv, TypeOK, Goto
  <2>4. tracked = None \/ process[tracked] = "reaped"
    BY <1>5 DEF Inhibited
  <2>5. InhibitorInv'
    BY <1>1, <1>2, <2>1, <2>2, <2>4 DEF IInv, InhibitorInv, Kept, Creation, Owned
  <2>6. UpToDate' /\ AnswersWereTrue'
    BY <1>1, <2>1, <2>2 DEF IInv, UpToDate, AnswersWereTrue, Is
  <2> QED
    BY <2>3, <2>5, <2>6 DEF IInv
<1> QED
  BY <1>4, <1>5

\* _sleep_inhibit_off.
LEMMA OffKeeps ==
  ASSUME IInv, NEW r \in Request, sleep_inhibit_off(r)
  PROVE  IInv'
<1>1. /\ lock = None /\ lock' = None /\ UNCHANGED machineVars /\ Says(r, "released", TRUE)
  BY DEF sleep_inhibit_off, Enters
<1>2. \A s \in Request : pc[s] \notin {"creating", "created"}
  BY <1>1, AgentConstants DEF IInv, TypeOK
<1>3. \A s \in Request : pc'[s] \notin {"creating", "created"}
  BY <1>1, <1>2, OthersStay
<1>4. /\ tracked' \in Process \cup {None}
      /\ process' \in [Process -> {"none", "live", "terminating", "dead", "reaped"}]
  BY DEF sleep_inhibit_off, IInv, TypeOK
<1>5. \A p \in Process : process[p] = "live" => p = tracked
  BY <1>2 DEF IInv, InhibitorInv, Owned
<1>6. InhibitorInv'
  <2>1. CASE Inhibited
    <3>1. /\ process' = [process EXCEPT ![tracked] = IF @ = "live" THEN "terminating" ELSE "none"]
          /\ tracked' = None /\ tracked \in Process
      BY <2>1 DEF sleep_inhibit_off, Inhibited, IInv, TypeOK
    <3>2. \A p \in Process : process'[p] # "live"
      BY <1>5, <3>1 DEF IInv, TypeOK
    <3> QED
      BY <1>3, <3>1, <3>2 DEF InhibitorInv, Kept, Creation, Owned
  <2>2. CASE ~Inhibited
    <3>1. process' = process /\ tracked' = tracked
      BY <2>2 DEF sleep_inhibit_off
    <3> QED
      BY <1>3, <1>5, <3>1 DEF IInv, InhibitorInv, Kept, Creation, Owned
  <2> QED
    BY <2>1, <2>2
<1>7. \A s \in Request : pc'[s] \in {"creating", "created"} <=> lock' = s
  BY <1>1, <1>3, AgentConstants
<1> QED
  BY <1>1, <1>4, <1>6, <1>7, InhibitorSays

\* The process runs before its creator knows.
LEMMA ForksKeeps ==
  ASSUME IInv, NEW r \in Request, Forks(r)
  PROVE  IInv'
<1>1. PICK p \in Process :
        /\ process[p] = "none" /\ process' = [process EXCEPT ![p] = "live"]
        /\ about' = [about EXCEPT ![r] = p]
  BY DEF Forks
<1>2. /\ pc[r] = "creating" /\ Goto(r, "created") /\ UNCHANGED <<op, want, lock, tracked>>
      /\ UNCHANGED machineVars
  BY DEF Forks
<1>3. /\ pc'[r] = "created" /\ about'[r] = p /\ process'[p] = "live" /\ answer' = answer
      /\ \A s \in Request \ {r} : pc'[s] = pc[s] /\ about'[s] = about[s]
      /\ \A q \in Process \ {p} : process'[q] = process[q]
  BY <1>1, <1>2 DEF IInv, TypeOK, Goto
<1>4. \A s \in Request \ {r} : pc[s] \notin {"creating", "created"}
  BY <1>2 DEF IInv, TypeOK
<1>5. TypeOK'
  <2>1. \A s \in Request : pc'[s] \in {"creating", "created"} <=> lock' = s
    BY <1>2, <1>3 DEF IInv, TypeOK
  <2> QED
    BY <1>1, <1>2, <2>1 DEF IInv, TypeOK, Goto, machineVars
<1>6. tracked = None \/ process[tracked] = "reaped"
  BY <1>2 DEF IInv, InhibitorInv, Creation
<1>7. p # tracked /\ (tracked # None => tracked \in Process)
  BY <1>1, <1>6, AgentConstants DEF IInv, TypeOK
<1>8. InhibitorInv'
  <2>1. Kept'
    BY <1>2, <1>3, <1>7 DEF IInv, InhibitorInv, Kept
  <2>2. Creation'
    BY <1>2, <1>3, <1>4, <1>6, <1>7 DEF Creation
  <2>3. Owned'
    BY <1>2, <1>3, <1>4 DEF IInv, InhibitorInv, Owned
  <2> QED
    BY <2>1, <2>2, <2>3 DEF InhibitorInv
<1>9. UpToDate' /\ AnswersWereTrue'
  BY <1>2, <1>3 DEF IInv, UpToDate, AnswersWereTrue, Is, machineVars
<1> QED
  BY <1>5, <1>8, <1>9 DEF IInv

\* The creator keeps the process and leaves the lock.
LEMMA CreatedKeeps ==
  ASSUME IInv, NEW r \in Request, Created(r)
  PROVE  IInv'
<1>1. /\ pc[r] = "created" /\ tracked' = about[r] /\ lock' = None
      /\ process' = [p \in Process |-> IF p = tracked THEN Forgotten(p) ELSE process[p]]
      /\ Says(r, "inhibited", TRUE) /\ UNCHANGED machineVars
  BY DEF Created
<1>2. /\ about[r] \in Process /\ about[r] # tracked /\ process[about[r]] \in {"live", "dead"}
      /\ tracked = None \/ process[tracked] = "reaped"
  BY <1>1 DEF IInv, InhibitorInv, Creation
<1>3. \A s \in Request \ {r} : pc[s] \notin {"creating", "created"}
  BY <1>1 DEF IInv, TypeOK
<1>4. \A s \in Request : pc'[s] \notin {"creating", "created"}
  BY <1>1, <1>3, OthersStay
<1>5. process' \in [Process -> {"none", "live", "terminating", "dead", "reaped"}]
  BY <1>1 DEF IInv, TypeOK, Forgotten
<1>6. \A p \in Process : process'[p] = "live" => p = about[r]
  <2> SUFFICES ASSUME NEW p \in Process, process'[p] = "live" PROVE p = about[r]
    OBVIOUS
  <2>1. CASE p = tracked
    <3>1. process[p] = "reaped"
      BY <1>2, <2>1, AgentConstants
    <3> QED
      BY <1>1, <2>1, <3>1 DEF Forgotten
  <2>2. CASE p # tracked
    <3>1. process[p] = "live"
      BY <1>1, <2>2
    <3>2. PICK s \in Request : pc[s] = "created" /\ about[s] = p
      BY <2>2, <3>1 DEF IInv, InhibitorInv, Owned
    <3> QED
      BY <1>3, <3>2
  <2> QED
    BY <2>1, <2>2
<1>7. InhibitorInv'
  BY <1>1, <1>2, <1>4, <1>6 DEF InhibitorInv, Kept, Creation, Owned
<1>8. \A s \in Request : pc'[s] \in {"creating", "created"} <=> lock' = s
  BY <1>1, <1>4, AgentConstants
<1> QED
  BY <1>1, <1>2, <1>5, <1>7, <1>8, InhibitorSays

\* A creation that fails leaves the lock, and no process.
LEMMA CreationFailsKeeps ==
  ASSUME IInv, NEW r \in Request, CreationFails(r)
  PROVE  IInv'
<1>1. /\ pc[r] = "creating" /\ lock' = None /\ tracked' = tracked /\ process' = process
      /\ Says(r, "error", FALSE) /\ UNCHANGED machineVars
  BY DEF CreationFails
<1>2. \A s \in Request : s # r => pc[s] \notin {"creating", "created"}
  BY <1>1 DEF IInv, TypeOK
<1>3. \A s \in Request : pc'[s] \notin {"creating", "created"}
  BY <1>1, <1>2, OthersStay
<1>4. InhibitorInv'
  BY <1>1, <1>2, <1>3 DEF IInv, InhibitorInv, Kept, Creation, Owned
<1>5. \A s \in Request : pc'[s] \in {"creating", "created"} <=> lock' = s
  BY <1>1, <1>3, AgentConstants
<1>6. /\ tracked' \in Process \cup {None}
      /\ process' \in [Process -> {"none", "live", "terminating", "dead", "reaped"}]
  BY <1>1 DEF IInv, TypeOK
<1> QED
  BY <1>1, <1>4, <1>5, <1>6, InhibitorSays

\* A process that ends, and that is noticed to have ended.
LEMMA ProcessKeeps ==
  ASSUME IInv, NEW p \in Process, Exits(p) \/ Noticed(p)
  PROVE  IInv'
<1>1. UNCHANGED <<lock, tracked>> /\ UNCHANGED requestVars /\ UNCHANGED machineVars
  BY DEF Exits, Noticed
<1>2. /\ process' \in [Process -> {"none", "live", "terminating", "dead", "reaped"}]
      /\ \A q \in Process \ {p} : process'[q] = process[q]
      /\ process'[p] \in {"none", "dead", "reaped"}
      /\ process'[p] = "none" => ~ReferredTo(p)
      /\ process'[p] = "reaped" => p = tracked
  BY DEF Exits, Noticed, IInv, TypeOK
<1>3. None \notin Process /\ tracked \in Process \cup {None}
  BY AgentConstants DEF IInv, TypeOK
<1>4. TypeOK'
  BY <1>1, <1>2 DEF IInv, TypeOK, requestVars, machineVars
<1>5. process[p] # "reaped"
  BY DEF Exits, Noticed
<1>6. InhibitorInv'
  <2>1. Kept'
    BY <1>1, <1>2, <1>3 DEF IInv, InhibitorInv, Kept, ReferredTo
  <2>2. Creation'
    BY <1>1, <1>2, <1>3, <1>5 DEF IInv, InhibitorInv, Creation, ReferredTo, requestVars
  <2>3. Owned'
    BY <1>1, <1>2 DEF IInv, InhibitorInv, Owned, requestVars
  <2> QED
    BY <2>1, <2>2, <2>3 DEF InhibitorInv
<1>7. UpToDate' /\ AnswersWereTrue'
  BY <1>1 DEF IInv, UpToDate, AnswersWereTrue, Is, requestVars, machineVars
<1> QED
  BY <1>4, <1>6, <1>7 DEF IInv

-----------------------------------------------------------------------------
\* The inductive invariant of the agent holds in every behaviour.
THEOREM AgentInvariance == Spec => []IInv
<1>1. IInv /\ [Next]_vars => IInv'
  <2> SUFFICES ASSUME IInv, [Next]_vars PROVE IInv'
    OBVIOUS
  <2>1. CASE Next
    <3>1. ASSUME NEW r \in Request, InhibitorStep(r) PROVE IInv'
      BY <3>1, OnKeeps, OffKeeps, ForksKeeps, CreatedKeeps, CreationFailsKeeps DEF InhibitorStep
    <3> QED
      BY <2>1, <3>1, ExecuteKeeps, AtOnceKeeps, ReadsKeeps, WritesKeeps, ChecksKeeps, RunsKeeps,
         FailsKeeps, GoneKeeps, ProcessKeeps, HandKeeps DEF Next
  <2>2. CASE UNCHANGED vars
    BY <2>2 DEF vars, machineVars, inhibitorVars, requestVars, IInv, TypeOK, InhibitorInv, Kept,
                Creation, Owned, UpToDate, AnswersWereTrue, Is
  <2> QED
    BY <2>1, <2>2
<1> QED
  BY InitHolds, <1>1, PTL DEF Spec

\* The agent's state keeps its type, and its lock belongs to the handler that
\* creates a process (executor.py, _caffeinate_lock).
THEOREM AgentTypes == Spec => []TypeOK
<1>1. IInv => TypeOK
  BY DEF IInv
<1> QED
  BY AgentInvariance, <1>1, PTL

\* Never more than one sleep inhibitor, and none that the agent has lost
\* (executor.py, _sleep_inhibit_on and _sleep_inhibit_off).
THEOREM SingleInhibitor == Spec => []OneInhibitor
<1>1. IInv => OneInhibitor
  BY OneFollows DEF IInv
<1> QED
  BY AgentInvariance, <1>1, PTL

\* Every verified answer about a switch was true (executor.py, _ok).
THEOREM Truthful == Spec => []AnswersWereTrue
<1>1. IInv => AnswersWereTrue
  BY DEF IInv
<1> QED
  BY AgentInvariance, <1>1, PTL

-----------------------------------------------------------------------------
(***************************************************************************)
(* The agent's token issuer and the calls its tokens are made for          *)
(* (BrokerIdentity), for any number of clients, any lifetime, skew, margin *)
(* and timeouts and any clocks.                                            *)
(*                                                                         *)
(* A refusal is decided by the age of the token when it reaches the        *)
(* broker.  That age is bounded by how old a token can be when it is       *)
(* attached to a call, and by how long the call has lasted since.          *)
(***************************************************************************)
\* The oldest token a call can set out with: one that took its whole timeout
\* to arrive, or one reused in the last second in which it may be.
Worst == IF TOKEN_TIMEOUT < TTL - MARGIN - 1 THEN TTL - MARGIN - 1 ELSE TOKEN_TIMEOUT

\* No fetch outlasts its timeout.
InTime ==
  \A c \in Client :
    /\ call[c] \in Fetching => waited[c] <= TOKEN_TIMEOUT
    /\ call[c] \in Calling => waited[c] <= CALL_TIMEOUT

\* How old the token of a fetch can be.
Aged ==
  \A c \in Client :
    /\ call[c] = "minted" => age[c] \in Nat /\ age[c] <= waited[c]
    /\ call[c] \in Calling => age[c] \in Nat /\ age[c] <= waited[c] + Worst

IdInv == IdTypeOK /\ InTime /\ Aged /\ HonestCallAccepted

-----------------------------------------------------------------------------
\* What the assumptions make of the constants.
LEMMA IdConstantTypes ==
  /\ TTL \in Nat /\ SKEW \in Int /\ MARGIN \in Int /\ TOKEN_TIMEOUT \in Nat
  /\ CALL_TIMEOUT \in Nat /\ Worst \in Nat /\ MaxAge \in Nat
  /\ Offset \subseteq Int /\ NoToken \notin Int
BY IdentityConstants DEF Worst

\* The heart of the matter: a token that is no older than a call can make it
\* is refused only by a broker whose clock is off.
LEMMA RefusalMeansSkew ==
  ASSUME IdTypeOK, NEW a \in Nat, NEW w \in Nat, w <= CALL_TIMEOUT, a <= w + Worst,
         ~verify_token(a)
  PROVE  ~ClocksAgree
<1>1. offset \in Int
  BY IdConstantTypes DEF IdTypeOK
<1>2. ~LivesTooLong
  BY IdentityConstants DEF LivesTooLong
<1>3. CASE NotYetValid(a)
  BY <1>1, <1>3, IdConstantTypes DEF NotYetValid, ClocksAgree
<1>4. CASE Expired(a)
  <2>1. offset > TTL + SKEW - a
    BY <1>1, <1>4, IdConstantTypes DEF Expired
  <2>2. LeastReserve <= TTL - Worst /\ LeastReserve \in Int
    BY IdentityConstants DEF LeastReserve, Worst
  <2> QED
    BY <1>1, <2>1, <2>2, IdConstantTypes DEF ClocksAgree
<1> QED
  BY <1>2, <1>3, <1>4 DEF verify_token

-----------------------------------------------------------------------------
\* Clients start without tokens.
LEMMA IdInitHolds == IdInit => IdInv
BY IdConstantTypes DEF IdInit, IdInv, IdTypeOK, InTime, Aged, HonestCallAccepted, Fetching, Calling

\* A second ages tokens and fetches alike, and no fetch outlasts its timeout.
LEMMA IdTickKeeps == IdInv /\ IdTick => IdInv'
<1> SUFFICES ASSUME IdInv, IdTick PROVE IdInv'
  OBVIOUS
<1> USE IdConstantTypes
<1>1. IdTypeOK'
  BY DEF IdInv, IdTypeOK, IdTick, Later
<1>2. InTime'
  BY DEF IdInv, IdTypeOK, InTime, IdTick, Fetching, Calling
<1>3. Aged'
  BY DEF IdInv, IdTypeOK, Aged, IdTick, Later, Fetching, Calling
<1>4. HonestCallAccepted'
  BY DEF IdInv, HonestCallAccepted, IdTick, ClocksAgree
<1> QED
  BY <1>1, <1>2, <1>3, <1>4 DEF IdInv

\* What an action of client c leaves alone.
OthersKept(c) ==
  \A d \in Client \ {c} : call'[d] = call[d] /\ age'[d] = age[d] /\ waited'[d] = waited[d]

\* It is enough to look at the client that moves.
LEMMA OneClient ==
  ASSUME IdInv, NEW c \in Client, offset' = offset, IdTypeOK', OthersKept(c),
         call'[c] \in Fetching => waited'[c] <= TOKEN_TIMEOUT,
         call'[c] \in Calling => waited'[c] <= CALL_TIMEOUT,
         call'[c] = "minted" => age'[c] \in Nat /\ age'[c] <= waited'[c],
         call'[c] \in Calling => age'[c] \in Nat /\ age'[c] <= waited'[c] + Worst,
         call'[c] = "refused" => ~ClocksAgree
  PROVE  IdInv'
<1>1. InTime'
  BY DEF IdInv, InTime, OthersKept
<1>2. Aged'
  BY DEF IdInv, Aged, OthersKept
<1>3. HonestCallAccepted'
  BY DEF IdInv, HonestCallAccepted, OthersKept, ClocksAgree
<1> QED
  BY <1>1, <1>2, <1>3 DEF IdInv

\* Every step of a client, its issuer or the broker keeps the invariant.
LEMMA ClientKeeps ==
  ASSUME IdInv, NEW c \in Client, ClientStep(c)
  PROVE  IdInv'
<1> USE IdConstantTypes
<1>0. IdTypeOK /\ call[c] \in {"idle"} \cup Fetching \cup Calling
  BY DEF IdInv, IdTypeOK
<1>1. CASE ReuseToken(c)
  <2>1. age[c] \in Nat /\ age[c] <= Worst
    BY <1>0, <1>1, IdentityConstants DEF ReuseToken, Reusable, IdTypeOK, Worst
  <2>2. IdTypeOK' /\ OthersKept(c) /\ offset' = offset
    BY <1>0, <1>1 DEF ReuseToken, Await, Go, IdTypeOK, OthersKept, Calling
  <2>3. call'[c] = "sent" /\ waited'[c] = 0 /\ age'[c] = age[c]
    BY <1>0, <1>1 DEF ReuseToken, Await, Go, IdTypeOK
  <2> QED
    BY <2>1, <2>2, <2>3, OneClient DEF Fetching, Calling
<1>2. CASE AskIssuer(c)
  <2>1. IdTypeOK' /\ OthersKept(c) /\ offset' = offset
    BY <1>0, <1>2 DEF AskIssuer, Await, Go, IdTypeOK, OthersKept, Fetching
  <2>2. call'[c] = "asking" /\ waited'[c] = 0
    BY <1>0, <1>2 DEF AskIssuer, Await, Go, IdTypeOK
  <2> QED
    BY <2>1, <2>2, OneClient DEF Fetching, Calling
<1>3. CASE mint(c)
  <2>1. IdTypeOK' /\ OthersKept(c) /\ offset' = offset
    BY <1>0, <1>3 DEF mint, Hold, Go, IdTypeOK, OthersKept, Fetching
  <2>2. call'[c] = "minted" /\ waited'[c] = waited[c] /\ age'[c] = 0 /\ waited[c] \in Nat
    BY <1>0, <1>3 DEF mint, Hold, Go, IdTypeOK
  <2>3. waited[c] <= TOKEN_TIMEOUT
    BY <1>3 DEF mint, IdInv, InTime, Fetching
  <2> QED
    BY <2>1, <2>2, <2>3, OneClient DEF Fetching, Calling
<1>4. CASE TokenArrives(c)
  <2>1. IdTypeOK' /\ OthersKept(c) /\ offset' = offset
    BY <1>0, <1>4 DEF TokenArrives, Await, Go, IdTypeOK, OthersKept, Calling
  <2>2. call'[c] = "sent" /\ waited'[c] = 0 /\ age'[c] = age[c] /\ waited[c] \in Nat
    BY <1>0, <1>4 DEF TokenArrives, Await, Go, IdTypeOK
  <2>3. age[c] \in Nat /\ age[c] <= waited[c] /\ waited[c] <= TOKEN_TIMEOUT
    BY <1>4 DEF TokenArrives, IdInv, InTime, Aged, Fetching
  <2>4. age[c] <= Worst
    BY <2>2, <2>3 DEF Worst
  <2> QED
    BY <2>1, <2>2, <2>3, <2>4, OneClient DEF Fetching, Calling
<1>5. CASE mint_token(c)
  <2>1. IdTypeOK' /\ OthersKept(c) /\ offset' = offset
    BY <1>0, <1>5 DEF mint_token, Hold, Await, Go, IdTypeOK, OthersKept, Calling
  <2>2. call'[c] = "sent" /\ waited'[c] = 0 /\ age'[c] = 0
    BY <1>0, <1>5 DEF mint_token, Hold, Await, Go, IdTypeOK
  <2> QED
    BY <2>1, <2>2, OneClient DEF Fetching, Calling
<1>6. CASE Authenticate(c)
  <2>1. IdTypeOK' /\ OthersKept(c) /\ offset' = offset
    BY <1>0, <1>6 DEF Authenticate, Go, IdTypeOK, OthersKept, Calling
  <2>2. /\ call'[c] = IF verify_token(age[c]) THEN "accepted" ELSE "refused"
        /\ waited'[c] = waited[c] /\ age'[c] = age[c] /\ waited[c] \in Nat
    BY <1>0, <1>6 DEF Authenticate, Go, IdTypeOK
  <2>3. age[c] \in Nat /\ age[c] <= waited[c] + Worst /\ waited[c] <= CALL_TIMEOUT
    BY <1>6 DEF Authenticate, IdInv, InTime, Aged, Calling
  <2>4. ~verify_token(age[c]) => ~ClocksAgree
    BY <1>0, <2>2, <2>3, RefusalMeansSkew
  <2>5. call'[c] \in {"accepted", "refused"} /\ (call'[c] = "refused" => ~ClocksAgree)
    BY <2>2, <2>4
  <2> QED
    BY <2>1, <2>2, <2>3, <2>5, OneClient DEF Fetching, Calling
<1>7. CASE CallReturns(c) \/ CallFails(c) \/ ClientDropped(c)
  <2>1. IdTypeOK' /\ OthersKept(c) /\ offset' = offset
    BY <1>0, <1>7 DEF CallReturns, CallFails, ClientDropped, Hold, Await, Go, IdTypeOK, OthersKept
  <2>2. call'[c] = "idle"
    BY <1>0, <1>7 DEF CallReturns, CallFails, ClientDropped, Await, Go, IdTypeOK
  <2> QED
    BY <2>1, <2>2, OneClient DEF Fetching, Calling
<1> QED
  BY <1>1, <1>2, <1>3, <1>4, <1>5, <1>6, <1>7 DEF ClientStep

\* Nothing moves.
LEMMA IdStutterKeeps == IdInv /\ UNCHANGED idVars => IdInv'
BY DEF IdInv, IdTypeOK, InTime, Aged, HonestCallAccepted, ClocksAgree, idVars

-----------------------------------------------------------------------------
\* The inductive invariant of BrokerIdentity holds in every behaviour.
THEOREM IdentityInvariance == IdSpec => []IdInv
<1>1. IdInv /\ [IdNext]_idVars => IdInv'
  BY IdTickKeeps, ClientKeeps, IdStutterKeeps DEF IdNext
<1> QED
  BY IdInitHolds, <1>1, PTL DEF IdSpec

\* Tokens and fetches keep their types (identity.ts, identity.py).
THEOREM IdentityTypes == IdSpec => []IdTypeOK
<1>1. IdInv => IdTypeOK
  BY DEF IdInv
<1> QED
  BY IdentityInvariance, <1>1, PTL

\* No genuine caller is turned away while the clocks agree, for every
\* lifetime, skew, margin and timeout (identity.ts, identity.py).
THEOREM Acceptance == IdSpec => []HonestCallAccepted
<1>1. IdInv => HonestCallAccepted
  BY DEF IdInv
<1> QED
  BY IdentityInvariance, <1>1, PTL
=============================================================================
