--------------------------- MODULE PluginCallProofs ---------------------------
(***************************************************************************)
(* Proofs about PluginCall, for any set of calls.                          *)
(***************************************************************************)
EXTENDS PluginCall, TLAPS

\* Before its request is in the socket a call has left no trace outside its
\* caller, and a call has a verdict exactly when it is done.
UnsentIsInvisible ==
  \A c \in Call :
    /\ pc[c] # "done" => verdict[c] = "none"
    /\ pc[c] \in {"idle", "queued", "connecting"} =>
         host[c] = "none" /\ reply[c] = "none" /\ gang[c] = "none" /\ ~effect[c]

\* Once the host has answered with a final error it has nothing running; a
\* request it never read has done nothing.
FinalAnswerIsLast ==
  \A c \in Call :
    /\ reply[c] \in {"failed", "reset"} => host[c] = "none" /\ gang[c] = "none"
    /\ reply[c] = "reset" => ~effect[c]

\* A failed mutation was failed by the host, or was never sent or never read, or
\* its answer could not be decoded.
FailureHasACause ==
  \A c \in Call : Failed(c) =>
    \/ reply[c] \in {"failed", "reset", "garbled"}
    \/ host[c] = "none" /\ reply[c] = "none" /\ gang[c] = "none" /\ ~effect[c]

\* The host works on a call, or has answered it, never both.
OneAnswer == \A c \in Call : host[c] # "none" => reply[c] = "none"

\* A request that was not dispatched has started nothing; a gang process whose
\* handler is gone was given up with another answer.
GangHasAHandler ==
  \A c \in Call : /\ host[c] = "request" => gang[c] = "none" /\ ~effect[c]
                  /\ gang[c] = "running" /\ host[c] = "none" => reply[c] # "none"

Inv == /\ TypeOK /\ UnsentIsInvisible /\ FinalAnswerIsLast /\ FailureHasACause
       /\ OneAnswer /\ GangHasAHandler

\* Before the first call nothing has been sent.
LEMMA InitInv == Init => Inv
  BY DEF Init, Inv, TypeOK, UnsentIsInvisible, FinalAnswerIsLast,
     FailureHasACause, OneAnswer, GangHasAHandler, Operation, Reply, Verdict,
     Failed, Mutates

\* The verdicts a call can end with.
LEMMA EndKeepsInv ==
  ASSUME Inv, NEW c \in Call, NEW v \in Verdict \ {"none"}, End(c, v),
         Mutates(c) /\ v = "plain" =>
           \/ reply[c] \in {"failed", "reset", "garbled"}
           \/ pc[c] \in {"idle", "queued", "connecting"}
  PROVE  Inv'
<1>1. TypeOK'
  BY DEF Inv, TypeOK, End, Verdict
<1>2. UnsentIsInvisible'
  BY DEF Inv, TypeOK, UnsentIsInvisible, End
<1>3. FinalAnswerIsLast' /\ OneAnswer' /\ GangHasAHandler'
  BY DEF Inv, FinalAnswerIsLast, OneAnswer, GangHasAHandler, End
<1>4. FailureHasACause'
  BY DEF Inv, TypeOK, UnsentIsInvisible, FailureHasACause, Failed, Mutates, End
<1> QED
  BY <1>1, <1>2, <1>3, <1>4 DEF Inv

\* What the host answers, while the gang process ends or goes on.
LEMMA AnswersKeepInv ==
  ASSUME Inv, NEW c \in Call, NEW r \in Reply \ {"none"}, host[c] # "none",
         Answers(c, r),
         UNCHANGED <<callVars, op, mutation, effect, up>>,
         gang' \in [Call -> {"none", "running"}],
         \A d \in Call \ {c} : gang'[d] = gang[d],
         gang'[c] = "running" => r # "failed",
         r = "reset" => gang'[c] = "none" /\ ~effect[c]
  PROVE  Inv'
<1>1. TypeOK'
  BY DEF Inv, TypeOK, Answers, callVars
<1>2. pc[c] \in {"waiting", "done"}
  BY DEF Inv, TypeOK, UnsentIsInvisible
<1>3. UnsentIsInvisible'
  BY <1>2 DEF Inv, TypeOK, UnsentIsInvisible, Answers, callVars
<1>4. FinalAnswerIsLast'
  BY DEF Inv, TypeOK, FinalAnswerIsLast, Answers
<1>5. FailureHasACause'
  BY DEF Inv, TypeOK, OneAnswer, FailureHasACause, Failed, Mutates, Answers, callVars
<1>6. OneAnswer' /\ GangHasAHandler'
  BY DEF Inv, TypeOK, OneAnswer, GangHasAHandler, Answers
<1> QED
  BY <1>1, <1>3, <1>4, <1>5, <1>6 DEF Inv

\* Every step of the broker's side keeps the invariant.
LEMMA CallerKeepsInv ==
  ASSUME Inv, NEW c \in Call, CallerStep(c)
  PROVE  Inv'
<1>1. ASSUME NEW o \in Operation, NEW m \in BOOLEAN, Enter(c, o, m) PROVE Inv'
  <2>1. TypeOK' /\ UnsentIsInvisible' /\ FailureHasACause'
    BY <1>1 DEF Inv, TypeOK, UnsentIsInvisible, FailureHasACause, Failed,
       Mutates, Enter
  <2>2. FinalAnswerIsLast' /\ OneAnswer' /\ GangHasAHandler'
    BY <1>1 DEF Inv, FinalAnswerIsLast, OneAnswer, GangHasAHandler, Enter
  <2> QED
    BY <2>1, <2>2 DEF Inv
<1>2. CASE Rejected(c)
  BY <1>2, EndKeepsInv DEF Rejected, Verdict
<1>3. CASE Admitted(c)
  <2>1. TypeOK' /\ UnsentIsInvisible' /\ FailureHasACause'
    BY <1>3 DEF Inv, TypeOK, UnsentIsInvisible, FailureHasACause, Failed,
       Mutates, Admitted
  <2>2. FinalAnswerIsLast' /\ OneAnswer' /\ GangHasAHandler'
    BY <1>3 DEF Inv, FinalAnswerIsLast, OneAnswer, GangHasAHandler, Admitted
  <2> QED
    BY <2>1, <2>2 DEF Inv
<1>4. CASE PayloadRefused(c)
  BY <1>4, EndKeepsInv DEF PayloadRefused, Verdict
<1>5. CASE ConnectFails(c)
  BY <1>5, EndKeepsInv DEF ConnectFails, Lost, Verdict
<1>6. CASE Sends(c)
  <2>1. TypeOK' /\ UnsentIsInvisible' /\ FinalAnswerIsLast'
    BY <1>6 DEF Inv, TypeOK, UnsentIsInvisible, FinalAnswerIsLast, Sends
  <2>2. FailureHasACause' /\ OneAnswer' /\ GangHasAHandler'
    BY <1>6 DEF Inv, TypeOK, UnsentIsInvisible, FailureHasACause, OneAnswer,
       GangHasAHandler, Failed, Mutates, Sends
  <2> QED
    BY <2>1, <2>2 DEF Inv
<1>7. CASE Receives(c)
  <2>1. Mutates(c) => Lost(c) = "unknown"
    BY DEF Lost, Mutates
  <2>2. Lost(c) \in Verdict \ {"none"}
    BY DEF Lost, Verdict
  <2>3. CASE reply[c] = "result" /\ End(c, "result")
    BY <2>3, EndKeepsInv DEF Verdict
  <2>4. CASE reply[c] \in {"failed", "reset", "garbled"} /\ End(c, "plain")
    BY <2>4, EndKeepsInv DEF Verdict
  <2>5. CASE reply[c] = "reconcile" /\ End(c, "unknown")
    BY <2>5, EndKeepsInv DEF Verdict
  <2>6. CASE reply[c] \in {"result", "lost"} /\ End(c, Lost(c))
    BY <2>1, <2>2, <2>6, EndKeepsInv
  <2> QED
    BY <1>7, <2>3, <2>4, <2>5, <2>6 DEF Receives
<1>8. CASE GuardTimesOut(c)
  BY <1>8, EndKeepsInv DEF GuardTimesOut, Verdict
<1>9. CASE TaskCancelled(c)
  BY <1>9, EndKeepsInv DEF TaskCancelled, Verdict
<1> QED
  BY <1>1, <1>2, <1>3, <1>4, <1>5, <1>6, <1>7, <1>8, <1>9 DEF CallerStep

\* Every step of the host and its gang process keeps the invariant.
LEMMA HostKeepsInv ==
  ASSUME Inv, NEW c \in Call, HostStep(c)
  PROVE  Inv'
<1> USE DEF Reply
<1>0. WasmError(c) \in {"reconcile", "failed"}
  BY DEF WasmError
<1>1. CASE HostRefuses(c)
  <2>1. PICK r \in {"lost", "reset", "failed", WasmError(c)} : Answers(c, r)
    BY <1>1 DEF HostRefuses
  <2>2. gang'[c] = "none" /\ host[c] # "none" /\ ~effect[c]
    BY <1>1 DEF HostRefuses, Inv, GangHasAHandler
  <2> QED
    BY <1>0, <1>1, <2>1, <2>2, AnswersKeepInv DEF HostRefuses, Inv, TypeOK
<1>2. CASE HostInvokes(c)
  <2>1. pc[c] \in {"waiting", "done"} /\ reply[c] = "none"
    BY <1>2 DEF HostInvokes, Inv, TypeOK, UnsentIsInvisible, OneAnswer
  <2>2. TypeOK' /\ UnsentIsInvisible' /\ FinalAnswerIsLast' /\ OneAnswer'
    BY <1>2, <2>1 DEF HostInvokes, callVars, Inv, TypeOK, UnsentIsInvisible,
       FinalAnswerIsLast, OneAnswer
  <2>3. FailureHasACause' /\ GangHasAHandler'
    BY <1>2, <2>1 DEF HostInvokes, callVars, Inv, TypeOK, FailureHasACause,
       GangHasAHandler, Failed, Mutates
  <2> QED
    BY <2>2, <2>3 DEF Inv
<1>3. CASE GangActs(c)
  <2>1. pc[c] \in {"waiting", "done"} /\ reply[c] \notin {"failed", "reset"} /\ host[c] # "request"
    BY <1>3 DEF GangActs, Inv, TypeOK, UnsentIsInvisible, FinalAnswerIsLast,
       GangHasAHandler
  <2>2. TypeOK' /\ UnsentIsInvisible'
    BY <1>3, <2>1 DEF GangActs, callVars, Inv, TypeOK, UnsentIsInvisible
  <2>3. FinalAnswerIsLast' /\ OneAnswer' /\ GangHasAHandler'
    BY <1>3, <2>1 DEF GangActs, Inv, TypeOK, FinalAnswerIsLast, OneAnswer,
       GangHasAHandler
  <2>4. FailureHasACause'
    BY <1>3, <2>1 DEF GangActs, callVars, Inv, TypeOK, FailureHasACause,
       Failed, Mutates
  <2> QED
    BY <2>2, <2>3, <2>4 DEF Inv
<1>4. CASE GangExits(c)
  <2>1. CASE host[c] = "invoking"
    <3>1. PICK r \in {"result", "failed", "lost", WasmError(c)} : Answers(c, r)
      BY <1>4, <2>1 DEF GangExits
    <3>2. gang' \in [Call -> {"none", "running"}] /\ gang'[c] = "none"
      BY <1>4 DEF GangExits, Inv, TypeOK
    <3>3. \A d \in Call \ {c} : gang'[d] = gang[d]
      BY <1>4 DEF GangExits, Inv, TypeOK
    <3> QED
      BY <1>0, <1>4, <2>1, <3>1, <3>2, <3>3, AnswersKeepInv DEF GangExits
  <2>2. CASE host[c] # "invoking"
    <3>1. TypeOK' /\ UnsentIsInvisible' /\ FailureHasACause'
      BY <1>4, <2>2 DEF GangExits, callVars, Inv, TypeOK, UnsentIsInvisible,
         FailureHasACause, Failed, Mutates
    <3>2. FinalAnswerIsLast' /\ OneAnswer' /\ GangHasAHandler'
      BY <1>4, <2>2 DEF GangExits, Inv, TypeOK, FinalAnswerIsLast, OneAnswer,
         GangHasAHandler
    <3> QED
      BY <3>1, <3>2 DEF Inv
  <2> QED
    BY <2>1, <2>2
<1>5. CASE InvokeTimesOut(c)
  BY <1>5, AnswersKeepInv DEF InvokeTimesOut, Inv, TypeOK
<1>6. CASE HostGarbles(c)
  BY <1>6, AnswersKeepInv DEF HostGarbles, Inv, TypeOK
<1> QED
  BY <1>1, <1>2, <1>3, <1>4, <1>5, <1>6 DEF HostStep

\* The host crashes, which ends its handlers, or restarts.
LEMMA ProcessKeepsInv ==
  ASSUME Inv, HostCrashes \/ HostRestarts
  PROVE  Inv'
<1>1. CASE HostCrashes
  <2>1. PICK unread \in SUBSET {c \in Call : host[c] = "request"} :
          reply' = [c \in Call |-> IF host[c] = "none" THEN reply[c]
                                   ELSE IF c \in unread THEN "reset" ELSE "lost"]
    BY <1>1 DEF HostCrashes
  <2>2. TypeOK'
    BY <1>1, <2>1 DEF HostCrashes, callVars, Inv, TypeOK, Reply
  <2>3. UnsentIsInvisible' /\ FinalAnswerIsLast'
    BY <1>1, <2>1 DEF HostCrashes, callVars, Inv, TypeOK, UnsentIsInvisible,
       FinalAnswerIsLast, GangHasAHandler
  <2>4. FailureHasACause' /\ OneAnswer' /\ GangHasAHandler'
    BY <1>1, <2>1 DEF HostCrashes, callVars, Inv, TypeOK, FailureHasACause,
       FinalAnswerIsLast, OneAnswer, GangHasAHandler, Failed, Mutates
  <2> QED
    BY <2>2, <2>3, <2>4 DEF Inv
<1>2. CASE HostRestarts
  <2>1. TypeOK' /\ UnsentIsInvisible' /\ FinalAnswerIsLast'
    BY <1>2 DEF HostRestarts, callVars, Inv, TypeOK, UnsentIsInvisible,
       FinalAnswerIsLast
  <2>2. FailureHasACause' /\ OneAnswer' /\ GangHasAHandler'
    BY <1>2 DEF HostRestarts, callVars, Inv, TypeOK, FailureHasACause,
       OneAnswer, GangHasAHandler, Failed, Mutates
  <2> QED
    BY <2>1, <2>2 DEF Inv
<1> QED
  BY <1>1, <1>2

\* Nothing moves.
LEMMA StutterKeepsInv == Inv /\ UNCHANGED vars => Inv'
  BY DEF vars, callVars, Inv, TypeOK, UnsentIsInvisible, FinalAnswerIsLast,
     FailureHasACause, OneAnswer, GangHasAHandler, Failed, Mutates

\* The strengthened invariant holds in every behaviour of callers, host and
\* gang processes, crashes and timeouts on either side included.
THEOREM CallInvariance == Spec => []Inv
<1>1. Inv /\ [Next]_vars => Inv'
  BY CallerKeepsInv, HostKeepsInv, ProcessKeepsInv, StutterKeepsInv DEF Next
<1> QED
  BY InitInv, <1>1, PTL DEF Spec

\* A mutation reported as failed has left nothing behind that could still act,
\* unless the report stands for an answer that is no JSON.
THEOREM Settled == Spec => []FailureIsSettled
<1>1. Inv => FailureIsSettled
  BY DEF Inv, FailureIsSettled, FailureHasACause, FinalAnswerIsLast, Decodable
<1> QED
  BY CallInvariance, <1>1, PTL

\* After its failure was reported a mutation does nothing more to its target,
\* unless the report stands for an answer that is no JSON.
THEOREM FinalFailure == Spec => FailureIsFinal
<1>1. Inv /\ [Next]_vars => [\A c \in Call :
         Failed(c) /\ Decodable(c) => effect'[c] = effect[c] /\ Failed(c)']_vars
  <2> SUFFICES ASSUME Inv, Next, NEW c \in Call, Failed(c), Decodable(c)
               PROVE  effect'[c] = effect[c] /\ Failed(c)'
    OBVIOUS
  <2>1. pc[c] = "done" /\ gang[c] = "none"
    BY DEF Inv, TypeOK, UnsentIsInvisible, FailureHasACause, FinalAnswerIsLast, Failed,
       Decodable
  <2>2. ASSUME NEW d \in Call, NEW v, pc[d] # "done", End(d, v)
        PROVE  effect'[c] = effect[c] /\ Failed(c)'
    BY <2>1, <2>2 DEF Inv, TypeOK, End, Failed, Mutates
  <2>3. ASSUME NEW d \in Call, CallerStep(d) PROVE effect'[c] = effect[c] /\ Failed(c)'
    <3>1. CASE \E o \in Operation, m \in BOOLEAN : Enter(d, o, m)
      BY <2>1, <3>1 DEF Inv, TypeOK, Enter, Failed, Mutates
    <3>2. CASE Admitted(d) \/ Sends(d)
      BY <3>2 DEF Admitted, Sends, Failed, Mutates
    <3> QED
      BY <2>2, <2>3, <3>1, <3>2 DEF CallerStep, Rejected, PayloadRefused, ConnectFails,
         Receives, GuardTimesOut, TaskCancelled
  <2>4. ASSUME NEW d \in Call, HostStep(d) PROVE effect'[c] = effect[c] /\ Failed(c)'
    <3>1. effect'[c] = effect[c]
      BY <2>1, <2>4 DEF Inv, TypeOK, HostStep, HostRefuses, HostInvokes, GangActs, GangExits,
         InvokeTimesOut, HostGarbles
    <3> QED
      BY <2>4, <3>1 DEF HostStep, HostRefuses, HostInvokes, GangActs, GangExits,
         InvokeTimesOut, HostGarbles, callVars, Failed, Mutates
  <2>5. CASE HostCrashes \/ HostRestarts
    BY <2>5 DEF HostCrashes, HostRestarts, callVars, Failed, Mutates
  <2> QED
    BY <2>3, <2>4, <2>5 DEF Next
<1> QED
  BY <1>1, CallInvariance, PTL DEF Spec, FailureIsFinal

\* Only the host's own answer, or one that is no JSON, ever makes the broker call
\* a mutation failed that had an effect: no timeout, lost, reset or invalid answer
\* does.
THEOREM BrokerIsCareful == Spec => []BrokerFailureHadNoEffect
<1>1. Inv => BrokerFailureHadNoEffect
  BY DEF Inv, BrokerFailureHadNoEffect, FailureHasACause, FinalAnswerIsLast,
     Decodable
<1> QED
  BY CallInvariance, <1>1, PTL

\* Calls, hosts and gang processes keep their types.
THEOREM CallTypes == Spec => []TypeOK
<1>1. Inv => TypeOK
  BY DEF Inv
<1> QED
  BY <1>1, CallInvariance, PTL
=============================================================================
