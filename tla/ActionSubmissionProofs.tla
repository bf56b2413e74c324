----------------------- MODULE ActionSubmissionProofs -----------------------
(***************************************************************************)
(* TLAPS proofs about ActionSubmission, for any number of challenges,      *)
(* requests in progress, idempotency keys, subjects and controls, and      *)
(* about StreamDeckKey, whose steps are steps of it but for one.           *)
(*                                                                         *)
(* The properties are not inductive by themselves: between the consumption *)
(* of a confirmation and the creation of the job, only the request holds   *)
(* the link.  GrantsAreSound says what a request that holds one knows.     *)
(***************************************************************************)
EXTENDS StreamDeckKey, TLAPS

TermsOf(q) == [authority |-> q.authority, subject |-> q.subject, control |-> q.control]

\* A request holds a confirmation only between its consumption and its answer;
\* the confirmation is used up and was issued for exactly this request.
GrantsAreSound ==
  \A r \in Request :
    granted[r] # NoChallenge =>
      /\ rpc[r] \in {"deciding", "answered"}
      /\ status[granted[r]] = "used"
      /\ terms[granted[r]] = TermsOf(req[r])

\* A job's confirmation is used up; without a row there is no confirmation.
BasesAreUsed ==
  \A k \in Key :
    /\ basis[k] # NoChallenge => status[basis[k]] = "used"
    /\ job[k] = {} => basis[k] = NoChallenge

\* A withdrawn challenge was issued and can no longer be consumed.
WithdrawnIsDead ==
  \A i \in withdrawn : status[i] = "used" \/ (status[i] = "unused" /\ lapsed[i])

Inv ==
  /\ TypeOK
  /\ GrantsAreSound /\ BasesAreUsed /\ WithdrawnIsDead
  /\ JobsAreApproved /\ ConfirmationIsSingleUse /\ WithdrawnNeverApproves

\* The placeholders for missing rows and requests have the type of real ones.
LEMMA Defaults == NoTerms \in Terms /\ NoBody \in Body
<1>1. \E t \in Terms : TRUE
  <2> PICK a \in Authority, s \in Subject, c \in Control : TRUE
    BY SubmissionConstants
  <2> [authority |-> a, subject |-> s, control |-> c] \in Terms
    BY DEF Terms
  <2> QED
    OBVIOUS
<1>2. \E q \in Body : TRUE
  <2> PICK a \in Authority, s \in Subject, c \in Control, k \in Key : TRUE
    BY SubmissionConstants
  <2> [authority |-> a, subject |-> s, control |-> c, key |-> k, dry_run |-> FALSE,
       token |-> NoChallenge] \in Body
    BY Zenon DEF Body
  <2> QED
    OBVIOUS
<1> QED
  BY <1>1, <1>2 DEF NoTerms, NoBody

\* The empty tables satisfy the invariant.
LEMMA InitInv == Init => Inv
<1> SUFFICES ASSUME Init PROVE Inv
  OBVIOUS
<1> USE DEF NoChallenge, Challenge
<1>1. TypeOK
  <2>1. lapsed \in [Challenge -> BOOLEAN]
    BY Zenon DEF Init
  <2> QED
    BY <2>1, Defaults DEF Init, TypeOK
<1>2. GrantsAreSound /\ BasesAreUsed /\ WithdrawnIsDead
  BY DEF Init, GrantsAreSound, BasesAreUsed, WithdrawnIsDead
<1>3. JobsAreApproved /\ ConfirmationIsSingleUse /\ WithdrawnNeverApproves
  BY DEF Init, JobsAreApproved, ConfirmationIsSingleUse, WithdrawnNeverApproves
<1> QED
  BY <1>1, <1>2, <1>3 DEF Inv

\* Requests that come, are answered without a job, or go: the tables stay.
LEMMA RequestStep ==
  ASSUME Inv, NEW r \in Request, UNCHANGED tableVars,
         \/ \E endpoint \in {"plan", "execute"}, q \in Body : Arrives(r, endpoint, q)
         \/ Gone(r)
         \/ /\ rpc[r] # "idle" /\ UNCHANGED <<granted, offer>>
            /\ \E a \in {"ready", "denied", "error"} : Answer(r, a)
            /\ granted[r] # NoChallenge => rpc[r] = "deciding"
  PROVE  Inv'
<1> USE DEF tableVars
<1>1. TypeOK'
  BY Defaults DEF Inv, TypeOK, Arrives, Gone, Answer
<1>2. GrantsAreSound'
  BY DEF Inv, TypeOK, GrantsAreSound, Arrives, Gone, Answer
<1>3. BasesAreUsed' /\ WithdrawnIsDead' /\ JobsAreApproved'
  BY DEF Inv, BasesAreUsed, WithdrawnIsDead, JobsAreApproved
<1>4. ConfirmationIsSingleUse'
  BY DEF Inv, TypeOK, ConfirmationIsSingleUse, Arrives, Gone, Answer
<1>5. WithdrawnNeverApproves'
  BY SubmissionConstants
     DEF Inv, TypeOK, WithdrawnNeverApproves, Arrives, Gone, Answer, Challenge, NoChallenge
<1> QED
  BY <1>1, <1>2, <1>3, <1>4, <1>5 DEF Inv

\* A new challenge is a row nobody refers to.
LEMMA ChallengeStep ==
  ASSUME Inv, NEW r \in Request, NEW i \in Challenge, create_confirmation(i, req[r]),
         rpc[r] = "plan", Answer(r, "challenge"),
         offer' = [offer EXCEPT ![r] = i], UNCHANGED granted
  PROVE  Inv'
<1> USE SubmissionConstants DEF create_confirmation, Answer
<1>1. /\ granted[r] = NoChallenge
      /\ i \notin withdrawn
      /\ \A k \in Key : basis[k] # i
      /\ \A s \in Request : granted[s] # i
  BY DEF Inv, GrantsAreSound, BasesAreUsed, WithdrawnIsDead, Challenge, NoChallenge
<1>2. TypeOK'
  <2>1. req[r] \in Body /\ TermsOf(req[r]) \in Terms
    BY DEF Inv, TypeOK, Body, Terms, TermsOf
  <2> QED
    BY <1>1, <2>1 DEF Inv, TypeOK, TermsOf
<1>3. GrantsAreSound'
  BY <1>1 DEF Inv, TypeOK, GrantsAreSound
<1>4. BasesAreUsed' /\ WithdrawnIsDead'
  BY <1>1 DEF Inv, TypeOK, BasesAreUsed, WithdrawnIsDead
<1>5. JobsAreApproved'
  <2>1. ASSUME NEW k \in Key, basis[k] # NoChallenge
        PROVE  /\ basis'[k] = basis[k]
               /\ status'[basis[k]] = status[basis[k]] /\ terms'[basis[k]] = terms[basis[k]]
    BY <1>1, <2>1 DEF Inv, TypeOK
  <2> SUFFICES ASSUME NEW k \in Key, NEW x \in job[k], x.digest.authority \notin Unconfirmed
               PROVE  /\ basis'[k] # NoChallenge /\ status'[basis'[k]] = "used"
                      /\ terms'[basis'[k]] = [authority |-> x.digest.authority,
                           subject |-> x.subject, control |-> x.digest.control]
    BY DEF JobsAreApproved
  <2>2. /\ basis[k] # NoChallenge /\ status[basis[k]] = "used"
        /\ terms[basis[k]] = [authority |-> x.digest.authority, subject |-> x.subject,
                              control |-> x.digest.control]
    BY DEF Inv, JobsAreApproved
  <2> QED
    BY <2>1, <2>2
<1>6. ConfirmationIsSingleUse' /\ WithdrawnNeverApproves'
  BY <1>1 DEF Inv, TypeOK, ConfirmationIsSingleUse, WithdrawnNeverApproves
<1> QED
  BY <1>2, <1>3, <1>4, <1>5, <1>6 DEF Inv

\* The consumed row was unused, so nobody else holds it.
LEMMA ConsumeStep ==
  ASSUME Inv, NEW r \in Request, execute_consumes(r)
  PROVE  Inv'
<1> USE SubmissionConstants
<1>0. granted[r] = NoChallenge
  BY DEF Inv, GrantsAreSound, execute_consumes
<1>1. CASE UNCHANGED <<tableVars, granted>>
  <2> USE <1>1 DEF tableVars, execute_consumes
  <2>1. TypeOK'
    BY <1>0 DEF Inv, TypeOK
  <2>2. GrantsAreSound'
    BY DEF Inv, TypeOK, GrantsAreSound
  <2>3. BasesAreUsed' /\ WithdrawnIsDead' /\ JobsAreApproved' /\ WithdrawnNeverApproves'
    BY DEF Inv, BasesAreUsed, WithdrawnIsDead, JobsAreApproved, WithdrawnNeverApproves
  <2>4. ConfirmationIsSingleUse'
    BY <1>0 DEF Inv, TypeOK, ConfirmationIsSingleUse
  <2> QED
    BY <2>1, <2>2, <2>3, <2>4 DEF Inv
<1>2. ASSUME NEW i \in Challenge, NEW typed_right \in BOOLEAN,
             i \in Newest(req[r]), Accepts(i, req[r], typed_right),
             status' = [status EXCEPT ![i] = "used"],
             granted' = [granted EXCEPT ![r] = i],
             UNCHANGED <<terms, lapsed, withdrawn, job, basis>>
      PROVE  Inv'
  <2> USE <1>2 DEF execute_consumes
  <2>1. /\ status[i] = "unused" /\ ~lapsed[i] /\ i # NoChallenge
        /\ terms[i] = TermsOf(req[r])
    <3>1. /\ terms[i] \in Terms /\ req[r] \in Body
          /\ terms[i].authority = req[r].authority /\ terms[i].subject = req[r].subject
          /\ terms[i].control = req[r].control
      BY DEF Inv, TypeOK, Newest, Matching, Accepts
    <3>2. terms[i] = TermsOf(req[r])
      BY <3>1 DEF Terms, TermsOf
    <3> QED
      BY <3>2 DEF Newest, Matching, Accepts, Challenge, NoChallenge
  <2>2. /\ \A k \in Key : basis[k] # i
        /\ \A s \in Request : granted[s] # i
        /\ i \notin withdrawn
    BY <2>1 DEF Inv, GrantsAreSound, BasesAreUsed, WithdrawnIsDead, NoChallenge
  <2>3. TypeOK'
    BY DEF Inv, TypeOK
  <2>4. GrantsAreSound'
    BY <2>1, <2>2 DEF Inv, TypeOK, GrantsAreSound
  <2>5. BasesAreUsed' /\ WithdrawnIsDead' /\ JobsAreApproved'
    BY <2>1, <2>2 DEF Inv, TypeOK, BasesAreUsed, WithdrawnIsDead, JobsAreApproved
  <2>6. ConfirmationIsSingleUse'
    BY <2>1, <2>2, <1>0 DEF Inv, TypeOK, ConfirmationIsSingleUse
  <2>7. WithdrawnNeverApproves'
    BY <2>2 DEF Inv, TypeOK, WithdrawnNeverApproves
  <2> QED
    BY <2>3, <2>4, <2>5, <2>6, <2>7 DEF Inv
<1>3. ASSUME NEW typed_right \in BOOLEAN, consume_confirmation(r, typed_right)
      PROVE  Inv'
  <2> DEFINE won == {i \in Newest(req[r]) : Accepts(i, req[r], typed_right)}
  <2>1. \A i \in won : i \in Challenge /\ i = req[r].token
    BY DEF Newest, Matching, Accepts
  <2>2. CASE won = {}
    <3>1. status' = status /\ granted' = granted
      BY <1>0, <1>3, <2>2 DEF consume_confirmation, Inv, TypeOK
    <3> QED
      BY <1>1, <1>3, <3>1 DEF consume_confirmation, tableVars
  <2>3. CASE won # {}
    <3> DEFINE i == CHOOSE n \in won : TRUE
    <3>1. i \in won /\ won = {i}
      BY <2>1, <2>3
    <3>2. status' = [status EXCEPT ![i] = "used"] /\ granted' = [granted EXCEPT ![r] = i]
      <4> HIDE DEF i
      <4>1. won = {i} /\ i \in Challenge
        BY <3>1, <2>1
      <4>2. status' = [n \in Challenge |-> IF n \in won THEN "used" ELSE status[n]]
        BY <1>3 DEF consume_confirmation
      <4>3. status' = [status EXCEPT ![i] = "used"]
        <5> HIDE DEF won
        <5> QED
          BY <4>1, <4>2 DEF Inv, TypeOK
      <4>4. granted' = [granted EXCEPT ![r] = IF won = {} THEN NoChallenge ELSE i]
        BY <1>3 DEF consume_confirmation, i
      <4> QED
        BY <4>1, <4>3, <4>4
    <3>3. i \in Challenge /\ i \in Newest(req[r]) /\ Accepts(i, req[r], typed_right)
      BY <3>1, <2>1
    <3> QED
      BY <1>2, <1>3, <3>2, <3>3 DEF consume_confirmation
  <2> QED
    BY <2>2, <2>3
<1> QED
  BY <1>1, <1>3 DEF execute_consumes

\* The job of a new key takes over the request's confirmation.
LEMMA CreateStep ==
  ASSUME Inv, NEW r \in Request, rpc[r] = "deciding", confirmation_satisfied(r),
         ~req[r].dry_run, create_job(r), rpc' = [rpc EXCEPT ![r] = "answered"],
         UNCHANGED <<req, granted, offer>>
  PROVE  Inv'
<1> USE SubmissionConstants DEF create_job
<1> DEFINE q == req[r]
           row == [digest |-> request_digest(q), subject |-> q.subject]
<1>1. q \in Body /\ q.key \in Key /\ row \in [digest : Digest, subject : Subject]
  BY DEF Inv, TypeOK, Body, Digest, request_digest
<1>2. TypeOK'
  <2>1. job' \in [Key -> SUBSET [digest : Digest, subject : Subject]]
    BY <1>1 DEF Inv, TypeOK
  <2>2. /\ basis' \in [Key -> Challenge \cup {NoChallenge}]
        /\ rpc' \in [Request -> {"idle", "plan", "execute", "deciding", "answered"}]
        /\ reply' \in [Request -> {"none", "ready", "challenge", "job", "denied", "error"}]
        /\ \A s \in Request : rpc'[s] = "idle" => granted'[s] = NoChallenge /\ reply'[s] = "none"
    BY <1>1 DEF Inv, TypeOK
  <2> QED
    BY <2>1, <2>2 DEF Inv, TypeOK
<1>3. GrantsAreSound' /\ WithdrawnIsDead'
  BY DEF Inv, TypeOK, GrantsAreSound, WithdrawnIsDead
<1>4. CASE job[q.key] # {}
  <2>1. UNCHANGED <<job, basis>>
    BY <1>4
  <2>2. BasesAreUsed' /\ JobsAreApproved' /\ WithdrawnNeverApproves'
    BY <2>1 DEF Inv, BasesAreUsed, JobsAreApproved, WithdrawnNeverApproves
  <2>3. ConfirmationIsSingleUse'
    BY <2>1 DEF Inv, TypeOK, ConfirmationIsSingleUse
  <2> QED
    BY <1>2, <1>3, <2>2, <2>3 DEF Inv
<1>5. CASE job[q.key] = {}
  <2>1. /\ job' = [job EXCEPT ![q.key] = {row}]
        /\ basis' = [basis EXCEPT ![q.key] = granted[r]]
    BY <1>5
  <2>2. /\ granted[r] # NoChallenge => /\ status[granted[r]] = "used"
                                       /\ terms[granted[r]] = TermsOf(q)
        /\ granted[r] # NoChallenge => \A k \in Key : basis[k] # granted[r]
    BY DEF Inv, GrantsAreSound, ConfirmationIsSingleUse
  <2>3. BasesAreUsed'
    BY <1>1, <2>1, <2>2 DEF Inv, TypeOK, BasesAreUsed
  <2>4. JobsAreApproved'
    <3> SUFFICES ASSUME NEW k \in Key, NEW x \in job'[k]
                 PROVE  x.digest.authority \in Unconfirmed \/
                          /\ basis'[k] # NoChallenge /\ status'[basis'[k]] = "used"
                          /\ terms'[basis'[k]] = [authority |-> x.digest.authority,
                               subject |-> x.subject, control |-> x.digest.control]
      BY DEF JobsAreApproved
    <3>1. CASE k = q.key
      <4>1. x = row /\ basis'[k] = granted[r]
        BY <1>1, <2>1, <3>1 DEF Inv, TypeOK
      <4>2. /\ x.digest.authority = q.authority /\ x.subject = q.subject
            /\ x.digest.control = q.control
        BY <4>1 DEF request_digest
      <4> QED
        BY <2>2, <4>1, <4>2 DEF confirmation_satisfied, TermsOf
    <3>2. CASE k # q.key
      <4>1. job'[k] = job[k] /\ basis'[k] = basis[k]
        BY <2>1, <3>2 DEF Inv, TypeOK
      <4> QED
        BY <4>1 DEF Inv, JobsAreApproved
    <3> QED
      BY <3>1, <3>2
  <2>5. ConfirmationIsSingleUse'
    BY <1>1, <2>1, <2>2 DEF Inv, TypeOK, ConfirmationIsSingleUse
  <2>6. WithdrawnNeverApproves'
    BY <1>1, <2>1 DEF Inv, TypeOK, WithdrawnNeverApproves
  <2> QED
    BY <1>2, <1>3, <2>3, <2>4, <2>5, <2>6 DEF Inv
<1> QED
  BY <1>4, <1>5

\* A challenge that is cancelled or lapses is unused, so nobody holds it.
LEMMA WithdrawStep ==
  ASSUME Inv, NEW i \in Challenge, cancel_confirmation(i) \/ ChallengeLapses(i)
  PROVE  Inv'
<1> USE SubmissionConstants DEF requestVars, NoChallenge, Challenge
<1>1. status[i] = "unused" => /\ \A k \in Key : basis[k] # i
                              /\ \A r \in Request : granted[r] # i
  BY DEF Inv, GrantsAreSound, BasesAreUsed
<1>2. TypeOK'
  <2>1. CASE cancel_confirmation(i)
    BY <2>1 DEF Inv, TypeOK, cancel_confirmation
  <2>2. CASE ChallengeLapses(i)
    <3>1. lapsed' \in [Challenge -> BOOLEAN]
      BY <2>2 DEF Inv, TypeOK, ChallengeLapses
    <3> QED
      BY <2>2, <3>1 DEF Inv, TypeOK, ChallengeLapses
  <2> QED
    BY <2>1, <2>2
<1>3. GrantsAreSound' /\ BasesAreUsed'
  BY <1>1 DEF Inv, TypeOK, GrantsAreSound, BasesAreUsed, cancel_confirmation, ChallengeLapses
<1>4. WithdrawnIsDead'
  <2>1. CASE cancel_confirmation(i)
    BY <2>1 DEF Inv, TypeOK, WithdrawnIsDead, cancel_confirmation
  <2>2. CASE ChallengeLapses(i)
    <3>1. \A n \in Challenge : lapsed'[n] = (n = i \/ lapsed[n])
      BY <2>2 DEF Inv, TypeOK, ChallengeLapses
    <3> QED
      BY <2>2, <3>1 DEF Inv, TypeOK, WithdrawnIsDead, ChallengeLapses
  <2> QED
    BY <2>1, <2>2
<1>5. /\ UNCHANGED <<terms, job, basis, granted, rpc>>
      /\ \A n \in Challenge : status[n] = "used" => status'[n] = "used"
      /\ \A n \in withdrawn' : n \in withdrawn \/ (n = i /\ status[i] = "unused")
  BY DEF Inv, TypeOK, cancel_confirmation, ChallengeLapses
<1>6. JobsAreApproved'
  <2> SUFFICES ASSUME NEW k \in Key, NEW x \in job[k], x.digest.authority \notin Unconfirmed
               PROVE  /\ basis[k] # NoChallenge /\ status'[basis[k]] = "used"
                      /\ terms[basis[k]] = [authority |-> x.digest.authority,
                           subject |-> x.subject, control |-> x.digest.control]
    BY <1>5 DEF JobsAreApproved
  <2> QED
    BY <1>5 DEF Inv, TypeOK, JobsAreApproved
<1>7. ConfirmationIsSingleUse'
  BY <1>5 DEF Inv, ConfirmationIsSingleUse
<1>8. WithdrawnNeverApproves'
  BY <1>1, <1>5 DEF Inv, WithdrawnNeverApproves
<1> QED
  BY <1>2, <1>3, <1>4, <1>6, <1>7, <1>8 DEF Inv

\* Every step of the broker keeps the invariant.
LEMMA SubmissionStep ==
  ASSUME Inv, [Next]_vars
  PROVE  Inv'
<1>1. CASE UNCHANGED vars
  BY <1>1 DEF vars, tableVars, requestVars, Inv, TypeOK, GrantsAreSound, BasesAreUsed,
     WithdrawnIsDead, JobsAreApproved, ConfirmationIsSingleUse, WithdrawnNeverApproves
<1>0. PlanBody \subseteq Body
  BY DEF PlanBody
<1>2. ASSUME NEW r \in Request, NEW endpoint \in {"plan", "execute"}, NEW q \in Body,
             Arrives(r, endpoint, q)
      PROVE  Inv'
  BY <1>2, RequestStep DEF Arrives
<1>3. ASSUME NEW r \in Request, Gone(r) PROVE Inv'
  BY <1>3, RequestStep DEF Gone
<1>4. ASSUME NEW r \in Request, plan_refused(r) \/ execute_refused(r) PROVE Inv'
  <2>1. granted[r] # NoChallenge => rpc[r] = "deciding"
    BY <1>4 DEF plan_refused, execute_refused, Inv, GrantsAreSound
  <2> QED
    BY <1>4, <2>1, RequestStep DEF plan_refused, execute_refused
<1>5. ASSUME NEW r \in Request, plan_allowed(r) PROVE Inv'
  <2>1. granted[r] = NoChallenge
    BY <1>5 DEF plan_allowed, Inv, GrantsAreSound
  <2>2. CASE req[r].authority \in Unconfirmed
    BY <1>5, <2>1, <2>2, RequestStep DEF plan_allowed
  <2>3. CASE req[r].authority \notin Unconfirmed
    BY <1>5, <2>3, ChallengeStep DEF plan_allowed
  <2> QED
    BY <2>2, <2>3
<1>6. ASSUME NEW r \in Request, execute_allowed(r) PROVE Inv'
  <2>1. CASE req[r].dry_run
    BY <1>6, <2>1, RequestStep DEF execute_allowed
  <2>2. CASE ~req[r].dry_run
    BY <1>6, <2>2, CreateStep DEF execute_allowed
  <2> QED
    BY <2>1, <2>2
<1> QED
  BY <1>0, <1>1, <1>2, <1>3, <1>4, <1>5, <1>6, ConsumeStep, WithdrawStep DEF Next, BrokerStep

\* The inductive invariant holds in every behaviour of the broker.
THEOREM SubmissionInvariance == Spec => []Inv
<1>1. Inv /\ [Next]_vars => Inv'
  BY SubmissionStep
<1> QED
  BY <1>1, InitInv, PTL DEF Spec

\* No job is created without the confirmation its action needs.
THEOREM Approval == Spec => []JobsAreApproved
<1>1. Inv => JobsAreApproved
  BY DEF Inv
<1> QED
  BY <1>1, SubmissionInvariance, PTL

\* No confirmation makes two jobs.
THEOREM SingleUse == Spec => []ConfirmationIsSingleUse
<1>1. Inv => ConfirmationIsSingleUse
  BY DEF Inv
<1> QED
  BY <1>1, SubmissionInvariance, PTL

\* No cancelled or expired confirmation makes a job.
THEOREM Withdrawal == Spec => []WithdrawnNeverApproves
<1>1. Inv => WithdrawnNeverApproves
  BY DEF Inv
<1> QED
  BY <1>1, SubmissionInvariance, PTL

\* A request that is told of a job has its answer, and the job is its own.
Named(r) == \E row \in job[req[r].key] : row.digest = request_digest(req[r])
JobIsFinal == \A r \in Request : reply[r] = "job" => rpc[r] = "answered" /\ Named(r)

\* Whoever else does what, the answer stays and so does the job.
LEMMA AnswerStays ==
  ASSUME Inv, JobIsFinal, NEW r \in Request, reply'[r] = "job",
         reply'[r] = reply[r], rpc'[r] = rpc[r], req'[r] = req[r],
         \A k \in Key : job[k] # {} => job'[k] = job[k]
  PROVE  rpc'[r] = "answered" /\ Named(r)'
<1>1. req[r].key \in Key
  BY DEF Inv, TypeOK, Body
<1> QED
  BY <1>1 DEF JobIsFinal, Named

\* Steps that make no job answer nobody with one.
LEMMA OtherStepsAnswer ==
  ASSUME Inv, JobIsFinal, NEW s \in Request,
         \/ \E endpoint \in {"plan", "execute"} : \E q : Arrives(s, endpoint, q)
         \/ Gone(s) \/ plan_allowed(s) \/ plan_refused(s)
         \/ execute_consumes(s) \/ execute_refused(s)
  PROVE  JobIsFinal'
<1> SUFFICES ASSUME NEW r \in Request, reply'[r] = "job"
             PROVE  rpc'[r] = "answered" /\ Named(r)'
  BY DEF JobIsFinal
<1>1. s # r /\ reply'[r] = reply[r] /\ rpc'[r] = rpc[r] /\ req'[r] = req[r] /\ job' = job
  BY DEF Inv, TypeOK, JobIsFinal, Arrives, Gone, plan_allowed, plan_refused,
     execute_consumes, execute_refused, consume_confirmation, create_confirmation, Answer,
     tableVars
<1> QED
  BY <1>1, AnswerStays

\* The answer that names a job names the one that is or was made for it.
LEMMA ExecuteAnswers ==
  ASSUME Inv, JobIsFinal, NEW s \in Request, execute_allowed(s)
  PROVE  JobIsFinal'
<1> SUFFICES ASSUME NEW r \in Request, reply'[r] = "job"
             PROVE  rpc'[r] = "answered" /\ Named(r)'
  BY DEF JobIsFinal
<1>1. req' = req /\ rpc' = [rpc EXCEPT ![s] = "answered"]
  BY DEF execute_allowed, Answer
<1>2. req[r].key \in Key /\ req[s].key \in Key
  BY DEF Inv, TypeOK, Body
<1>3. \A k \in Key : job[k] # {} => job'[k] = job[k]
  BY <1>2 DEF execute_allowed, create_job, Answer, tableVars, Inv, TypeOK
<1>4. CASE s # r
  <2>1. reply'[r] = reply[r] /\ rpc'[r] = rpc[r]
    BY <1>1, <1>4 DEF execute_allowed, create_job, Answer, Inv, TypeOK
  <2> QED
    BY <1>1, <1>3, <2>1, AnswerStays
<1>5. CASE s = r
  <2>1. create_job(r) /\ SameRequest(req[r])
    BY <1>5 DEF execute_allowed, create_job, Answer, Inv, TypeOK
  <2>2. rpc'[r] = "answered"
    BY <1>1, <1>5 DEF Inv, TypeOK
  <2>3. CASE job[req[r].key] = {}
    <3>1. job'[req[r].key] = {[digest |-> request_digest(req[r]), subject |-> req[r].subject]}
      BY <1>2, <2>1, <2>3 DEF create_job, Inv, TypeOK
    <3> QED
      BY <1>1, <2>2, <3>1 DEF Named
  <2>4. CASE job[req[r].key] # {}
    BY <1>1, <1>2, <1>3, <2>1, <2>2, <2>4 DEF SameRequest, Named
  <2> QED
    BY <2>3, <2>4
<1> QED
  BY <1>4, <1>5

\* Neither time nor an owner who gives up a challenge touches an answer.
LEMMA TablesAnswer ==
  ASSUME Inv, JobIsFinal, UNCHANGED <<job, req, rpc, reply>>
  PROVE  JobIsFinal'
  BY AnswerStays DEF JobIsFinal

\* A job row, once written, is never replaced, so an answer that named the job
\* of its own request goes on naming it.
THEOREM Answers == Spec => []AnswersNameTheirRequest
<1>1. Init => JobIsFinal
  BY DEF Init, JobIsFinal
<1>2. Inv /\ JobIsFinal /\ [Next]_vars => JobIsFinal'
  <2> SUFFICES ASSUME Inv, JobIsFinal, [Next]_vars PROVE JobIsFinal'
    OBVIOUS
  <2>1. CASE UNCHANGED vars
    BY <2>1, TablesAnswer DEF vars, tableVars, requestVars
  <2>2. ASSUME NEW i \in Challenge, cancel_confirmation(i) \/ ChallengeLapses(i)
        PROVE  JobIsFinal'
    BY <2>2, TablesAnswer DEF cancel_confirmation, ChallengeLapses, requestVars
  <2> QED
    BY <2>1, <2>2, OtherStepsAnswer, ExecuteAnswers DEF Next, BrokerStep, PlanBody
<1>3. JobIsFinal => AnswersNameTheirRequest
  BY DEF JobIsFinal, Named, AnswersNameTheirRequest
<1> QED
  BY <1>1, <1>2, <1>3, SubmissionInvariance, PTL DEF Spec

\* Requests, confirmations and jobs keep their types.
THEOREM SubmissionTypes == Spec => []TypeOK
<1>1. Inv => TypeOK
  BY DEF Inv
<1> QED
  BY <1>1, SubmissionInvariance, PTL
-----------------------------------------------------------------------------
(***************************************************************************)
(* Each confirmation, taken alone, lives as ConfirmationLifecycle says.    *)
(* Steps that touch neither its row nor its holder stutter; that its       *)
(* holder is one request, and has made no job of it yet, is                *)
(* ConfirmationIsSingleUse.                                                *)
(***************************************************************************)
Lawful(i) == UNCHANGED C(i)!confirmationVars \/ C(i)!ConfirmationNext

RowUnchanged(i) ==
  /\ status'[i] = status[i] /\ terms'[i] = terms[i]
  /\ i \in withdrawn' <=> i \in withdrawn

\* A row that stays as it is keeps its state.
LEMMA RowKeepsState ==
  ASSUME NEW i \in Challenge, RowUnchanged(i)
  PROVE  ConfirmationState(i)' = ConfirmationState(i)
  BY DEF RowUnchanged, ConfirmationState

\* What is held is used up, by one request, which has made nothing of it.
LEMMA OneHolder ==
  ASSUME Inv, NEW i \in Challenge, NEW r \in Holder(i)
  PROVE  ConfirmationState(i) = "used" /\ Holder(i) = {r} /\ Made(i) = {}
<1>1. i # NoChallenge
  BY SubmissionConstants DEF Challenge, NoChallenge
<1>2. status[i] = "used" /\ i \notin withdrawn
  BY <1>1 DEF Inv, GrantsAreSound, WithdrawnNeverApproves, Holder
<1>3. ConfirmationState(i) = "used"
  BY <1>2 DEF ConfirmationState
<1> QED
  BY <1>1, <1>3 DEF Inv, ConfirmationIsSingleUse, Holder, Made

\* A request that is done with the confirmation, or never had it.
LEMMA DropIsLawful ==
  ASSUME Inv, NEW i \in Challenge, NEW r \in Request, RowUnchanged(i),
         Holder(i)' = Holder(i) \ {r}, Made(i)' = Made(i)
  PROVE  Lawful(i)
<1>1. ConfirmationState(i)' = ConfirmationState(i) /\ terms'[i] = terms[i]
  BY RowKeepsState DEF RowUnchanged
<1>2. CASE r \in Holder(i)
  <2>1. ConfirmationState(i) = "used" /\ Holder(i) # {} /\ Holder(i)' = {}
    BY <1>2, OneHolder
  <2> QED
    BY <1>1, <2>1 DEF Lawful, C!ConfirmationNext, C!Drop
<1>3. CASE r \notin Holder(i)
  <2>1. Holder(i)' = Holder(i)
    BY <1>3
  <2> QED
    BY <1>1, <2>1 DEF Lawful, C!confirmationVars
<1> QED
  BY <1>2, <1>3

\* Requests that come, are answered without a job, or go.
LEMMA RequestIsLawful ==
  ASSUME Inv, NEW i \in Challenge, NEW r \in Request, UNCHANGED tableVars,
         \/ \E endpoint \in {"plan", "execute"} : \E q : Arrives(r, endpoint, q)
         \/ Gone(r)
         \/ UNCHANGED granted /\ \E a \in {"ready", "denied", "error"} : Answer(r, a)
  PROVE  Lawful(i)
<1>1. RowUnchanged(i) /\ Made(i)' = Made(i)
  BY DEF tableVars, RowUnchanged, Made
<1>2. i # NoChallenge
  BY SubmissionConstants DEF Challenge, NoChallenge
<1>3. /\ \A s \in Request \ {r} : granted'[s] = granted[s] /\ rpc'[s] = rpc[s]
      /\ ~(granted'[r] = i /\ rpc'[r] = "deciding")
  BY <1>2 DEF Arrives, Gone, Answer, Inv, TypeOK
<1>4. Holder(i)' = Holder(i) \ {r}
  BY <1>3 DEF Holder
<1> QED
  BY <1>1, <1>4, DropIsLawful

\* The row that is made is issued; the others do not notice.
LEMMA ChallengeIsLawful ==
  ASSUME Inv, NEW i \in Challenge, NEW r \in Request, NEW n \in Challenge,
         create_confirmation(n, req[r]), rpc[r] = "plan", Answer(r, "challenge"),
         UNCHANGED granted
  PROVE  Lawful(i)
<1>1. i # NoChallenge
  BY SubmissionConstants DEF Challenge, NoChallenge
<1>2. granted[r] = NoChallenge
  BY DEF Inv, GrantsAreSound
<1>3. Holder(i)' = Holder(i) /\ Made(i)' = Made(i)
  <2>1. \A s \in Request \ {r} : granted'[s] = granted[s] /\ rpc'[s] = rpc[s]
    BY DEF Answer, Inv, TypeOK
  <2> QED
    BY <1>1, <1>2, <2>1 DEF Holder, Made, create_confirmation
<1>4. CASE n # i
  <2>1. RowUnchanged(i)
    BY <1>4 DEF RowUnchanged, create_confirmation, Inv, TypeOK
  <2> QED
    BY <1>3, <2>1, RowKeepsState DEF RowUnchanged, Lawful, C!confirmationVars
<1>5. CASE n = i
  <2>1. status[i] = "absent" /\ status'[i] = "unused" /\ withdrawn' = withdrawn
    BY <1>5 DEF create_confirmation, Inv, TypeOK
  <2>2. i \notin withdrawn
    BY <2>1 DEF Inv, WithdrawnIsDead
  <2>3. ConfirmationState(i) = "absent" /\ ConfirmationState(i)' = "unused"
    BY <2>1, <2>2 DEF ConfirmationState
  <2> QED
    BY <1>3, <2>3 DEF Lawful, C!ConfirmationNext, C!Issue
<1> QED
  BY <1>4, <1>5

\* What is consumed was unused, and the request that consumed it holds it.
LEMMA ConsumeIsLawful ==
  ASSUME Inv, NEW i \in Challenge, NEW r \in Request, execute_consumes(r)
  PROVE  Lawful(i)
<1>0. i # NoChallenge
  BY SubmissionConstants DEF Challenge, NoChallenge
<1>1. granted[r] = NoChallenge /\ rpc[r] = "execute"
  BY DEF Inv, GrantsAreSound, execute_consumes
<1>2. rpc' = [rpc EXCEPT ![r] = "deciding"]
  BY DEF execute_consumes
<1>3. ASSUME UNCHANGED <<status, terms, withdrawn, basis>>, granted'[r] # i,
             \A s \in Request \ {r} : granted'[s] = granted[s]
      PROVE  Lawful(i)
  <2>1. RowUnchanged(i) /\ Made(i)' = Made(i)
    BY <1>3 DEF RowUnchanged, Made
  <2>2. \A s \in Request \ {r} : rpc'[s] = rpc[s]
    BY <1>2 DEF Inv, TypeOK
  <2>3. Holder(i)' = Holder(i) \ {r}
    BY <1>3, <2>2 DEF Holder
  <2> QED
    BY <2>1, <2>3, DropIsLawful
<1>4. CASE req[r].token = NoChallenge
  <2>1. UNCHANGED <<tableVars, granted>>
    BY <1>4 DEF execute_consumes
  <2> QED
    BY <1>0, <1>1, <1>3, <2>1 DEF tableVars
<1>5. CASE req[r].token # NoChallenge
  <2> PICK typed_right \in BOOLEAN : consume_confirmation(r, typed_right)
    BY <1>5 DEF execute_consumes
  <2> DEFINE won == {n \in Newest(req[r]) : Accepts(n, req[r], typed_right)}
  <2>1. \A n \in won : /\ n \in Challenge /\ n = req[r].token
                       /\ status[n] = "unused" /\ ~lapsed[n]
    BY DEF Newest, Matching, Accepts
  <2>2. /\ status' = [n \in Challenge |-> IF n \in won THEN "used" ELSE status[n]]
        /\ granted' = [granted EXCEPT ![r] = IF won = {} THEN NoChallenge
                                             ELSE CHOOSE n \in won : TRUE]
        /\ UNCHANGED <<terms, withdrawn, basis>>
    BY DEF consume_confirmation
  <2> HIDE DEF won
  <2>3. /\ \A s \in Request \ {r} : granted'[s] = granted[s] /\ rpc'[s] = rpc[s]
        /\ granted'[r] = IF won = {} THEN NoChallenge ELSE req[r].token
        /\ rpc'[r] = "deciding"
    <3>1. won # {} => (CHOOSE n \in won : TRUE) = req[r].token
      BY <2>1
    <3> QED
      BY <1>2, <2>2, <3>1 DEF Inv, TypeOK
  <2>4. CASE i \in won
    <3>1. i \notin withdrawn
      BY <2>1, <2>4 DEF Inv, WithdrawnIsDead
    <3>2. ConfirmationState(i) = "unused" /\ ConfirmationState(i)' = "used"
      BY <2>1, <2>2, <2>4, <3>1 DEF ConfirmationState
    <3>3. \A s \in Request : granted[s] # i
      BY <1>0, <2>1, <2>4 DEF Inv, GrantsAreSound
    <3>4. Holder(i)' = {r} /\ Made(i)' = Made(i) /\ terms'[i] = terms[i]
      BY <2>1, <2>2, <2>3, <2>4, <3>3 DEF Holder, Made
    <3> QED
      BY <3>2, <3>4 DEF Lawful, C!ConfirmationNext, C!Consume
  <2>5. CASE i \notin won
    <3>1. RowUnchanged(i) /\ Made(i)' = Made(i)
      BY <2>2, <2>5 DEF RowUnchanged, Made
    <3>2. granted'[r] # i
      BY <1>0, <2>1, <2>3, <2>5
    <3>3. Holder(i)' = Holder(i) \ {r}
      BY <2>3, <3>2 DEF Holder
    <3> QED
      BY <3>1, <3>3, DropIsLawful
  <2> QED
    BY <2>4, <2>5
<1> QED
  BY <1>4, <1>5

\* A new job spends the confirmation; a known one drops it.
LEMMA CreateIsLawful ==
  ASSUME Inv, NEW i \in Challenge, NEW r \in Request, rpc[r] = "deciding", create_job(r),
         rpc' = [rpc EXCEPT ![r] = "answered"], UNCHANGED <<req, granted>>
  PROVE  Lawful(i)
<1> DEFINE k == req[r].key
<1>0. i # NoChallenge /\ k \in Key
  BY SubmissionConstants DEF Challenge, NoChallenge, Inv, TypeOK, Body
<1>1. RowUnchanged(i)
  BY DEF create_job, RowUnchanged
<1>2. Holder(i)' = Holder(i) \ {r}
  BY DEF Holder, Inv, TypeOK
<1>3. CASE Made(i)' = Made(i)
  BY <1>1, <1>2, <1>3, DropIsLawful
<1>4. CASE job[k] # {}
  BY <1>3, <1>4 DEF create_job, Made
<1>5. CASE job[k] = {}
  <2>1. basis' = [basis EXCEPT ![k] = granted[r]] /\ basis[k] = NoChallenge
    BY <1>0, <1>5 DEF create_job, Inv, BasesAreUsed
  <2>2. CASE granted[r] # i
    <3>1. Made(i)' = Made(i)
      BY <1>0, <2>1, <2>2 DEF Made, Inv, TypeOK
    <3> QED
      BY <1>3, <3>1
  <2>3. CASE granted[r] = i
    <3>1. r \in Holder(i)
      BY <2>3 DEF Holder
    <3>2. /\ ConfirmationState(i) = "used" /\ Holder(i) # {} /\ Holder(i)' = {}
          /\ Made(i) = {}
      BY <1>2, <3>1, OneHolder
    <3>3. Made(i)' = {k}
      BY <1>0, <2>1, <2>3, <3>2 DEF Made, Inv, TypeOK
    <3>4. ConfirmationState(i)' = ConfirmationState(i) /\ terms'[i] = terms[i]
      BY <1>1, RowKeepsState DEF RowUnchanged
    <3> QED
      BY <1>0, <3>2, <3>3, <3>4 DEF Lawful, C!ConfirmationNext, C!Spend
  <2> QED
    BY <2>2, <2>3
<1> QED
  BY <1>4, <1>5

\* Only an unused challenge is withdrawn; the rest is a stutter.
LEMMA WithdrawIsLawful ==
  ASSUME Inv, NEW i \in Challenge, NEW n \in Challenge,
         cancel_confirmation(n) \/ ChallengeLapses(n)
  PROVE  Lawful(i)
<1>1. /\ Holder(i)' = Holder(i) /\ Made(i)' = Made(i) /\ terms'[i] = terms[i]
      /\ status[n] # "absent"
  BY DEF cancel_confirmation, ChallengeLapses, requestVars, Holder, Made
<1>2. CASE n # i
  <2>1. RowUnchanged(i)
    BY <1>2 DEF RowUnchanged, cancel_confirmation, ChallengeLapses, Inv, TypeOK
  <2> QED
    BY <1>1, <2>1, RowKeepsState DEF Lawful, C!confirmationVars
<1>3. CASE n = i
  <2>1. CASE status[i] = "unused"
    <3>1. i \in withdrawn' /\ status'[i] \in {"unused", "used"}
      BY <1>3, <2>1 DEF cancel_confirmation, ChallengeLapses, Inv, TypeOK
    <3>2. ConfirmationState(i)' = "withdrawn" /\ ConfirmationState(i) \in {"unused", "withdrawn"}
      BY <2>1, <3>1 DEF ConfirmationState
    <3> QED
      BY <1>1, <3>2 DEF Lawful, C!ConfirmationNext, C!Withdraw, C!confirmationVars
  <2>2. CASE status[i] # "unused"
    <3>1. RowUnchanged(i)
      BY <1>3, <2>2 DEF RowUnchanged, cancel_confirmation, ChallengeLapses
    <3> QED
      BY <1>1, <3>1, RowKeepsState DEF Lawful, C!confirmationVars
  <2> QED
    BY <2>1, <2>2
<1> QED
  BY <1>2, <1>3

\* What the broker does for a request is lawful for every confirmation.
LEMMA BrokerIsLawful ==
  ASSUME Inv, NEW i \in Challenge, NEW r \in Request, BrokerStep(r)
  PROVE  Lawful(i)
<1>1. CASE plan_allowed(r)
  <2>1. CASE req[r].authority \in Unconfirmed
    BY <1>1, <2>1, RequestIsLawful DEF plan_allowed
  <2>2. CASE req[r].authority \notin Unconfirmed
    BY <1>1, <2>2, ChallengeIsLawful DEF plan_allowed
  <2> QED
    BY <2>1, <2>2
<1>2. CASE plan_refused(r) \/ execute_refused(r)
  BY <1>2, RequestIsLawful DEF plan_refused, execute_refused
<1>3. CASE execute_consumes(r)
  BY <1>3, ConsumeIsLawful
<1>4. CASE execute_allowed(r)
  <2>1. CASE req[r].dry_run
    BY <1>4, <2>1, RequestIsLawful DEF execute_allowed
  <2>2. CASE ~req[r].dry_run
    BY <1>4, <2>2, CreateIsLawful DEF execute_allowed
  <2> QED
    BY <2>1, <2>2
<1> QED
  BY <1>1, <1>2, <1>3, <1>4 DEF BrokerStep

\* Nothing has been issued yet.
LEMMA InitIsLawful == Init => \A i \in Challenge : C(i)!ConfirmationInit
  BY SubmissionConstants DEF Init, C!ConfirmationInit, ConfirmationState, Holder, Made,
     Challenge, NoChallenge

\* The endpoints implement ConfirmationLifecycle, confirmation by confirmation.
THEOREM ConfirmationRefinement == Spec => Confirmations
<1>1. Inv /\ [Next]_vars => [\A i \in Challenge : Lawful(i)]_vars
  <2> SUFFICES ASSUME Inv, Next, NEW i \in Challenge PROVE Lawful(i)
    OBVIOUS
  <2>1. ASSUME NEW r \in Request, NEW endpoint \in {"plan", "execute"}, NEW q \in Body,
               Arrives(r, endpoint, q)
        PROVE  Lawful(i)
    BY <2>1, RequestIsLawful DEF Arrives
  <2>2. ASSUME NEW r \in Request, Gone(r) PROVE Lawful(i)
    BY <2>2, RequestIsLawful DEF Gone
  <2> QED
    BY <2>1, <2>2, BrokerIsLawful, WithdrawIsLawful DEF Next, PlanBody
<1> QED
  BY <1>1, InitIsLawful, SubmissionInvariance, PTL DEF Spec, Confirmations, Lawful

-----------------------------------------------------------------------------
(***************************************************************************)
(* The Stream Deck in front of the broker.  That an entry's key and its    *)
(* challenge belong together rests on where a key is at each moment: with  *)
(* its plan alone, then with the entry, then with the requests that        *)
(* confirm it, all of which carry the challenge of the entry.              *)
(***************************************************************************)
Active(r) == rpc[r] # "idle"
Planning(r) == Active(r) /\ req[r].dry_run
Pends(e, k) == pending[e] # NoPending /\ pending[e].key = k

DeckTypeOK ==
  /\ pending \in [Entry -> [challenge : Challenge, key : Key] \cup {NoPending}]
  /\ handler \in [Request -> {"idle", "planning", "executing"}]
  /\ entry \in [Request -> Entry \cup {NoEntry}]
  /\ \A r \in Request : handler[r] # "idle" => entry[r] \in Entry
  /\ minted \subseteq Key

\* Whatever carries a key got it from randomUUID.
KeysAreMinted ==
  /\ \A r \in Request : Active(r) => req[r].key \in minted
  /\ \A k \in Key : job[k] # {} => k \in minted
  /\ \A e \in Entry : pending[e] # NoPending => pending[e].key \in minted

\* The key of a plan that is under way is nowhere else yet.
PlansAreAlone ==
  \A r \in Request : Planning(r) =>
    /\ rpc[r] \in {"plan", "answered"} /\ req[r].token = NoChallenge
    /\ job[req[r].key] = {}
    /\ \A e \in Entry : ~Pends(e, req[r].key)
    /\ \A s \in Request : Active(s) /\ req[s].key = req[r].key => s = r

PendingKeysDiffer ==
  \A e, f \in Entry :
    pending[e] # NoPending /\ pending[f] # NoPending /\ pending[e].key = pending[f].key => e = f

\* Whoever uses the key of an entry presents the entry's challenge, for an
\* action that needs one.
KeyGoesWithChallenge ==
  \A e \in Entry, r \in Request :
    Active(r) /\ Pends(e, req[r].key) =>
      req[r].token = pending[e].challenge /\ req[r].authority \notin Unconfirmed

EntriesNeedConfirmation ==
  \A e \in Entry : pending[e] # NoPending => e \cap Unconfirmed = {}

\* What a handler and its request know of each other.
HandlersMatch ==
  \A r \in Request :
    /\ handler[r] = "planning" /\ Active(r) =>
         Planning(r) /\ req[r].authority \in entry[r]
    /\ reply[r] = "challenge" => offer[r] \in Challenge /\ req[r].authority \notin Unconfirmed
    /\ granted[r] # NoChallenge => granted[r] = req[r].token

DeckKeys ==
  /\ KeysAreMinted /\ PlansAreAlone /\ PendingKeysDiffer
  /\ KeyGoesWithChallenge /\ EntriesNeedConfirmation /\ HandlersMatch

DeckInv == Inv /\ DeckTypeOK /\ DeckKeys /\ PendingIsBound

\* Every authority has its entry of the map.
LEMMA EntryOfAuthority ==
  ASSUME NEW a \in Authority
  PROVE  key(a) \in Entry /\ a \in key(a)
<1>1. \E e \in Entry : a \in e
  BY DeckConstants
<1> QED
  BY <1>1 DEF key

\* The deck is one subject on one control.
LEMMA DeckIdentity == Deck \in Subject /\ Streamdeck \in Control
BY SubmissionConstants DEF Deck, Streamdeck

\* Steps that start no request, fill no entry and write no job: requests are
\* answered or go, entries are dropped, handlers end.
Quiet ==
  /\ UNCHANGED <<job, basis, minted>>
  /\ \A e \in Entry : pending'[e] \in {pending[e], NoPending}
  /\ \A r \in Request :
       /\ Active(r)' => /\ Active(r) /\ req'[r] = req[r]
                        /\ rpc'[r] \in {rpc[r], "answered"} \/ ~req[r].dry_run
       /\ handler'[r] # "idle" => handler'[r] = handler[r] /\ entry'[r] = entry[r]
       /\ reply'[r] = "challenge" =>
            \/ reply[r] = "challenge" /\ offer'[r] = offer[r] /\ req'[r] = req[r]
            \/ offer'[r] \in Challenge /\ req'[r].authority \notin Unconfirmed
       /\ granted'[r] # NoChallenge => granted'[r] = req'[r].token

\* A quiet step disturbs no key.
LEMMA QuietStep ==
  ASSUME DeckInv, Inv', DeckTypeOK', Quiet
  PROVE  DeckKeys' /\ PendingIsBound'
<1> USE DEF DeckInv, DeckKeys, Quiet
<1>1. KeysAreMinted'
  BY DEF KeysAreMinted
<1>2. PlansAreAlone'
  BY DEF PlansAreAlone, Planning, Pends, Active
<1>3. PendingKeysDiffer' /\ EntriesNeedConfirmation'
  BY DEF PendingKeysDiffer, EntriesNeedConfirmation
<1>4. KeyGoesWithChallenge'
  BY DEF KeyGoesWithChallenge, Pends
<1>5. HandlersMatch'
  BY DEF HandlersMatch, Planning, Active
<1>6. PendingIsBound'
  BY DEF PendingIsBound
<1> QED
  BY <1>1, <1>2, <1>3, <1>4, <1>5, <1>6

\* Nothing of what the keys depend on changes.
LEMMA IdleStep ==
  ASSUME DeckInv, UNCHANGED <<vars, pending, handler, entry, minted>>
  PROVE  Inv' /\ DeckTypeOK' /\ Quiet
<1> USE DEF DeckInv, DeckKeys
<1>1. Inv'
  BY SubmissionStep
<1>2. DeckTypeOK'
  BY DEF DeckTypeOK
<1>3. Quiet
  BY DEF vars, tableVars, requestVars, Quiet, HandlersMatch, Active
<1> QED
  BY <1>1, <1>2, <1>3

\* A challenge that lapses.
LEMMA LapseStep ==
  ASSUME DeckInv, NEW i \in Challenge, ChallengeLapses(i), UNCHANGED deckVars
  PROVE  Inv' /\ DeckTypeOK' /\ Quiet
<1> USE DEF DeckInv, DeckKeys
<1>1. Inv'
  BY SubmissionStep DEF Next
<1>2. DeckTypeOK'
  BY DEF DeckTypeOK, deckVars
<1>3. Quiet
  BY DEF ChallengeLapses, deckVars, requestVars, Quiet, HandlersMatch, Active
<1> QED
  BY <1>1, <1>2, <1>3

\* The broker's steps that write no job.
LEMMA BrokerQuiet ==
  ASSUME DeckInv, NEW r \in Request, UNCHANGED deckVars,
         \/ plan_allowed(r) \/ plan_refused(r) \/ execute_consumes(r) \/ execute_refused(r)
         \/ execute_allowed(r) /\ req[r].dry_run
  PROVE  Inv' /\ DeckTypeOK' /\ Quiet
<1> USE DEF DeckInv, DeckKeys
<1>1. Inv'
  BY SubmissionStep DEF Next, BrokerStep
<1>2. DeckTypeOK'
  BY DEF DeckTypeOK, deckVars
<1>3. UNCHANGED <<job, basis, req>>
  BY DEF plan_allowed, plan_refused, execute_consumes, execute_refused, execute_allowed,
     create_confirmation, consume_confirmation, Answer, tableVars
<1>4. \A s \in Request : Active(s)' =>
        Active(s) /\ (rpc'[s] \in {rpc[s], "answered"} \/ ~req[s].dry_run)
  BY DEF plan_allowed, plan_refused, execute_consumes, execute_refused, execute_allowed,
     Answer, PlansAreAlone, Planning, Active, Inv, TypeOK
<1>5. \A s \in Request : reply'[s] = "challenge" =>
        \/ reply[s] = "challenge" /\ offer'[s] = offer[s]
        \/ offer'[s] \in Challenge /\ req[s].authority \notin Unconfirmed
  <2>1. CASE plan_allowed(r)
    BY <2>1 DEF plan_allowed, Answer, Inv, TypeOK
  <2>2. CASE ~plan_allowed(r)
    BY <2>2 DEF plan_refused, execute_consumes, execute_refused, execute_allowed, Answer,
       Inv, TypeOK
  <2> QED
    BY <2>1, <2>2
<1>6. \A s \in Request : granted'[s] # NoChallenge => granted'[s] = req[s].token
  <2>1. CASE granted' = granted
    BY <2>1 DEF HandlersMatch
  <2>2. ASSUME NEW typed_right \in BOOLEAN, consume_confirmation(r, typed_right)
        PROVE  \A s \in Request : granted'[s] # NoChallenge => granted'[s] = req[s].token
    <3> DEFINE won == {i \in Newest(req[r]) : Accepts(i, req[r], typed_right)}
               n == CHOOSE i \in won : TRUE
    <3>1. granted' = [granted EXCEPT ![r] = IF won = {} THEN NoChallenge ELSE n]
      BY <2>2 DEF consume_confirmation
    <3>2. won # {} => n = req[r].token
      <4>1. won # {} => n \in won
        OBVIOUS
      <4> QED
        BY <4>1 DEF Accepts
    <3> HIDE DEF won, n
    <3> QED
      BY <3>1, <3>2 DEF HandlersMatch, Inv, TypeOK
  <2> QED
    BY <2>1, <2>2 DEF plan_allowed, plan_refused, execute_consumes, execute_refused,
       execute_allowed
<1>7. Quiet
  BY <1>3, <1>4, <1>5, <1>6 DEF deckVars, Quiet
<1> QED
  BY <1>1, <1>2, <1>7

\* A handler that ends, with or without its answer, and a request that is gone.
LEMMA HandlerEnds ==
  ASSUME DeckInv, NEW r \in Request,
         \/ ExecuteReturns(r) \/ PressRefused(r) \/ PressTimesOut(r) \/ RequestGone(r)
         \/ PlanReturns(r) /\ ~(reply[r] = "challenge" /\ req[r].authority \notin Typed)
  PROVE  Inv' /\ DeckTypeOK' /\ Quiet
<1> USE DEF DeckInv, DeckKeys
<1>1. Gone(r) \/ UNCHANGED vars
  BY DEF ExecuteReturns, PressRefused, PressTimesOut, RequestGone, PlanReturns
<1>2. Inv'
  BY <1>1, SubmissionStep DEF Next
<1>3. /\ minted' = minted
      /\ \/ UNCHANGED pending
         \/ handler[r] # "idle" /\ pending' = [pending EXCEPT ![entry[r]] = NoPending]
      /\ \/ UNCHANGED <<handler, entry>>
         \/ /\ handler' = [handler EXCEPT ![r] = "idle"]
            /\ entry' = [entry EXCEPT ![r] = NoEntry]
  BY DEF ExecuteReturns, PressRefused, PressTimesOut, RequestGone, PlanReturns, deckVars,
     HandlerDone, HandlerTo, Forget, Put
<1>4. DeckTypeOK'
  BY <1>3 DEF DeckTypeOK
<1>5. \A e \in Entry : pending'[e] \in {pending[e], NoPending}
  BY <1>3 DEF DeckTypeOK
<1>6. \A s \in Request : handler'[s] # "idle" => handler'[s] = handler[s] /\ entry'[s] = entry[s]
  BY <1>3 DEF DeckTypeOK
<1>7. /\ UNCHANGED <<job, basis>>
      /\ \A s \in Request :
           /\ Active(s)' => Active(s) /\ req'[s] = req[s] /\ rpc'[s] = rpc[s]
           /\ reply'[s] = "challenge" =>
                reply[s] = "challenge" /\ offer'[s] = offer[s] /\ req'[s] = req[s]
           /\ granted'[s] # NoChallenge => granted'[s] = req'[s].token
  BY <1>1 DEF Gone, vars, tableVars, requestVars, Active, HandlersMatch, Inv, TypeOK
<1>8. Quiet
  BY <1>3, <1>5, <1>6, <1>7 DEF Quiet
<1> QED
  BY <1>2, <1>4, <1>8

\* A fresh key is known to nobody.
LEMMA PressPlansStep ==
  ASSUME DeckInv, NEW r \in Request, NEW a \in Authority, PressPlans(r, a)
  PROVE  DeckInv'
<1> USE DEF DeckInv, DeckKeys
<1> DEFINE e == key(a)
<1>1. e \in Entry /\ a \in e
  BY EntryOfAuthority
<1> HIDE DEF e
<1> PICK k \in Key \ minted : /\ Arrives(r, "plan", request(a, k, NoChallenge, TRUE))
                              /\ minted' = minted \cup {k}
  BY DEF PressPlans
<1> DEFINE q == request(a, k, NoChallenge, TRUE)
<1>2. q \in Body /\ q.authority = a /\ q.key = k /\ q.dry_run = TRUE /\ q.token = NoChallenge
  <2>1. k \in Key /\ NoChallenge \in Challenge \cup {NoChallenge}
    OBVIOUS
  <2> QED
    BY <2>1, DeckIdentity, Zenon DEF request, Body
<1> HIDE DEF q
<1>3. Inv'
  BY <1>2, RequestStep DEF Arrives, q
<1>4. /\ rpc[r] = "idle" /\ rpc' = [rpc EXCEPT ![r] = "plan"] /\ req' = [req EXCEPT ![r] = q]
      /\ UNCHANGED <<job, basis, granted, offer, reply>>
      /\ granted[r] = NoChallenge /\ reply[r] = "none"
  BY DEF Arrives, q, tableVars, Inv, TypeOK
<1>5. /\ pending' = [pending EXCEPT ![e] = NoPending]
      /\ handler' = [handler EXCEPT ![r] = "planning"]
      /\ entry' = [entry EXCEPT ![r] = e]
  BY DEF PressPlans, Forget, Put, HandlerTo, e
<1>6. \A s \in Request : s # r => rpc'[s] = rpc[s] /\ req'[s] = req[s]
  BY <1>4 DEF Inv, TypeOK
<1>7. rpc'[r] = "plan" /\ req'[r] = q
  BY <1>4 DEF Inv, TypeOK
<1>8. \A f \in Entry : pending'[f] \in {pending[f], NoPending}
  BY <1>5 DEF DeckTypeOK
<1>9. DeckTypeOK'
  BY <1>1, <1>5, <1>8 DEF DeckTypeOK
<1>10. KeysAreMinted'
  BY <1>2, <1>4, <1>6, <1>7, <1>8 DEF KeysAreMinted, Active
<1>11. PlansAreAlone'
  BY <1>2, <1>4, <1>6, <1>7, <1>8 DEF PlansAreAlone, KeysAreMinted, Planning, Pends, Active
<1>12. PendingKeysDiffer' /\ EntriesNeedConfirmation'
  BY <1>8 DEF PendingKeysDiffer, EntriesNeedConfirmation
<1>13. KeyGoesWithChallenge'
  BY <1>2, <1>6, <1>7, <1>8 DEF KeyGoesWithChallenge, KeysAreMinted, Pends, Active
<1>14. HandlersMatch'
  BY <1>1, <1>2, <1>4, <1>5, <1>6, <1>7 DEF HandlersMatch, Planning, Active, DeckTypeOK
<1>15. PendingIsBound'
  BY <1>4, <1>8 DEF PendingIsBound
<1> QED
  BY <1>3, <1>9, <1>10, <1>11, <1>12, <1>13, <1>14, <1>15

\* The second press sends the entry's key with the entry's challenge.
LEMMA PressConfirmsStep ==
  ASSUME DeckInv, NEW r \in Request, NEW a \in Authority, PressConfirms(r, a)
  PROVE  DeckInv'
<1> USE DEF DeckInv, DeckKeys
<1> DEFINE e == key(a)
<1>1. e \in Entry /\ a \in e
  BY EntryOfAuthority
<1> HIDE DEF e
<1> DEFINE k == pending[e].key
           t == pending[e].challenge
           q == request(a, k, t, FALSE)
<1>2. pending[e] # NoPending /\ k \in Key /\ t \in Challenge
  BY <1>1 DEF PressConfirms, e, DeckTypeOK
<1>3. Arrives(r, "execute", q)
  BY DEF PressConfirms, e
<1> HIDE DEF k, t
<1>4. q \in Body /\ q.authority = a /\ q.key = k /\ q.token = t /\ q.dry_run = FALSE
  <2>1. t \in Challenge \cup {NoChallenge}
    BY <1>2
  <2> QED
    BY <1>2, <2>1, DeckIdentity, Zenon DEF request, Body
<1> HIDE DEF q
<1>5. Inv'
  BY <1>3, <1>4, RequestStep DEF Arrives
<1>6. /\ rpc[r] = "idle" /\ rpc' = [rpc EXCEPT ![r] = "execute"] /\ req' = [req EXCEPT ![r] = q]
      /\ UNCHANGED <<job, basis, granted, offer, reply, pending, minted>>
      /\ granted[r] = NoChallenge /\ reply[r] = "none"
  BY <1>3 DEF PressConfirms, Arrives, tableVars, Inv, TypeOK
<1>7. /\ handler' = [handler EXCEPT ![r] = "executing"]
      /\ entry' = [entry EXCEPT ![r] = e]
  BY DEF PressConfirms, HandlerTo, e
<1>8. \A s \in Request : s # r => rpc'[s] = rpc[s] /\ req'[s] = req[s]
  BY <1>6 DEF Inv, TypeOK
<1>9. rpc'[r] = "execute" /\ req'[r] = q
  BY <1>6 DEF Inv, TypeOK
<1>10. DeckTypeOK'
  BY <1>1, <1>6, <1>7 DEF DeckTypeOK
<1>11. KeysAreMinted'
  BY <1>1, <1>2, <1>4, <1>6, <1>8, <1>9 DEF KeysAreMinted, Active, k
<1>12. PlansAreAlone'
  BY <1>1, <1>2, <1>4, <1>6, <1>8, <1>9 DEF PlansAreAlone, Planning, Pends, Active, k, t
<1>13. PendingKeysDiffer' /\ EntriesNeedConfirmation' /\ PendingIsBound'
  BY <1>6 DEF PendingKeysDiffer, EntriesNeedConfirmation, PendingIsBound
<1>14. KeyGoesWithChallenge'
  BY <1>1, <1>2, <1>4, <1>6, <1>8, <1>9
     DEF KeyGoesWithChallenge, PendingKeysDiffer, EntriesNeedConfirmation, Pends, Active, k, t
<1>15. HandlersMatch'
  BY <1>6, <1>7, <1>8, <1>9 DEF HandlersMatch, Planning, Active, DeckTypeOK
<1> QED
  BY <1>5, <1>10, <1>11, <1>12, <1>13, <1>14, <1>15

\* The plan's answer fills the entry; the key moves from the plan to the entry.
LEMMA PlanReturnsStep ==
  ASSUME DeckInv, NEW r \in Request, PlanReturns(r), reply[r] = "challenge",
         req[r].authority \notin Typed
  PROVE  DeckInv'
<1> USE DEF DeckInv, DeckKeys
<1> DEFINE e == entry[r]
           p == [challenge |-> offer[r], key |-> req[r].key]
<1>1. /\ e \in Entry /\ Active(r) /\ Planning(r) /\ req[r].authority \in e
      /\ offer[r] \in Challenge /\ req[r].authority \notin Unconfirmed
      /\ req[r].key \in Key
  BY DEF PlanReturns, DeckTypeOK, HandlersMatch, Active, Inv, TypeOK, Body
<1>2. pending' = [pending EXCEPT ![e] = p] /\ UNCHANGED minted /\ Gone(r)
  BY DEF PlanReturns, Put
<1>3. handler' = [handler EXCEPT ![r] = "idle"] /\ entry' = [entry EXCEPT ![r] = NoEntry]
  BY DEF PlanReturns, HandlerDone, HandlerTo
<1>4. /\ p \in [challenge : Challenge, key : Key]
      /\ p.key = req[r].key /\ p.challenge = offer[r]
  BY <1>1
<1> HIDE DEF e, p
<1>5. Inv'
  BY <1>2, RequestStep DEF Gone
<1>6. /\ UNCHANGED <<job, basis>> /\ rpc'[r] = "idle"
      /\ granted'[r] = NoChallenge /\ reply'[r] = "none"
      /\ \A s \in Request : s # r =>
           /\ rpc'[s] = rpc[s] /\ req'[s] = req[s] /\ granted'[s] = granted[s]
           /\ offer'[s] = offer[s] /\ reply'[s] = reply[s]
  BY <1>2 DEF Gone, tableVars, Inv, TypeOK
<1>7. pending'[e] = p /\ \A f \in Entry : f # e => pending'[f] = pending[f]
  BY <1>1, <1>2 DEF DeckTypeOK
<1>8. /\ job[p.key] = {} /\ p.key \in minted
      /\ \A f \in Entry : ~Pends(f, p.key)
      /\ \A s \in Request : Active(s) /\ req[s].key = p.key => s = r
  BY <1>1, <1>4 DEF PlansAreAlone, KeysAreMinted
<1>9. DeckTypeOK'
  BY <1>1, <1>2, <1>3, <1>4 DEF DeckTypeOK
<1>10. KeysAreMinted'
  BY <1>2, <1>6, <1>7, <1>8 DEF KeysAreMinted, Active
<1>11. PlansAreAlone'
  BY <1>6, <1>7, <1>8 DEF PlansAreAlone, Planning, Pends, Active
<1>12. PendingKeysDiffer'
  BY <1>7, <1>8 DEF PendingKeysDiffer, Pends
<1>13. KeyGoesWithChallenge'
  BY <1>6, <1>7, <1>8 DEF KeyGoesWithChallenge, Pends, Active
<1>14. EntriesNeedConfirmation'
  BY <1>1, <1>7, DeckConstants DEF EntriesNeedConfirmation
<1>15. HandlersMatch'
  BY <1>3, <1>6 DEF HandlersMatch, Planning, Active, DeckTypeOK
<1>16. PendingIsBound'
  BY <1>6, <1>7, <1>8 DEF PendingIsBound
<1> QED
  BY <1>5, <1>9, <1>10, <1>11, <1>12, <1>13, <1>14, <1>15, <1>16

\* The task that needs no confirmation goes on with its own key.
LEMMA PlanContinuesStep ==
  ASSUME DeckInv, NEW r \in Request, PlanContinues(r)
  PROVE  DeckInv'
<1> USE DEF DeckInv, DeckKeys
<1>1. /\ rpc[r] = "answered" /\ Planning(r) /\ entry[r] \in Entry
      /\ UNCHANGED <<tableVars, granted, offer, pending, minted>>
      /\ handler' = [handler EXCEPT ![r] = "executing"]
      /\ entry' = [entry EXCEPT ![r] = entry[r]]
      /\ rpc' = [rpc EXCEPT ![r] = "execute"] /\ reply' = [reply EXCEPT ![r] = "none"]
      /\ req' = [req EXCEPT ![r] = [req[r] EXCEPT !.dry_run = FALSE]]
  BY DEF PlanContinues, HandlerTo, HandlersMatch, DeckTypeOK, Active
<1> DEFINE q == [req[r] EXCEPT !.dry_run = FALSE]
<1>2. /\ q \in Body /\ ~q.dry_run /\ q.key = req[r].key /\ q.token = req[r].token
      /\ q.authority = req[r].authority /\ q.subject = req[r].subject /\ q.control = req[r].control
  <2>1. req[r] \in Body
    BY DEF Inv, TypeOK
  <2>2. FALSE \in BOOLEAN
    OBVIOUS
  <2> QED
    BY <2>1, <2>2 DEF Body
<1> HIDE DEF q
<1>3. req' = [req EXCEPT ![r] = q] /\ req'[r] = q /\ rpc'[r] = "execute"
  BY <1>1 DEF q, Inv, TypeOK
<1>4. \A s \in Request : s # r => rpc'[s] = rpc[s] /\ req'[s] = req[s] /\ reply'[s] = reply[s]
  BY <1>1 DEF Inv, TypeOK
<1>5. granted[r] = NoChallenge
  BY <1>1 DEF PlansAreAlone, HandlersMatch
<1>6. Inv'
  <2>1. TypeOK'
    BY <1>1, <1>2, <1>3, <1>5 DEF Inv, TypeOK, tableVars
  <2>2. GrantsAreSound'
    BY <1>1, <1>4, <1>5 DEF Inv, TypeOK, GrantsAreSound, tableVars
  <2>3. BasesAreUsed' /\ WithdrawnIsDead' /\ JobsAreApproved' /\ WithdrawnNeverApproves'
    BY <1>1 DEF Inv, BasesAreUsed, WithdrawnIsDead, JobsAreApproved, WithdrawnNeverApproves,
       tableVars
  <2>4. ConfirmationIsSingleUse'
    BY <1>1, <1>4, <1>5 DEF Inv, TypeOK, ConfirmationIsSingleUse, tableVars
  <2> QED
    BY <2>1, <2>2, <2>3, <2>4 DEF Inv
<1>7. UNCHANGED <<job, basis, pending, minted>>
  BY <1>1 DEF tableVars
<1>8. DeckTypeOK'
  BY <1>1 DEF DeckTypeOK
<1>9. KeysAreMinted'
  BY <1>1, <1>2, <1>3, <1>4, <1>7 DEF KeysAreMinted, Active, Planning
<1>10. PlansAreAlone'
  BY <1>1, <1>2, <1>3, <1>4, <1>7 DEF PlansAreAlone, Planning, Pends, Active
<1>11. PendingKeysDiffer' /\ EntriesNeedConfirmation' /\ PendingIsBound'
  BY <1>7 DEF PendingKeysDiffer, EntriesNeedConfirmation, PendingIsBound
<1>12. KeyGoesWithChallenge'
  BY <1>1, <1>2, <1>3, <1>4, <1>7 DEF KeyGoesWithChallenge, PlansAreAlone, Pends, Active
<1>13. HandlersMatch'
  BY <1>1, <1>2, <1>3, <1>4, <1>5 DEF HandlersMatch, Planning, Active, DeckTypeOK, Inv, TypeOK
<1> QED
  BY <1>6, <1>8, <1>9, <1>10, <1>11, <1>12, <1>13

\* A job under an entry's key is made by the entry's challenge.
LEMMA JobStep ==
  ASSUME DeckInv, NEW r \in Request, execute_allowed(r), ~req[r].dry_run, UNCHANGED deckVars
  PROVE  DeckInv'
<1> USE DEF DeckInv, DeckKeys
<1>1. Inv'
  BY SubmissionStep DEF Next, BrokerStep
<1>2. /\ rpc[r] = "deciding" /\ confirmation_satisfied(r) /\ create_job(r)
      /\ rpc' = [rpc EXCEPT ![r] = "answered"] /\ UNCHANGED <<req, granted, offer>>
  BY DEF execute_allowed
<1>3. UNCHANGED <<pending, handler, entry, minted>>
  BY DEF deckVars
<1> DEFINE k == req[r].key
<1>4. k \in Key /\ k \in minted
  BY <1>2 DEF Inv, TypeOK, Body, KeysAreMinted, Active
<1>5. \A l \in Key : l # k \/ job[k] # {} => job'[l] = job[l] /\ basis'[l] = basis[l]
  BY <1>2 DEF create_job, Inv, TypeOK
<1>6. job[k] = {} => basis'[k] = granted[r]
  BY <1>2, <1>4 DEF create_job, Inv, TypeOK
<1>7. \A s \in Request : /\ Active(s)' = Active(s)
                         /\ rpc'[s] \in {rpc[s], "answered"}
                         /\ reply'[s] = "challenge" => reply[s] = "challenge"
  BY <1>2 DEF create_job, Active, Inv, TypeOK
<1> HIDE DEF k
<1>8. DeckTypeOK'
  BY <1>3 DEF DeckTypeOK
<1>9. KeysAreMinted'
  BY <1>2, <1>3, <1>4, <1>5, <1>7 DEF KeysAreMinted
<1>10. PlansAreAlone'
  <2>1. \A s \in Request : Planning(s) => req[s].key # k /\ req[s].key \in Key
    BY <1>2 DEF PlansAreAlone, Planning, Active, k, Inv, TypeOK, Body
  <2> QED
    BY <1>2, <1>3, <1>5, <1>7, <2>1 DEF PlansAreAlone, Planning, Pends
<1>11. PendingKeysDiffer' /\ EntriesNeedConfirmation'
  BY <1>3 DEF PendingKeysDiffer, EntriesNeedConfirmation
<1>12. KeyGoesWithChallenge'
  BY <1>2, <1>3, <1>7 DEF KeyGoesWithChallenge, Pends
<1>13. HandlersMatch'
  BY <1>2, <1>3, <1>7 DEF HandlersMatch, Planning
<1>14. PendingIsBound'
  <2> SUFFICES ASSUME NEW e \in Entry, pending[e] # NoPending, job'[pending[e].key] # {}
               PROVE  basis'[pending[e].key] = pending[e].challenge
    BY <1>3 DEF PendingIsBound
  <2>1. pending[e].key \in Key
    BY DEF DeckTypeOK
  <2>2. CASE pending[e].key # k \/ job[k] # {}
    BY <1>5, <2>1, <2>2 DEF PendingIsBound
  <2>3. CASE pending[e].key = k /\ job[k] = {}
    <3>1. req[r].token = pending[e].challenge /\ req[r].authority \notin Unconfirmed
      BY <1>2, <2>3 DEF KeyGoesWithChallenge, Pends, Active, k
    <3>2. granted[r] = pending[e].challenge
      BY <1>2, <3>1 DEF confirmation_satisfied, HandlersMatch
    <3> QED
      BY <1>6, <2>3, <3>2
  <2> QED
    BY <2>2, <2>3
<1> QED
  BY <1>1, <1>8, <1>9, <1>10, <1>11, <1>12, <1>13, <1>14

\* The deck's invariant holds in every behaviour of deck and broker.
THEOREM DeckInvariance == DeckSpec => []DeckInv
<1>1. DeckInit => DeckInv
  <2> SUFFICES ASSUME DeckInit PROVE DeckInv
    OBVIOUS
  <2>1. Init /\ Inv
    BY InitInv DEF DeckInit
  <2>2. DeckTypeOK
    BY DEF DeckInit, DeckTypeOK
  <2>3. DeckKeys /\ PendingIsBound
    BY <2>1 DEF DeckInit, Init, DeckKeys, KeysAreMinted, PlansAreAlone, PendingKeysDiffer,
       KeyGoesWithChallenge, EntriesNeedConfirmation, HandlersMatch, PendingIsBound, Planning,
       Pends, Active
  <2> QED
    BY <2>1, <2>2, <2>3 DEF DeckInv
<1>2. DeckInv /\ [DeckNext]_allVars => DeckInv'
  <2> SUFFICES ASSUME DeckInv, [DeckNext]_allVars PROVE DeckInv'
    OBVIOUS
  <2>1. ASSUME Inv', DeckTypeOK', Quiet PROVE DeckInv'
    BY <2>1, QuietStep DEF DeckInv
  <2>2. CASE UNCHANGED allVars \/ \E e \in Entry : EntryAges(e)
    BY <2>1, <2>2, IdleStep DEF allVars, EntryAges, deckVars
  <2>3. ASSUME NEW i \in Challenge, ChallengeLapses(i), UNCHANGED deckVars PROVE DeckInv'
    BY <2>1, <2>3, LapseStep
  <2>4. ASSUME NEW r \in Request, BrokerStep(r), UNCHANGED deckVars PROVE DeckInv'
    BY <2>1, <2>4, BrokerQuiet, JobStep DEF BrokerStep
  <2>5. ASSUME NEW r \in Request,
               \/ ExecuteReturns(r) \/ PressRefused(r) \/ PressTimesOut(r) \/ RequestGone(r)
               \/ PlanReturns(r) /\ ~(reply[r] = "challenge" /\ req[r].authority \notin Typed)
        PROVE  DeckInv'
    BY <2>1, <2>5, HandlerEnds
  <2> QED
    BY <2>2, <2>3, <2>4, <2>5, PressPlansStep, PressConfirmsStep, PlanReturnsStep,
       PlanContinuesStep DEF DeckNext
<1> QED
  BY <1>1, <1>2, PTL DEF DeckSpec

\* What runs is what was confirmed, whatever entry the keys share.
THEOREM DeckApproval == DeckSpec => []DeckRunsWhatWasConfirmed
<1>1. DeckInv => DeckRunsWhatWasConfirmed
  BY DEF DeckInv, Inv, DeckRunsWhatWasConfirmed
<1> QED
  BY <1>1, DeckInvariance, PTL

\* An entry's key makes jobs on the entry's own challenge only.
THEOREM KeyBinding == DeckSpec => []PendingIsBound
<1>1. DeckInv => PendingIsBound
  BY DEF DeckInv
<1> QED
  BY <1>1, DeckInvariance, PTL

\* The one step of the deck that is none of the broker: no table changes, and
\* the request holds nothing.
LEMMA ContinuesIsLawful ==
  ASSUME DeckInv, NEW r \in Request, PlanContinues(r), NEW i \in Challenge
  PROVE  Lawful(i)
<1>1. RowUnchanged(i) /\ Made(i)' = Made(i)
  BY DEF PlanContinues, tableVars, RowUnchanged, Made
<1>2. Holder(i)' = Holder(i) \ {r}
  BY DEF PlanContinues, Holder, DeckInv, Inv, TypeOK
<1> QED
  BY <1>1, <1>2, DropIsLawful DEF DeckInv

\* Presses that overlap, give up and come back leave every confirmation with the
\* same life: the deck and the broker together implement ConfirmationLifecycle.
THEOREM DeckConfirmations == DeckSpec => Confirmations
<1>1. DeckInit => \A i \in Challenge : C(i)!ConfirmationInit
  BY InitIsLawful DEF DeckInit
<1>2. DeckInv /\ [DeckNext]_allVars => [\A i \in Challenge : Lawful(i)]_vars
  <2> SUFFICES ASSUME DeckInv, DeckNext, ~UNCHANGED vars, NEW i \in Challenge
               PROVE  Lawful(i)
    BY DEF allVars
  <2>1. Inv
    BY DEF DeckInv
  <2>2. ASSUME NEW r \in Request, Gone(r) PROVE Lawful(i)
    BY <2>1, <2>2, RequestIsLawful DEF Gone
  <2>3. ASSUME NEW r \in Request, NEW a \in Authority, PressPlans(r, a) \/ PressConfirms(r, a)
        PROVE  Lawful(i)
    <3>1. PICK endpoint \in {"plan", "execute"} : \E q : Arrives(r, endpoint, q)
      BY <2>3 DEF PressPlans, PressConfirms
    <3> QED
      BY <2>1, <3>1, RequestIsLawful DEF Arrives
  <2> QED
    BY <2>1, <2>2, <2>3, BrokerIsLawful, WithdrawIsLawful, ContinuesIsLawful
       DEF DeckNext, PlanReturns, ExecuteReturns, PressRefused, PressTimesOut, RequestGone,
       EntryAges
<1> QED
  BY <1>1, <1>2, DeckInvariance, PTL DEF DeckSpec, Confirmations, Lawful

\* A press that is shown a job is shown the job of its own request, however its
\* presses, retries and timeouts overlap.
THEOREM DeckAnswers == DeckSpec => []AnswersNameTheirRequest
<1>1. DeckInit => JobIsFinal
  BY DEF DeckInit, Init, JobIsFinal
<1>2. DeckInv /\ JobIsFinal /\ [DeckNext]_allVars => JobIsFinal'
  <2> SUFFICES ASSUME DeckInv, JobIsFinal, [DeckNext]_allVars PROVE JobIsFinal'
    OBVIOUS
  <2>1. Inv
    BY DEF DeckInv
  <2>2. CASE UNCHANGED vars
    BY <2>1, <2>2, TablesAnswer DEF vars, tableVars, requestVars
  <2>3. ASSUME NEW i \in Challenge, ChallengeLapses(i) PROVE JobIsFinal'
    BY <2>1, <2>3, TablesAnswer DEF ChallengeLapses, requestVars
  <2>4. ASSUME NEW r \in Request, NEW a \in Authority, PressPlans(r, a) \/ PressConfirms(r, a)
        PROVE  JobIsFinal'
    <3>1. PICK endpoint \in {"plan", "execute"} : \E q : Arrives(r, endpoint, q)
      BY <2>4 DEF PressPlans, PressConfirms
    <3> QED
      BY <2>1, <3>1, OtherStepsAnswer
  <2>5. ASSUME NEW r \in Request, PlanContinues(r) PROVE JobIsFinal'
    <3> SUFFICES ASSUME NEW s \in Request, reply'[s] = "job"
                 PROVE  rpc'[s] = "answered" /\ Named(s)'
      BY DEF JobIsFinal
    <3>1. s # r /\ reply'[s] = reply[s] /\ rpc'[s] = rpc[s] /\ req'[s] = req[s] /\ job' = job
      BY <2>1, <2>5 DEF PlanContinues, tableVars, Inv, TypeOK
    <3> QED
      BY <2>1, <3>1, AnswerStays
  <2>6. ASSUME NEW r \in Request, Gone(r) PROVE JobIsFinal'
    BY <2>1, <2>6, OtherStepsAnswer
  <2>7. ASSUME NEW r \in Request, BrokerStep(r) PROVE JobIsFinal'
    BY <2>1, <2>7, OtherStepsAnswer, ExecuteAnswers DEF BrokerStep
  <2> QED
    BY <2>2, <2>3, <2>4, <2>5, <2>6, <2>7
       DEF DeckNext, PlanReturns, ExecuteReturns, PressRefused, PressTimesOut, RequestGone,
       EntryAges, allVars
<1>3. JobIsFinal => AnswersNameTheirRequest
  BY DEF JobIsFinal, Named, AnswersNameTheirRequest
<1> QED
  BY <1>1, <1>2, <1>3, DeckInvariance, PTL DEF DeckSpec
=============================================================================
