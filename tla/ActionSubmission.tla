--------------------------- MODULE ActionSubmission ---------------------------
(***************************************************************************)
(* How a job comes to be: the broker's plan, execute and confirmation      *)
(* endpoints (deckhand/api.py), the confirmations and jobs tables behind   *)
(* them (deckhand/store.py) and what each digest binds                     *)
(* (deckhand/digests.py).                                                  *)
(*                                                                         *)
(* Requests are asyncio tasks of one process.  Each store call is one      *)
(* transaction; between the consumption of a confirmation and the creation *)
(* of the job the task awaits the policy engine, and anything may happen:  *)
(* other requests run, challenges lapse, the broker restarts.              *)
(*                                                                         *)
(* A request is abstracted to what the two digests and the confirmation    *)
(* row tell apart.  A token is the number of the challenge it belongs to.  *)
(***************************************************************************)
EXTENDS Naturals, FiniteSets

CONSTANTS
  Authority,      \* (action, version, target, parameters): confirmation_digest
  Subject,        \* (name, device) of the verified identity
  Control,        \* request.context, of which control is compared
  Key,            \* idempotency keys
  MaxChallenges,  \* how many confirmations are issued
  Request,        \* HTTP requests in progress at the same time
  Unconfirmed,    \* authorities of actions that need no confirmation
  Typed           \* authorities of actions in TYPED confirmation mode

ASSUME SubmissionConstants ==
  /\ MaxChallenges \in Nat
  /\ Unconfirmed \subseteq Authority
  /\ Typed \subseteq Authority \ Unconfirmed
  /\ Authority # {} /\ Subject # {} /\ Control # {} /\ Key # {}

\* Confirmations are numbered by created_at.
Challenge == 1 .. MaxChallenges
NoChallenge == 0

VARIABLES
  \* The confirmations table.
  status,     \* "absent", "unused" or "used" (used_at IS NOT NULL)
  terms,      \* what the row binds: authority, subject and control
  lapsed,     \* expires_at has passed
  withdrawn,  \* cancelled by its subject, or lapsed before it was used
  \* The jobs table, by idempotency_key.
  job,        \* the replay identity of the job's request; {} when no row
  basis,      \* the confirmation the job was created on
  \* Requests.
  rpc,        \* "idle", "plan", "execute", "deciding" or "answered"
  req,        \* the request body and the verified subject
  granted,    \* the confirmation consumed; NoChallenge: confirmation_valid is false
  offer,      \* the challenge in the answer to a plan
  reply       \* "none", "ready", "challenge", "job", "denied" or "error"

tableVars == <<status, terms, lapsed, withdrawn, job, basis>>
requestVars == <<rpc, req, granted, offer, reply>>
vars == <<tableVars, requestVars>>

Terms == [authority : Authority, subject : Subject, control : Control]
Body == [authority : Authority, subject : Subject, control : Control, key : Key,
         dry_run : BOOLEAN, token : Challenge \cup {NoChallenge}]

\* What the replay digest covers: everything but the proof of approval.
Digest == [authority : Authority, control : Control, dry_run : BOOLEAN]
request_digest(q) ==
  [authority |-> q.authority, control |-> q.control, dry_run |-> q.dry_run]

\* A row or a request that is not there.
NoTerms == CHOOSE t \in Terms : TRUE
NoBody == CHOOSE q \in Body : TRUE

\* A plan reads neither the key nor dry_run nor the token.
PlanBody == {q \in Body : q.token = NoChallenge /\ q.dry_run /\ q.key = NoBody.key}

Init ==
  /\ status = [i \in Challenge |-> "absent"]
  /\ terms = [i \in Challenge |-> NoTerms]
  /\ lapsed = [i \in Challenge |-> FALSE]
  /\ withdrawn = {}
  /\ job = [k \in Key |-> {}]
  /\ basis = [k \in Key |-> NoChallenge]
  /\ rpc = [r \in Request |-> "idle"]
  /\ req = [r \in Request |-> NoBody]
  /\ granted = [r \in Request |-> NoChallenge]
  /\ offer = [r \in Request |-> NoChallenge]
  /\ reply = [r \in Request |-> "none"]

-----------------------------------------------------------------------------
(***************************************************************************)
(* The store.                                                              *)
(***************************************************************************)
\* confirmation_digest leaves out the key, dry_run and the context: the plan
\* and the execute request of one approval differ in them.
create_confirmation(i, q) ==
  /\ status[i] = "absent" /\ \A n \in 1 .. (i - 1) : status[n] # "absent"
  /\ status' = [status EXCEPT ![i] = "unused"]
  /\ terms' = [terms EXCEPT ![i] = [authority |-> q.authority, subject |-> q.subject,
                                    control |-> q.control]]
  /\ UNCHANGED <<lapsed, withdrawn, job, basis>>

\* Faults: used rows, rows of other authorities or other subjects are found too.
Matching_used(q) ==
  {i \in Challenge : /\ status[i] # "absent" /\ terms[i].authority = q.authority
                     /\ terms[i].subject = q.subject}
Matching_any(q) == {i \in Challenge : status[i] = "unused" /\ terms[i].subject = q.subject}

\* The rows of consume_confirmation's SELECT.
Matching(q) ==
  {i \in Challenge : /\ status[i] = "unused" /\ terms[i].authority = q.authority
                     /\ terms[i].subject = q.subject}

\* Only the newest matching row is looked at.
Newest(q) == {i \in Matching(q) : \A n \in Matching(q) : n <= i}

\* _confirmation_reject_reason is None; typed_right: the typed response is the
\* expected one.
Accepts(i, q, typed_right) ==
  /\ q.token = i
  /\ ~lapsed[i]
  /\ terms[i].control = q.control
  /\ terms[i].authority \in Typed => typed_right

consume_confirmation(r, typed_right) ==
  LET won == {i \in Newest(req[r]) : Accepts(i, req[r], typed_right)} IN
  /\ status' = [i \in Challenge |-> IF i \in won THEN "used" ELSE status[i]]
  /\ granted' = [granted EXCEPT ![r] = IF won = {} THEN NoChallenge
                                       ELSE CHOOSE i \in won : TRUE]
  /\ UNCHANGED <<terms, lapsed, withdrawn, job, basis>>

\* Fault: a cancellation is forgotten.
cancel_confirmation_ignored(i) ==
  /\ status[i] = "unused"
  /\ withdrawn' = withdrawn \cup {i}
  /\ UNCHANGED <<status, terms, lapsed, job, basis, requestVars>>

\* The owner of a pending challenge gives it up.
cancel_confirmation(i) ==
  /\ status[i] = "unused"
  /\ status' = [status EXCEPT ![i] = "used"]
  /\ withdrawn' = withdrawn \cup {i}
  /\ UNCHANGED <<terms, lapsed, job, basis, requestVars>>

\* Fault: the key alone decides.
SameRequest_by_key(q) == TRUE

\* The job that already has the key was created by the same request.
SameRequest(q) == \A row \in job[q.key] : row.digest = request_digest(q)

\* create_job: a known key returns its job, or an error when the request is
\* another one.
create_job(r) ==
  LET q == req[r] IN
  /\ IF job[q.key] = {}
       THEN /\ job' = [job EXCEPT ![q.key] =
                         {[digest |-> request_digest(q), subject |-> q.subject]}]
            /\ basis' = [basis EXCEPT ![q.key] = granted[r]]
       ELSE UNCHANGED <<job, basis>>
  /\ reply' = [reply EXCEPT ![r] = IF SameRequest(q) THEN "job" ELSE "error"]
  /\ UNCHANGED <<status, terms, lapsed, withdrawn>>

-----------------------------------------------------------------------------
(***************************************************************************)
(* The endpoints.                                                          *)
(***************************************************************************)
\* A request for the given endpoint comes in.  Tokens are not guessed: one that
\* is presented has been issued.
Arrives(r, endpoint, q) ==
  /\ rpc[r] = "idle"
  /\ q.token # NoChallenge => status[q.token] # "absent"
  /\ rpc' = [rpc EXCEPT ![r] = endpoint]
  /\ req' = [req EXCEPT ![r] = q]
  /\ UNCHANGED <<tableVars, granted, offer, reply>>

Answer(r, answer) ==
  /\ rpc' = [rpc EXCEPT ![r] = "answered"]
  /\ reply' = [reply EXCEPT ![r] = answer]
  /\ UNCHANGED req

\* plan, after the adapter and the policy have answered: an allowed action
\* that needs a confirmation gets a challenge.
plan_allowed(r) ==
  /\ rpc[r] = "plan"
  /\ IF req[r].authority \in Unconfirmed
       THEN Answer(r, "ready") /\ UNCHANGED <<tableVars, offer>>
       ELSE \E i \in Challenge :
              /\ create_confirmation(i, req[r])
              /\ offer' = [offer EXCEPT ![r] = i]
              /\ Answer(r, "challenge")
  /\ UNCHANGED granted

\* The policy denies, or the adapter or the policy engine is unavailable.
plan_refused(r) ==
  /\ rpc[r] = "plan"
  /\ \E answer \in {"denied", "error"} : Answer(r, answer)
  /\ UNCHANGED <<tableVars, granted, offer>>

\* execute consumes the confirmation before it asks the policy engine.
execute_consumes(r) ==
  /\ rpc[r] = "execute"
  /\ IF req[r].token = NoChallenge
       THEN UNCHANGED <<tableVars, granted>>
       ELSE \E typed_right \in BOOLEAN : consume_confirmation(r, typed_right)
  /\ rpc' = [rpc EXCEPT ![r] = "deciding"]
  /\ UNCHANGED <<req, offer, reply>>

\* Fault: any confirmation will do, consumed or not.
confirmation_satisfied_always(r) == TRUE

confirmation_satisfied(r) == req[r].authority \in Unconfirmed \/ granted[r] # NoChallenge

\* The policy allows: a dry run is refused, anything else becomes a job.
execute_allowed(r) ==
  /\ rpc[r] = "deciding" /\ confirmation_satisfied(r)
  /\ IF req[r].dry_run THEN Answer(r, "error") /\ UNCHANGED tableVars
                       ELSE /\ create_job(r)
                            /\ rpc' = [rpc EXCEPT ![r] = "answered"] /\ UNCHANGED req
  /\ UNCHANGED <<granted, offer>>

\* The policy denies (it may always do so) or is unavailable.  The
\* confirmation stays consumed.
execute_refused(r) ==
  /\ rpc[r] = "deciding"
  /\ \E answer \in {"denied", "error"} : Answer(r, answer)
  /\ UNCHANGED <<tableVars, granted, offer>>

\* Fault: the next request finds the grant of the last one.
Gone_keeps_grant(r) ==
  /\ rpc[r] # "idle"
  /\ rpc' = [rpc EXCEPT ![r] = "idle"]
  /\ req' = [req EXCEPT ![r] = NoBody]
  /\ offer' = [offer EXCEPT ![r] = NoChallenge]
  /\ reply' = [reply EXCEPT ![r] = "none"]
  /\ UNCHANGED <<tableVars, granted>>

\* The slot is free again: the answer was sent, or the broker restarted and
\* the request is lost half way.
Gone(r) ==
  /\ rpc[r] # "idle"
  /\ rpc' = [rpc EXCEPT ![r] = "idle"]
  /\ req' = [req EXCEPT ![r] = NoBody]
  /\ granted' = [granted EXCEPT ![r] = NoChallenge]
  /\ offer' = [offer EXCEPT ![r] = NoChallenge]
  /\ reply' = [reply EXCEPT ![r] = "none"]
  /\ UNCHANGED tableVars

\* expires_at passes.
ChallengeLapses(i) ==
  /\ status[i] # "absent" /\ ~lapsed[i]
  /\ lapsed' = [lapsed EXCEPT ![i] = TRUE]
  /\ withdrawn' = IF status[i] = "unused" THEN withdrawn \cup {i} ELSE withdrawn
  /\ UNCHANGED <<status, terms, job, basis, requestVars>>

BrokerStep(r) ==
  \/ plan_allowed(r) \/ plan_refused(r)
  \/ execute_consumes(r) \/ execute_allowed(r) \/ execute_refused(r)

Next ==
  \/ \E r \in Request :
       \/ \E q \in PlanBody : Arrives(r, "plan", q)
       \/ \E q \in Body : Arrives(r, "execute", q)
       \/ BrokerStep(r) \/ Gone(r)
  \/ \E i \in Challenge : cancel_confirmation(i) \/ ChallengeLapses(i)

Spec == Init /\ [][Next]_vars

-----------------------------------------------------------------------------
(***************************************************************************)
(* Properties.                                                             *)
(***************************************************************************)
\* Every variable keeps its type; a request that is not being served holds no
\* confirmation and no answer.
TypeOK ==
  /\ status \in [Challenge -> {"absent", "unused", "used"}]
  /\ terms \in [Challenge -> Terms]
  /\ lapsed \in [Challenge -> BOOLEAN]
  /\ withdrawn \subseteq Challenge
  /\ job \in [Key -> SUBSET [digest : Digest, subject : Subject]]
  /\ basis \in [Key -> Challenge \cup {NoChallenge}]
  /\ rpc \in [Request -> {"idle", "plan", "execute", "deciding", "answered"}]
  /\ req \in [Request -> Body]
  /\ granted \in [Request -> Challenge \cup {NoChallenge}]
  /\ offer \in [Request -> Challenge \cup {NoChallenge}]
  /\ reply \in [Request -> {"none", "ready", "challenge", "job", "denied", "error"}]
  /\ \A r \in Request :
       rpc[r] = "idle" => granted[r] = NoChallenge /\ reply[r] = "none"

\* No job without the confirmation its action needs, and that confirmation was
\* given for this very authority, by the same subject on the same device, from
\* the same control: "exact ... device-bound".
JobsAreApproved ==
  \A k \in Key : \A row \in job[k] :
    row.digest.authority \in Unconfirmed \/
      /\ basis[k] # NoChallenge /\ status[basis[k]] = "used"
      /\ terms[basis[k]] = [authority |-> row.digest.authority, subject |-> row.subject,
                            control |-> row.digest.control]

\* One confirmation makes at most one job, and is held by at most one request:
\* concurrent submissions of one token never both pass ("single-use").
ConfirmationIsSingleUse ==
  /\ \A k, l \in Key : basis[k] = basis[l] /\ basis[k] # NoChallenge => k = l
  /\ \A r, s \in Request : granted[r] = granted[s] /\ granted[r] # NoChallenge => r = s
  /\ \A k \in Key, r \in Request :
       basis[k] = granted[r] /\ basis[k] # NoChallenge => rpc[r] = "answered"

\* A challenge that was cancelled, or that lapsed before it was answered, never
\* approves anything, however the cancellation races with an execute.
WithdrawnNeverApproves ==
  \A i \in withdrawn :
    /\ \A k \in Key : basis[k] # i
    /\ \A r \in Request : granted[r] # i

\* A client that is told "here is your job" gets the job of its own request:
\* an idempotency key never answers for a different one.
AnswersNameTheirRequest ==
  \A r \in Request :
    reply[r] = "job" =>
      \E row \in job[req[r].key] : row.digest = request_digest(req[r])

\* A confirmation by itself: its row, the request that has consumed it and has
\* not decided yet, the job made of it.
ConfirmationState(i) == IF i \in withdrawn THEN "withdrawn" ELSE status[i]
Holder(i) == {r \in Request : granted[r] = i /\ rpc[r] = "deciding"}
Made(i) == {k \in Key : basis[k] = i}

C(i) == INSTANCE ConfirmationLifecycle
          WITH state <- ConfirmationState(i), binds <- terms[i],
               holder <- Holder(i), made <- Made(i)

\* Each confirmation, taken alone, behaves as ConfirmationLifecycle promises:
\* the conjunction of C(i)!ConfirmationSpec, in a form TLC can check (the
\* stutter first: most steps leave most confirmations alone).
Confirmations ==
  /\ \A i \in Challenge : C(i)!ConfirmationInit
  /\ [][\A i \in Challenge : UNCHANGED C(i)!confirmationVars \/ C(i)!ConfirmationNext]_vars
=============================================================================
