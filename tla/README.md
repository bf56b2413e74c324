# Deckhand: a TLA+ verification project

Deckhand is a control plane for an operator's machines. A broker (FastAPI, one
SQLite file) accepts typed actions from a Stream Deck, a CLI or an MCP client,
asks a policy engine, demands a confirmation where the action needs one, and
records a durable job. Worker processes execute jobs through plugin adapters; a
scheduler process finds what they left behind and reconciles it with the target.

The project models the part where correctness is a matter of order and failure:
how a job comes to be, how it is executed and settled when anything may die, how
plugin calls are kept from harming each other and how their errors are classified
on the way back, and how every change is recorded and told to those who watch;
further which code is admitted when a process starts, which caller is let in, and the
two programs on the operator's Mac: the agent and the Stream Deck plugin.

## 1. Inventory

State, operations and the properties that make each part correct. "m" modelled,
"p" partly, "-" not modelled. Paths are relative to `src/apps/broker/src/deckhand/`
unless they start with `src/`.

| part | state | operations | interacts with | correct when |
|---|---|---|---|---|
| job store `store.py`, `state_machine.py` (p) | tables jobs, confirmations, audit_events | create_job, claim_next_job, transition_job, renew_lease, expire_leases, expire_stale_queued, claim_reconcile_candidates, create/consume/cancel_confirmation | everyone; each call is one `BEGIN IMMEDIATE` transaction | fencing, compare-and-set, truthful results, single use |
| worker `worker.py`, `worker_main.py` (m) | the job and lease token of the iteration | run_once: claim, execute, record, renew, observe, verify, resolve | store, adapters | an operation is sent at most once; a stalled worker does no harm |
| scheduler and reconciler `scheduler_main.py`, `reconciler.py` (m) | the batch and its views | expire sweeps, candidate batch, re-verification | store, adapters, catalog | every job settles; the attempt budget is kept |
| cancellation `cancellation.py` (m) | what one cancel request read | cancel, compare-and-set, adapter.cancel, _apply | store, adapters | cancelled only if there is no effect |
| resilience guard `resilience.py` (m) | circuit, token bucket, semaphore | call: enter, wait, run, record | every adapter and status call | never wedged, slots conserved, one probe |
| endpoints `api.py`, `digests.py` (m) | requests in progress | plan, execute, confirmation cancel | store, policy, identity | no job without its own approval, used once |
| policy `policy.py`, `src/packages/policy/deckhand.rego` (p) | none | decide | endpoints | a mutation needs a satisfied confirmation |
| Stream Deck action keys `src/apps/streamdeck-plugin/src/actions/typed-action.ts`, `client.ts` (m) | pending map | onKeyDown: plan, arm, confirm, execute | broker over HTTP | what runs is what was confirmed |
| audit log and event stream `store.py`, `api.py` (m) | hash chain; cursor and batch of each connection | append, write probe, verify, list, SSE and WebSocket feed | all writers, clients | chain intact; each event seen once, in order |
| identity tokens `identity.py`, `src/apps/macos-agent/.../issuer.py`, `src/apps/streamdeck-plugin/src/identity.ts` (m) | a client's cached token and its age; two clocks | mint, fetch, reuse, verify | endpoints, every client | an honest caller is let in, an old token is not |
| plugin loading `plugins.py`, `extensions.py`, `plugin_api.py` (m) | configuration, lock, registry, catalog of a process | read, verify, describe, shake hands, merge | adapters, hosts, the operator's files | only locked and signed code is taken, mutations only through a host |
| WASM host transport, Ganglion `wasm_host_transport.py`, `wasm_host_main.py`, `ganglion.py` (m) | connections, gang processes; what a host describes and serves | call, serve, invoke; start-up, handshake | guard, components, plugin loading | an error is "unknown" if the operation may have started |
| catalog, inventory `catalog.py`, `inventory.py` (p) | the merged catalog; read-only files | load, look-ups | endpoints, scheduler | ids are unambiguous |
| status aggregation `status.py`, status endpoint (m) | none | domain, summary | providers, status keys | an observation carries its age, a failure is no observation |
| macOS agent `src/apps/macos-agent` (m) | the global caffeinate process and its lock | one handler per request: set, toggle, query, run, inhibit | Stream Deck, programs, OBS | one inhibitor; what is called verified was so |
| Stream Deck status keys `status.ts`, `visual.ts` (m) | timers by key, the image | appear, disappear, settings, press, interval | status endpoint | green is recent; the key shows its own domain |
| Stream Deck local keys `local-action.ts` (-) | none | one call of the agent | agent | |
| other clients: MCP server, CLI `broker_client.py`, `mcp_server.py` (p) | a minted token | forwarding | endpoints | |
| configuration, metrics, supervision, conformance (-) | none | settings, counters | | |

Hard behaviours: four kinds of process share one table and nothing else; leases
lapse under live workers; every process may die between two transactions;
adapters answer late, wrongly or not at all; two writers of a job row (scheduler,
canceller) are not fenced; the confirmation is consumed in one transaction and
the job written in another with an awaited decision between; the deck's handlers
interleave at every await and share a map; guard calls end in five ways while the
circuit changes under them; of a plugin call's four parties each gives up on its
own, and the others go on; feeds read a table that grows over connections that
break; files, installed components and hosts are replaced under a process that is
loading them; tokens age on their way between two clocks; the agent's handlers overlap
around one global process; timers, presses and late answers paint the same key.
`PROJECT.json` lists them as hazards, each at its line.

## 2. Modules

| module | models | built on |
|---|---|---|
| `JobStates` | the states and `ALLOWED_TRANSITIONS` | |
| `JobLifecycle` | abstract: what the broker promises of one job | |
| `JobEngine` | jobs table, workers, scheduler, cancel requests, targets | `JobStates`; implements `JobLifecycle` |
| `ResilienceGuard` | one plugin's guard and the calls in it | |
| `ConfirmationLifecycle` | abstract: what the broker promises of one confirmation | |
| `ActionSubmission` | plan / execute / confirmation endpoints, confirmations table, job creation | implements `ConfirmationLifecycle` |
| `StreamDeckKey` | the deck's key handlers composed with the broker | `ActionSubmission` |
| `PluginCall` | a plugin call: guard, socket client, WASM host, gang process | |
| `AuditFeed` | abstract: what the audit log promises its readers | |
| `AuditLog` | audit_events, its writers, the event feeds and their clients | implements `AuditFeed` |
| `BrokerIdentity` | a client's token from issuer to broker, by two clocks | |
| `PluginAdmission` | loading of plugins, the lock, the host's start-up and handshake, which calls reach a component | |
| `MacAgent` | the agent's handlers and its sleep inhibitor | |
| `StatusTile` | a status key, its timer, and the status endpoint behind it | |
| `*Proofs` | the theorems of the component of that name; `ActionSubmissionProofs` those of `StreamDeckKey` too, `MacAgentProofs` those of `BrokerIdentity` | the component, `TLAPS` |
| `MC*` | symmetry sets and constants for TLC | the component |

Definitions named `X_something` directly before a definition `X`, commented
"Fault:", are what a plausible bug would make of `X`. Nothing uses them; they are
there to see that a property notices.

### 2.1 JobEngine

*State.* One function per column of the jobs table that the protocol uses
(`state`, `lease_token`, `lease` for `lease_expires_at`, `result` for
`result_json`, `attempts`, `older` for the order of `updated_at`), the local
variables each process keeps across transactions, and two things the code cannot
see: `effect`, what became of the operation at the target, and `executions`.

*Actions.* One per stretch of code between two suspension points: a store call
with everything that happens up to the next one. `transition_job` is `Write` under
one of three guards: `Fenced` (workers), `Expected` (compare-and-set of the
canceller) and `Unfenced` (scheduler, `_apply`). A transition that raises
(`StaleLease`, `InvalidTransition`) leaves the table alone and has the caller's
consequence: the worker's iteration ends, the scheduler's batch is dropped, the
canceller reads again or ends.

*Abstractions.*
- Time is order. A lease lapses at any moment after it is granted; the TTL sweep
  takes any prefix of the queued jobs (they are numbered by `created_at`).
- `result_json` is the set of the kinds of evidence in it.
- Lease tokens are consecutive numbers: uuid4 values that do not repeat.
- `lease_owner`, and the owner check of a cancel request, are left out: they
  guard nothing the properties speak of.
- Only the `job.reconcile_exhausted` audit event is kept.
- There is one scheduler process, as deployed.
- `Poison` are jobs whose action the catalog refuses when they are looked up.

*The adapter contract* is external and assumed as the plugin API states it:
`verify` says "satisfied" only when the effect is on the target; `cancel` says
"cancelled" only when it is not and will not be. Nothing is assumed of `execute`:
it may return or raise, with or without asking for reconciliation, before or
after the operation was sent and whatever becomes of it, because the guard turns
any unexpected exception into an error without reconciliation.

### 2.2 JobLifecycle

Two variables, the job's state and the effect. It promises: one dispatch, the
edges of the state machine the engine really uses, `succeeded` only with the
effect applied, `cancelled` only with the effect never sent or stopped. It
promises nothing of `failed` (section 6). `JobEngine!Lifecycle` states that
every job of the engine implements it.

### 2.3 ResilienceGuard

`_enter_circuit` and the `_record_*` methods run under a lock that is never held
across an await and are atomic. A call is in one of three waits (token, slot,
plugin) and ends by result, error, timeout or cancellation. Time passes in ticks;
a call at its deadline ends before the next tick, which is what `asyncio.timeout`
does. `failures` is capped at the threshold, above which the code does not
distinguish counts. The bucket holds whole tokens. A rejected call leaves no
trace and is no step; that an error a plugin raises itself carries a
`circuit_state` detail is assumed not to happen.

### 2.4 ActionSubmission

An authority is what `confirmation_digest` covers (action, version, target,
parameters); the replay digest adds the context and `dry_run`. A token is the
number of its challenge: tokens are unguessable, so a request presents only one
that was issued, right or wrong. Policy may deny anything; it allows an action
that needs confirmation only with `confirmation_satisfied`. `withdrawn` and
`basis` are history variables.

`ConfirmationLifecycle` is the promise about one confirmation, in four variables: its
state, what it binds, who holds it, what was made of it. Its steps are to issue, to
withdraw, to consume, to spend and to drop; what it binds may change only when it is
issued. `Confirmations` maps each row to it: a row is withdrawn when it was given up or
lapsed unused, its holder is the request between consumption and decision.

### 2.5 StreamDeckKey

`onKeyDown` from await to await, for presses of keys whose settings fall in the
same or different entries of the pending map (the map's key leaves the parameters
out). A handler may give up on its request while the broker goes on with it
(`PressTimesOut`), and the broker may lose a request (`RequestGone`).

### 2.6 PluginCall

One call, from `ResilientAdapter` to the component and back. Each party has its own state:
the caller (`pc`, `verdict`), the host's handler of the connection (`host`, `reply`) and the
gang process. They are not synchronised: the caller's timeout or cancellation closes its end
of the socket and leaves the request to the host; the host's timeout answers and leaves the
gang process running; a crash of the host closes its connections, and its gang processes
live until systemd clears the control group, while a request it had not read yet resets the
connection. The caller knows the program behind the socket by its UID only: a host other
than `WasmHostServer` may answer with bytes that are no JSON (`HostGarbles`, external).
`verdict` is what the worker acts on: "plain" makes a job FAILED, "unknown" makes it
UNKNOWN_OUTCOME.

*Abstractions.* Payloads, request ids and digests are left out: a refused payload, a
mismatch or an oversized frame is a nondeterministic choice at the point of the check.
`health` and `status.observe` stand with "plan": nobody classifies their errors.
Circuit, rate and slots are `Rejected` or `Admitted` here and modelled in
`ResilienceGuard`. The effect of a component is external and may come at any
moment while its process runs.

### 2.7 AuditLog

Every change of the store appends its events with `_append_audit` inside its own
transaction; a writer is any such transaction. `Commit` and `Rollback` are the two
ways out of `Store.connect`; a process that dies rolls back. A hash stands for the
history it commits to (collision freedom). A feed is a connection with a cursor:
read a batch, send it event by event, sleep, read again; the events on their way
(`wire`) are lost when the connection breaks, and the client comes back with the last
sequence it has, as the comment of `events_stream` asks it to. The SSE and the
WebSocket feed are the same loop, but for `once`. `Batch` is the LIMIT, 100 in the code.

`AuditFeed` is what remains when transactions, batches, cursors and connections are
forgotten: a log that grows at its end and readers that learn its next event. `Feed` maps
`log` to the committed rows and leaves `seen` as it is.

### 2.8 BrokerIdentity

A call goes idle, asking, minted, sent, accepted or refused. A client of the plugin
reuses its cached token (`ReuseToken`) or fetches one (`AskIssuer`, `mint`,
`TokenArrives`); a `BrokerClient` of the MCP server signs for itself. The broker's
check (`verify_token`) is split into its three refusals: not yet valid, expired,
lives too long.

*Abstractions.* A token is its age by the issuer's clock; the broker's clock differs
by a constant `offset`, so that what it computes from `issued_at` and `expires_at` is
arithmetic on age and offset. Signatures, the encoding and the key file are assumed
sound. A timeout is a bound on the whole fetch; httpx bounds each network operation,
so that the MCP server's calls may really last longer than `CALL_TIMEOUT`. `MaxAge`
bounds the age of a token somebody keeps. The legacy proxy headers are not modelled.

The constants stand for TTL 60, MARGIN 10, SKEW 30, 3 seconds for a token and 5, 10
or 15 for a call. With these numbers `ClocksAgree` says: the broker may be up to 30
seconds behind, but only 26 ahead, since a call may last 4 seconds longer than the
reserve of a token that was just reused.

### 2.9 MacAgent

Handlers are told apart by what they await (`FirstAwait`): a query of a switch, a
write with or without a query after it, a program whose success is trusted or not, the
inhibitor. A *switch* stands for the microphone, the recorder, an application or a
scene's source; hands and other programs move it too (`MovedByHand`), and a program may
return without effect. `seen` is a history variable: what the switch has been since
the handler wrote it, or since the request came.

The inhibitor: `sleep_inhibit_on` and `_off` under the lock, the creation of the
process split at its await (`Forks`, `Created`, `CreationFails`), the process's death
(`Exits`) and the moment asyncio knows of it (`Noticed`) are steps of their own.
A process number is used again once nothing refers to it. The agent's own restart is
not modelled.

### 2.10 StatusTile

The handlers of one key from await to await, and the ticks of its timer. `shown` is
the image: its domain, for how long that has been the wrong one, green or not, and
the age of what it shows. `contested` is a history variable: the handler that will start
the timer began while another was under way. Timers fire on time and no handler that
only has to go on is late. The age of an answer that is not green is not told apart.
`None` is `undefined`, which `TileConstants` says is no timer.

### 2.11 PluginAdmission

A process reads the configuration, then the lock, then takes its plugins in the
order of their ids. `Turn` says whose turn it is and which way it is loaded: `instantiate`
(Python), `wasm_in_process`, or `verify_signed_artifact` and then `handshake`; `merge`
adds what a plugin contributes, `load_catalog` the files. A host describes the
component gang has installed (`HostDescribes`) and only then reads artifact, lock and
signature (`HostServes`). The operator replaces any file and restarts any host at any
moment (`OperatorEdits`, external). `CallsHere` and `CallsHost` are calls that reach a
component: on both paths the one gang has installed by then, though the host checks the
call against the one it described when it started.

*Abstractions.* A component is its digest, `Describe` what it declares. A lock has one
entry per plugin, an id has one definition in a component, built-in plugins are
loaded as Python ones, the `allow_*` settings are on. Configuration schemas and status
providers are left out. Processes that load write nothing another process reads, so
one suffices for TLC; the theorems have any number.

## 3. Runs

| run | question | instance |
|---|---|---|
| `engine_safety` | is an operation ever sent twice, a running job without a lease, the budget exceeded; who gets between the reconciler's view and its write; do late unfenced writes leave a result that is untrue; is each job a `JobLifecycle`? | 2 jobs, a worker and a scheduler that may die, 1 cancel request, 1 attempt |
| `engine_live` | does every accepted job settle? | 2 jobs, one refused by the catalog, dying worker, cancel request, 2 attempts |
| `engine_orphan` | a claim the code does not keep, section 6 | 1 job |
| `guard` | slots, wedging, the failure count, one probe; is an open circuit always tried again? | 4 calls, 2 slots, threshold 2, deadline 2 < recovery 3 |
| `submission` | concurrent use, cancellation and expiry of confirmations; is one good for anything but its own terms, a key for another request; is each a `ConfirmationLifecycle`? | 2 requests, 2 challenges, 2 keys, 2 controls, typed confirmation |
| `deck_presses` | does a press run what was confirmed; do a pending key and its challenge stay together? | 2 handlers; 2 keys sharing an entry, one unconfirmed, one typed |
| `plugin_call` | can anything still act, and does anything, after a mutation was reported as failed? does the broker's side ever report one with an effect? | 2 calls, one host |
| `audit` | does the chain verify; does a client see each event once, in order, and all of them; is the whole an `AuditFeed`? | 2 writers, 1 reader, 4 events, batches of 2, 2 broken connections |
| `identity` | is an honest caller ever turned away? | 2 caching clients, 1 that signs itself; TTL 6, margin 2, skew 2, timeouts 1 and 3; clocks off by -4 to 5 |
| `mac_agent` | one inhibitor; are verified answers true; is every inhibitor request answered? | 2 requests, 2 switches, 2 processes |
| `status_tile` | how old can green be; how long can a key show the wrong domain? | 2 handlers and a tick, 2 domains, interval 2, fetch 1, clocks off by one either way |
| `admission` | does a mutating component run in-process; is a host taken that was not started on the locked artifact? | 1 process, a WASM plugin with 2 builds, a Python plugin with 2, a catalog file |

*Why these bounds.* Jobs interact only through the candidate batch (its order, its limit,
its failures): two jobs give a batch with a first and a second. A job is never claimed a
second time, so that a worker that stalls and the reconciler that takes over are zombie and
successor; two workers meet in the theorems. One attempt separates the last and the one too
many, the two of `engine_live` the first as well; any budget is the theorem `AuditedOnce`.
Four calls in the guard: one before the circuit opened, a probe, a second candidate probe
and one waiting. Calls in `PluginCall` meet only in the host's crash: two suffice. Four
events and batches of two give a full batch, a short one and an empty one, and a break
before, inside and after a batch. Two challenges show which is the newest. `submission` has
one subject and one authority; two authorities meet in `deck_presses`, and that a
confirmation is bound to its subject rests on the theorem `Approval`, which has any number
of each. Identity needs a token reused in its last second, one that took its whole timeout
to arrive, and clocks on both sides of both edges of the skew; the proportions keep TTL >
margin + token timeout and a call longer than the margin, as in the code. Two requests and
two processes give the agent an inhibitor that is replaced while the old one dies. Three
tasks give a key two overlapping handlers and a tick. Two builds of a component differ in
whether they mutate, the two of the other plugin in whose adapter they use; the action of
the catalog's file mutates. Symmetry is used over requests, calls, clients, tasks and
domains, which no definition orders or chooses from, and only for safety. `CHECK_DEADLOCK
FALSE` is set for the deck alone: idempotency keys are bounded by the model and an operator
may stop pressing.

*Fairness* (`engine_live`, `guard`, `audit`, `mac_agent`). `worker_loop` and
`scheduler_loop` catch whatever an iteration raises and go on, and the guard
bounds every adapter call with a timeout: weak fairness of each worker's and of
the scheduler's step. Leases lapse because time passes. Nothing is assumed of
clients, targets or crashes. In the guard time passes, timeouts fire and somebody
calls again: the deck polls the status of every plugin. In the audit log the feed's
loop runs for ever, the network delivers what is sent on a connection that holds, and
a client reconnects; nothing is assumed of writers, and broken connections are finite
in number, else a client could starve. In the agent the lock is first come, first
served (`asyncio.Lock`): strong fairness of entering it; creating a process ends, with
or without one. Nothing is assumed of programs, which may hang. The remaining assumption
of `engine_live` is `SchedulerMayFail = FALSE`; `engine_orphan` shows what happens
without it.

## 4. Proofs

All theorems hold for every value of the constants allowed by `EngineConstants`,
`GuardConstants`, `SubmissionConstants`, `DeckConstants`, `AuditConstants`,
`IdentityConstants`, `AgentConstants`, `TileConstants` and `AdmissionConstants`; `PluginCall` needs no
assumption.

**JobEngine.** `TypeCorrect` comes first. None of the safety properties is inductive:
that nobody sends a job twice rests on there being no second worker with the job
in hand, which rests on the fact that a row, once claimed, is never claimable
again, which needs the state machine. `Inv` strengthens them with
- `TokensAreIssued`, `OneHolder`: the tokens in rows and in hands were issued, and
  no two workers hold the same job or token; with `RunningIsLeased` and
  `TokenMeansOwnership` themselves;
- `UnclaimedIsUntouched`, `ClaimedIsUnsent`, `ExecutionsAreEffects`: a queued job
  has not been sent, nor has the job of a worker that has just claimed it; the
  count of executions is 0 exactly while the effect is `never`;
- `CandidatesWereClaimed`: a candidate of the scheduler's batch has left the
  queue and is not running, so that opening its verification, which is not
  fenced, takes no job from a worker;
- `OutcomesAreTruthful`: succeeded means applied; cancelled means never sent or
  stopped; and a cancel request that is about to write "cancelled" knows that the
  operation was stopped.

`Invariance` gives `AtMostOnce`, `Fencing`, `Leasing`, the action property
`NoZombieWrite`, and `Refinement`: each step of the engine is, for every job, a
step of `JobLifecycle` or leaves it alone. `AuditedOnce` is inductive by itself: count
and event are one transaction. `HeldBatch` needs `BatchIsHeld`: a candidate that waits in
the batch has no lease, so a cancel request may settle it but not change its result and leave
it unknown. While its verification is open a cancel request can do that (section 6), and
nobody else. `TruthfulRecord` says what the unfenced writes preserve all the same. By
`RecordInv`, every result a reconciler or a canceller carries around is an honest copy of some
past of its row: it shows an execution at most, and one that was sent. With
`OutcomesAreTruthful` each write then puts down a result that fits the state it sets, and
terminal rows accept none. `OwnedVerification` assumes `~SchedulerMayFail`, which
`engine_orphan` shows to be needed.

**ResilienceGuard.** `CircuitInvariance` (circuit, flag, opening time and count
agree; a half-open circuit has its probe in flight) gives `NeverWedged` and
`CircuitConsistent`. `SingleProbe` needs `Deadline < Recovery`: a probe older than
the circuit's opening time has timed out before the next one is admitted, so
`ProbeInv` relates the age of every probe to the time since the circuit opened.
`SlotConservation` counts the calls that run (`Holders`) with the library's theorems on
cardinalities; that the semaphore never exceeds its size, and with it `GuardTypes`,
follows from the count and is no guard of the code.

**ActionSubmission.** `SubmissionInvariance`: a grant in a request's hands is a
used confirmation on that request's terms (`GrantsAreSound`), every job's basis is
a used one (`BasesAreUsed`), a withdrawn one was issued and can no longer be accepted
(`WithdrawnIsDead`). It gives `Approval`, `SingleUse`, `Withdrawal` and
`SubmissionTypes`. `Answers` adds `JobIsFinal`: a request that was told of a job is done,
and the row it was told of stays.

`ConfirmationRefinement` takes each step for one confirmation. Most are `DropIsLawful`: the
row stays and one request, which may or may not have held it, no longer does. That the
holder is one, has made nothing yet, and holds something used (`OneHolder`) is where the
invariant is needed; a consumed row was unused and nobody's, a new job's confirmation was
held by its maker.

**StreamDeckKey.** All steps of deck and broker but `PlanContinues` are steps of
`ActionSubmission`, so its invariant carries over and gives `DeckApproval`. `KeyBinding`
needs to know where a key is: it is minted (`KeysAreMinted`); while its plan is under
way it is nowhere else (`PlansAreAlone`); once in an entry it is in no other
(`PendingKeysDiffer`) and whoever uses it carries the entry's challenge, for an action
that needs one (`KeyGoesWithChallenge`). `DeckInvariance` proves these together; TLC has
checked the same invariant on the instance of `deck_presses`. `DeckConfirmations` and
`DeckAnswers` carry the refinement and `Answers` over to the deck and the broker together.

**PluginCall.** Neither property is inductive: a caller that reports "plain" knows
only what it has received. `Inv` says what a reply means for the parties behind it:
a call that has not sent its request has left no trace (`UnsentIsInvisible`); after
the answer "failed" the host has no handler and no gang process (`FinalAnswerIsLast`,
which needs `OneAnswer` and `GangHasAHandler`); a failure was the host's answer or
was never sent (`FailureHasACause`). `CallInvariance` proves it inductive, and
`Settled`, `BrokerIsCareful` and `CallTypes` follow, and the action property
`FinalFailure`: a call that failed is done and has no gang process, so no step of anybody
changes its effect or its verdict.

**AuditLog.** `ChainInvariance`: rows, and the pending rows behind them, are dense and
chained, and at most one writer has a transaction open, which is what makes the view of an
open transaction the table it will commit. It gives `AuditTypes` and `ChainIsIntact`.
`ReadersMissNothing` needs `FeedInv`: what a client has seen, what is on the wire and
what the broker has read but not sent follow each other in the table without a gap
(`Follow`), and the cursor is the number of events seen or on the wire. That a cursor
selects exactly the next rows (`ListIsNext`) is where density is used. `FeedRefinement`
follows from the same invariant: a commit that appends is `Publish`, `Receive` is `Learn`,
everything else is invisible.

What the chain is for is `HashCommits`: two tables that verify and share one event hash
share everything up to it; with `ChainInvariance` it gives `ChangesAreFound`, that whoever
kept the last hash notices any change of history. Its proof goes back from the common hash
to the first row where the tables would differ (`Smallest`, the least number principle from
the library's well-founded induction). It rests, like the chain, on `chain_hash` being free
of collisions, which is how the model represents it.

**BrokerIdentity.** `Acceptance` holds for any lifetime, skew, margin, timeouts and
offset. A refusal is decided by the token's age on arrival, so `IdInv` bounds it by how
old a token can be when a call sets out with it (`Worst`) and how long the call has lasted
since (`Aged`, `InTime`).

**MacAgent.** `SingleInhibitor`: whoever creates a process holds the lock and found none
(`Creation`), the kept one was not told to end (`Kept`), every running one is kept or
being created (`Owned`). `Truthful`: a handler about to read its switch has
seen what it is now (`UpToDate`). `AgentTypes` includes that the lock belongs to the creator.

**StatusTile.** `RecentGreen` and `DomainHeals` hold for any interval, limit, lag of the
fetch and offset of the clocks. Nothing in the state says when a key was last painted, so
`GreenInv` and `WrongInv` measure it by the timer: an image is no older than the timer has
run since its last tick, or a tick is under way and it is no older than an interval and
what that tick has waited (`GreenDue`, `WrongDue`). A key on the page has a timer or a
handler that will start one (`Kept`), and handlers that did not overlap work with the
key's settings (`OwnSettings`). TLC checked the invariant before it was proved.

**PluginAdmission.** `HostedMutation` rests on three facts of a process: a contributed
action's adapter is registered (`Resolved`), by the component that declares the
action (`OwnComponent`), and a component taken in-process declares no mutation
(`ReadOnlyHere`). That no contributed mutation is
ever *called* in-process needs `Catalogued` besides: a process's catalog holds what plugins
contributed and what the files hold. `LockedHost` needs `Verified`: between the artifact and the
handshake the digest is known to be signed.

*Only model-checked:* the liveness properties `EveryJobSettles`, `OpenIsRetried`,
`ReaderCatchesUp` and `InhibitorAnswers`, since fairness and ENABLED are beyond the prover.
Every other property of a passing run is a theorem. What a recursive definition computes
for every input would need the library's induction schemes, which none of the backends can
instantiate; where an argument can be put as "take the first place where it fails"
(`HashCommits`) it needs no scheme.

## 5. What the checks show

Fencing holds: no worker that lost its lease ever writes, no operation is sent twice. The
two unfenced writers are kept from resurrecting a settled job by the state machine alone;
they may lose evidence of one that is unsettled, and never leave a false result. The circuit
breaker cannot wedge. A confirmation approves one job, its own. The deck's shared entry is
harmless because the broker binds the confirmation to the parameters. When a mutation is
called failed nothing of it can still act, and if it had an effect all the same, it was the
host that said "failed"; an answer that is no JSON is the exception to both (section 6). The
audit chain survives every interleaving, its last hash commits to all of it, and its readers
miss nothing. An honest caller is let in as long as the clocks agree within known bounds.
The agent keeps one sleep inhibitor, and what it calls verified was so at some moment after
the write. A status key that is left alone shows nothing green that is older than its limit,
an interval and a fetch, and the wrong domain for an interval at most. No action a component
contributes mutates in-process, and a host that is taken was started on the locked and
signed artifact.

## 6. Findings

Claims of the repository that the code does not keep; `PROJECT.json` quotes them.

- `engine_orphan`: a scheduler that dies between opening a verification and resolving
  it leaves the job in VERIFYING without a lease, for ever. TLC finds the trace.
- `plugin_call`: an answer that is no JSON makes a plain failure of a mutation that was sent.
  `json.loads` raises in `_read_frame` (`wasm_host_transport.py:288`), past the handlers at
  `:409-421` and past `WasmHostAdapter.execute` (`:531`), and the guard's `except Exception`
  (`resilience.py:232`) turns it into an error without reconciliation. The comment at
  `wasm_host_transport.py:401` asks for an unknown outcome after "a malformed response frame",
  which every other malformed answer gets. The three properties of the run name this answer
  (`~Decodable`) as their exception. Without it TLC finds: the call is admitted and sent, the
  host invokes gang, the component acts, the host answers garbage, the call is "failed".

Seen while modelling, without a run. Jobs and calls:
- One job the catalog refuses raises outside the try block (`reconciler.py:25`) and ends
  the batch, whose other jobs have been charged an attempt (`store.py:408`).
- A component that has acted and answers with a document the host rejects is reported
  as failed (`ganglion.py:259`, `wasm_host_transport.py:713`), and nobody reconciles.
- The answer to an execute is lost: the next press plans under a fresh key
  (`typed-action.ts:77`), and confirming it makes a second job.
- The worker records FAILED for any error of execute, observe or verify without the
  reconciliation flag (`worker.py:73`), so also when only the observation after a
  successful execute failed. `src/docs/runbooks/recovery.md:14` says "If observation
  remains unavailable, leave the job unknown".
- The same transition passes no result and erases the execution evidence
  (`worker.py:75`), so that later reconciliations verify without it.
- Evidence of an unsettled job is also lost between its two unfenced writers. The canceller
  writes back the result it read before it asked the adapter (`cancellation.py:85`), so that
  evidence a worker recorded meanwhile is gone. And the reconciler's write is accepted from
  UNKNOWN_OUTCOME too (`state_machine.py:22`): the canceller reads a row under verification
  with its evidence, the worker's observation fails and erases it, the scheduler takes the
  bare view and opens the verification, the canceller puts UNKNOWN_OUTCOME and the evidence
  back, and the reconciler's outcome erases it for good (13 steps in the instance of
  `engine_safety`). `OnlyCancelInterferes` says that this takes a cancel request, and
  `RecordIsTruthful` that what is left is still true of the job.
- A connection that is reset with the request unread ends in a plain failure as well:
  `wait_closed` in the finally clause (`wasm_host_transport.py:425`) raises the
  ConnectionResetError in place of the transport error. The request was not read, so that
  nothing has happened, but the job is FAILED where the code means UNKNOWN_OUTCOME.
- `claim_reconcile_candidates` applies its LIMIT before it drops the jobs over
  budget, which keep the oldest `updated_at` (`store.py:414`): with 100 jobs parked,
  no job within budget is selected again. `EveryJobSettles` therefore needs a
  `BatchLimit` of at least the number of jobs.
- `once=true` reads one batch of 100, while its comment says it "drains the
  currently-available events" (`api.py:441`); a client has to ask again.
- An invocation of gang that times out asks for reconciliation also when the
  operation only reads, and leaves its process running (`ganglion.py:194`).

Programs on the Mac:
- The local keys build their `AgentClient` without a token (`local-action.ts:29`), while the
  agent refuses any request without its bearer (`src/apps/macos-agent/src/deckhand_macos/api.py:26`).
- Two overlapping toggles read the same state and write the same state: one is lost
  (`executor.py:152`). Both answers are true.
- `mic_state` reports "unknown" with `verified`. `mac.sleep.inhibit_on` asks for an alias
  it does not use. A caffeinate that died unnoticed counts as inhibiting; a restarted agent
  does not know of the one it left.
- `_run` and the receive of OBS have no timeout: a hung program holds its request for ever.
  `InhibitorAnswers` shows that requests about the inhibitor do not wait for it.
- Overlapping settings handlers of a status key start their timers in the order of
  their answers; when the older wins, the key is refreshed with old settings until it is
  touched again. This is what `contested` leaves out of `WrongDomainHeals`. A key hidden
  while its appear handler waits keeps a timer.

Loading:
- The in-process path never compares the digest in the lock with the installed
  component, though the comments of `ganglion.py:68` and `ganglion.py:221` speak of an
  exact-digest lock; and nothing ties the component gang has installed to the artifact
  whose signature was verified.
- Gang runs what is installed by the time of the call (`ganglion.py:164`), on both paths. A
  component that is replaced after it was described may mutate in-process; behind a host the
  call is compared with what the host described when it started, and the digest of the
  handshake is not asked for again. The properties speak of what was declared.
- A file under the catalog path may add a mutating action for an in-process adapter:
  `MutationIsHosted` speaks of contributed actions.
- Broker and worker load at different times and may hold different definitions of
  one id and version. A host refuses a call whose definition is not its own
  (`wasm_host_transport.py:740`); nothing does so in-process.

One more belongs to the settings: `OneProbe`, and with it "admit one half-open
recovery probe" of `src/docs/adr/0003-read-plane-resilience.md:26`, needs a deadline
shorter than the recovery interval, as in the shipped defaults. Nothing validates
that, and with three calls, `Deadline = 3` and `Recovery = 1` the property fails: a
late failure re-opens the circuit while the probe is still in flight.

## 7. Not modelled

Signatures, digests and hashes (assumed sound), SQLite itself (transactions are
atomic and durable; a full or failing disk), HTTP framing, images but for green, metrics,
logging, schema migration, settings, configuration schemas of plugins. The legacy
identity headers: an opt-in alternative to the tokens that keeps no state. The
local keys and the CLI: one stateless call each, which `MacAgent` and `ActionSubmission`
admit. The rules of the policy engine beyond the confirmation: a pure function
of inventory and channel, here a choice. A restart of the agent. The conformance
suite: test support. Read-only endpoints change nothing.

## 8. Plan

Done: modules of section 2, in the order engine, guard, submission, deck, plugin
call, audit log, identity, agent, status key, admission; the theorems of section 4.

Next, in order:
1. `LeaseTiming`: lease and action timeouts in ticks, one renewal over two calls.
2. `PolicyRules`: the Rego rules as operators, checked against a reference definition.
3. The worker composed with `PluginCall`, in place of the assumption that an adapter
   may answer anything.

Theorems next: `LeaseTiming` and `PolicyRules` as they are written; `PluginCall` as an
implementation of the adapter contract that `JobEngine` assumes.
