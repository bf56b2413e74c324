------------------------------- MODULE AuditLog -------------------------------
(***************************************************************************)
(* The audit_events table and its readers (deckhand/store.py, api.py).     *)
(*                                                                         *)
(* Broker, worker and scheduler processes append events to a hash chain,   *)
(* each inside the transaction of the change it records.  Clients follow   *)
(* the table over an SSE or WebSocket connection: the broker reads batches *)
(* from a cursor and sends them event by event; a connection may break at  *)
(* any point, and the client comes back with the last sequence it has.     *)
(*                                                                         *)
(* SQLite is external: one write transaction at a time (BEGIN IMMEDIATE),  *)
(* readers see the committed rows, a rollback also takes back the          *)
(* AUTOINCREMENT counter.                                                  *)
(***************************************************************************)
EXTENDS Naturals, Sequences, FiniteSets

CONSTANTS
  Writer,          \* connections that write
  Reader,          \* clients that follow the table
  Batch,           \* LIMIT of one read
  MaxEvents,       \* bound: rows of the table
  MaxDisconnects   \* bound: broken connections

ASSUME AuditConstants ==
  /\ Batch \in Nat \ {0} /\ MaxEvents \in Nat /\ MaxDisconnects \in Nat

VARIABLES
  rows,      \* the committed rows, in sequence order
  pending,   \* the rows a writer has inserted in its open transaction
  open,      \* writers with an open write transaction
  conn,      \* a reader's connection: "closed", "reading", "sending", "ended"
  once,      \* the connection was opened with once=true
  cursor,    \* the broker's cursor of the connection
  batch,     \* rows read and not yet sent
  wire,      \* rows sent and not yet received
  seen,      \* rows the client has received, over all its connections
  breaks     \* connections broken so far

storeVars == <<rows, pending, open>>
connVars == <<conn, once, cursor, batch, wire>>
vars == <<storeVars, connVars, seen, breaks>>

\* An HMAC, or a hash, stands for the history it commits to: no two histories
\* have the same one.
Hash == Seq(Nat \X Writer)
Genesis == <<>>
chain_hash(sequence, previous_hash, payload) ==
  Append(previous_hash, <<sequence, payload>>)

\* The payload of an event is who wrote it.
AuditRow == [sequence : Nat, payload : Writer, previous_hash : Hash, event_hash : Hash]

\* What a writer's transaction sees.
View(w) == rows \o pending[w]

Init ==
  /\ rows = <<>>
  /\ pending = [w \in Writer |-> <<>>]
  /\ open = {}
  /\ conn = [r \in Reader |-> "closed"]
  /\ once = [r \in Reader |-> FALSE]
  /\ cursor = [r \in Reader |-> 0]
  /\ batch = [r \in Reader |-> <<>>]
  /\ wire = [r \in Reader |-> <<>>]
  /\ seen = [r \in Reader |-> <<>>]
  /\ breaks = 0

-----------------------------------------------------------------------------
(***************************************************************************)
(* Writing.                                                                *)
(***************************************************************************)
\* Fault: a deferred transaction, which does not exclude other writers.
Begin_deferred(w) ==
  /\ w \notin open
  /\ open' = open \cup {w}
  /\ UNCHANGED <<rows, pending, connVars, seen, breaks>>

Begin(w) ==
  /\ open = {}
  /\ open' = {w}
  /\ UNCHANGED <<rows, pending, connVars, seen, breaks>>

Row(before, payload) ==
  LET sequence == Len(before) + 1
      previous == IF before = <<>> THEN Genesis ELSE before[Len(before)].event_hash
  IN [sequence |-> sequence, payload |-> payload, previous_hash |-> previous,
      event_hash |-> chain_hash(sequence, previous, payload)]

\* _append_audit; one transaction may append several events.
append_audit(w) ==
  /\ w \in open /\ Len(View(w)) < MaxEvents
  /\ pending' = [pending EXCEPT ![w] = Append(@, Row(View(w), w))]
  /\ UNCHANGED <<rows, open, connVars, seen, breaks>>

Commit(w) ==
  /\ w \in open
  /\ rows' = View(w)
  /\ pending' = [pending EXCEPT ![w] = <<>>]
  /\ open' = open \ {w}
  /\ UNCHANGED <<connVars, seen, breaks>>

\* An error in the rest of the transaction, or the process dies.
Rollback(w) ==
  /\ w \in open
  /\ pending' = [pending EXCEPT ![w] = <<>>]
  /\ open' = open \ {w}
  /\ UNCHANGED <<rows, connVars, seen, breaks>>

\* The probe inserts a row under a savepoint and rolls it back.
audit_is_writable(w) == open = {} /\ UNCHANGED vars

WriterStep(w) ==
  Begin(w) \/ append_audit(w) \/ Commit(w) \/ Rollback(w) \/ audit_is_writable(w)

\* verify_audit_chain, on one snapshot of the table.
verify_audit_chain(table) ==
  \A i \in DOMAIN table :
    LET previous == IF i = 1 THEN Genesis ELSE table[i - 1].event_hash IN
    /\ table[i].previous_hash = previous
    /\ table[i].event_hash = chain_hash(table[i].sequence, previous, table[i].payload)

-----------------------------------------------------------------------------
(***************************************************************************)
(* Reading.                                                                *)
(***************************************************************************)
\* The rows behind the first n ones, at most Batch of them.
BatchAfter(n) ==
  SubSeq(rows, n + 1, IF n + Batch < Len(rows) THEN n + Batch ELSE Len(rows))

\* Fault: the cursor's own row is read again.
list_audit_events_inclusive(after) ==
  BatchAfter(Cardinality({i \in DOMAIN rows : rows[i].sequence < after}))

\* SELECT ... WHERE sequence > after ORDER BY sequence LIMIT Batch.
list_audit_events(after) ==
  BatchAfter(Cardinality({i \in DOMAIN rows : rows[i].sequence <= after}))

LastSequence(s) == IF s = <<>> THEN 0 ELSE s[Len(s)].sequence

\* Fault: the feed goes on behind what was sent last, received or not.
Connect_behind_sent(r, o) ==
  /\ conn[r] = "closed" \/ (conn[r] = "ended" /\ wire[r] = <<>>)
  /\ conn' = [conn EXCEPT ![r] = "reading"]
  /\ once' = [once EXCEPT ![r] = o]
  /\ UNCHANGED <<storeVars, cursor, batch, wire, seen, breaks>>

\* The client connects, with the last sequence it has.
Connect(r, o) ==
  /\ conn[r] = "closed" \/ (conn[r] = "ended" /\ wire[r] = <<>>)
  /\ conn' = [conn EXCEPT ![r] = "reading"]
  /\ once' = [once EXCEPT ![r] = o]
  /\ cursor' = [cursor EXCEPT ![r] = LastSequence(seen[r])]
  /\ UNCHANGED <<storeVars, batch, wire, seen, breaks>>

ReadBatch(r) ==
  /\ conn[r] = "reading"
  /\ conn' = [conn EXCEPT ![r] = "sending"]
  /\ batch' = [batch EXCEPT ![r] = list_audit_events(cursor[r])]
  /\ UNCHANGED <<storeVars, once, cursor, wire, seen, breaks>>

SendEvent(r) ==
  /\ conn[r] = "sending" /\ batch[r] # <<>>
  /\ cursor' = [cursor EXCEPT ![r] = Head(batch[r]).sequence]
  /\ wire' = [wire EXCEPT ![r] = Append(@, Head(batch[r]))]
  /\ batch' = [batch EXCEPT ![r] = Tail(@)]
  /\ UNCHANGED <<storeVars, conn, once, seen, breaks>>

\* Fault: a feed that has found nothing new stops reading.
BatchSent_stops(r) ==
  /\ conn[r] = "sending" /\ batch[r] = <<>>
  /\ conn' = [conn EXCEPT ![r] = IF once[r] THEN "ended" ELSE "sending"]
  /\ UNCHANGED <<storeVars, once, cursor, batch, wire, seen, breaks>>

\* The feed sleeps and reads again; with once=true it ends.
BatchSent(r) ==
  /\ conn[r] = "sending" /\ batch[r] = <<>>
  /\ conn' = [conn EXCEPT ![r] = IF once[r] THEN "ended" ELSE "reading"]
  /\ UNCHANGED <<storeVars, once, cursor, batch, wire, seen, breaks>>

Receive(r) ==
  /\ wire[r] # <<>>
  /\ seen' = [seen EXCEPT ![r] = Append(@, Head(wire[r]))]
  /\ wire' = [wire EXCEPT ![r] = Tail(@)]
  /\ UNCHANGED <<storeVars, conn, once, cursor, batch, breaks>>

\* The connection breaks; what was on its way is lost.
Disconnect(r) ==
  /\ conn[r] # "closed" /\ breaks < MaxDisconnects
  /\ breaks' = breaks + 1
  /\ conn' = [conn EXCEPT ![r] = "closed"]
  /\ batch' = [batch EXCEPT ![r] = <<>>]
  /\ wire' = [wire EXCEPT ![r] = <<>>]
  /\ UNCHANGED <<storeVars, once, cursor, seen>>

ReaderStep(r) ==
  \/ \E o \in BOOLEAN : Connect(r, o)
  \/ ReadBatch(r) \/ SendEvent(r) \/ BatchSent(r) \/ Receive(r) \/ Disconnect(r)

Next == (\E w \in Writer : WriterStep(w)) \/ (\E r \in Reader : ReaderStep(r))

Spec == Init /\ [][Next]_vars

\* The feed loops for ever, the network delivers, a client reconnects.
Fairness ==
  \A r \in Reader :
    /\ WF_vars(\E o \in BOOLEAN : Connect(r, o))
    /\ WF_vars(ReadBatch(r)) /\ WF_vars(SendEvent(r)) /\ WF_vars(BatchSent(r))
    /\ WF_vars(Receive(r))

FairSpec == Spec /\ Fairness

-----------------------------------------------------------------------------
(***************************************************************************)
(* Properties.                                                             *)
(***************************************************************************)
\* Every variable keeps its type, and only an open transaction has rows of its
\* own.
TypeOK ==
  /\ rows \in Seq(AuditRow)
  /\ pending \in [Writer -> Seq(AuditRow)]
  /\ open \in SUBSET Writer
  /\ \A w \in Writer \ open : pending[w] = <<>>
  /\ conn \in [Reader -> {"closed", "reading", "sending", "ended"}]
  /\ once \in [Reader -> BOOLEAN]
  /\ cursor \in [Reader -> Nat]
  /\ batch \in [Reader -> Seq(AuditRow)]
  /\ wire \in [Reader -> Seq(AuditRow)]
  /\ seen \in [Reader -> Seq(AuditRow)]
  /\ breaks \in 0 .. MaxDisconnects

\* However the transactions of the three kinds of process interleave, fail or
\* die, the chain check of the broker's start and of the scheduler finds the
\* table intact, and sequence numbers are dense.
ChainVerifies ==
  verify_audit_chain(rows) /\ \A i \in DOMAIN rows : rows[i].sequence = i

\* A client that follows the table sees exactly the committed events, each
\* once and in order, whatever connections it loses on the way: what it has
\* seen is always a prefix of the table.
ReaderSeesPrefix ==
  \A r \in Reader :
    /\ Len(seen[r]) <= Len(rows)
    /\ \A i \in 1 .. Len(seen[r]) : seen[r][i] = rows[i]

F == INSTANCE AuditFeed WITH log <- rows

\* Seen from outside the table is an AuditFeed: no committed event is changed
\* or withdrawn, and a client is only ever told the next one it does not have,
\* whatever batches, connections and transactions are lost.
Feed == F!FeedSpec

\* A client that keeps reconnecting sees every committed event.
ReaderCatchesUp ==
  \A r \in Reader : \A n \in 1 .. MaxEvents : Len(rows) >= n ~> Len(seen[r]) >= n
=============================================================================
