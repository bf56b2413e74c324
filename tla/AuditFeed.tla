------------------------------ MODULE AuditFeed ------------------------------
(***************************************************************************)
(* What the audit log promises to those who read it, whatever transactions *)
(* fail and connections break: history is only ever added to, and every    *)
(* reader learns it event by event, in order, from the first one on, and   *)
(* is never told anything else.                                            *)
(***************************************************************************)
EXTENDS Naturals, Sequences

CONSTANT Reader

VARIABLES
  log,   \* the published events
  seen   \* what each reader has learnt of them

feedVars == <<log, seen>>

FeedInit == log = <<>> /\ seen = [r \in Reader |-> <<>>]

\* Events are published behind the ones that are there, one or several at a
\* time.
Publish ==
  /\ Len(log') > Len(log) /\ \A i \in 1 .. Len(log) : log'[i] = log[i]
  /\ UNCHANGED seen

\* A reader learns the next event it does not have.
Learn(r) ==
  /\ Len(seen[r]) < Len(log)
  /\ seen' = [seen EXCEPT ![r] = Append(@, log[Len(@) + 1])]
  /\ UNCHANGED log

FeedNext == Publish \/ \E r \in Reader : Learn(r)

FeedSpec == FeedInit /\ [][FeedNext]_feedVars
=============================================================================
