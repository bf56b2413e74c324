---------------------------- MODULE AuditLogProofs ----------------------------
(***************************************************************************)
(* Proofs about AuditLog, for any number of writers, readers and events.   *)
(***************************************************************************)
EXTENDS AuditLog, FiniteSetTheorems, WellFoundedInduction, TLAPS

-----------------------------------------------------------------------------
(***************************************************************************)
(* The chain.                                                              *)
(***************************************************************************)
ChainOK(table) ==
  verify_audit_chain(table) /\ \A i \in DOMAIN table : table[i].sequence = i

\* There is one write transaction at a time, and what it sees is a chain.
ChainInv ==
  /\ TypeOK
  /\ \A v, w \in open : v = w
  /\ \A w \in Writer : ChainOK(View(w))
  /\ ChainOK(rows)

\* A non-empty sequence has a last element, of its type.
LEMMA LastElement ==
  ASSUME NEW S, NEW s \in Seq(S), s # <<>>
  PROVE  s[Len(s)] \in S /\ Len(s) \in 1 .. Len(s)
<1>1. Len(s) \in Nat /\ Len(s) # 0
  OBVIOUS
<1> QED
  BY <1>1

\* _append_audit builds a row of the table's type.
LEMMA RowType ==
  ASSUME NEW t \in Seq(AuditRow), NEW w \in Writer
  PROVE  Row(t, w) \in AuditRow
<1> DEFINE previous == IF t = <<>> THEN Genesis ELSE t[Len(t)].event_hash
<1>1. previous \in Hash
  <2>1. CASE t = <<>>
    BY <2>1 DEF Hash, Genesis
  <2>2. CASE t # <<>>
    <3>1. t[Len(t)] \in AuditRow
      BY <2>2, LastElement
    <3> QED
      BY <2>2, <3>1 DEF AuditRow
  <2> QED
    BY <2>1, <2>2
<1>2. Len(t) + 1 \in Nat
  OBVIOUS
<1>3. chain_hash(Len(t) + 1, previous, w) \in Hash
  BY <1>1, <1>2 DEF chain_hash, Hash
<1> QED
  BY <1>1, <1>2, <1>3 DEF Row, AuditRow

\* A row built on the last one keeps the chain dense and linked.
LEMMA RowExtendsChain ==
  ASSUME NEW t \in Seq(AuditRow), NEW w \in Writer, ChainOK(t)
  PROVE  ChainOK(Append(t, Row(t, w)))
<1> DEFINE u == Append(t, Row(t, w))
<1>1. /\ u \in Seq(AuditRow) /\ Len(u) = Len(t) + 1
      /\ \A i \in 1 .. Len(t) : u[i] = t[i]
      /\ u[Len(t) + 1] = Row(t, w)
  BY RowType
<1>2. DOMAIN t = 1 .. Len(t) /\ DOMAIN u = 1 .. (Len(t) + 1)
  BY <1>1
<1>3. t = <<>> <=> Len(t) = 0
  OBVIOUS
<1> HIDE DEF u
<1>4. ASSUME NEW i \in DOMAIN u, i <= Len(t)
      PROVE  /\ u[i].sequence = i
             /\ LET previous == IF i = 1 THEN Genesis ELSE u[i - 1].event_hash
                IN /\ u[i].previous_hash = previous
                   /\ u[i].event_hash = chain_hash(u[i].sequence, previous, u[i].payload)
  <2>1. i \in DOMAIN t /\ u[i] = t[i] /\ (i # 1 => u[i - 1] = t[i - 1])
    BY <1>1, <1>2, <1>4
  <2> QED
    BY <2>1 DEF ChainOK, verify_audit_chain
<1>5. ASSUME NEW i \in DOMAIN u, i = Len(t) + 1
      PROVE  /\ u[i].sequence = i
             /\ LET previous == IF i = 1 THEN Genesis ELSE u[i - 1].event_hash
                IN /\ u[i].previous_hash = previous
                   /\ u[i].event_hash = chain_hash(u[i].sequence, previous, u[i].payload)
  <2>1. i # 1 => u[i - 1] = t[Len(t)]
    BY <1>1, <1>2, <1>5
  <2> QED
    BY <1>1, <1>3, <1>5, <2>1 DEF Row
<1> QED
  BY <1>2, <1>4, <1>5 DEF ChainOK, verify_audit_chain, u

\* Appending to the pending rows appends to the table they will become.
LEMMA AppendConcat ==
  ASSUME NEW S, NEW s \in Seq(S), NEW t \in Seq(S), NEW x \in S
  PROVE  s \o Append(t, x) = Append(s \o t, x)
  OBVIOUS

\* A transaction without rows sees the table as it is.
LEMMA ConcatNothing ==
  ASSUME NEW S, NEW s \in Seq(S)
  PROVE  s \o <<>> = s
  OBVIOUS

\* The empty table is chained.
LEMMA InitChain == Init => ChainInv
<1> SUFFICES ASSUME Init PROVE ChainInv
  OBVIOUS
<1>1. TypeOK
  BY AuditConstants DEF Init, TypeOK
<1>2. ChainOK(<<>>)
  BY DEF ChainOK, verify_audit_chain
<1>3. \A w \in Writer : View(w) = <<>>
  BY DEF Init, View
<1> QED
  BY <1>1, <1>2, <1>3 DEF Init, ChainInv

\* What an open transaction sees is a table.
LEMMA ViewType == ASSUME TypeOK, NEW w \in Writer PROVE View(w) \in Seq(AuditRow)
  BY DEF TypeOK, View

\* What a list of events returns.
LEMMA ListType ==
  ASSUME TypeOK, NEW n \in Nat PROVE list_audit_events(n) \in Seq(AuditRow)
<1> DEFINE skipped == {i \in DOMAIN rows : rows[i].sequence <= n}
<1>1. IsFiniteSet(skipped)
  <2>1. IsFiniteSet(1 .. Len(rows)) /\ DOMAIN rows = 1 .. Len(rows)
    BY FS_Interval DEF TypeOK
  <2> QED
    BY <2>1, FS_Subset
<1>2. Cardinality(skipped) \in Nat
  BY <1>1, FS_CardinalityType
<1> HIDE DEF skipped
<1>3. BatchAfter(Cardinality(skipped)) \in Seq(AuditRow)
  BY <1>2, AuditConstants DEF BatchAfter, TypeOK
<1> QED
  BY <1>3 DEF list_audit_events, skipped

\* A writer that begins, appends, commits or rolls back keeps the chain.
LEMMA WriterKeepsChain ==
  ASSUME ChainInv, NEW w \in Writer, WriterStep(w)
  PROVE  ChainInv'
<1> USE DEF connVars
<1>1. CASE Begin(w)
  <2>1. TypeOK'
    BY <1>1 DEF Begin, ChainInv, TypeOK
  <2> QED
    BY <1>1, <2>1 DEF Begin, ChainInv, View
<1>2. CASE append_audit(w)
  <2>1. View(w) \in Seq(AuditRow) /\ Row(View(w), w) \in AuditRow
    BY ViewType, RowType DEF ChainInv
  <2>2. TypeOK'
    BY <1>2, <2>1 DEF append_audit, ChainInv, TypeOK
  <2>3. View(w)' = Append(View(w), Row(View(w), w))
    BY <1>2, <2>1, AppendConcat DEF append_audit, ChainInv, TypeOK, View
  <2>4. ChainOK(View(w)')
    BY <2>1, <2>3, RowExtendsChain DEF ChainInv
  <2>5. \A v \in Writer \ {w} : View(v)' = View(v)
    BY <1>2 DEF append_audit, ChainInv, TypeOK, View
  <2> QED
    BY <1>2, <2>2, <2>4, <2>5 DEF append_audit, ChainInv
<1>3. CASE Commit(w)
  <2>1. View(w) \in Seq(AuditRow)
    BY ViewType DEF ChainInv
  <2>2. TypeOK'
    BY <1>3, <2>1 DEF Commit, ChainInv, TypeOK
  <2>3. \A v \in Writer : pending'[v] = <<>>
    BY <1>3 DEF Commit, ChainInv, TypeOK
  <2>4. \A v \in Writer : View(v)' = View(w)
    BY <1>3, <2>1, <2>3, ConcatNothing DEF Commit, View
  <2> QED
    BY <1>3, <2>2, <2>4 DEF Commit, ChainInv
<1>4. CASE Rollback(w)
  <2>1. TypeOK'
    BY <1>4 DEF Rollback, ChainInv, TypeOK
  <2>2. \A v \in Writer : pending'[v] = <<>>
    BY <1>4 DEF Rollback, ChainInv, TypeOK
  <2>3. \A v \in Writer : View(v)' = rows
    BY <1>4, <2>2, ConcatNothing DEF Rollback, View, ChainInv, TypeOK
  <2> QED
    BY <1>4, <2>1, <2>3 DEF Rollback, ChainInv
<1>5. CASE audit_is_writable(w)
  BY <1>5 DEF audit_is_writable, vars, storeVars, ChainInv, TypeOK, View
<1> QED
  BY <1>1, <1>2, <1>3, <1>4, <1>5 DEF WriterStep

\* Readers touch no row.
LEMMA ReaderKeepsType ==
  ASSUME TypeOK, NEW r \in Reader, ReaderStep(r)
  PROVE  TypeOK' /\ UNCHANGED storeVars
<1> USE DEF storeVars, TypeOK
<1>1. ASSUME NEW o \in BOOLEAN, Connect(r, o) PROVE TypeOK' /\ UNCHANGED storeVars
  <2>1. seen[r] # <<>> => seen[r][Len(seen[r])] \in AuditRow
    BY LastElement
  <2>2. LastSequence(seen[r]) \in Nat
    BY <2>1 DEF LastSequence, AuditRow
  <2> QED
    BY <1>1, <2>2 DEF Connect
<1>2. CASE ReadBatch(r)
  <2>1. list_audit_events(cursor[r]) \in Seq(AuditRow)
    BY ListType
  <2> QED
    BY <1>2, <2>1 DEF ReadBatch
<1>3. CASE SendEvent(r)
  <2>1. Head(batch[r]) \in AuditRow /\ Tail(batch[r]) \in Seq(AuditRow)
    BY <1>3 DEF SendEvent
  <2>2. Head(batch[r]).sequence \in Nat
    BY <2>1 DEF AuditRow
  <2> QED
    BY <1>3, <2>1, <2>2 DEF SendEvent
<1>4. CASE BatchSent(r)
  BY <1>4 DEF BatchSent
<1>5. CASE Receive(r)
  <2>1. Head(wire[r]) \in AuditRow /\ Tail(wire[r]) \in Seq(AuditRow)
    BY <1>5 DEF Receive
  <2> QED
    BY <1>5, <2>1 DEF Receive
<1>6. CASE Disconnect(r)
  BY <1>6, AuditConstants DEF Disconnect
<1> QED
  BY <1>1, <1>2, <1>3, <1>4, <1>5, <1>6 DEF ReaderStep

\* Every step keeps the chain.
LEMMA StepKeepsChain == ChainInv /\ [Next]_vars => ChainInv'
<1> SUFFICES ASSUME ChainInv, [Next]_vars PROVE ChainInv'
  OBVIOUS
<1>1. ASSUME NEW w \in Writer, WriterStep(w) PROVE ChainInv'
  BY <1>1, WriterKeepsChain
<1>2. ASSUME NEW r \in Reader, ReaderStep(r) PROVE ChainInv'
  BY <1>2, ReaderKeepsType DEF ChainInv, View, storeVars
<1>3. CASE UNCHANGED vars
  BY <1>3 DEF vars, storeVars, connVars, ChainInv, TypeOK, View
<1> QED
  BY <1>1, <1>2, <1>3 DEF Next

\* The invariant of the chain holds in every behaviour.
THEOREM ChainInvariance == Spec => []ChainInv
  BY InitChain, StepKeepsChain, PTL DEF Spec

\* The audit table keeps its types.
THEOREM AuditTypes == Spec => []TypeOK
<1>1. ChainInv => TypeOK
  BY DEF ChainInv
<1> QED
  BY ChainInvariance, <1>1, PTL

\* The chain check never raises a false alarm, for any number of processes that
\* write, fail and die.
THEOREM ChainIsIntact == Spec => []ChainVerifies
<1>1. ChainInv => ChainVerifies
  BY DEF ChainInv, ChainOK, ChainVerifies
<1> QED
  BY ChainInvariance, <1>1, PTL

-----------------------------------------------------------------------------
(***************************************************************************)
(* The readers.  First, lemmas about sequences that follow one another in  *)
(* a table t: what was seen (s), is on its way (w), is to be sent (b).     *)
(***************************************************************************)
Follow(t, s, w, b) ==
  /\ Len(s) + Len(w) + Len(b) <= Len(t)
  /\ \A i \in 1 .. Len(s) : s[i] = t[i]
  /\ \A i \in 1 .. Len(w) : w[i] = t[Len(s) + i]
  /\ \A i \in 1 .. Len(b) : b[i] = t[Len(s) + Len(w) + i]

\* What was seen and what is on the wire fit into the table.
LEMMA FollowBound ==
  ASSUME NEW S, NEW t \in Seq(S), NEW s \in Seq(S), NEW w \in Seq(S),
         NEW b \in Seq(S), Follow(t, s, w, b)
  PROVE  /\ Len(s) <= Len(t) /\ Len(s) + Len(w) \in 0 .. Len(t)
         /\ \A i \in 1 .. Len(s) : s[i] = t[i]
<1>1. Len(s) \in Nat /\ Len(w) \in Nat /\ Len(b) \in Nat /\ Len(t) \in Nat
  OBVIOUS
<1> QED
  BY <1>1 DEF Follow

\* Events that are appended disturb no reader.
LEMMA FollowGrows ==
  ASSUME NEW S, NEW t \in Seq(S), NEW s \in Seq(S), NEW w \in Seq(S),
         NEW b \in Seq(S), NEW u \in Seq(S), Follow(t, s, w, b)
  PROVE  Follow(t \o u, s, w, b)
<1>1. /\ t \o u \in Seq(S) /\ Len(t \o u) = Len(t) + Len(u)
      /\ \A i \in 1 .. Len(t) : (t \o u)[i] = t[i]
  OBVIOUS
<1>2. Len(s) \in Nat /\ Len(w) \in Nat /\ Len(b) \in Nat /\ Len(t) \in Nat /\ Len(u) \in Nat
  OBVIOUS
<1> QED
  BY <1>1, <1>2 DEF Follow

\* The next batch follows what is on the wire.
LEMMA FollowRead ==
  ASSUME NEW S, NEW t \in Seq(S), NEW s \in Seq(S), NEW w \in Seq(S),
         Follow(t, s, w, <<>>), NEW upto \in Nat, upto <= Len(t),
         upto >= Len(s) + Len(w)
  PROVE  Follow(t, s, w, SubSeq(t, Len(s) + Len(w) + 1, upto))
<1> DEFINE n == Len(s) + Len(w)
           b == SubSeq(t, n + 1, upto)
<1>1. Len(s) \in Nat /\ Len(w) \in Nat /\ Len(t) \in Nat
  OBVIOUS
<1>2. Len(b) = upto - n /\ \A i \in 1 .. (upto - n) : b[i] = t[n + i]
  BY <1>1
<1> HIDE DEF b
<1>3. Follow(t, s, w, b)
  BY <1>1, <1>2 DEF Follow
<1> QED
  BY <1>3 DEF b

\* Sending moves the first event of the batch to the end of the wire.
LEMMA FollowSend ==
  ASSUME NEW S, NEW t \in Seq(S), NEW s \in Seq(S), NEW w \in Seq(S),
         NEW b \in Seq(S), b # <<>>, Follow(t, s, w, b)
  PROVE  /\ Follow(t, s, Append(w, Head(b)), Tail(b))
         /\ Head(b) = t[Len(s) + Len(w) + 1]
         /\ Len(s) + Len(w) + 1 \in 1 .. Len(t)
<1> DEFINE w2 == Append(w, Head(b))
           b2 == Tail(b)
<1>1. Len(s) \in Nat /\ Len(w) \in Nat /\ Len(t) \in Nat /\ Len(b) \in Nat \ {0}
  OBVIOUS
<1>2. /\ Len(w2) = Len(w) + 1 /\ \A i \in 1 .. Len(w) : w2[i] = w[i]
      /\ w2[Len(w) + 1] = Head(b)
  OBVIOUS
<1>3. Len(b2) = Len(b) - 1 /\ \A i \in 1 .. (Len(b) - 1) : b2[i] = b[i + 1]
  BY <1>1
<1>4. Head(b) = b[1]
  OBVIOUS
<1> HIDE DEF w2, b2
<1>5. Head(b) = t[Len(s) + Len(w) + 1]
  BY <1>1, <1>4 DEF Follow
<1>6. ASSUME NEW i \in 1 .. Len(w2) PROVE w2[i] = t[Len(s) + i]
  <2>1. CASE i \in 1 .. Len(w)
    BY <1>2, <2>1 DEF Follow
  <2>2. CASE i = Len(w) + 1
    <3>1. Len(s) + Len(w) + 1 = Len(s) + i
      BY <1>1, <2>2
    <3> QED
      BY <1>2, <1>5, <2>2, <3>1
  <2> QED
    BY <1>1, <1>2, <2>1, <2>2
<1>7. ASSUME NEW i \in 1 .. Len(b2) PROVE b2[i] = t[Len(s) + Len(w2) + i]
  <2>1. i + 1 \in 1 .. Len(b) /\ b2[i] = b[i + 1]
    BY <1>1, <1>3
  <2>2. b[i + 1] = t[Len(s) + Len(w) + (i + 1)]
    BY <2>1 DEF Follow
  <2>3. Len(s) + Len(w) + (i + 1) = Len(s) + Len(w2) + i
    BY <1>1, <1>2
  <2> QED
    BY <2>1, <2>2, <2>3
<1>8. Follow(t, s, w2, b2)
  BY <1>1, <1>2, <1>3, <1>6, <1>7 DEF Follow
<1> QED
  BY <1>1, <1>5, <1>8 DEF Follow, w2, b2

\* Receiving moves the first event of the wire to the end of what was seen.
LEMMA FollowReceive ==
  ASSUME NEW S, NEW t \in Seq(S), NEW s \in Seq(S), NEW w \in Seq(S),
         NEW b \in Seq(S), w # <<>>, Follow(t, s, w, b)
  PROVE  /\ Follow(t, Append(s, Head(w)), Tail(w), b)
         /\ Len(Append(s, Head(w))) + Len(Tail(w)) = Len(s) + Len(w)
<1> DEFINE s2 == Append(s, Head(w))
           w2 == Tail(w)
<1>1. Len(s) \in Nat /\ Len(b) \in Nat /\ Len(t) \in Nat /\ Len(w) \in Nat \ {0}
  OBVIOUS
<1>2. /\ Len(s2) = Len(s) + 1 /\ \A i \in 1 .. Len(s) : s2[i] = s[i]
      /\ s2[Len(s) + 1] = Head(w)
  OBVIOUS
<1>3. Len(w2) = Len(w) - 1 /\ \A i \in 1 .. (Len(w) - 1) : w2[i] = w[i + 1]
  BY <1>1
<1>4. Head(w) = w[1]
  OBVIOUS
<1> HIDE DEF s2, w2
<1>5. Head(w) = t[Len(s) + 1]
  BY <1>1, <1>4 DEF Follow
<1>6. ASSUME NEW i \in 1 .. Len(s2) PROVE s2[i] = t[i]
  <2>1. CASE i \in 1 .. Len(s)
    BY <1>2, <2>1 DEF Follow
  <2>2. CASE i = Len(s) + 1
    BY <1>2, <1>5, <2>2
  <2> QED
    BY <1>1, <1>2, <2>1, <2>2
<1>7. ASSUME NEW i \in 1 .. Len(w2) PROVE w2[i] = t[Len(s2) + i]
  <2>1. i + 1 \in 1 .. Len(w) /\ w2[i] = w[i + 1]
    BY <1>1, <1>3
  <2>2. w[i + 1] = t[Len(s) + (i + 1)]
    BY <2>1 DEF Follow
  <2>3. Len(s) + (i + 1) = Len(s2) + i
    BY <1>1, <1>2
  <2> QED
    BY <2>1, <2>2, <2>3
<1>8. Len(s2) + Len(w2) = Len(s) + Len(w)
  BY <1>1, <1>2, <1>3
<1>9. Follow(t, s2, w2, b)
  BY <1>1, <1>6, <1>7, <1>8 DEF Follow
<1> QED
  BY <1>8, <1>9 DEF s2, w2

\* What a broken connection loses can be read again.
LEMMA FollowDrop ==
  ASSUME NEW S, NEW t \in Seq(S), NEW s \in Seq(S), NEW w \in Seq(S),
         NEW b \in Seq(S), Follow(t, s, w, b)
  PROVE  Follow(t, s, <<>>, <<>>)
<1>1. Len(s) \in Nat /\ Len(b) \in Nat /\ Len(t) \in Nat /\ Len(w) \in Nat
  OBVIOUS
<1> QED
  BY <1>1 DEF Follow

-----------------------------------------------------------------------------
\* What a client has seen, what is on its way and what is about to be sent
\* follow one another in the table, and the broker's cursor is in step.
FeedOK(r) ==
  /\ Follow(rows, seen[r], wire[r], batch[r])
  /\ conn[r] \in {"reading", "sending"} => cursor[r] = Len(seen[r]) + Len(wire[r])
  /\ conn[r] # "sending" => batch[r] = <<>>
  /\ conn[r] = "closed" => wire[r] = <<>>

FeedInv == ChainInv /\ \A r \in Reader : FeedOK(r)

\* A reader that has seen nothing has missed nothing.
LEMMA InitFeed == Init => FeedInv
  BY InitChain DEF FeedInv, FeedOK, Follow, Init

\* A committed transaction only adds rows at the end.
LEMMA WriterKeepsFeed ==
  ASSUME FeedInv, NEW w \in Writer, WriterStep(w), NEW r \in Reader
  PROVE  FeedOK(r)'
<1>1. UNCHANGED <<connVars, seen>>
  BY DEF WriterStep, Begin, append_audit, Commit, Rollback, audit_is_writable, vars
<1>2. rows' = rows \/ rows' = rows \o pending[w]
  BY DEF WriterStep, Begin, append_audit, Commit, Rollback, audit_is_writable,
     vars, storeVars, View
<1>3. /\ rows \in Seq(AuditRow) /\ pending[w] \in Seq(AuditRow)
      /\ seen[r] \in Seq(AuditRow) /\ wire[r] \in Seq(AuditRow)
      /\ batch[r] \in Seq(AuditRow)
  BY DEF FeedInv, ChainInv, TypeOK
<1>4. Follow(rows', seen[r], wire[r], batch[r])
  BY <1>2, <1>3, FollowGrows DEF FeedInv, FeedOK
<1> QED
  BY <1>1, <1>4 DEF FeedInv, FeedOK, connVars

\* In a dense table the rows up to a sequence are as many as it says.
LEMMA ListIsNext ==
  ASSUME ChainInv, NEW n \in 0 .. Len(rows)
  PROVE  list_audit_events(n) = BatchAfter(n)
<1>1. rows \in Seq(AuditRow) /\ DOMAIN rows = 1 .. Len(rows) /\ Len(rows) \in Nat
  BY DEF ChainInv, TypeOK
<1>2. {i \in DOMAIN rows : rows[i].sequence <= n} = 1 .. n
  BY <1>1 DEF ChainInv, ChainOK
<1>3. Cardinality(1 .. n) = n
  BY <1>1, FS_Interval
<1> QED
  BY <1>2, <1>3 DEF list_audit_events

\* A step of a reader keeps its own feed without a gap.
LEMMA ReaderKeepsFeed ==
  ASSUME FeedInv, NEW r \in Reader, ReaderStep(r)
  PROVE  FeedOK(r)'
<1>1. FeedOK(r) /\ TypeOK /\ rows' = rows
  BY ReaderKeepsType DEF FeedInv, ChainInv, storeVars
<1>2. /\ rows \in Seq(AuditRow) /\ seen[r] \in Seq(AuditRow)
      /\ wire[r] \in Seq(AuditRow) /\ batch[r] \in Seq(AuditRow)
  BY <1>1 DEF TypeOK
<1>3. /\ Len(seen[r]) \in Nat /\ Len(wire[r]) \in Nat /\ Len(rows) \in Nat
      /\ Len(batch[r]) \in Nat
  BY <1>2
<1>4. \A i \in 1 .. Len(rows) : rows[i].sequence = i
  BY <1>2 DEF FeedInv, ChainInv, ChainOK
<1>5. ASSUME NEW o \in BOOLEAN, Connect(r, o) PROVE FeedOK(r)'
  <2>1. wire[r] = <<>> /\ batch[r] = <<>>
    BY <1>1, <1>5 DEF Connect, FeedOK
  <2>2. LastSequence(seen[r]) = Len(seen[r])
    <3>1. CASE seen[r] = <<>>
      BY <3>1 DEF LastSequence
    <3>2. CASE seen[r] # <<>>
      <4> DEFINE n == Len(seen[r])
      <4>1. n \in 1 .. n
        BY <1>2, <3>2, LastElement
      <4> HIDE DEF n
      <4>2. seen[r][n] = rows[n] /\ n <= Len(rows)
        BY <1>1, <1>2, <4>1, FollowBound DEF FeedOK, n
      <4>3. n \in 1 .. Len(rows)
        BY <1>3, <4>1, <4>2 DEF n
      <4>4. seen[r][n].sequence = n
        BY <1>4, <4>2, <4>3
      <4> QED
        BY <3>2, <4>4 DEF LastSequence, n
    <3> QED
      BY <3>1, <3>2
  <2>3. /\ conn'[r] = "reading" /\ cursor'[r] = Len(seen[r])
        /\ UNCHANGED <<seen, wire, batch>>
    BY <1>1, <1>5, <2>2 DEF Connect, TypeOK
  <2>4. Len(seen[r]) = Len(seen[r]) + Len(wire[r])
    BY <1>3, <2>1
  <2> QED
    BY <1>1, <2>1, <2>3, <2>4 DEF FeedOK
<1>6. CASE ReadBatch(r)
  <2> DEFINE n == Len(seen[r]) + Len(wire[r])
             upto == IF n + Batch < Len(rows) THEN n + Batch ELSE Len(rows)
  <2>1. cursor[r] = n /\ batch[r] = <<>>
    BY <1>1, <1>6 DEF ReadBatch, FeedOK
  <2>2. n \in 0 .. Len(rows)
    BY <1>1, <1>2, FollowBound DEF FeedOK
  <2>3. upto \in Nat /\ upto <= Len(rows) /\ upto >= n
    <3> HIDE DEF n
    <3> QED
      BY <1>3, <2>2, AuditConstants
  <2>4. /\ batch'[r] = list_audit_events(n) /\ conn'[r] = "sending"
        /\ UNCHANGED <<cursor, wire, seen>>
    BY <1>1, <1>6, <2>1 DEF ReadBatch, TypeOK
  <2>5. batch'[r] = SubSeq(rows, n + 1, upto)
    BY <2>2, <2>4, ListIsNext DEF FeedInv, BatchAfter
  <2>6. Follow(rows, seen[r], wire[r], <<>>)
    BY <1>1, <2>1 DEF FeedOK
  <2>7. Follow(rows, seen[r], wire[r], SubSeq(rows, n + 1, upto))
    BY <1>2, <2>3, <2>6, FollowRead
  <2> QED
    BY <1>1, <2>1, <2>4, <2>5, <2>7 DEF FeedOK
<1>7. CASE SendEvent(r)
  <2>1. /\ batch[r] # <<>> /\ conn[r] = "sending" /\ conn' = conn /\ seen' = seen
        /\ wire'[r] = Append(wire[r], Head(batch[r]))
        /\ batch'[r] = Tail(batch[r])
        /\ cursor'[r] = Head(batch[r]).sequence
    BY <1>1, <1>7 DEF SendEvent, TypeOK
  <2>2. /\ Follow(rows, seen[r], Append(wire[r], Head(batch[r])), Tail(batch[r]))
        /\ Head(batch[r]) = rows[Len(seen[r]) + Len(wire[r]) + 1]
        /\ Len(seen[r]) + Len(wire[r]) + 1 \in 1 .. Len(rows)
    BY <1>1, <1>2, <2>1, FollowSend DEF FeedOK
  <2>3. cursor'[r] = Len(seen[r]) + Len(wire[r]) + 1
    BY <1>4, <2>1, <2>2
  <2>4. Head(batch[r]) \in AuditRow
    BY <1>2, <2>1
  <2>5. Len(wire'[r]) = Len(wire[r]) + 1
    BY <1>2, <2>1, <2>4
  <2>6. Len(seen[r]) + Len(wire[r]) + 1 = Len(seen[r]) + (Len(wire[r]) + 1)
    <3> DEFINE a == Len(seen[r])
               b == Len(wire[r])
    <3>1. a \in Nat /\ b \in Nat
      BY <1>3
    <3> HIDE DEF a, b
    <3>2. a + b + 1 = a + (b + 1)
      BY <3>1
    <3> QED
      BY <3>2 DEF a, b
  <2>7. cursor'[r] = Len(seen[r]) + Len(wire'[r])
    BY <2>3, <2>5, <2>6
  <2>8. Follow(rows, seen[r], wire'[r], batch'[r])
    BY <2>1, <2>2
  <2> QED
    BY <1>1, <2>1, <2>7, <2>8 DEF FeedOK
<1>8. CASE BatchSent(r)
  <2>1. /\ batch[r] = <<>> /\ conn'[r] \in {"ended", "reading"} /\ conn[r] = "sending"
        /\ UNCHANGED <<cursor, batch, wire, seen>>
    BY <1>1, <1>8 DEF BatchSent, TypeOK
  <2> QED
    BY <1>1, <2>1 DEF FeedOK
<1>9. CASE Receive(r)
  <2>1. /\ wire[r] # <<>> /\ UNCHANGED <<conn, cursor, batch>>
        /\ seen'[r] = Append(seen[r], Head(wire[r]))
        /\ wire'[r] = Tail(wire[r])
    BY <1>1, <1>9 DEF Receive, TypeOK
  <2>2. /\ Follow(rows, Append(seen[r], Head(wire[r])), Tail(wire[r]), batch[r])
        /\ Len(Append(seen[r], Head(wire[r]))) + Len(Tail(wire[r]))
             = Len(seen[r]) + Len(wire[r])
    BY <1>1, <1>2, <2>1, FollowReceive DEF FeedOK
  <2> QED
    BY <1>1, <2>1, <2>2 DEF FeedOK
<1>10. CASE Disconnect(r)
  <2>1. /\ conn'[r] = "closed" /\ batch'[r] = <<>> /\ wire'[r] = <<>>
        /\ UNCHANGED <<cursor, seen>>
    BY <1>1, <1>10 DEF Disconnect, TypeOK
  <2>2. Follow(rows, seen[r], <<>>, <<>>)
    BY <1>1, <1>2, FollowDrop DEF FeedOK
  <2> QED
    BY <1>1, <2>1, <2>2 DEF FeedOK
<1> QED
  BY <1>5, <1>6, <1>7, <1>8, <1>9, <1>10 DEF ReaderStep

\* A step of another reader leaves a feed alone.
LEMMA OtherReaderKeepsFeed ==
  ASSUME FeedInv, NEW r \in Reader, NEW q \in Reader \ {r}, ReaderStep(q)
  PROVE  FeedOK(r)'
<1>1. UNCHANGED rows /\ TypeOK /\ FeedOK(r)
  BY ReaderKeepsType DEF FeedInv, ChainInv, storeVars
<1>2. /\ conn'[r] = conn[r] /\ cursor'[r] = cursor[r] /\ batch'[r] = batch[r]
      /\ wire'[r] = wire[r] /\ seen'[r] = seen[r]
  BY <1>1 DEF TypeOK, ReaderStep, Connect, ReadBatch, SendEvent, BatchSent,
     Receive, Disconnect
<1> QED
  BY <1>1, <1>2 DEF FeedOK

\* Every step keeps the feeds without a gap.
LEMMA StepKeepsFeed == FeedInv /\ [Next]_vars => FeedInv'
<1> SUFFICES ASSUME FeedInv, [Next]_vars PROVE FeedInv'
  OBVIOUS
<1>1. ChainInv'
  BY StepKeepsChain DEF FeedInv
<1>2. ASSUME NEW r \in Reader PROVE FeedOK(r)'
  <2>1. ASSUME NEW w \in Writer, WriterStep(w) PROVE FeedOK(r)'
    BY <2>1, WriterKeepsFeed
  <2>2. ASSUME NEW q \in Reader, ReaderStep(q) PROVE FeedOK(r)'
    BY <2>2, ReaderKeepsFeed, OtherReaderKeepsFeed
  <2>3. CASE UNCHANGED vars
    BY <2>3 DEF vars, storeVars, connVars, FeedInv, FeedOK
  <2> QED
    BY <2>1, <2>2, <2>3 DEF Next
<1> QED
  BY <1>1, <1>2 DEF FeedInv

\* The invariant of the feeds holds in every behaviour.
THEOREM FeedInvariance == Spec => []FeedInv
  BY InitFeed, StepKeepsFeed, PTL DEF Spec

\* A client that follows the table sees exactly the committed events, each once
\* and in order, over any number of broken connections.
THEOREM ReadersMissNothing == Spec => []ReaderSeesPrefix
<1>1. FeedInv => ReaderSeesPrefix
  <2> SUFFICES ASSUME FeedInv, NEW r \in Reader
               PROVE  /\ Len(seen[r]) <= Len(rows)
                      /\ \A i \in 1 .. Len(seen[r]) : seen[r][i] = rows[i]
    BY DEF ReaderSeesPrefix
  <2>1. /\ rows \in Seq(AuditRow) /\ seen[r] \in Seq(AuditRow)
        /\ wire[r] \in Seq(AuditRow) /\ batch[r] \in Seq(AuditRow)
    BY DEF FeedInv, ChainInv, TypeOK
  <2> QED
    BY <2>1, FollowBound DEF FeedInv, FeedOK
<1> QED
  BY FeedInvariance, <1>1, PTL

-----------------------------------------------------------------------------
(***************************************************************************)
(* The table is an AuditFeed.                                              *)
(***************************************************************************)
\* A sequence that is added to, and not by nothing, is longer and begins the
\* same.
LEMMA LongerTable ==
  ASSUME NEW S, NEW t \in Seq(S), NEW u \in Seq(S), u # <<>>
  PROVE  Len(t \o u) > Len(t) /\ \A i \in 1 .. Len(t) : (t \o u)[i] = t[i]
<1>1. Len(t) \in Nat /\ Len(u) \in Nat /\ Len(u) # 0
  OBVIOUS
<1> QED
  BY <1>1

\* A transaction publishes its rows when it commits, and nothing before.
LEMMA WriterPublishes ==
  ASSUME FeedInv, NEW w \in Writer, WriterStep(w)
  PROVE  [F!FeedNext]_(F!feedVars)
<1>1. UNCHANGED seen
  BY DEF WriterStep, Begin, append_audit, Commit, Rollback, audit_is_writable, vars
<1>2. rows' = rows \/ rows' = rows \o pending[w]
  BY DEF WriterStep, Begin, append_audit, Commit, Rollback, audit_is_writable,
     vars, storeVars, View
<1>3. rows \in Seq(AuditRow) /\ pending[w] \in Seq(AuditRow)
  BY DEF FeedInv, ChainInv, TypeOK
<1>4. CASE rows' = rows
  BY <1>1, <1>4 DEF F!feedVars
<1>5. CASE rows' = rows \o pending[w] /\ pending[w] # <<>>
  BY <1>1, <1>3, <1>5, LongerTable DEF F!FeedNext, F!Publish
<1>6. CASE rows' = rows \o pending[w] /\ pending[w] = <<>>
  BY <1>3, <1>4, <1>6, ConcatNothing
<1> QED
  BY <1>2, <1>4, <1>5, <1>6

\* What a reader receives is the next event it does not have.
LEMMA ReaderLearns ==
  ASSUME FeedInv, NEW r \in Reader, ReaderStep(r)
  PROVE  [F!FeedNext]_(F!feedVars)
<1>1. rows' = rows /\ TypeOK /\ FeedOK(r)
  BY ReaderKeepsType DEF FeedInv, ChainInv, storeVars
<1>2. CASE seen' = seen
  BY <1>1, <1>2 DEF F!feedVars
<1>3. CASE Receive(r)
  <2>1. /\ rows \in Seq(AuditRow) /\ seen[r] \in Seq(AuditRow)
        /\ wire[r] \in Seq(AuditRow) /\ batch[r] \in Seq(AuditRow)
    BY <1>1 DEF TypeOK
  <2>2. wire[r] # <<>> /\ seen' = [seen EXCEPT ![r] = Append(@, Head(wire[r]))]
    BY <1>3 DEF Receive
  <2>3. Len(wire[r]) \in Nat \ {0} /\ Head(wire[r]) = wire[r][1]
    BY <2>1, <2>2
  <2>4. Len(seen[r]) \in Nat /\ Len(batch[r]) \in Nat /\ Len(rows) \in Nat
    BY <2>1
  <2>5. Len(seen[r]) < Len(rows) /\ wire[r][1] = rows[Len(seen[r]) + 1]
    <3>1. Follow(rows, seen[r], wire[r], batch[r])
      BY <1>1 DEF FeedOK
    <3>2. Len(seen[r]) + Len(wire[r]) + Len(batch[r]) <= Len(rows)
      BY <3>1 DEF Follow
    <3>3. 1 \in 1 .. Len(wire[r])
      BY <2>3
    <3>4. wire[r][1] = rows[Len(seen[r]) + 1]
      BY <3>1, <3>3 DEF Follow
    <3>5. ASSUME NEW a \in Nat, NEW b \in Nat \ {0}, NEW c \in Nat, NEW d \in Nat, a + b + c <= d
          PROVE  a < d
      BY <3>5
    <3>6. Len(seen[r]) < Len(rows)
      BY <2>3, <2>4, <3>2, <3>5
    <3> QED
      BY <3>4, <3>6
  <2>6. F!Learn(r)
    BY <1>1, <2>2, <2>3, <2>5 DEF F!Learn
  <2> QED
    BY <2>6 DEF F!FeedNext
<1> QED
  BY <1>2, <1>3 DEF ReaderStep, Connect, ReadBatch, SendEvent, BatchSent, Disconnect

\* The audit log implements AuditFeed: committed history is never rewritten,
\* and no client is told an event twice, out of order or in another form than
\* the one committed (store.py list_audit_events, api.py events).
THEOREM FeedRefinement == Spec => Feed
<1>1. Init => F!FeedInit
  BY DEF Init, F!FeedInit
<1>2. FeedInv /\ [Next]_vars => [F!FeedNext]_(F!feedVars)
  <2> SUFFICES ASSUME FeedInv, [Next]_vars PROVE [F!FeedNext]_(F!feedVars)
    OBVIOUS
  <2>1. CASE UNCHANGED vars
    BY <2>1 DEF vars, storeVars, F!feedVars
  <2> QED
    BY <2>1, WriterPublishes, ReaderLearns DEF Next
<1> QED
  BY <1>1, <1>2, FeedInvariance, PTL DEF Spec, Feed, F!FeedSpec


-----------------------------------------------------------------------------
(***************************************************************************)
(* What a table that verifies has committed to.  Both arguments run along  *)
(* the chain: a first row at which a statement fails has a neighbour at    *)
(* which it holds.                                                         *)
(***************************************************************************)
\* A set of numbers that is not empty has a smallest one.
LEMMA Smallest ==
  ASSUME NEW T \in SUBSET Nat, T # {}
  PROVE  \E x \in T : \A y \in T : x <= y
<1> DEFINE R == {pair \in Nat \X Nat : pair[1] < pair[2]}
<1>1. IsWellFoundedOn(R, Nat)
  BY NatLessThanWellFounded DEF OpToRel
<1> HIDE DEF R
<1>2. PICK x \in T : \A y \in T : <<y, x>> \notin R
  BY <1>1, WFMin
<1>3. \A y \in T : ~(y < x)
  BY <1>2 DEF R
<1> QED
  BY <1>3

\* A row that verifies, and the hash it builds on.
Before(t, i) == IF i = 1 THEN Genesis ELSE t[i - 1].event_hash

LEMMA RowVerifies ==
  ASSUME NEW t \in Seq(AuditRow), verify_audit_chain(t), NEW i \in 1 .. Len(t)
  PROVE  /\ t[i] \in AuditRow /\ Before(t, i) \in Hash
         /\ t[i].previous_hash = Before(t, i)
         /\ t[i].event_hash = Append(Before(t, i), <<t[i].sequence, t[i].payload>>)
<1>1. DOMAIN t = 1 .. Len(t) /\ Len(t) \in Nat /\ t[i] \in AuditRow
  OBVIOUS
<1>2. Before(t, i) \in Hash
  <2>1. CASE i = 1
    BY <2>1 DEF Before, Hash, Genesis
  <2>2. CASE i # 1
    <3>1. t[i - 1] \in AuditRow
      BY <1>1, <2>2
    <3> QED
      BY <2>2, <3>1 DEF Before, AuditRow
  <2> QED
    BY <2>1, <2>2
<1>3. /\ t[i].previous_hash = Before(t, i)
      /\ t[i].event_hash = Append(Before(t, i), <<t[i].sequence, t[i].payload>>)
  BY <1>1 DEF verify_audit_chain, chain_hash, Before
<1> QED
  BY <1>1, <1>2, <1>3

\* A row is its columns.
LEMMA SameFields ==
  ASSUME NEW a \in AuditRow, NEW b \in AuditRow, a.sequence = b.sequence, a.payload = b.payload,
         a.previous_hash = b.previous_hash, a.event_hash = b.event_hash
  PROVE  a = b
BY DEF AuditRow

\* Append loses nothing.
LEMMA AppendInjective ==
  ASSUME NEW S, NEW a \in Seq(S), NEW b \in Seq(S), NEW x \in S, NEW y \in S,
         Append(a, x) = Append(b, y)
  PROVE  a = b /\ x = y
<1>1. Len(a) \in Nat /\ Len(b) \in Nat
  OBVIOUS
<1>2. Len(Append(a, x)) = Len(a) + 1 /\ Len(Append(b, y)) = Len(b) + 1
  OBVIOUS
<1>3. Len(a) = Len(b)
  BY <1>1, <1>2
<1>4. \A i \in 1 .. Len(a) : a[i] = Append(a, x)[i] /\ b[i] = Append(b, y)[i]
  BY <1>3
<1>5. Append(a, x)[Len(a) + 1] = x /\ Append(b, y)[Len(b) + 1] = y
  OBVIOUS
<1> QED
  BY <1>3, <1>4, <1>5

\* A hash determines the event and the hash before it.
LEMMA HashInjective ==
  ASSUME NEW a \in Hash, NEW b \in Hash, NEW x \in Nat \X Writer, NEW y \in Nat \X Writer,
         Append(a, x) = Append(b, y)
  PROVE  a = b /\ x = y
<1> DEFINE S == Nat \X Writer
<1>1. a \in Seq(S) /\ b \in Seq(S) /\ x \in S /\ y \in S
  BY DEF Hash
<1> HIDE DEF S
<1> QED
  BY <1>1, AppendInjective

\* A hash tells how far down the chain it is.
LEMMA HashLength ==
  ASSUME NEW t \in Seq(AuditRow), verify_audit_chain(t), NEW n \in 1 .. Len(t)
  PROVE  Len(t[n].event_hash) = n
<1> DEFINE T == {i \in 1 .. Len(t) : Len(t[i].event_hash) # i}
<1> SUFFICES ASSUME T # {} PROVE FALSE
  OBVIOUS
<1>1. Len(t) \in Nat /\ T \subseteq Nat
  OBVIOUS
<1>2. PICK i \in T : \A y \in T : i <= y
  BY <1>1, Smallest
<1>3. i \in 1 .. Len(t) /\ Len(t[i].event_hash) # i
  BY <1>2
<1>4. i # 1 => i - 1 \in 1 .. Len(t) /\ i - 1 \notin T
  BY <1>1, <1>2, <1>3
<1>5. i # 1 => Len(t[i - 1].event_hash) = i - 1
  BY <1>4
<1>6. Len(Before(t, i)) = i - 1
  BY <1>3, <1>5 DEF Before, Genesis
<1>7. /\ Before(t, i) \in Seq(Nat \X Writer)
      /\ t[i].event_hash = Append(Before(t, i), <<t[i].sequence, t[i].payload>>)
  BY <1>3, RowVerifies DEF Hash
<1>8. Len(t[i].event_hash) = i - 1 + 1
  BY <1>6, <1>7
<1> QED
  BY <1>3, <1>8

\* The hash of one row of a table that verifies decides that row and all the
\* rows before it: no other history leads to it (store.py verify_audit_chain,
\* _chain_hash; with hashes that do not collide).
THEOREM HashCommits ==
  ASSUME NEW t \in Seq(AuditRow), verify_audit_chain(t), NEW n \in 1 .. Len(t),
         NEW u \in Seq(AuditRow), verify_audit_chain(u), NEW m \in 1 .. Len(u),
         t[n].event_hash = u[m].event_hash
  PROVE  n = m /\ \A i \in 1 .. n : t[i] = u[i]
<1>1. n = m /\ n \in Nat /\ Len(t) \in Nat /\ Len(u) \in Nat /\ n <= Len(t) /\ n <= Len(u)
  <2>1. Len(t[n].event_hash) = n /\ Len(u[m].event_hash) = m
    BY HashLength
  <2> QED
    BY <2>1
<1> DEFINE Same(i) == t[i].event_hash = u[i].event_hash
<1>2. ASSUME NEW i \in 1 .. n, Same(i)
      PROVE  t[i] = u[i] /\ Before(t, i) = Before(u, i)
  <2>1. i \in 1 .. Len(t) /\ i \in 1 .. Len(u)
    BY <1>1
  <2>2. /\ t[i] \in AuditRow /\ Before(t, i) \in Hash
        /\ t[i].previous_hash = Before(t, i)
        /\ t[i].event_hash = Append(Before(t, i), <<t[i].sequence, t[i].payload>>)
    BY <2>1, RowVerifies
  <2>3. /\ u[i] \in AuditRow /\ Before(u, i) \in Hash
        /\ u[i].previous_hash = Before(u, i)
        /\ u[i].event_hash = Append(Before(u, i), <<u[i].sequence, u[i].payload>>)
    BY <2>1, RowVerifies
  <2> DEFINE p == <<t[i].sequence, t[i].payload>>
             q == <<u[i].sequence, u[i].payload>>
  <2>4. p \in Nat \X Writer /\ q \in Nat \X Writer
    BY <2>2, <2>3 DEF AuditRow
  <2>5. Append(Before(t, i), p) = Append(Before(u, i), q)
    BY <1>2, <2>2, <2>3
  <2> HIDE DEF p, q
  <2>6. Before(t, i) = Before(u, i) /\ p = q
    <3> DEFINE a == Before(t, i)
               b == Before(u, i)
    <3>1. a \in Hash /\ b \in Hash /\ Append(a, p) = Append(b, q)
      BY <2>2, <2>3, <2>5
    <3> HIDE DEF a, b
    <3>2. a = b /\ p = q
      BY <2>4, <3>1, HashInjective
    <3> QED
      BY <3>2 DEF a, b
  <2>7. t[i].sequence = u[i].sequence /\ t[i].payload = u[i].payload
    BY <2>6 DEF p, q
  <2>8. t[i].previous_hash = u[i].previous_hash /\ t[i].event_hash = u[i].event_hash
    BY <1>2, <2>2, <2>3, <2>6
  <2>9. t[i] = u[i]
    BY <2>2, <2>3, <2>7, <2>8, SameFields
  <2> QED
    BY <2>6, <2>9
<1> DEFINE T == {k \in 0 .. (n - 1) : ~Same(n - k)}
<1>3. T = {}
  <2> SUFFICES ASSUME T # {} PROVE FALSE
    OBVIOUS
  <2>1. T \subseteq Nat
    BY <1>1
  <2>2. PICK k \in T : \A y \in T : k <= y
    BY <2>1, Smallest
  <2>3. k \in 0 .. (n - 1) /\ ~Same(n - k)
    BY <2>2
  <2>4. k # 0
    BY <1>1, <2>3
  <2>5. k - 1 \in 0 .. (n - 1) /\ k - 1 \notin T
    <3>1. k \in Nat /\ k - 1 \in 0 .. (n - 1) /\ ~(k <= k - 1)
      BY <1>1, <2>3, <2>4
    <3> HIDE DEF T
    <3> QED
      BY <2>2, <3>1
  <2>6. Same(n - (k - 1))
    BY <2>5
  <2>7. n - (k - 1) \in 1 .. n /\ n - (k - 1) # 1 /\ (n - (k - 1)) - 1 = n - k
    BY <1>1, <2>3, <2>4
  <2>8. Before(t, n - (k - 1)) = Before(u, n - (k - 1))
    BY <1>2, <2>6, <2>7
  <2>9. Same(n - k)
    BY <2>7, <2>8 DEF Before
  <2> QED
    BY <2>3, <2>9
<1>4. ASSUME NEW i \in 1 .. n PROVE Same(i)
  <2>1. n - i \in 0 .. (n - 1) /\ n - (n - i) = i
    BY <1>1
  <2>2. n - i \notin T
    BY <1>3
  <2> QED
    BY <2>1, <2>2
<1> QED
  BY <1>1, <1>2, <1>4

\* There is no other table that verifies and ends like the one that is there.
LastHash(t) == t[Len(t)].event_hash
OnlyHistory ==
  \A table \in Seq(AuditRow) :
    /\ rows # <<>> /\ table # <<>>
    /\ LastHash(table) = LastHash(rows)
    /\ verify_audit_chain(table)
    => table = rows

\* The chain check finds every change of a row, and every row that is missing
\* or added, before the last one (test_audit_chain.py
\* test_keyed_chain_detects_payload_forgery).
THEOREM ChangesAreFound == Spec => []OnlyHistory
<1>1. ChainInv => OnlyHistory
  <2> SUFFICES ASSUME ChainInv, NEW table \in Seq(AuditRow), rows # <<>>, table # <<>>,
                      LastHash(table) = LastHash(rows), verify_audit_chain(table)
               PROVE  table = rows
    BY DEF OnlyHistory
  <2>1. rows \in Seq(AuditRow) /\ verify_audit_chain(rows)
    BY DEF ChainInv, TypeOK, ChainOK
  <2>2. Len(rows) \in 1 .. Len(rows) /\ Len(table) \in 1 .. Len(table)
    BY <2>1, LastElement
  <2>3. Len(table) = Len(rows) /\ \A i \in 1 .. Len(table) : table[i] = rows[i]
    BY <2>1, <2>2, HashCommits DEF LastHash
  <2> QED
    BY <2>1, <2>3
<1> QED
  BY ChainInvariance, <1>1, PTL

=============================================================================
