-------------------------- MODULE CaseReviewProofs --------------------------
(* The safety properties of CaseReview, proved for every number of servers, *)
(* cases, submissions and faults.                                          *)
EXTENDS CaseReview, FiniteSetTheorems, TLAPS

\* The servers that have still to seed the database may each take one stamp more.
BootCount == Cardinality({p \in Servers : srv[p].at \in BootSteps})
ClockBound == clock + BootCount <= MaxActions + Cardinality(Servers) + faults

Acting(p) == srv[p].at \in ActSteps \/ (srv[p].at = "commit" /\ srv[p].op # None)
Seeding(p) == srv[p].at = "sample" \/ (srv[p].at = "commit" /\ srv[p].op = None)

\* At most one transaction is open, and the server's step says whether it is.
OneWriter ==
    /\ \A p \in Servers : draft[p] # None <=> srv[p].at \in {"record", "audit", "sample", "commit"}
    /\ \A p, q \in Servers : draft[p] # None /\ draft[q] # None => p = q

\* What the transaction of a decision has changed so far.
Decides(p) ==
    LET op == srv[p].op IN
    /\ draft[p].cases = [tables.cases EXCEPT ![op.case] = RowAfter(op.action)]
    /\ draft[p].actions = IF srv[p].at = "record" THEN tables.actions
                          ELSE tables.actions \cup {op}
    /\ draft[p].audit = IF srv[p].at = "commit" THEN tables.audit \cup {AuditEntry(op)}
                        ELSE tables.audit

Sample(c, stamp) == [case |-> c, action |-> "ESCALATE", stamp |-> stamp]
SampleEntry(c, stamp) == [case |-> c, action |-> "ESCALATE", stamp |-> stamp,
                          previous |-> None, new |-> None]

\* What the transaction of a seeding has.
Seeds(p) ==
    /\ \E batch \in Batches : draft[p].cases = Seeded(tables.cases, batch)
    /\ IF srv[p].at = "sample"
       THEN draft[p].actions = tables.actions /\ draft[p].audit = tables.audit
       ELSE \E c \in Cases, stamp \in Stamps :
              /\ draft[p].actions = tables.actions \cup {Sample(c, stamp)}
              /\ draft[p].audit = tables.audit \cup {SampleEntry(c, stamp)}

\* A transaction holds what is committed and its own writes: nothing was committed
\* since it was opened.
DraftsFollow ==
    \A p \in Servers : draft[p] # None =>
        IF srv[p].op # None THEN Decides(p) ELSE Seeds(p)

\* The stamp of a decision in progress is nobody else's.
StampsDiffer ==
    /\ \A e \in tables.audit : e.stamp <= clock
    /\ \A p \in Servers : draft[p] # None => \A e \in draft[p].audit : e.stamp <= clock
    /\ \A p \in Servers : Acting(p) =>
         /\ srv[p].op.stamp <= clock
         /\ \A e \in tables.audit : e.stamp # srv[p].op.stamp
         /\ \A q \in Servers \ {p} :
              /\ Acting(q) => srv[q].op.stamp # srv[p].op.stamp
              /\ draft[q] # None => \A e \in draft[q].audit : e.stamp # srv[p].op.stamp

\* The row of case c is what it was seeded with, or the outcome of an action on it.
Explains(row, c, actions) ==
    row = SeedRow(c) \/ \E a \in actions : a.case = c /\ RowAfter(a.action) = row

RowsAreExplained ==
    /\ \A c \in Present(tables) : Explains(tables.cases[c], c, tables.actions)
    /\ \A p \in Servers : srv[p].at = "history" =>
         Explains(srv[p].seen, srv[p].op, tables.actions)

IInv ==
    /\ TypeOK /\ ClockBound
    /\ OneWriter /\ DraftsFollow /\ StampsDiffer
    /\ AcknowledgedIsDurable /\ HistoriesAgree
    /\ RowsAreExplained /\ DetailExplainsStatus
------------------------------------------------------------------------------
(* Typing.                                                                 *)

\* Every verdict and every decision gives a row.
LEMMA RowsTyped ==
    /\ \A c \in Cases : SeedRow(c) \in Rows /\ SeedRow(c) # None
    /\ \A choice \in Choices : RowAfter(choice) \in Rows /\ RowAfter(choice) # None
<1>1. ASSUME NEW c \in Cases PROVE SeedRow(c) \in Rows
  <2>1. Decided[c] \in Verdicts
    BY CaseAssumption
  <2> QED
    BY <2>1 DEF SeedRow, SeedStatus, Rows, Verdicts, Statuses
<1>2. ASSUME NEW choice \in Choices PROVE RowAfter(choice) \in Rows
  BY DEF RowAfter, NewStatus, NewAction, Rows, Verdicts, Statuses, Choices
<1> QED
  BY <1>1, <1>2, NoneAssumption

\* A seeding inserts rows and leaves the existing ones alone.
LEMMA SeededTyped ==
    ASSUME NEW cases \in [Cases -> Rows \cup {None}], NEW batch
    PROVE  Seeded(cases, batch) \in [Cases -> Rows \cup {None}]
<1> QED
  BY RowsTyped DEF Seeded

\* The present cases, and those in a status, are cases: finitely many.
LEMMA QueueTyped ==
    ASSUME TypeOK, NEW s
    PROVE  WithStatus(s) \subseteq Cases /\ Cardinality(WithStatus(s)) \in 0..Cardinality(Cases)
<1>1. WithStatus(s) \subseteq Cases
  BY DEF WithStatus, Present
<1> QED
  BY <1>1, CaseAssumption, FS_Subset, FS_CardinalityType

\* A step of one server leaves the others where they are.
LEMMA GoMoves ==
    ASSUME TypeOK, NEW p \in Servers, NEW s, IsSrvState(s), Go(p, s)
    PROVE  /\ DOMAIN srv' = Servers /\ \A q \in Servers : IsSrvState(srv'[q])
           /\ srv'[p] = s
           /\ \A q \in Servers \ {p} : srv'[q] = srv[q]
<1>1. /\ DOMAIN srv' = Servers
      /\ srv'[p] = s
      /\ \A q \in Servers \ {p} : srv'[q] = srv[q]
  BY DEF TypeOK, Go
<1>2. ASSUME NEW q \in Servers PROVE IsSrvState(srv'[q])
  <2>1. CASE q = p
    BY <2>1, <1>1
  <2>2. CASE q # p
    BY <2>2, <1>1 DEF TypeOK
  <2> QED
    BY <2>1, <2>2
<1> QED
  BY <1>1, <1>2

\* A step of one server changes the number of servers that have still to seed by
\* at most one.
LEMMA CountMoves ==
    ASSUME NEW p \in Servers,
           \A q \in Servers \ {p} : srv'[q] = srv[q]
    PROVE  /\ BootCount \in Nat /\ BootCount' \in Nat
           /\ BootCount <= Cardinality(Servers)
           /\ (srv[p].at \in BootSteps /\ srv'[p].at \notin BootSteps) => BootCount' = BootCount - 1
           /\ (srv[p].at \notin BootSteps /\ srv'[p].at \in BootSteps) => BootCount' = BootCount + 1
           /\ (srv[p].at \in BootSteps <=> srv'[p].at \in BootSteps) => BootCount' = BootCount
<1> DEFINE B == {q \in Servers : srv[q].at \in BootSteps}
           C == {q \in Servers : srv'[q].at \in BootSteps}
<1>1. BootCount = Cardinality(B) /\ BootCount' = Cardinality(C)
  BY DEF BootCount
<1>2. IsFiniteSet(B) /\ IsFiniteSet(C) /\ Cardinality(B) <= Cardinality(Servers)
  BY CaseAssumption, FS_Subset
<1>3. Cardinality(B) \in Nat /\ Cardinality(C) \in Nat
  BY <1>2, FS_CardinalityType
<1>4. CASE srv[p].at \in BootSteps /\ srv'[p].at \notin BootSteps
  <2>1. C = B \ {p} /\ p \in B
    BY <1>4
  <2>2. Cardinality(C) = Cardinality(B) - 1
    BY <2>1, <1>2, FS_RemoveElement
  <2> QED
    BY <2>2, <1>1, <1>2, <1>3, <1>4
<1>5. CASE srv[p].at \notin BootSteps /\ srv'[p].at \in BootSteps
  <2>1. C = B \cup {p} /\ p \notin B
    BY <1>5
  <2>2. Cardinality(C) = Cardinality(B) + 1
    BY <2>1, <1>2, FS_AddElement
  <2> QED
    BY <2>2, <1>1, <1>2, <1>3, <1>5
<1>6. CASE srv[p].at \in BootSteps <=> srv'[p].at \in BootSteps
  <2>1. C = B
    BY <1>6
  <2> QED
    BY <2>1, <1>1, <1>2, <1>3, <1>6
<1> QED
  BY <1>4, <1>5, <1>6

\* The clock stays in its range while the bound holds.
LEMMA ClockTyped ==
    ASSUME clock \in Nat, faults \in 0..MaxFaults, BootCount \in Nat, ClockBound
    PROVE  clock \in Stamps \cup {0}
<1>1. Cardinality(Servers) \in Nat /\ MaxActions \in Nat /\ MaxFaults \in Nat
  BY CaseAssumption, FS_CardinalityType
<1> QED
  BY <1>1 DEF ClockBound, Stamps

\* The ways in which a step of server p keeps the clock in its bound: it takes no
\* stamp, it takes the one its seeding may take, it submits below MaxActions, or it
\* uses up a fault, after which a server may seed once more.
Pays(p) ==
    \/ clock' = clock /\ faults' = faults /\ (srv'[p].at \in BootSteps => srv[p].at \in BootSteps)
    \/ clock' = clock + 1 /\ faults' = faults /\ srv[p].at \in BootSteps /\ srv'[p].at \notin BootSteps
    \/ /\ clock < MaxActions /\ clock' = clock + 1 /\ faults' = faults
       /\ srv'[p].at \in BootSteps => srv[p].at \in BootSteps
    \/ clock' = clock /\ faults' = faults + 1

\* A step that pays for its stamp keeps the clock in its bound and its range.
LEMMA ClockStep ==
    ASSUME TypeOK, ClockBound, NEW p \in Servers,
           \A q \in Servers \ {p} : srv'[q] = srv[q],
           Pays(p), faults' \in 0..MaxFaults
    PROVE  ClockBound' /\ clock' \in Stamps \cup {0}
<1>1. /\ Cardinality(Servers) \in Nat /\ MaxActions \in Nat /\ MaxFaults \in Nat
      /\ clock \in Nat /\ faults \in Nat
  BY CaseAssumption, FS_CardinalityType DEF TypeOK, Stamps
<1>2. /\ BootCount \in Nat /\ BootCount' \in Nat
      /\ BootCount <= Cardinality(Servers)
      /\ (srv[p].at \in BootSteps /\ srv'[p].at \notin BootSteps) => BootCount' = BootCount - 1
      /\ (srv[p].at \notin BootSteps /\ srv'[p].at \in BootSteps) => BootCount' = BootCount + 1
      /\ (srv[p].at \in BootSteps <=> srv'[p].at \in BootSteps) => BootCount' = BootCount
  BY CountMoves
<1>3. clock' + BootCount' <= MaxActions + Cardinality(Servers) + faults'
  <2>1. CASE clock' = clock /\ faults' = faults /\ (srv'[p].at \in BootSteps => srv[p].at \in BootSteps)
    BY <2>1, <1>1, <1>2 DEF ClockBound
  <2>2. CASE clock' = clock + 1 /\ faults' = faults /\ srv[p].at \in BootSteps /\ srv'[p].at \notin BootSteps
    BY <2>2, <1>1, <1>2 DEF ClockBound
  <2>3. CASE /\ clock < MaxActions /\ clock' = clock + 1 /\ faults' = faults
             /\ srv'[p].at \in BootSteps => srv[p].at \in BootSteps
    BY <2>3, <1>1, <1>2
  <2>4. CASE clock' = clock /\ faults' = faults + 1
    BY <2>4, <1>1, <1>2 DEF ClockBound
  <2> QED
    BY <2>1, <2>2, <2>3, <2>4 DEF Pays
<1>4. ClockBound'
  BY <1>3 DEF ClockBound
<1>5. clock' \in Nat
  BY <1>1 DEF Pays
<1>6. clock' \in Stamps \cup {0}
  BY <1>1, <1>2, <1>3, <1>5 DEF Stamps
<1> QED
  BY <1>4, <1>6

\* A step of server p to state s that keeps every table typed keeps the typing.
LEMMA TypedStep ==
    ASSUME TypeOK, ClockBound, NEW p \in Servers, NEW s, IsSrvState(s), Go(p, s),
           Pays(p), faults' \in 0..MaxFaults, acked' \subseteq Stamps, tables' \in Tables,
           NEW d \in Tables \cup {None}, draft' \in {draft, [draft EXCEPT ![p] = d]}
    PROVE  TypeOK' /\ ClockBound'
<1>1. /\ DOMAIN srv' = Servers /\ \A q \in Servers : IsSrvState(srv'[q])
      /\ \A q \in Servers \ {p} : srv'[q] = srv[q]
  BY GoMoves
<1>2. ClockBound' /\ clock' \in Stamps \cup {0}
  BY <1>1, ClockStep
<1>3. draft' \in [Servers -> Tables \cup {None}]
  BY DEF TypeOK
<1> QED
  BY <1>1, <1>2, <1>3 DEF TypeOK

\* A writing server has an open transaction, of the right type.
LEMMA DraftTyped ==
    ASSUME TypeOK, OneWriter, NEW p \in Servers,
           srv[p].at \in {"record", "audit", "sample", "commit"}
    PROVE  draft[p] \in Tables
BY DEF TypeOK, OneWriter

\* Changing a column keeps the tables typed.
LEMMA TablesTyped ==
    ASSUME NEW t \in Tables
    PROVE  /\ t.cases \in [Cases -> Rows \cup {None}]
           /\ [t EXCEPT !.policies = 1] \in Tables
           /\ \A cases \in [Cases -> Rows \cup {None}] : [t EXCEPT !.cases = cases] \in Tables
           /\ \A a \in Actions : [t EXCEPT !.actions = @ \cup {a}] \in Tables
           /\ \A e \in Audits : [t EXCEPT !.audit = @ \cup {e}] \in Tables
BY DEF Tables

\* A seeding logs its sample in both histories.
Logged(t, a, e) == [t EXCEPT !.actions = @ \cup {a}, !.audit = @ \cup {e}]

\* Logging adds one row to each history and leaves the cases alone.
LEMMA LoggedTyped ==
    ASSUME NEW t \in Tables, NEW a \in Actions, NEW e \in Audits
    PROVE  /\ Logged(t, a, e) \in Tables
           /\ Logged(t, a, e).cases = t.cases
           /\ Logged(t, a, e).actions = t.actions \cup {a}
           /\ Logged(t, a, e).audit = t.audit \cup {e}
<1> DEFINE u == [t EXCEPT !.actions = @ \cup {a}]
           v == [u EXCEPT !.audit = @ \cup {e}]
<1>1. u \in Tables /\ u.cases = t.cases /\ u.actions = t.actions \cup {a} /\ u.audit = t.audit
  BY DEF Tables
<1>2. v = Logged(t, a, e)
  BY Zenon DEF Logged
<1>3. v \in Tables /\ v.cases = u.cases /\ v.actions = u.actions /\ v.audit = u.audit \cup {e}
  <2> HIDE DEF u
  <2> QED
    BY <1>1 DEF Tables
<1> HIDE DEF u, v
<1> QED
  BY <1>1, <1>2, <1>3

\* Every step of a server that starts keeps the typing and the clock.
LEMMA BootTyped ==
    ASSUME TypeOK, ClockBound, OneWriter, NEW p \in Servers, Booting(p)
    PROVE  TypeOK' /\ ClockBound'
<1> USE DEF IsSrvState, At, Being, BootSteps
<1>0. /\ tables \in Tables /\ acked \subseteq Stamps /\ faults \in 0..MaxFaults
      /\ draft \in [Servers -> Tables \cup {None}]
      /\ IsSrvState(srv[p])
  BY DEF TypeOK
<1>1. CASE Start(p)
  <2>1. Pays(p)
    BY <1>1, <1>0, GoMoves DEF Start, Pays
  <2> QED
    BY <1>1, <1>0, <2>1, TypedStep DEF Start
<1>2. CASE CountPolicies(p)
  <2> DEFINE s == At(IF tables.policies > 0 THEN "cases" ELSE "insert")
  <2>1. Go(p, s) /\ IsSrvState(s) /\ s.at \in BootSteps
    BY <1>2 DEF CountPolicies
  <2>2. Pays(p)
    BY <1>2, <2>1, GoMoves DEF CountPolicies, Pays
  <2> QED
    BY <1>2, <1>0, <2>1, <2>2, TypedStep DEF CountPolicies
<1>3. CASE InsertPolicy(p)
  <2>1. PICK s : Go(p, s) /\ s \in {At("cases"), At("failed")} /\ tables' \in {tables, [tables EXCEPT !.policies = 1]}
    BY <1>3 DEF InsertPolicy
  <2>2. IsSrvState(s) /\ s.at \in BootSteps
    BY <2>1
  <2>3. Pays(p)
    BY <1>3, <2>1, <2>2, GoMoves DEF InsertPolicy, Pays
  <2>4. tables' \in Tables
    BY <2>1, <1>0, TablesTyped
  <2> QED
    BY <1>3, <1>0, <2>1, <2>2, <2>3, <2>4, TypedStep DEF InsertPolicy
<1>4. CASE CountCases(p)
  <2> DEFINE s == At(IF Present(tables) # {} THEN "ready" ELSE "seed")
  <2>1. Go(p, s) /\ IsSrvState(s) /\ srv[p].at \in BootSteps
    BY <1>4 DEF CountCases
  <2>2. Pays(p)
    BY <1>4, <2>1 DEF CountCases, Pays
  <2> QED
    BY <1>4, <1>0, <2>1, <2>2, TypedStep DEF CountCases
<1>5. CASE InsertCases(p)
  <2>1. Pays(p)
    BY <1>5 DEF InsertCases, Pays
  <2>2. PICK batch \in Batches :
          draft' = [draft EXCEPT ![p] = [tables EXCEPT !.cases = Seeded(@, batch)]]
    BY <1>5 DEF InsertCases
  <2>3. [tables EXCEPT !.cases = Seeded(@, batch)] \in Tables
    BY <1>0, TablesTyped, SeededTyped
  <2> QED
    BY <1>5, <1>0, <2>1, <2>2, <2>3, TypedStep DEF InsertCases
<1>6. CASE InsertSample(p)
  <2>1. Go(p, At("commit")) /\ IsSrvState(At("commit")) /\ srv'[p] = At("commit")
    BY <1>6, GoMoves DEF InsertSample
  <2>2. Pays(p)
    BY <1>6, <2>1 DEF InsertSample, Pays
  <2>3. clock' \in Stamps \cup {0}
    BY <1>6, <1>0, <2>1, <2>2, GoMoves, ClockStep DEF InsertSample
  <2>4. clock' \in Stamps
    BY <1>6, <2>3 DEF InsertSample, TypeOK, Stamps
  <2>5. PICK c \in Cases :
          draft' = [draft EXCEPT ![p].actions = @ \cup {Sample(c, clock')},
                                 ![p].audit = @ \cup {SampleEntry(c, clock')}]
    BY <1>6 DEF InsertSample, Present, Sample, SampleEntry
  <2> DEFINE d == Logged(draft[p], Sample(c, clock'), SampleEntry(c, clock'))
  <2>6. Sample(c, clock') \in Actions /\ SampleEntry(c, clock') \in Audits
    BY <2>4 DEF Sample, SampleEntry, Actions, Audits, Choices
  <2>7. d \in Tables
    BY <1>6, <2>6, DraftTyped, LoggedTyped DEF InsertSample
  <2>8. draft' = [draft EXCEPT ![p] = d]
    BY <2>5, <1>0 DEF Logged
  <2> QED
    BY <1>6, <1>0, <2>1, <2>2, <2>7, <2>8, TypedStep DEF InsertSample
<1> QED
  BY <1>1, <1>2, <1>3, <1>4, <1>5, <1>6 DEF Booting

\* A server that acts has a recorded action in hand.
LEMMA OpTyped ==
    ASSUME TypeOK, NEW p \in Servers, Acting(p)
    PROVE  /\ srv[p].op \in Actions /\ srv[p].op # None
           /\ srv[p].op.case \in Cases /\ srv[p].op.action \in Choices /\ srv[p].op.stamp \in Stamps
           /\ AuditEntry(srv[p].op) \in Audits
           /\ srv[p] = Being(srv[p].at, srv[p].op, None)
<1>1. srv[p].op \in Actions /\ srv[p] = Being(srv[p].at, srv[p].op, None)
  BY DEF TypeOK, IsSrvState, Acting, ActSteps, BootSteps, At, Being
<1>2. AuditEntry(srv[p].op) \in Audits
  BY <1>1 DEF AuditEntry, Actions, Audits, NewStatus, Choices, Statuses
<1> QED
  BY <1>1, <1>2, NoneAssumption DEF Actions

\* Every step of a server that handles a request keeps the typing and the clock.
LEMMA HandlingTyped ==
    ASSUME TypeOK, ClockBound, OneWriter, NEW p \in Servers, Handling(p)
    PROVE  TypeOK' /\ ClockBound'
<1> USE DEF IsSrvState, At, Being, BootSteps, ActSteps
<1>0. /\ tables \in Tables /\ acked \subseteq Stamps /\ faults \in 0..MaxFaults
      /\ draft \in [Servers -> Tables \cup {None}]
      /\ IsSrvState(srv[p])
  BY DEF TypeOK
<1> DEFINE op == srv[p].op
<1>1. CASE Update(p)
  <2>1. op \in Actions /\ op.case \in Cases /\ op.action \in Choices
    BY <1>1, OpTyped DEF Update, Acting
  <2> DEFINE s == Being("record", op, None)
             cases == [tables.cases EXCEPT ![op.case] = RowAfter(op.action)]
             d == [tables EXCEPT !.cases = cases]
  <2>2. Go(p, s) /\ IsSrvState(s) /\ s.at = "record"
    BY <1>1, <2>1 DEF Update
  <2>3. Pays(p)
    BY <1>1, <2>2, GoMoves DEF Update, Pays
  <2>4. cases \in [Cases -> Rows \cup {None}]
    BY <1>0, <2>1, TablesTyped, RowsTyped
  <2>5. d \in Tables
    <3> HIDE DEF cases
    <3> QED
      BY <1>0, <2>4, TablesTyped
  <2>6. draft' = [draft EXCEPT ![p] = d]
    BY <1>1 DEF Update
  <2> HIDE DEF s, d
  <2> QED
    BY <1>1, <1>0, <2>2, <2>3, <2>5, <2>6, TypedStep DEF Update
<1>2. CASE RecordAction(p)
  <2>1. op \in Actions /\ draft[p] \in Tables
    BY <1>2, OpTyped, DraftTyped DEF RecordAction, Acting
  <2> DEFINE s == Being("audit", op, None)
             d == [draft[p] EXCEPT !.actions = @ \cup {op}]
  <2>2. Go(p, s) /\ IsSrvState(s) /\ s.at = "audit"
    BY <1>2, <2>1 DEF RecordAction
  <2>3. Pays(p)
    BY <1>2, <2>2, GoMoves DEF RecordAction, Pays
  <2>4. d \in Tables
    BY <2>1, TablesTyped
  <2>5. draft' = [draft EXCEPT ![p] = d]
    BY <1>2 DEF RecordAction
  <2> HIDE DEF s, d
  <2> QED
    BY <1>2, <1>0, <2>2, <2>3, <2>4, <2>5, TypedStep DEF RecordAction
<1>3. CASE AppendAudit(p)
  <2>1. op \in Actions /\ draft[p] \in Tables /\ AuditEntry(op) \in Audits
    BY <1>3, OpTyped, DraftTyped DEF AppendAudit, Acting
  <2> DEFINE s == Being("commit", op, None)
             d == [draft[p] EXCEPT !.audit = @ \cup {AuditEntry(op)}]
  <2>2. Go(p, s) /\ IsSrvState(s) /\ s.at = "commit"
    BY <1>3, <2>1 DEF AppendAudit
  <2>3. Pays(p)
    BY <1>3, <2>2, GoMoves DEF AppendAudit, Pays
  <2>4. d \in Tables
    BY <2>1, TablesTyped
  <2>5. draft' = [draft EXCEPT ![p] = d]
    BY <1>3 DEF AppendAudit
  <2> HIDE DEF s, d
  <2> QED
    BY <1>3, <1>0, <2>2, <2>3, <2>4, <2>5, TypedStep DEF AppendAudit
<1>4. CASE Commit(p)
  <2>1. draft[p] \in Tables
    BY <1>4, DraftTyped DEF Commit
  <2>2. acked' \subseteq Stamps
    BY <1>4, <1>0, OpTyped DEF Commit, Acting
  <2>3. Go(p, At("ready")) /\ IsSrvState(At("ready"))
    BY <1>4 DEF Commit
  <2>4. Pays(p)
    BY <1>4, <2>3, GoMoves DEF Commit, Pays
  <2> QED
    BY <1>4, <1>0, <2>1, <2>2, <2>3, <2>4, TypedStep DEF Commit
<1>5. CASE ReadHistory(p)
  <2> DEFINE s == Being("detail", <<op, srv[p].seen>>, {a \in tables.actions : a.case = op})
  <2>1. op \in Cases /\ srv[p].seen \in Rows
    BY <1>5, <1>0 DEF ReadHistory
  <2>2. {a \in tables.actions : a.case = op} \subseteq Actions
    BY <1>0 DEF Tables
  <2>3. Go(p, s) /\ IsSrvState(s) /\ s.at = "detail"
    BY <1>5, <2>1, <2>2 DEF ReadHistory
  <2>4. Pays(p)
    BY <1>5, <2>3, GoMoves DEF ReadHistory, Pays
  <2> HIDE DEF s
  <2> QED
    BY <1>5, <1>0, <2>3, <2>4, TypedStep DEF ReadHistory
<1>6. CASE FetchPage(p)
  <2> DEFINE s == Being("listed", srv[p].seen, WithStatus(op))
  <2>1. srv[p].seen \in 0..Cardinality(Cases)
    BY <1>6, <1>0 DEF FetchPage
  <2>2. Go(p, s) /\ IsSrvState(s) /\ s.at = "listed"
    BY <1>6, <2>1, QueueTyped DEF FetchPage
  <2>3. Pays(p)
    BY <1>6, <2>2, GoMoves DEF FetchPage, Pays
  <2> HIDE DEF s
  <2> QED
    BY <1>6, <1>0, <2>2, <2>3, TypedStep DEF FetchPage
<1>7. CASE Respond(p)
  <2>1. Pays(p)
    BY <1>7, <1>0, GoMoves DEF Respond, Pays
  <2> QED
    BY <1>7, <1>0, <2>1, TypedStep DEF Respond
<1> QED
  BY <1>1, <1>2, <1>3, <1>4, <1>5, <1>6, <1>7 DEF Handling

\* A failure or a crash uses up a fault, so the server may seed once more.
LEMMA FaultTyped ==
    ASSUME TypeOK, ClockBound, NEW p \in Servers, Fail(p) \/ Crash(p)
    PROVE  TypeOK' /\ ClockBound'
<1>1. PICK s \in {At("failed"), At("ready"), At("down")} : Go(p, s)
  BY DEF Fail, Crash
<1>2. IsSrvState(s)
  BY DEF IsSrvState, At, Being, BootSteps
<1>3. /\ faults < MaxFaults /\ faults' = faults + 1
      /\ draft' = [draft EXCEPT ![p] = None]
      /\ UNCHANGED <<tables, clock, acked>>
  BY DEF Fail, Crash
<1>4. Pays(p)
  BY <1>3 DEF Pays
<1>5. faults' \in 0..MaxFaults /\ tables' \in Tables /\ acked' \subseteq Stamps
  BY <1>3, CaseAssumption DEF TypeOK
<1> QED
  BY <1>1, <1>2, <1>3, <1>4, <1>5, TypedStep

\* A request that arrives keeps the typing and the clock.
LEMMA RequestTyped ==
    ASSUME TypeOK, ClockBound, NEW p \in Servers
    PROVE  /\ \A c \in Cases : ReadCase(p, c) => TypeOK' /\ ClockBound'
           /\ \A c \in Cases, choice \in Choices : Submit(p, c, choice) => TypeOK' /\ ClockBound'
           /\ \A s \in Statuses : CountQueue(p, s) => TypeOK' /\ ClockBound'
<1> USE DEF IsSrvState, At, Being, BootSteps, ActSteps
<1>0. /\ tables \in Tables /\ acked \subseteq Stamps /\ faults \in 0..MaxFaults
      /\ draft \in [Servers -> Tables \cup {None}]
      /\ IsSrvState(srv[p])
  BY DEF TypeOK
<1>1. ASSUME NEW c \in Cases, ReadCase(p, c) PROVE TypeOK' /\ ClockBound'
  <2> DEFINE s == Being("history", c, tables.cases[c])
  <2>1. tables.cases[c] \in Rows
    BY <1>1, <1>0 DEF ReadCase, Tables
  <2>2. Go(p, s) /\ IsSrvState(s) /\ s.at = "history"
    BY <1>1, <2>1 DEF ReadCase
  <2>3. Pays(p)
    BY <1>1, <2>2, GoMoves DEF ReadCase, Pays
  <2> HIDE DEF s
  <2> QED
    BY <1>1, <1>0, <2>2, <2>3, TypedStep DEF ReadCase
<1>2. ASSUME NEW c \in Cases, NEW choice \in Choices, Submit(p, c, choice)
      PROVE  TypeOK' /\ ClockBound'
  <2> DEFINE op == [case |-> c, action |-> choice, stamp |-> clock']
             s == Being("update", op, None)
  <2>1. clock' \in Stamps
    BY <1>2, CaseAssumption, FS_CardinalityType DEF Submit, TypeOK, Stamps
  <2>2. op \in Actions
    BY <2>1 DEF Actions
  <2>3. Go(p, s) /\ IsSrvState(s) /\ s.at = "update"
    BY <1>2, <2>2 DEF Submit
  <2>4. Pays(p)
    BY <1>2, <2>3, GoMoves DEF Submit, Pays
  <2> HIDE DEF s
  <2> QED
    BY <1>2, <1>0, <2>3, <2>4, TypedStep DEF Submit
<1>3. ASSUME NEW s \in Statuses, CountQueue(p, s) PROVE TypeOK' /\ ClockBound'
  <2> DEFINE v == Being("page", s, Cardinality(WithStatus(s)))
  <2>1. Go(p, v) /\ IsSrvState(v) /\ v.at = "page"
    BY <1>3, QueueTyped DEF CountQueue
  <2>2. Pays(p)
    BY <1>3, <2>1, GoMoves DEF CountQueue, Pays
  <2> HIDE DEF v
  <2> QED
    BY <1>3, <1>0, <2>1, <2>2, TypedStep DEF CountQueue
<1> QED
  BY <1>1, <1>2, <1>3

\* Every step keeps the typing and the clock.
LEMMA TypingStep ==
    ASSUME TypeOK, ClockBound, OneWriter, [Next]_vars
    PROVE  TypeOK' /\ ClockBound'
<1>1. CASE UNCHANGED vars
  BY <1>1 DEF vars, TypeOK, ClockBound, BootCount
<1>2. ASSUME NEW p \in Servers, NEW s \in Listed, CountQueue(p, s) PROVE TypeOK' /\ ClockBound'
  BY <1>2, RequestTyped, CaseAssumption
<1> QED
  BY <1>1, <1>2, BootTyped, HandlingTyped, FaultTyped, RequestTyped DEF Next

------------------------------------------------------------------------------
(* What a step does to the tables and to the open transaction.             *)

Writing == {"record", "audit", "sample", "commit"}
Others(p) == \A q \in Servers \ {p} : srv'[q] = srv[q] /\ draft'[q] = draft[q]
SameRows == /\ tables'.cases = tables.cases
            /\ tables'.actions = tables.actions
            /\ tables'.audit = tables.audit

\* Server p neither writes nor holds an action, before or after the step.
Quiet(p) ==
    /\ UNCHANGED <<draft, clock, acked>> /\ SameRows
    /\ srv[p].at \notin Writing \cup ActSteps
    /\ srv'[p].at \notin Writing \cup ActSteps

\* Server p loses its transaction.
Abandons(p) ==
    /\ UNCHANGED <<tables, clock, acked>>
    /\ draft'[p] = None
    /\ srv'[p].at \notin Writing \cup ActSteps

Submits(p) ==
    /\ UNCHANGED <<tables, draft, acked>>
    /\ clock' = clock + 1
    /\ srv[p].at = "ready"
    /\ srv'[p].at = "update" /\ srv'[p].op # None /\ srv'[p].op.stamp = clock'

\* Server p opens its transaction: to seed, or with the row of a decision.
Opens(p) ==
    /\ UNCHANGED <<tables, clock, acked>>
    /\ Free
    /\ draft'[p] \in Tables
    /\ draft'[p].actions = tables.actions /\ draft'[p].audit = tables.audit
    /\ \/ /\ srv[p].at = "seed" /\ srv'[p].at = "sample" /\ srv'[p].op = None
          /\ \E batch \in Batches : draft'[p].cases = Seeded(tables.cases, batch)
       \/ /\ srv[p].at = "update" /\ srv'[p].at = "record" /\ srv'[p].op = srv[p].op
          /\ draft'[p].cases = [tables.cases EXCEPT ![srv[p].op.case] = RowAfter(srv[p].op.action)]

\* Server p writes the sample, the action or its audit entry.
Extends(p) ==
    /\ UNCHANGED <<tables, acked>>
    /\ draft[p] \in Tables /\ draft'[p] \in Tables
    /\ draft'[p].cases = draft[p].cases
    /\ srv'[p].op = srv[p].op
    /\ \/ /\ srv[p].at = "sample" /\ srv'[p].at = "commit" /\ srv[p].op = None
          /\ clock' = clock + 1 /\ clock' \in Stamps
          /\ \E c \in Cases :
               /\ draft'[p].actions = draft[p].actions \cup {Sample(c, clock')}
               /\ draft'[p].audit = draft[p].audit \cup {SampleEntry(c, clock')}
       \/ /\ srv[p].at = "record" /\ srv'[p].at = "audit" /\ clock' = clock
          /\ draft'[p].actions = draft[p].actions \cup {srv[p].op}
          /\ draft'[p].audit = draft[p].audit
       \/ /\ srv[p].at = "audit" /\ srv'[p].at = "commit" /\ clock' = clock
          /\ draft'[p].actions = draft[p].actions
          /\ draft'[p].audit = draft[p].audit \cup {AuditEntry(srv[p].op)}

\* Server p commits.
Commits(p) ==
    /\ srv[p].at = "commit" /\ srv'[p].at = "ready"
    /\ draft[p] \in Tables /\ tables' = draft[p]
    /\ draft'[p] = None
    /\ acked' = IF srv[p].op = None THEN acked ELSE acked \cup {srv[p].op.stamp}
    /\ UNCHANGED clock

\* Where the step of a server leads.
LEMMA GoesTo ==
    ASSUME TypeOK, NEW p \in Servers, NEW s, Go(p, s)
    PROVE  srv'[p] = s /\ \A q \in Servers \ {p} : srv'[q] = srv[q]
BY DEF TypeOK, Go

\* The steps of a server that starts are of these kinds, ...
LEMMA BootKinds ==
    ASSUME TypeOK, ClockBound, OneWriter, NEW p \in Servers, Booting(p)
    PROVE  Others(p) /\ (Quiet(p) \/ Opens(p) \/ Extends(p))
<1> USE DEF At, Being, BootSteps, ActSteps, Writing
<1>0. /\ tables \in Tables /\ draft \in [Servers -> Tables \cup {None}]
      /\ IsSrvState(srv[p])
  BY DEF TypeOK
<1>1. CASE Start(p) \/ CountPolicies(p) \/ CountCases(p)
  <2>1. PICK s : Go(p, s) /\ s.at \in {"policies", "cases", "insert", "ready", "seed"}
    BY <1>1 DEF Start, CountPolicies, CountCases
  <2> QED
    BY <1>1, <2>1, GoesTo DEF Start, CountPolicies, CountCases, Quiet, Others, SameRows
<1>2. CASE InsertPolicy(p)
  <2>1. PICK s : Go(p, s) /\ s.at \in {"cases", "failed"}
    BY <1>2 DEF InsertPolicy
  <2>2. SameRows
    BY <1>2, <1>0 DEF InsertPolicy, SameRows, Tables
  <2> QED
    BY <1>2, <2>1, <2>2, GoesTo DEF InsertPolicy, Quiet, Others
<1>3. CASE InsertCases(p)
  <2>1. PICK batch \in Batches :
          draft' = [draft EXCEPT ![p] = [tables EXCEPT !.cases = Seeded(@, batch)]]
    BY <1>3 DEF InsertCases
  <2> DEFINE d == [tables EXCEPT !.cases = Seeded(@, batch)]
  <2>2. d \in Tables
    BY <1>0, TablesTyped, SeededTyped
  <2>3. /\ d.cases = Seeded(tables.cases, batch)
        /\ d.actions = tables.actions /\ d.audit = tables.audit
    BY <1>0 DEF Tables
  <2>4. draft'[p] = d /\ \A q \in Servers \ {p} : draft'[q] = draft[q]
    BY <1>0, <2>1
  <2>5. Go(p, At("sample")) /\ srv'[p].at = "sample" /\ srv'[p].op = None
    BY <1>3, GoesTo DEF InsertCases
  <2> HIDE DEF d
  <2> QED
    BY <1>3, <2>2, <2>3, <2>4, <2>5, GoesTo DEF InsertCases, Opens, Others
<1>4. CASE InsertSample(p)
  <2>1. PICK c \in Cases :
          draft' = [draft EXCEPT ![p].actions = @ \cup {Sample(c, clock')},
                                 ![p].audit = @ \cup {SampleEntry(c, clock')}]
    BY <1>4 DEF InsertSample, Present, Sample, SampleEntry
  <2> DEFINE d == Logged(draft[p], Sample(c, clock'), SampleEntry(c, clock'))
  <2>2. clock' \in Stamps
    BY <1>4, BootTyped DEF InsertSample, TypeOK, Stamps
  <2>3. Sample(c, clock') \in Actions /\ SampleEntry(c, clock') \in Audits
    BY <2>2 DEF Sample, SampleEntry, Actions, Audits, Choices
  <2>4. draft[p] \in Tables
    BY <1>4, DraftTyped DEF InsertSample
  <2>5. /\ d \in Tables /\ d.cases = draft[p].cases
        /\ d.actions = draft[p].actions \cup {Sample(c, clock')}
        /\ d.audit = draft[p].audit \cup {SampleEntry(c, clock')}
    BY <2>3, <2>4, LoggedTyped
  <2>6. draft'[p] = d /\ \A q \in Servers \ {p} : draft'[q] = draft[q]
    BY <1>0, <2>1 DEF Logged
  <2>7. Go(p, At("commit")) /\ srv'[p].at = "commit" /\ srv'[p].op = None
    BY <1>4, GoesTo DEF InsertSample
  <2>8. srv[p].at = "sample" /\ srv[p].op = None
    BY <1>4, <1>0 DEF InsertSample, IsSrvState
  <2> HIDE DEF d
  <2> QED
    BY <1>4, <2>2, <2>4, <2>5, <2>6, <2>7, <2>8, GoesTo DEF InsertSample, Extends, Others
<1> QED
  BY <1>1, <1>2, <1>3, <1>4 DEF Booting

\* ... so are those of a server that handles a request, ...
LEMMA HandlingKinds ==
    ASSUME TypeOK, OneWriter, NEW p \in Servers, Handling(p)
    PROVE  Others(p) /\ (Quiet(p) \/ Opens(p) \/ Extends(p) \/ Commits(p))
<1> USE DEF At, Being, BootSteps, ActSteps, Writing
<1>0. /\ tables \in Tables /\ draft \in [Servers -> Tables \cup {None}]
      /\ IsSrvState(srv[p])
  BY DEF TypeOK
<1> DEFINE op == srv[p].op
<1>1. CASE Update(p)
  <2>1. op.case \in Cases /\ op.action \in Choices
    BY <1>1, OpTyped DEF Update, Acting
  <2> DEFINE cases == [tables.cases EXCEPT ![op.case] = RowAfter(op.action)]
             d == [tables EXCEPT !.cases = cases]
  <2>2. cases \in [Cases -> Rows \cup {None}]
    BY <1>0, <2>1, TablesTyped, RowsTyped
  <2>3. d \in Tables /\ d.cases = cases /\ d.actions = tables.actions /\ d.audit = tables.audit
    <3> HIDE DEF cases
    <3> QED
      BY <1>0, <2>2, TablesTyped DEF Tables
  <2>4. draft' = [draft EXCEPT ![p] = d]
    BY <1>1 DEF Update
  <2> HIDE DEF d
  <2>5. draft'[p] = d /\ \A q \in Servers \ {p} : draft'[q] = draft[q]
    BY <1>0, <2>4
  <2> QED
    BY <1>1, <2>3, <2>5, GoesTo DEF Update, Opens, Others
<1>2. CASE RecordAction(p)
  <2>1. op \in Actions /\ draft[p] \in Tables
    BY <1>2, OpTyped, DraftTyped DEF RecordAction, Acting
  <2> DEFINE d == [draft[p] EXCEPT !.actions = @ \cup {op}]
  <2>2. /\ d \in Tables /\ d.cases = draft[p].cases
        /\ d.actions = draft[p].actions \cup {op} /\ d.audit = draft[p].audit
    BY <2>1, TablesTyped DEF Tables
  <2>3. draft' = [draft EXCEPT ![p] = d]
    BY <1>2 DEF RecordAction
  <2> HIDE DEF d
  <2>4. draft'[p] = d /\ \A q \in Servers \ {p} : draft'[q] = draft[q]
    BY <1>0, <2>3
  <2> QED
    BY <1>2, <2>1, <2>2, <2>4, GoesTo DEF RecordAction, Extends, Others
<1>3. CASE AppendAudit(p)
  <2>1. draft[p] \in Tables /\ AuditEntry(op) \in Audits
    BY <1>3, OpTyped, DraftTyped DEF AppendAudit, Acting
  <2> DEFINE d == [draft[p] EXCEPT !.audit = @ \cup {AuditEntry(op)}]
  <2>2. /\ d \in Tables /\ d.cases = draft[p].cases /\ d.actions = draft[p].actions
        /\ d.audit = draft[p].audit \cup {AuditEntry(op)}
    BY <2>1, TablesTyped DEF Tables
  <2>3. draft' = [draft EXCEPT ![p] = d]
    BY <1>3 DEF AppendAudit
  <2> HIDE DEF d
  <2>4. draft'[p] = d /\ \A q \in Servers \ {p} : draft'[q] = draft[q]
    BY <1>0, <2>3
  <2> QED
    BY <1>3, <2>1, <2>2, <2>4, GoesTo DEF AppendAudit, Extends, Others
<1>4. CASE Commit(p)
  <2>1. draft[p] \in Tables
    BY <1>4, DraftTyped DEF Commit
  <2> QED
    BY <1>4, <1>0, <2>1, GoesTo DEF Commit, Commits, Others
<1>5. CASE ReadHistory(p) \/ FetchPage(p) \/ Respond(p)
  <2>1. PICK s : Go(p, s) /\ s.at \in {"detail", "listed", "ready"}
    BY <1>5 DEF ReadHistory, FetchPage, Respond
  <2> QED
    BY <1>5, <2>1, GoesTo DEF ReadHistory, FetchPage, Respond, Quiet, Others, SameRows
<1> QED
  BY <1>1, <1>2, <1>3, <1>4, <1>5 DEF Handling

\* ... and with failures, crashes and new requests these are all.
LEMMA Kinds ==
    ASSUME TypeOK, ClockBound, OneWriter, Next
    PROVE  \E p \in Servers :
             /\ Others(p)
             /\ \/ Quiet(p) \/ Abandons(p) \/ Submits(p)
                \/ Opens(p) \/ Extends(p) \/ Commits(p)
<1> USE DEF At, Being, BootSteps, ActSteps, Writing
<1>1. ASSUME NEW p \in Servers, Fail(p) \/ Crash(p) PROVE Others(p) /\ Abandons(p)
  <2>1. PICK s \in {At("failed"), At("ready"), At("down")} : Go(p, s)
    BY <1>1 DEF Fail, Crash
  <2>2. draft' = [draft EXCEPT ![p] = None]
    BY <1>1 DEF Fail, Crash
  <2>3. draft'[p] = None /\ \A q \in Servers \ {p} : draft'[q] = draft[q]
    BY <2>2 DEF TypeOK
  <2> QED
    BY <1>1, <2>1, <2>3, GoesTo DEF Fail, Crash, Abandons, Others
<1>2. ASSUME NEW p \in Servers, NEW c \in Cases, ReadCase(p, c) PROVE Others(p) /\ Quiet(p)
  BY <1>2, GoesTo DEF ReadCase, Others, Quiet, SameRows
<1>3. ASSUME NEW p \in Servers, NEW c \in Cases, NEW choice \in Choices, Submit(p, c, choice)
      PROVE  Others(p) /\ Submits(p)
  <2> DEFINE op == [case |-> c, action |-> choice, stamp |-> clock']
  <2>1. srv'[p] = Being("update", op, None) /\ \A q \in Servers \ {p} : srv'[q] = srv[q]
    BY <1>3, GoesTo DEF Submit
  <2>2. clock' \in Stamps
    BY <1>3, CaseAssumption, FS_CardinalityType DEF Submit, TypeOK, Stamps
  <2>3. op # None
    BY <2>2, NoneAssumption DEF Actions
  <2> QED
    BY <1>3, <2>1, <2>3 DEF Submit, Submits, Others
<1>4. ASSUME NEW p \in Servers, NEW s \in Listed, CountQueue(p, s) PROVE Others(p) /\ Quiet(p)
  BY <1>4, GoesTo DEF CountQueue, Others, Quiet, SameRows
<1> QED
  BY <1>1, <1>2, <1>3, <1>4, BootKinds, HandlingKinds DEF Next

------------------------------------------------------------------------------
(* The invariant is inductive.                                             *)

Kind(p) == \/ Quiet(p) \/ Abandons(p) \/ Submits(p)
           \/ Opens(p) \/ Extends(p) \/ Commits(p)

\* SQLite's write lock: a server opens a transaction only when nobody has one.
LEMMA WriterStep ==
    ASSUME TypeOK, OneWriter, NEW p \in Servers, Others(p), Kind(p)
    PROVE  OneWriter'
<1>1. draft[p] # None <=> srv[p].at \in Writing
  BY DEF OneWriter, Writing
<1>2. draft'[p] # None <=> srv'[p].at \in Writing
  <2>1. CASE Quiet(p)
    BY <2>1, <1>1 DEF Quiet
  <2>2. CASE Abandons(p)
    BY <2>2 DEF Abandons
  <2>3. CASE Submits(p)
    BY <2>3, <1>1 DEF Submits, Writing
  <2>4. CASE Opens(p)
    BY <2>4, NoneAssumption DEF Opens, Writing
  <2>5. CASE Extends(p)
    BY <2>5, NoneAssumption DEF Extends, Writing
  <2>6. CASE Commits(p)
    BY <2>6 DEF Commits, Writing
  <2> QED
    BY <2>1, <2>2, <2>3, <2>4, <2>5, <2>6 DEF Kind
<1>3. draft'[p] # None => draft[p] # None \/ Free
  BY <1>1, NoneAssumption DEF Kind, Quiet, Abandons, Submits, Opens, Extends, Commits
<1>4. ASSUME NEW q \in Servers PROVE draft'[q] # None <=> srv'[q].at \in Writing
  BY <1>2, <1>4 DEF OneWriter, Others, Writing
<1>5. ASSUME NEW q \in Servers, NEW r \in Servers, draft'[q] # None, draft'[r] # None
      PROVE  q = r
  BY <1>3, <1>5 DEF OneWriter, Others, Free
<1> QED
  BY <1>4, <1>5 DEF OneWriter, Writing

\* A transaction follows the committed tables: while it is open nobody commits.
LEMMA FollowStep ==
    ASSUME TypeOK, OneWriter, DraftsFollow, NEW p \in Servers, Others(p), Kind(p)
    PROVE  DraftsFollow'
<1> SUFFICES ASSUME NEW q \in Servers, draft'[q] # None
             PROVE  IF srv'[q].op # None THEN Decides(q)' ELSE Seeds(q)'
  BY DEF DraftsFollow
<1>0. draft[p] # None <=> srv[p].at \in Writing
  BY DEF OneWriter, Writing
<1>1. CASE Quiet(p) \/ Submits(p)
  <2>1. draft'[p] = None /\ SameRows
    BY <1>1, <1>0 DEF Quiet, Submits, SameRows, Writing
  <2>2. q # p /\ draft'[q] = draft[q] /\ srv'[q] = srv[q]
    BY <2>1 DEF Others
  <2>3. IF srv[q].op # None THEN Decides(q) ELSE Seeds(q)
    BY <2>2 DEF DraftsFollow
  <2> QED
    BY <2>1, <2>2, <2>3 DEF Decides, Seeds, SameRows
<1>2. CASE Abandons(p)
  <2>1. q # p /\ draft'[q] = draft[q] /\ srv'[q] = srv[q] /\ tables' = tables
    BY <1>2 DEF Others, Abandons
  <2>2. IF srv[q].op # None THEN Decides(q) ELSE Seeds(q)
    BY <2>1 DEF DraftsFollow
  <2> QED
    BY <2>1, <2>2 DEF Decides, Seeds
<1>3. CASE Opens(p)
  <2>1. q = p
    BY <1>3 DEF Opens, Free, Others
  <2>2. CASE srv[p].at = "seed"
    BY <1>3, <2>1, <2>2 DEF Opens, Seeds
  <2>3. CASE srv[p].at = "update"
    <3>1. srv[p].op # None
      BY <2>3, OpTyped DEF Acting, ActSteps
    <3> QED
      BY <1>3, <2>1, <2>3, <3>1 DEF Opens, Decides
  <2> QED
    BY <1>3, <2>2, <2>3 DEF Opens
<1>4. CASE Extends(p)
  <2>1. q = p /\ tables' = tables /\ srv'[p].op = srv[p].op /\ draft'[p].cases = draft[p].cases
    BY <1>4, NoneAssumption DEF Extends, OneWriter, Others
  <2>2. IF srv[p].op # None THEN Decides(p) ELSE Seeds(p)
    BY <1>4, NoneAssumption DEF Extends, DraftsFollow
  <2>3. CASE srv[p].at = "sample"
    BY <1>4, <2>1, <2>2, <2>3 DEF Extends, Seeds
  <2>4. CASE srv[p].at = "record" \/ srv[p].at = "audit"
    <3>1. srv[p].op # None
      BY <2>4, OpTyped DEF Acting, ActSteps
    <3> QED
      BY <1>4, <2>1, <2>2, <2>4, <3>1 DEF Extends, Decides
  <2> QED
    BY <1>4, <2>3, <2>4 DEF Extends
<1>5. CASE Commits(p)
  <2>1. q # p /\ draft'[q] = draft[q] /\ draft[p] # None
    BY <1>5, <1>0 DEF Commits, Others, Writing
  <2> QED
    BY <2>1 DEF OneWriter
<1> QED
  BY <1>1, <1>2, <1>3, <1>4, <1>5 DEF Kind

\* A decision in progress keeps its stamp to itself: every new stamp is later than
\* all that were handed out.
LEMMA StampStep ==
    ASSUME TypeOK, TypeOK', OneWriter, StampsDiffer, NEW p \in Servers, Others(p), Kind(p)
    PROVE  StampsDiffer'
<1>0. /\ clock \in Nat
      /\ \A q \in Servers : Acting(q) => srv[q].op.stamp \in Nat /\ srv[q].op # None
      /\ \A e \in tables.audit : e.stamp \in Nat
      /\ \A q \in Servers : draft[q] # None => \A e \in draft[q].audit : e.stamp \in Nat
  BY OpTyped DEF TypeOK, Tables, Audits, Stamps
<1>1. CASE Quiet(p)
  BY <1>1 DEF Quiet, SameRows, StampsDiffer, Others, Acting, Writing
<1>2. CASE Abandons(p)
  BY <1>2 DEF Abandons, StampsDiffer, Others, Acting, Writing
<1>3. CASE Submits(p)
  BY <1>3, <1>0 DEF Submits, StampsDiffer, Others, Acting, ActSteps
<1>4. CASE Opens(p)
  <2>1. (srv'[p].op = srv[p].op /\ Acting(p) /\ Acting(p)') \/ ~Acting(p)'
    BY <1>4 DEF Opens, Acting, ActSteps
  <2> QED
    BY <1>4, <2>1 DEF Opens, StampsDiffer, Others, Acting
<1>5. CASE Extends(p)
  <2>1. CASE srv[p].at = "sample"
    <3>1. ~Acting(p)' /\ \A e \in draft'[p].audit : e \in draft[p].audit \/ e.stamp = clock + 1
      BY <1>5, <2>1 DEF Extends, Acting, ActSteps, SampleEntry
    <3> QED
      BY <1>5, <2>1, <3>1, <1>0, NoneAssumption DEF Extends, StampsDiffer, Others, Acting
  <2>2. CASE srv[p].at = "record" \/ srv[p].at = "audit"
    <3>1. srv'[p].op = srv[p].op /\ Acting(p) /\ Acting(p)' /\ UNCHANGED <<tables, clock>>
      BY <1>5, <2>2, <1>0 DEF Extends, Acting, ActSteps
    <3>2. \A e \in draft'[p].audit : e \in draft[p].audit \/ e.stamp = srv[p].op.stamp
      BY <1>5, <2>2 DEF Extends, AuditEntry
    <3> QED
      BY <1>5, <3>1, <3>2, <1>0, NoneAssumption DEF Extends, StampsDiffer, Others, Acting
  <2> QED
    BY <1>5, <2>1, <2>2 DEF Extends
<1>6. CASE Commits(p)
  <2>1. ~Acting(p)' /\ draft[p] # None
    BY <1>6, NoneAssumption DEF Commits, Acting, ActSteps
  <2> QED
    BY <1>6, <2>1 DEF Commits, StampsDiffer, Others, Acting
<1> QED
  BY <1>1, <1>2, <1>3, <1>4, <1>5, <1>6 DEF Kind

\* What a step may do to the rows of the database: nothing, seed it, or apply one
\* decision with its action and its audit entry.
SeedStep ==
    /\ acked' = acked
    /\ \E p \in Servers : Seeding(p)
    /\ \E batch \in Batches : tables'.cases = Seeded(tables.cases, batch)
    /\ \E c \in Cases, stamp \in Stamps :
         /\ tables'.actions = tables.actions \cup {Sample(c, stamp)}
         /\ tables'.audit = tables.audit \cup {SampleEntry(c, stamp)}

DecideStep ==
    \E op \in Actions :
       /\ acked' = acked \cup {op.stamp}
       /\ tables'.cases = [tables.cases EXCEPT ![op.case] = RowAfter(op.action)]
       /\ tables'.actions = tables.actions \cup {op}
       /\ tables'.audit = tables.audit \cup {AuditEntry(op)}
       /\ AuditEntry(op) \notin tables.audit

\* Only a commit touches the rows, and it does one of the two.
LEMMA TableStep ==
    ASSUME TypeOK, OneWriter, DraftsFollow, StampsDiffer, NEW p \in Servers, Kind(p)
    PROVE  (SameRows /\ acked' = acked) \/ SeedStep \/ DecideStep
<1>1. CASE Quiet(p) \/ Abandons(p) \/ Submits(p) \/ Opens(p) \/ Extends(p)
  BY <1>1 DEF Quiet, Abandons, Submits, Opens, Extends, SameRows
<1>2. CASE Commits(p)
  <2>0. tables' = draft[p] /\ draft[p] # None /\ srv[p].at = "commit"
    BY <1>2, NoneAssumption DEF Commits
  <2>1. CASE srv[p].op = None
    <3>1. Seeds(p) /\ Seeding(p)
      BY <2>0, <2>1 DEF DraftsFollow, Seeding
    <3> QED
      BY <1>2, <2>0, <2>1, <3>1 DEF Seeds, SeedStep, Commits
  <2>2. CASE srv[p].op # None
    <3>1. Decides(p) /\ Acting(p)
      BY <2>0, <2>2 DEF DraftsFollow, Acting
    <3>2. srv[p].op \in Actions
      BY <3>1, OpTyped
    <3>3. AuditEntry(srv[p].op) \notin tables.audit
      BY <3>1 DEF StampsDiffer, AuditEntry
    <3> QED
      BY <1>2, <2>0, <2>2, <3>1, <3>2, <3>3 DEF Decides, DecideStep, Commits
  <2> QED
    BY <2>1, <2>2
<1> QED
  BY <1>1, <1>2 DEF Kind

\* What the two histories have in common, and how one row more changes it.
Triple(row) == <<row.case, row.action, row.stamp>>
Triples(rows) == {Triple(row) : row \in rows}

\* One row more is one triple more.
LEMMA TriplesGrow ==
    ASSUME NEW A, NEW a
    PROVE  Triples(A \cup {a}) = Triples(A) \cup {Triple(a)}
BY DEF Triples

\* The histories agree when their triples do.
LEMMA HistoriesAsTriples ==
    /\ HistoriesAgree <=> Triples(tables.actions) = Triples(tables.audit)
    /\ HistoriesAgree' <=> Triples(tables'.actions) = Triples(tables'.audit)
BY DEF HistoriesAgree, Triples, Triple

\* An action and its entry are added together.
LEMMA HistoryStep ==
    ASSUME HistoriesAgree, (SameRows /\ acked' = acked) \/ SeedStep \/ DecideStep
    PROVE  HistoriesAgree'
<1>1. CASE SameRows
  BY <1>1, HistoriesAsTriples DEF SameRows
<1>2. CASE SeedStep
  <2>1. PICK c \in Cases, stamp \in Stamps :
          /\ tables'.actions = tables.actions \cup {Sample(c, stamp)}
          /\ tables'.audit = tables.audit \cup {SampleEntry(c, stamp)}
    BY <1>2 DEF SeedStep
  <2>2. Triple(Sample(c, stamp)) = Triple(SampleEntry(c, stamp))
    BY DEF Triple, Sample, SampleEntry
  <2> QED
    BY <2>1, <2>2, TriplesGrow, HistoriesAsTriples
<1>3. CASE DecideStep
  <2>1. PICK op \in Actions :
          /\ tables'.actions = tables.actions \cup {op}
          /\ tables'.audit = tables.audit \cup {AuditEntry(op)}
    BY <1>3 DEF DecideStep
  <2>2. Triple(op) = Triple(AuditEntry(op))
    BY DEF Triple, AuditEntry
  <2> QED
    BY <2>1, <2>2, TriplesGrow, HistoriesAsTriples
<1> QED
  BY <1>1, <1>2, <1>3

\* More rows, more stamps.
LEMMA StampsGrow ==
    ASSUME NEW A, NEW B, A \subseteq B
    PROVE  StampsOf(A) \subseteq StampsOf(B)
BY DEF StampsOf

\* Nothing is deleted, and what is answered with success is there.
LEMMA DurableStep ==
    ASSUME AcknowledgedIsDurable, (SameRows /\ acked' = acked) \/ SeedStep \/ DecideStep
    PROVE  /\ AcknowledgedIsDurable'
           /\ tables.actions \subseteq tables'.actions /\ tables.audit \subseteq tables'.audit
<1>1. tables.actions \subseteq tables'.actions /\ tables.audit \subseteq tables'.audit
  BY DEF SameRows, SeedStep, DecideStep
<1>2. /\ StampsOf(tables.actions) \subseteq StampsOf(tables'.actions)
      /\ StampsOf(tables.audit) \subseteq StampsOf(tables'.audit)
  BY <1>1, StampsGrow
<1>3. CASE acked' = acked
  BY <1>1, <1>2, <1>3 DEF AcknowledgedIsDurable
<1>4. CASE DecideStep
  <2>1. PICK op \in Actions :
          /\ acked' = acked \cup {op.stamp}
          /\ tables'.actions = tables.actions \cup {op}
          /\ tables'.audit = tables.audit \cup {AuditEntry(op)}
    BY <1>4 DEF DecideStep
  <2>2. AuditEntry(op).stamp = op.stamp
    BY DEF AuditEntry
  <2>3. op.stamp \in StampsOf(tables'.actions) /\ op.stamp \in StampsOf(tables'.audit)
    BY <2>1, <2>2 DEF StampsOf
  <2> QED
    BY <1>1, <1>2, <2>1, <2>3 DEF AcknowledgedIsDurable
<1> QED
  BY <1>1, <1>3, <1>4 DEF SeedStep

\* Every row stays what it was, becomes the seeded row, or the outcome of an action.
LEMMA RowsStep ==
    ASSUME TypeOK, TypeOK', RowsAreExplained, DetailExplainsStatus,
           (SameRows /\ acked' = acked) \/ SeedStep \/ DecideStep
    PROVE  \A c \in Present(tables)' : Explains(tables'.cases[c], c, tables'.actions)
<1> SUFFICES ASSUME NEW c \in Cases, tables'.cases[c] # None
             PROVE  Explains(tables'.cases[c], c, tables'.actions)
  BY DEF Present
<1>0. tables.cases \in [Cases -> Rows \cup {None}]
  BY TablesTyped DEF TypeOK
<1>1. CASE SameRows
  BY <1>1 DEF SameRows, RowsAreExplained, Present
<1>2. CASE SeedStep
  <2>1. tables'.cases[c] = tables.cases[c] \/ tables'.cases[c] = SeedRow(c)
    BY <1>2 DEF SeedStep, Seeded
  <2>2. tables.actions \subseteq tables'.actions
    BY <1>2 DEF SeedStep
  <2> QED
    BY <2>1, <2>2 DEF RowsAreExplained, Present, Explains
<1>3. CASE DecideStep
  <2>1. PICK op \in Actions :
          /\ tables'.cases = [tables.cases EXCEPT ![op.case] = RowAfter(op.action)]
          /\ tables'.actions = tables.actions \cup {op}
    BY <1>3 DEF DecideStep
  <2>2. CASE c = op.case
    BY <1>0, <2>1, <2>2 DEF Explains
  <2>3. CASE c # op.case
    BY <1>0, <2>1, <2>3 DEF RowsAreExplained, Present, Explains
  <2> QED
    BY <2>2, <2>3
<1> QED
  BY <1>1, <1>2, <1>3

\* Who reads what: only CountCases sends a server to seed, only ReadCase to the
\* history of a case, only ReadHistory to its detail.
Found(q) == \E c \in Cases : /\ tables.cases[c] # None
                             /\ srv'[q].op = c /\ srv'[q].seen = tables.cases[c]
Answered(q) == /\ srv[q].at = "history"
               /\ srv'[q].op = <<srv[q].op, srv[q].seen>>
               /\ srv'[q].seen = {a \in tables.actions : a.case = srv[q].op}

\* What a server that has just read holds: an empty database for a seeding, the history it will
\* answer a detail with, or the answer.
LEMMA Readers ==
    ASSUME TypeOK, Next, NEW q \in Servers, srv'[q] # srv[q]
    PROVE  /\ srv'[q].at = "seed" => Present(tables) = {}
           /\ srv'[q].at = "history" => Found(q)
           /\ srv'[q].at = "detail" => Answered(q)
<1> USE DEF At, Being
<1> DEFINE Goal == /\ srv'[q].at = "seed" => Present(tables) = {}
                   /\ srv'[q].at = "history" => Found(q)
                   /\ srv'[q].at = "detail" => Answered(q)
<1>1. ASSUME NEW p \in Servers, NEW s, Go(p, s) PROVE p = q /\ srv'[q] = s
  BY <1>1, GoesTo
<1>2. ASSUME NEW p \in Servers, Booting(p) PROVE Goal
  <2>1. CASE CountCases(p)
    BY <1>1, <2>1 DEF CountCases
  <2>2. CASE Start(p) \/ CountPolicies(p) \/ InsertPolicy(p) \/ InsertCases(p) \/ InsertSample(p)
    <3>1. PICK s : Go(p, s) /\ s.at \in {"policies", "cases", "insert", "failed", "sample", "commit"}
      BY <2>2 DEF Start, CountPolicies, InsertPolicy, InsertCases, InsertSample
    <3> QED
      BY <1>1, <3>1
  <2> QED
    BY <1>2, <2>1, <2>2 DEF Booting
<1>3. ASSUME NEW p \in Servers, Handling(p) PROVE Goal
  <2>1. CASE ReadHistory(p)
    BY <1>1, <2>1 DEF ReadHistory, Answered
  <2>2. CASE Update(p) \/ RecordAction(p) \/ AppendAudit(p) \/ Commit(p) \/ FetchPage(p) \/ Respond(p)
    <3>1. PICK s : Go(p, s) /\ s.at \in {"record", "audit", "commit", "ready", "listed"}
      BY <2>2 DEF Update, RecordAction, AppendAudit, Commit, FetchPage, Respond
    <3> QED
      BY <1>1, <3>1
  <2> QED
    BY <1>3, <2>1, <2>2 DEF Handling
<1>4. ASSUME NEW p \in Servers, Fail(p) \/ Crash(p) PROVE Goal
  <2>1. PICK s : Go(p, s) /\ s.at \in {"failed", "ready", "down"}
    BY <1>4 DEF Fail, Crash
  <2> QED
    BY <1>1, <2>1
<1>5. ASSUME NEW p \in Servers, NEW c \in Cases, ReadCase(p, c) PROVE Goal
  BY <1>1, <1>5 DEF ReadCase, Found
<1>6. ASSUME NEW p \in Servers, NEW c \in Cases, NEW choice \in Choices, Submit(p, c, choice)
      PROVE  Goal
  BY <1>1, <1>6 DEF Submit
<1>7. ASSUME NEW p \in Servers, NEW s \in Listed, CountQueue(p, s) PROVE Goal
  BY <1>1, <1>7 DEF CountQueue
<1> HIDE DEF Goal
<1>8. Goal
  BY <1>2, <1>3, <1>4, <1>5, <1>6, <1>7 DEF Next
<1> QED
  BY <1>8 DEF Goal

\* What a reader has seen stays explained, because no action is ever deleted.
LEMMA ReadStep ==
    ASSUME TypeOK, RowsAreExplained, DetailExplainsStatus, Next,
           tables.actions \subseteq tables'.actions
    PROVE  /\ \A q \in Servers : srv'[q].at = "history" =>
                Explains(srv'[q].seen, srv'[q].op, tables'.actions)
           /\ DetailExplainsStatus'
<1>1. ASSUME NEW q \in Servers, srv'[q].at = "history"
      PROVE  Explains(srv'[q].seen, srv'[q].op, tables.actions)
  <2>1. CASE srv'[q] = srv[q]
    BY <1>1, <2>1 DEF RowsAreExplained
  <2>2. CASE srv'[q] # srv[q]
    BY <1>1, <2>2, Readers DEF Found, RowsAreExplained, Present
  <2> QED
    BY <2>1, <2>2
<1>2. ASSUME NEW q \in Servers, srv'[q].at = "detail"
      PROVE  LET c == srv'[q].op[1]
                 row == srv'[q].op[2]
             IN row = SeedRow(c) \/ \E a \in srv'[q].seen : RowAfter(a.action) = row
  <2>1. CASE srv'[q] = srv[q]
    BY <1>2, <2>1 DEF DetailExplainsStatus
  <2>2. CASE srv'[q] # srv[q]
    BY <1>2, <2>2, Readers DEF Answered, RowsAreExplained, Explains
  <2> QED
    BY <2>1, <2>2
<1>3. DetailExplainsStatus'
  BY <1>2 DEF DetailExplainsStatus
<1> QED
  BY <1>1, <1>3 DEF Explains

\* The invariant, initially and after every step.
LEMMA InitIInv == Init => IInv
<1> SUFFICES ASSUME Init PROVE IInv
  OBVIOUS
<1> USE DEF At, Being, BootSteps, ActSteps
<1>1. TypeOK
  BY CaseAssumption DEF Init, TypeOK, Tables, IsSrvState
<1>2. ClockBound
  <2>1. {p \in Servers : srv[p].at \in BootSteps} \subseteq Servers
    OBVIOUS
  <2>2. BootCount <= Cardinality(Servers) /\ BootCount \in Nat /\ Cardinality(Servers) \in Nat
    BY <2>1, CaseAssumption, FS_Subset, FS_CardinalityType DEF BootCount
  <2> QED
    BY <2>2, CaseAssumption DEF ClockBound, Init
<1>3. OneWriter /\ DraftsFollow /\ StampsDiffer
  BY DEF Init, OneWriter, DraftsFollow, StampsDiffer, Acting
<1>4. AcknowledgedIsDurable /\ HistoriesAgree
  BY DEF Init, AcknowledgedIsDurable, HistoriesAgree
<1>5. RowsAreExplained /\ DetailExplainsStatus
  BY DEF Init, RowsAreExplained, DetailExplainsStatus, Present
<1> QED
  BY <1>1, <1>2, <1>3, <1>4, <1>5 DEF IInv

\* Every step keeps the invariant.
LEMMA IInvStep == IInv /\ [Next]_vars => IInv'
<1> SUFFICES ASSUME IInv, [Next]_vars PROVE IInv'
  OBVIOUS
<1>1. TypeOK' /\ ClockBound'
  BY TypingStep DEF IInv
<1>2. CASE UNCHANGED vars
  <2>1. UNCHANGED <<tables, draft, srv, clock, acked, faults>>
    BY <1>2 DEF vars
  <2>2. OneWriter'
    BY <2>1 DEF IInv, OneWriter
  <2>3. DraftsFollow'
    BY <2>1 DEF IInv, DraftsFollow, Decides, Seeds
  <2>4. StampsDiffer'
    BY <2>1 DEF IInv, StampsDiffer, Acting
  <2>5. AcknowledgedIsDurable' /\ HistoriesAgree'
    BY <2>1 DEF IInv, AcknowledgedIsDurable, HistoriesAgree
  <2>6. RowsAreExplained' /\ DetailExplainsStatus'
    BY <2>1 DEF IInv, RowsAreExplained, Present, DetailExplainsStatus
  <2> QED
    BY <1>1, <2>2, <2>3, <2>4, <2>5, <2>6 DEF IInv
<1>3. CASE Next
  <2>1. PICK p \in Servers : Others(p) /\ Kind(p)
    BY <1>3, Kinds DEF IInv, Kind
  <2>2. OneWriter' /\ DraftsFollow' /\ StampsDiffer'
    BY <1>1, <2>1, WriterStep, FollowStep, StampStep DEF IInv
  <2>3. (SameRows /\ acked' = acked) \/ SeedStep \/ DecideStep
    BY <2>1, TableStep DEF IInv
  <2>4. AcknowledgedIsDurable' /\ tables.actions \subseteq tables'.actions
    BY <2>3, DurableStep DEF IInv
  <2>5. HistoriesAgree'
    BY <2>3, HistoryStep DEF IInv
  <2>6. \A c \in Present(tables)' : Explains(tables'.cases[c], c, tables'.actions)
    BY <1>1, <2>3, RowsStep DEF IInv
  <2>7. /\ DetailExplainsStatus'
        /\ \A q \in Servers : srv'[q].at = "history" =>
             Explains(srv'[q].seen, srv'[q].op, tables'.actions)
    BY <1>3, <2>4, ReadStep DEF IInv
  <2>8. RowsAreExplained'
    BY <2>6, <2>7 DEF RowsAreExplained
  <2> QED
    BY <1>1, <2>2, <2>4, <2>5, <2>7, <2>8 DEF IInv
<1> QED
  BY <1>2, <1>3

\* So it holds in every reachable state.
LEMMA Invariance == SafeSpec => []IInv
<1> QED
  BY InitIInv, IInvStep, PTL DEF SafeSpec

------------------------------------------------------------------------------
(* The properties.                                                         *)

\* The tables, the open transactions and the steps of the servers are well typed,
\* and the clock stays in its bound.
THEOREM Typing == SafeSpec => []TypeOK
<1>1. IInv => TypeOK
  BY DEF IInv
<1> QED
  BY <1>1, Invariance, PTL

\* An action answered with success stays in both histories.
THEOREM AcknowledgedIsDurableHolds == SafeSpec => []AcknowledgedIsDurable
<1>1. IInv => AcknowledgedIsDurable
  BY DEF IInv
<1> QED
  BY <1>1, Invariance, PTL

\* Every action has its audit entry, and the reverse.
THEOREM HistoriesAgreeHolds == SafeSpec => []HistoriesAgree
<1>1. IInv => HistoriesAgree
  BY DEF IInv
<1> QED
  BY <1>1, Invariance, PTL

\* A case detail explains the status it shows, although it is read in two statements.
THEOREM DetailExplainsStatusHolds == SafeSpec => []DetailExplainsStatus
<1>1. IInv => DetailExplainsStatus
  BY DEF IInv
<1> QED
  BY <1>1, Invariance, PTL

\* The statuses and actions a row can have together: those of the three verdicts and
\* those of the four decisions.
Outcomes == {<<"PENDING_REVIEW", "VERIFY">>, <<"BLOCKED", "BLOCK">>, <<"APPROVED", "APPROVE">>,
             <<"RESOLVED_APPROVED", "APPROVE">>, <<"RESOLVED_REJECTED", "BLOCK">>,
             <<"ESCALATED", "VERIFY">>, <<"RESOLVED", "VERIFY">>}

\* Every row present is one of them.
LEMMA RowOutcomes ==
    ASSUME TypeOK, RowsAreExplained, NEW c \in Present(tables)
    PROVE  <<tables.cases[c].status, tables.cases[c].action>> \in Outcomes
<1>1. Explains(tables.cases[c], c, tables.actions) /\ c \in Cases
  BY DEF RowsAreExplained, Present
<1>2. CASE tables.cases[c] = SeedRow(c)
  <2>1. Decided[c] \in Verdicts
    BY <1>1, CaseAssumption
  <2> QED
    BY <1>2, <2>1 DEF SeedRow, SeedStatus, Verdicts, Outcomes
<1>3. ASSUME NEW a \in tables.actions, RowAfter(a.action) = tables.cases[c]
      PROVE  <<tables.cases[c].status, tables.cases[c].action>> \in Outcomes
  <2>1. a.action \in Choices
    BY DEF TypeOK, Tables, Actions
  <2> QED
    BY <1>3, <2>1 DEF RowAfter, NewStatus, NewAction, Choices, Outcomes
<1> QED
  BY <1>1, <1>2, <1>3 DEF Explains

\* KPIs, decision breakdown and prevented loss count the same cases after any
\* sequence of decisions; the prevented loss shown is the KPI unless that is zero.
THEOREM ViewsAgreeHolds == SafeSpec => []ViewsAgree
<1>1. IInv => ViewsAgree
  <2> SUFFICES ASSUME IInv PROVE ViewsAgree
    OBVIOUS
  <2>1. \A c \in Present(tables) : <<tables.cases[c].status, tables.cases[c].action>> \in Outcomes
    BY RowOutcomes DEF IInv
  <2> USE DEF Outcomes, StatusIn, ActionIs, Effective
  <2>2. /\ KpiBlocked = Breakdown("BLOCK") /\ KpiApproved = Breakdown("APPROVE")
        /\ KpiVerified \subseteq Breakdown("VERIFY")
    BY <2>1 DEF KpiBlocked, KpiApproved, KpiVerified, Breakdown
  <2>3. /\ KpiBlocked \cap KpiApproved = {} /\ KpiBlocked \cap KpiVerified = {}
        /\ KpiApproved \cap KpiVerified = {}
    BY <2>1 DEF KpiBlocked, KpiApproved, KpiVerified
  <2>4. Prevented = KpiBlocked
    BY <2>1 DEF Prevented, KpiBlocked
  <2>5. PreventedLoss = IF KpiLoss = 0 THEN SampleLoss ELSE KpiLoss
    BY <2>4 DEF PreventedLoss, KpiLoss
  <2> QED
    BY <2>2, <2>3, <2>4, <2>5 DEF ViewsAgree
<1> QED
  BY <1>1, Invariance, PTL

\* A row changes only together with a new audit entry that names its new status.
THEOREM DecisionsAreKeptHolds == SafeSpec => DecisionsAreKept
<1> DEFINE Kept == \A c \in Present(tables) : tables'.cases[c] # tables.cases[c] =>
                     \E e \in tables'.audit \ tables.audit :
                        e.case = c /\ e.new = tables'.cases[c].status
<1>1. IInv /\ [Next]_vars => [Kept]_vars
  <2> SUFFICES ASSUME IInv, Next, NEW c \in Present(tables), tables'.cases[c] # tables.cases[c]
               PROVE  \E e \in tables'.audit \ tables.audit :
                         e.case = c /\ e.new = tables'.cases[c].status
    OBVIOUS
  <2>1. PICK p \in Servers : Kind(p)
    BY Kinds DEF IInv, Kind
  <2>2. (SameRows /\ acked' = acked) \/ SeedStep \/ DecideStep
    BY <2>1, TableStep DEF IInv
  <2>3. c \in Cases /\ tables.cases[c] # None /\ tables.cases \in [Cases -> Rows \cup {None}]
    BY TablesTyped DEF Present, IInv, TypeOK
  <2>4. DecideStep
    BY <2>2, <2>3 DEF SameRows, SeedStep, Seeded
  <2>5. PICK op \in Actions :
          /\ tables'.cases = [tables.cases EXCEPT ![op.case] = RowAfter(op.action)]
          /\ tables'.audit = tables.audit \cup {AuditEntry(op)}
          /\ AuditEntry(op) \notin tables.audit
    BY <2>4 DEF DecideStep
  <2>6. c = op.case /\ tables'.cases[c] = RowAfter(op.action)
    BY <2>3, <2>5
  <2>7. AuditEntry(op) \in tables'.audit \ tables.audit
    BY <2>5
  <2>8. AuditEntry(op).case = c /\ AuditEntry(op).new = tables'.cases[c].status
    BY <2>6 DEF AuditEntry, RowAfter
  <2> QED
    BY <2>7, <2>8
<1> QED
  BY <1>1, Invariance, PTL DEF SafeSpec, DecisionsAreKept

\* When the seedings are over no seeding starts again and the queue of pending cases
\* only shrinks.
THEOREM QueueOnlyShrinksHolds == SafeSpec => QueueOnlyShrinks
<1> DEFINE Pending == WithStatus("PENDING_REVIEW")
           Shrinks == SeedingOver => SeedingOver' /\ Pending' \subseteq Pending
<1>1. IInv /\ [Next]_vars => [Shrinks]_vars
  <2> SUFFICES ASSUME IInv, Next, SeedingOver
               PROVE  SeedingOver' /\ Pending' \subseteq Pending
    OBVIOUS
  <2>1. PICK p \in Servers : Others(p) /\ Kind(p)
    BY Kinds DEF IInv, Kind
  <2>2. tables.cases \in [Cases -> Rows \cup {None}]
    BY TablesTyped DEF IInv, TypeOK
  <2>3. SameRows \/ DecideStep
    <3>1. (SameRows /\ acked' = acked) \/ SeedStep \/ DecideStep
      BY <2>1, TableStep DEF IInv
    <3> QED
      BY <3>1 DEF SeedStep, Seeding, SeedingOver
  <2>4. Present(tables)' # {} /\ Pending' \subseteq Pending
    <3>1. CASE SameRows
      BY <3>1 DEF SameRows, SeedingOver, Present, WithStatus
    <3>2. CASE DecideStep
      <4>1. PICK op \in Actions :
              tables'.cases = [tables.cases EXCEPT ![op.case] = RowAfter(op.action)]
        BY <3>2 DEF DecideStep
      <4>2. op.action \in Choices
        BY DEF Actions
      <4>3. RowAfter(op.action) # None /\ RowAfter(op.action).status # "PENDING_REVIEW"
        BY <4>2, RowsTyped DEF RowAfter, NewStatus, Choices
      <4> QED
        BY <2>2, <4>1, <4>3 DEF SeedingOver, Present, WithStatus
    <3> QED
      BY <2>3, <3>1, <3>2
  <2>5. ASSUME NEW q \in Servers
        PROVE  /\ srv'[q].at \notin {"seed", "sample"}
               /\ srv'[q].at = "commit" => srv'[q].op # None
    <3>1. CASE srv'[q] = srv[q]
      BY <3>1 DEF SeedingOver
    <3>2. CASE srv'[q] # srv[q]
      <4>1. q = p /\ srv'[q].at # "seed"
        BY <2>1, <3>2, Readers DEF Others, SeedingOver, IInv
      <4>2. srv[p].at \notin {"seed", "sample"}
        BY DEF SeedingOver
      <4>3. srv[p].at = "audit" => srv[p].op # None
        BY OpTyped DEF Acting, ActSteps, IInv
      <4> QED
        BY <2>1, <4>1, <4>2, <4>3
        DEF Kind, Quiet, Abandons, Submits, Opens, Extends, Commits, Writing
    <3> QED
      BY <3>1, <3>2
  <2> QED
    BY <2>4, <2>5 DEF SeedingOver
<1> QED
  BY <1>1, Invariance, PTL DEF SafeSpec, QueueOnlyShrinks
=============================================================================
