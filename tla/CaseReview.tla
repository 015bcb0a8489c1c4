----------------------------- MODULE CaseReview -----------------------------
(***************************************************************************)
(* The case database of the dashboard BFF: SQLite in WAL mode, shared by   *)
(* every process that imports src.dashboard.db.  A process seeds the       *)
(* database when it starts and then serves analysts: it applies their      *)
(* decisions in transactions of several statements, and answers reads,     *)
(* some of which take two SELECTs.                                         *)
(*                                                                         *)
(* A table is a set of rows (or a function, where the key is the case).    *)
(* Names, reasons and notes are left out.  The clock stands for            *)
(* created_at: it ticks with every recorded action.  A grain of atomicity  *)
(* is one SQL statement; SQLite itself is modelled by what the code relies *)
(* on: one writer at a time, readers see committed data, a transaction     *)
(* that fails or whose process dies leaves nothing behind.                 *)
(***************************************************************************)
EXTENDS Naturals, FiniteSets, Functions

CONSTANTS Servers,      \* processes using the database
          Cases,        \* request ids of cases
          Decided,      \* case -> the action the engine decided
          Refund,       \* case -> its refund amount
          Batches,      \* the sets of cases a seeding may insert
          Listed,       \* the statuses by which clients list the queue
          MaxActions,   \* bound on the clock up to which analysts submit actions
          MaxFaults,    \* bound on failing statements and crashes
          None

Verdicts == {"APPROVE", "VERIFY", "BLOCK"}
Choices == {"APPROVE", "REJECT", "ESCALATE", "RESOLVE"}
Statuses == {"PENDING_REVIEW", "BLOCKED", "APPROVED",
             "RESOLVED_APPROVED", "RESOLVED_REJECTED", "ESCALATED", "RESOLVED"}

\* Submissions stop at MaxActions; a server seeds at most once per start.
Stamps == 1..(MaxActions + Cardinality(Servers) + MaxFaults)

ASSUME CaseAssumption ==
    /\ IsFiniteSet(Servers) /\ IsFiniteSet(Cases)
    /\ Decided \in [Cases -> Verdicts] /\ Refund \in [Cases -> Nat]
    /\ Batches \subseteq (SUBSET Cases) \ {{}}
    /\ Listed \subseteq Statuses
    /\ MaxActions \in Nat /\ MaxFaults \in Nat
    /\ None \notin Cases

Rows == [status : Statuses, action : Verdicts]
Actions == [case : Cases, action : Choices, stamp : Stamps]
Audits == [case : Cases, action : Choices, stamp : Stamps,
           previous : Statuses \cup {None}, new : Statuses \cup {None}]
Tables == [policies : 0..1, cases : [Cases -> Rows \cup {None}],
           actions : SUBSET Actions, audit : SUBSET Audits]

ASSUME NoneAssumption == None \notin Rows /\ None \notin Actions /\ None \notin Tables

VARIABLES
    tables,     \* the committed database
    draft,      \* per server, the database as its open transaction sees it
    srv,        \* what each server is doing
    clock,      \* stamps handed out
    acked,      \* stamps of the actions answered with success (history)
    faults      \* failed statements and crashes so far

vars == <<tables, draft, srv, clock, acked, faults>>

\* A server at some step, with the action it records or what it has read.
Being(at, op, seen) == [at |-> at, op |-> op, seen |-> seen]
At(at) == Being(at, None, None)

BootSteps == {"down", "failed", "policies", "insert", "cases", "seed", "sample"}
ActSteps == {"update", "record", "audit"}

IsSrvState(v) ==
    /\ v = Being(v.at, v.op, v.seen)
    /\ \/ v.at \in BootSteps \cup {"ready", "commit"} /\ v = At(v.at)
       \/ v.at \in ActSteps \cup {"commit"} /\ v.op \in Actions /\ v.seen = None
       \/ v.at = "history" /\ v.op \in Cases /\ v.seen \in Rows
       \/ v.at = "detail" /\ v.op \in Cases \X Rows /\ v.seen \subseteq Actions
       \/ v.at = "page" /\ v.op \in Statuses /\ v.seen \in 0..Cardinality(Cases)
       \/ v.at = "listed" /\ v.op \in 0..Cardinality(Cases) /\ v.seen \subseteq Cases

TypeOK ==
    /\ tables \in Tables
    /\ draft \in [Servers -> Tables \cup {None}]
    /\ DOMAIN srv = Servers /\ \A p \in Servers : IsSrvState(srv[p])
    /\ clock \in Stamps \cup {0}
    /\ acked \subseteq Stamps
    /\ faults \in 0..MaxFaults

Init ==
    /\ tables = [policies |-> 0, cases |-> [c \in Cases |-> None], actions |-> {}, audit |-> {}]
    /\ draft = [p \in Servers |-> None]
    /\ srv = [p \in Servers |-> At("down")]
    /\ clock = 0
    /\ acked = {}
    /\ faults = 0

Go(p, state) == srv' = [srv EXCEPT ![p] = state]

\* Mutant: writers do not wait for each other.
NeverWaits == TRUE

\* Python opens a transaction at the first INSERT or UPDATE; SQLite then waits
\* until no other connection is writing.
Free == \A q \in Servers : draft[q] = None

Present(t) == {c \in Cases : t.cases[c] # None}

------------------------------------------------------------------------------
(* DatabaseManager.init_db, when a process starts.                         *)

Start(p) ==
    /\ srv[p].at \in {"down", "failed"}
    /\ Go(p, At("policies"))
    /\ UNCHANGED <<tables, draft, clock, acked, faults>>

\* Mutant: the policy is inserted without looking.
CountsNothing(p) ==
    /\ srv[p].at = "policies"
    /\ Go(p, At("insert"))
    /\ UNCHANGED <<tables, draft, clock, acked, faults>>

\* _seed_default_policy counts ...
CountPolicies(p) ==
    /\ srv[p].at = "policies"
    /\ Go(p, At(IF tables.policies > 0 THEN "cases" ELSE "insert"))
    /\ UNCHANGED <<tables, draft, clock, acked, faults>>

\* ... and then inserts a fixed primary key.  When another process was faster
\* the constraint fails, the error is raised again and the import fails.
InsertPolicy(p) ==
    /\ srv[p].at = "insert"
    /\ Free
    /\ IF tables.policies = 0
       THEN tables' = [tables EXCEPT !.policies = 1] /\ Go(p, At("cases"))
       ELSE UNCHANGED tables /\ Go(p, At("failed"))
    /\ UNCHANGED <<draft, clock, acked, faults>>

\* _seed_initial_cases counts in one connection ...
CountCases(p) ==
    /\ srv[p].at = "cases"
    /\ Go(p, At(IF Present(tables) # {} THEN "ready" ELSE "seed"))
    /\ UNCHANGED <<tables, draft, clock, acked, faults>>

SeedStatus == [VERIFY |-> "PENDING_REVIEW", BLOCK |-> "BLOCKED", APPROVE |-> "APPROVED"]
SeedRow(c) == [status |-> SeedStatus[Decided[c]], action |-> Decided[c]]

\* Mutant: INSERT OR REPLACE.
Reseeded(cases, batch) == [c \in Cases |-> IF c \in batch THEN SeedRow(c) ELSE cases[c]]

\* INSERT OR IGNORE of a batch: rows that exist are left as they are.
Seeded(cases, batch) ==
    [c \in Cases |-> IF c \in batch /\ cases[c] = None THEN SeedRow(c) ELSE cases[c]]

\* ... and inserts in another, in one transaction: the cases, ...
InsertCases(p) ==
    /\ srv[p].at = "seed"
    /\ Free
    /\ \E batch \in Batches :
         draft' = [draft EXCEPT ![p] = [tables EXCEPT !.cases = Seeded(@, batch)]]
    /\ Go(p, At("sample"))
    /\ UNCHANGED <<tables, clock, acked, faults>>

\* ... and a sample escalation of the first one, which leaves its status alone.
InsertSample(p) ==
    /\ srv[p].at = "sample"
    /\ clock' = clock + 1
    /\ \E c \in Present(draft[p]) :
         draft' = [draft EXCEPT
            ![p].actions = @ \cup {[case |-> c, action |-> "ESCALATE", stamp |-> clock']},
            ![p].audit = @ \cup {[case |-> c, action |-> "ESCALATE", stamp |-> clock',
                                  previous |-> None, new |-> None]}]
    /\ Go(p, At("commit"))
    /\ UNCHANGED <<tables, acked, faults>>

------------------------------------------------------------------------------
(* ActionService.execute_action.                                           *)

\* Mutants: escalated cases go back to the queue; a rejected case keeps VERIFY; the
\* action is stored as the analyst sent it.
RequeuedStatus == [APPROVE |-> "RESOLVED_APPROVED", REJECT |-> "RESOLVED_REJECTED",
                   ESCALATE |-> "PENDING_REVIEW", RESOLVE |-> "RESOLVED"]
UnblockedAction == [APPROVE |-> "APPROVE", REJECT |-> "VERIFY",
                    ESCALATE |-> "VERIFY", RESOLVE |-> "VERIFY"]
RawAction == [APPROVE |-> "APPROVE", REJECT |-> "REJECT",
              ESCALATE |-> "VERIFY", RESOLVE |-> "VERIFY"]

NewStatus == [APPROVE |-> "RESOLVED_APPROVED", REJECT |-> "RESOLVED_REJECTED",
              ESCALATE |-> "ESCALATED", RESOLVE |-> "RESOLVED"]
NewAction == [APPROVE |-> "APPROVE", REJECT |-> "BLOCK",
              ESCALATE |-> "VERIFY", RESOLVE |-> "VERIFY"]
RowAfter(choice) == [status |-> NewStatus[choice], action |-> NewAction[choice]]

\* The handler takes its time stamp and finds the case; an unknown case is a
\* 404.  Nothing looks at the status the case has.
Submit(p, c, choice) ==
    /\ srv[p].at = "ready"
    /\ clock < MaxActions
    /\ tables.cases[c] # None
    /\ clock' = clock + 1
    /\ Go(p, Being("update", [case |-> c, action |-> choice, stamp |-> clock'], None))
    /\ UNCHANGED <<tables, draft, acked, faults>>

\* Mutant: the UPDATE is committed at once.
UpdateCommits(p) ==
    LET op == srv[p].op
        updated == [tables EXCEPT !.cases[op.case] = RowAfter(op.action)]
    IN
    /\ srv[p].at = "update"
    /\ Free
    /\ tables' = updated
    /\ draft' = [draft EXCEPT ![p] = updated]
    /\ Go(p, Being("record", op, None))
    /\ UNCHANGED <<clock, acked, faults>>

\* 1. The UPDATE opens the transaction.
Update(p) ==
    LET op == srv[p].op IN
    /\ srv[p].at = "update"
    /\ Free
    /\ draft' = [draft EXCEPT ![p] = [tables EXCEPT !.cases[op.case] = RowAfter(op.action)]]
    /\ Go(p, Being("record", op, None))
    /\ UNCHANGED <<tables, clock, acked, faults>>

\* Mutant: the handler commits without the audit entry.
RecordOnly(p) ==
    /\ srv[p].at = "record"
    /\ draft' = [draft EXCEPT ![p].actions = @ \cup {srv[p].op}]
    /\ Go(p, Being("commit", srv[p].op, None))
    /\ UNCHANGED <<tables, clock, acked, faults>>

\* 2. The analyst action.
RecordAction(p) ==
    /\ srv[p].at = "record"
    /\ draft' = [draft EXCEPT ![p].actions = @ \cup {srv[p].op}]
    /\ Go(p, Being("audit", srv[p].op, None))
    /\ UNCHANGED <<tables, clock, acked, faults>>

\* The audit entry says PENDING_REVIEW whatever the status was.
AuditEntry(op) ==
    [case |-> op.case, action |-> op.action, stamp |-> op.stamp,
     previous |-> "PENDING_REVIEW", new |-> NewStatus[op.action]]

\* 3. The audit log.
AppendAudit(p) ==
    /\ srv[p].at = "audit"
    /\ draft' = [draft EXCEPT ![p].audit = @ \cup {AuditEntry(srv[p].op)}]
    /\ Go(p, Being("commit", srv[p].op, None))
    /\ UNCHANGED <<tables, clock, acked, faults>>

\* get_connection commits when the block ends, and the handler answers.
Commit(p) ==
    /\ srv[p].at = "commit"
    /\ tables' = draft[p]
    /\ draft' = [draft EXCEPT ![p] = None]
    /\ acked' = IF srv[p].op = None THEN acked ELSE acked \cup {srv[p].op.stamp}
    /\ Go(p, At("ready"))
    /\ UNCHANGED <<clock, faults>>

\* A statement fails (busy for longer than the timeout, disk full): rollback and
\* raise.  The request ends with a 500, or the start of the process fails.
Fail(p) ==
    /\ srv[p].at \in ActSteps \cup {"insert", "seed", "sample", "commit"}
    /\ faults < MaxFaults
    /\ faults' = faults + 1
    /\ draft' = [draft EXCEPT ![p] = None]
    /\ Go(p, At(IF srv[p].op = None THEN "failed" ELSE "ready"))
    /\ UNCHANGED <<tables, clock, acked>>

Crash(p) ==
    /\ srv[p].at \notin {"down", "failed"}
    /\ faults < MaxFaults
    /\ faults' = faults + 1
    /\ draft' = [draft EXCEPT ![p] = None]
    /\ Go(p, At("down"))
    /\ UNCHANGED <<tables, clock, acked>>

------------------------------------------------------------------------------
(* Reads that take two statements; each sees what is committed then.       *)

\* get_case_detail: the case first, ...
ReadCase(p, c) ==
    /\ srv[p].at = "ready"
    /\ tables.cases[c] # None
    /\ Go(p, Being("history", c, tables.cases[c]))
    /\ UNCHANGED <<tables, draft, clock, acked, faults>>

\* ... then the actions on it.
ReadHistory(p) ==
    LET c == srv[p].op IN
    /\ srv[p].at = "history"
    /\ Go(p, Being("detail", <<c, srv[p].seen>>, {a \in tables.actions : a.case = c}))
    /\ UNCHANGED <<tables, draft, clock, acked, faults>>

WithStatus(s) == {c \in Present(tables) : tables.cases[c].status = s}

\* get_review_queue: the number of matching cases first, then the page.
CountQueue(p, s) ==
    /\ srv[p].at = "ready"
    /\ Go(p, Being("page", s, Cardinality(WithStatus(s))))
    /\ UNCHANGED <<tables, draft, clock, acked, faults>>

FetchPage(p) ==
    /\ srv[p].at = "page"
    /\ Go(p, Being("listed", srv[p].seen, WithStatus(srv[p].op)))
    /\ UNCHANGED <<tables, draft, clock, acked, faults>>

Respond(p) ==
    /\ srv[p].at \in {"detail", "listed"}
    /\ Go(p, At("ready"))
    /\ UNCHANGED <<tables, draft, clock, acked, faults>>

------------------------------------------------------------------------------
(* Aggregates, each one SELECT over the cases: the cases they count.       *)

StatusIn(c, statuses) == tables.cases[c].status \in statuses
ActionIs(c, verdict) == tables.cases[c].action = verdict

\* get_kpis
KpiBlocked == {c \in Present(tables) :
    ActionIs(c, "BLOCK") \/ StatusIn(c, {"BLOCKED", "RESOLVED_REJECTED"})}
KpiVerified == {c \in Present(tables) : StatusIn(c, {"PENDING_REVIEW", "ESCALATED"})}
KpiApproved == {c \in Present(tables) :
    \/ StatusIn(c, {"APPROVED", "RESOLVED_APPROVED"})
    \/ ActionIs(c, "APPROVE") /\ ~StatusIn(c, {"BLOCKED", "RESOLVED_REJECTED"})}

\* get_risk_distribution: the decision breakdown
Effective(c) ==
    IF StatusIn(c, {"RESOLVED_REJECTED", "BLOCKED"}) THEN "BLOCK"
    ELSE IF StatusIn(c, {"RESOLVED_APPROVED", "APPROVED"}) THEN "APPROVE"
    ELSE tables.cases[c].action
Breakdown(verdict) == {c \in Present(tables) : Effective(c) = verdict}

KpiLoss == SumFunctionOnSet(Refund, KpiBlocked)

\* get_financial_impact: the refunds counted as prevented loss, and the amount
\* shown, which is a sample figure when the sum is zero.
Prevented == {c \in Present(tables) : ActionIs(c, "BLOCK")}
SampleLoss == 185000
PreventedLoss ==
    LET sum == SumFunctionOnSet(Refund, Prevented)
    IN IF sum = 0 THEN SampleLoss ELSE sum

------------------------------------------------------------------------------
Booting(p) == \/ Start(p) \/ CountPolicies(p) \/ InsertPolicy(p) \/ CountCases(p)
              \/ InsertCases(p) \/ InsertSample(p)

Handling(p) == \/ Update(p) \/ RecordAction(p) \/ AppendAudit(p) \/ Commit(p)
               \/ ReadHistory(p) \/ FetchPage(p) \/ Respond(p)

Next ==
    \E p \in Servers :
       \/ Booting(p) \/ Handling(p) \/ Fail(p) \/ Crash(p)
       \/ \E c \in Cases : ReadCase(p, c) \/ \E choice \in Choices : Submit(p, c, choice)
       \/ \E s \in Listed : CountQueue(p, s)

SafeSpec == Init /\ [][Next]_vars

\* A handler that has started runs on, and a process that ended is started again.
Spec == SafeSpec /\ \A p \in Servers : WF_vars(Booting(p) \/ Handling(p))
------------------------------------------------------------------------------
(* Properties.                                                             *)

StampsOf(rows) == {row.stamp : row \in rows}

\* An action that was answered with success is in the action table and in the
\* audit log for ever, whatever other servers write, roll back or seed.
AcknowledgedIsDurable ==
    acked \subseteq StampsOf(tables.actions) \cap StampsOf(tables.audit)

\* The two histories of a case never differ: every recorded action has its audit
\* entry and every audit entry its action, for the same case.
HistoriesAgree ==
    {<<a.case, a.action, a.stamp>> : a \in tables.actions}
      = {<<e.case, e.action, e.stamp>> : e \in tables.audit}

\* The row of a case changes only together with a new audit entry that names the
\* new status: another server's seeding or stale write never undoes a decision.
DecisionsAreKept ==
    [][\A c \in Present(tables) : tables'.cases[c] # tables.cases[c] =>
         \E e \in tables'.audit \ tables.audit :
            e.case = c /\ e.new = tables'.cases[c].status]_vars

\* A case detail explains the status it shows: unless the case still has the row
\* it was seeded with, the list of actions contains one that sets that row.
DetailExplainsStatus ==
    \A p \in Servers : srv[p].at = "detail" =>
        LET c == srv[p].op[1]
            row == srv[p].op[2]
        IN row = SeedRow(c) \/ \E a \in srv[p].seen : RowAfter(a.action) = row

\* No server is between finding the database empty and the commit of its seeding,
\* and none will be: a case is there.
SeedingOver ==
    /\ Present(tables) # {}
    /\ \A p \in Servers : /\ srv[p].at \notin {"seed", "sample"}
                          /\ srv[p].at = "commit" => srv[p].op # None

\* When the seedings are over they are over for good, and from then on nothing
\* enters or re-enters the queue of pending cases: a page of it never holds a case
\* that the total counted before it left out.
QueueOnlyShrinks ==
    [][SeedingOver => /\ SeedingOver'
                      /\ WithStatus("PENDING_REVIEW")' \subseteq WithStatus("PENDING_REVIEW")]_vars

\* The three aggregates agree whatever analysts did: the KPI classes do not
\* overlap, what they count as blocked and approved is what the decision breakdown
\* counts, and the prevented loss is summed over the same cases.  The amounts shown
\* differ in one case only: when the KPI is zero, because no case with a refund is
\* blocked, the financial impact shows the sample figure.
ViewsAgree ==
    /\ KpiBlocked = Breakdown("BLOCK") /\ KpiApproved = Breakdown("APPROVE")
    /\ KpiVerified \subseteq Breakdown("VERIFY")
    /\ KpiBlocked \cap KpiApproved = {} /\ KpiBlocked \cap KpiVerified = {}
    /\ KpiApproved \cap KpiVerified = {}
    /\ Prevented = KpiBlocked
    /\ PreventedLoss = IF KpiLoss = 0 THEN SampleLoss ELSE KpiLoss

\* A process that has to start ends up serving, even if it loses the races of
\* the seeding.
StartsServing == \A p \in Servers : srv[p].at \in BootSteps ~> srv[p].at = "ready"
=============================================================================
