------------------------------- MODULE Reads -------------------------------
(***************************************************************************)
(* Reading claims while others change them: pooled connections and the     *)
(* tenant bound to them, listings walked page by page, and the streamed    *)
(* export.                                                                 *)
(*                                                                         *)
(*   platform/postgres/tx.go   runTx, attemptTx, bindSession               *)
(*   service/scope.go          Read, Snapshot and run                      *)
(*   expense_service.go        List, PendingQueue, canRead, narrowToScope  *)
(*   domain/shared/page.go     cursors and NewPage                         *)
(*   report_service.go         StreamExport                                *)
(*   handler/export.go         what the client is left with                *)
(*                                                                         *)
(* Time is counted in ticks, the resolution of timestamptz; a date is a    *)
(* whole number of seconds.  What other requests commit is one step here   *)
(* (Create .. PlanChanges): Expenses and Organisation model how.  A claim  *)
(* keeps its date and department: the only request that would change them, *)
(* the edit of a draft, is refused every time (Expenses, EditPersists).    *)
(***************************************************************************)
EXTENDS Roles, Sequences, FiniteSets, Functions

CONSTANTS
    Tenant,
    Member,           \* memberships, each of one tenant
    TenantOf,
    Reassigned,       \* what UpdateMember makes of them later
    Department,
    Claim,            \* claim ids, which are ordered
    Filed,            \* the columns of a claim that do not change, by its id
    Conn,             \* the pool
    Request,          \* clients, each with one request at a time
    Subject,          \* whose token each of them holds
    Calls,            \* the endpoints each of them uses
    Start,            \* the tables at the start
    PageSize,         \* the page size after ClampLimit
    TicksPerSecond,
    ExportLimits,     \* ExportRows of the plans the tenants may be on
    MaxSerializationRetries,
    MaxClock, MaxWrites   \* bounds

NoLimit == -1

Kinds == {"list", "queue", "export", "sweep"}

Statuses == {"none", "draft", "pending_approval", "approved", "deleted"}

\* A membership as ResolveActor returns it.
Actors ==
    [id : Member, role : Roles, status : MembershipStatuses, dept : Department \cup {NULL}]

Tables ==
    [status : [Claim -> Statuses], submitted : [Claim -> 0 .. MaxClock],
     member : [Member -> Actors], exportRows : [Tenant -> ExportLimits]]

ASSUME ReadsAssumption ==
    /\ TenantOf \in [Member -> Tenant]
    /\ Reassigned \subseteq Actors
    /\ Claim \subseteq Nat /\ IsFiniteSet(Claim)
    /\ Filed \in [Claim -> [submitter : Member, dept : Department \cup {NULL}, spent : Nat]]
    /\ \A c \in Claim : Filed[c].spent % TicksPerSecond = 0
    /\ Subject \in [Request -> Member]
    /\ Start \in Tables
    /\ Calls \in [Request -> SUBSET Kinds]
    /\ {PageSize, TicksPerSecond, MaxSerializationRetries} \subseteq Nat \ {0}
    /\ ExportLimits \subseteq Nat \cup {NoLimit}
    /\ {MaxClock, MaxWrites} \subseteq Nat
    /\ NULL \notin Request \cup Member \cup (Nat \X Claim)

VARIABLES
    db,      \* the committed state of the tables
    clock,
    writes,
    conns,   \* each connection: the request using it, and its settings
    req,     \* each client's request
    walk     \* each client's progress through a listing

vars == <<db, clock, writes, conns, req, walk>>

-----------------------------------------------------------------------------
(* The tables. *)

Rows(d) == {c \in Claim : d.status[c] \notin {"none", "deleted"}}

ClaimTenant(c) == TenantOf[Filed[c].submitter]

\* app.tenant_id and app.system.
Unset == [tenant |-> NULL, system |-> FALSE]

Settings == [tenant : Tenant \cup {NULL}, system : BOOLEAN]

\* The tenant of a member's token.
TenantBinding(m) == [tenant |-> TenantOf[m], system |-> FALSE]

\* A transaction-local setting hides the session's.
Setting(k) == IF k.local # Unset THEN k.local ELSE k.session

\* The restrictive policy tenant_isolation.
tenant_isolation(s, c) == s.system \/ ClaimTenant(c) = s.tenant

-----------------------------------------------------------------------------
(* Who may see what. *)

canRead(actor, c) ==
    IF Filed[c].submitter = actor.id
    THEN Can(actor, "ExpenseReadOwn")
    ELSE \/ Can(actor, "ExpenseReadAll")
         \/ Can(actor, "ExpenseReadTeam") /\ GovernsDepartment(actor, Filed[c].dept)

\* Seeded fault: a department filter that is already set is kept.
PinUnlessAsked(actor, f) ==
    IF Can(actor, "ExpenseReadAll") THEN f
    ELSE IF Can(actor, "ExpenseReadTeam")
         THEN [f EXCEPT !.dept = IF @ = NULL THEN actor.dept ELSE @]
         ELSE [f EXCEPT !.submitter = actor.id]

\* Every role may read its own claims, so the refusal at the end of the switch
\* is not reached.
narrowToScope(actor, f) ==
    IF Can(actor, "ExpenseReadAll") THEN f
    ELSE IF Can(actor, "ExpenseReadTeam")
         THEN [f EXCEPT !.dept = IF actor.dept # NULL THEN actor.dept ELSE @]
         ELSE [f EXCEPT !.submitter = actor.id]

Matches(f, c) == f.dept \in {NULL, Filed[c].dept} /\ f.submitter \in {NULL, Filed[c].submitter}

\* ReportService.narrow lets through a reader of everything, or of the
\* department they are in.
MayExport(actor) ==
    /\ Can(actor, "ReportExport")
    /\ \/ Can(actor, "ExpenseReadAll")
       \/ Can(actor, "ExpenseReadTeam") /\ actor.dept # NULL

narrow(actor, f) ==
    IF Can(actor, "ExpenseReadAll") THEN f ELSE [f EXCEPT !.dept = actor.dept]

-----------------------------------------------------------------------------
(* Cursors: the sort key of the last row of a page. *)

\* A time and the claim's id.
Keys == Nat \X Claim

\* The token carries the time as RFC 3339, which has no fraction of a second.
Encode(cursor) == <<(cursor[1] \div TicksPerSecond) * TicksPerSecond, cursor[2]>>

Less(a, b) == a[1] < b[1] \/ (a[1] = b[1] /\ a[2] < b[2])

Greater(a, b) == Less(b, a)

\* ORDER BY: the i-th row is the one with i - 1 rows before it.
Sorted(S, op(_, _)) ==
    [i \in 1 .. Cardinality(S) |-> CHOOSE k \in S : Cardinality({j \in S : op(j, k)}) = i - 1]

Upto(s, n) == SubSeq(s, 1, IF Len(s) < n THEN Len(s) ELSE n)

\* The claims a query with the filter f finds, and their sort keys.
Found(t, s, d, f) ==
    {c \in Rows(d) : tenant_isolation(s, c) /\ ClaimTenant(c) = t /\ Matches(f, c)}

ByDate(claims) == {<<Filed[c].spent, c>> : c \in claims}

\* Seeded fault: without the id as the tiebreak.
SeekByDate(t, s, d, f, cursor, n) ==
    Upto(Sorted({k \in ByDate(Found(t, s, d, f)) : cursor = NULL \/ k[1] < cursor[1]}, Greater), n)

ListExpenses(t, s, d, f, cursor, n) ==
    Upto(Sorted({k \in ByDate(Found(t, s, d, f)) : cursor = NULL \/ Less(k, cursor)}, Greater), n)

\* The claims waiting in a department, and their sort keys.
Queued(t, s, d, dept) ==
    {<<d.submitted[c], c>> :
        c \in {c \in Found(t, s, d, [dept |-> dept, submitter |-> NULL]) :
                    d.status[c] = "pending_approval"}}

ListPendingForApproval(t, s, d, dept, cursor, n) ==
    Upto(Sorted({k \in Queued(t, s, d, dept) : cursor = NULL \/ Less(cursor, k)}, Less), n)

exportQuery(t, s, d, f) == Sorted(ByDate(Found(t, s, d, f)), Less)

\* rows holds up to one row more than a page.
NewPage(rows) ==
    IF Len(rows) <= PageSize
    THEN [items |-> rows, next |-> NULL]
    ELSE [items |-> SubSeq(rows, 1, PageSize), next |-> Encode(rows[PageSize])]

-----------------------------------------------------------------------------
(* Requests. *)

Pcs == {"done", "acquire", "begun", "bound", "resolved", "opened", "streaming", "commit"}

\* out is a page, or the rows of a download that are sent, and left those to
\* come; resent is history: it was run again with rows already out.
Reqs ==
    [pc : Pcs, kind : Kinds, member : Member, dept : Department \cup {NULL},
     attempt : 1 .. MaxSerializationRetries, snap : Tables \cup {NULL},
     actor : Actors \cup {NULL}, out : Seq(Keys), left : Seq(Keys), next : Keys \cup {NULL},
     began : BOOLEAN, resent : BOOLEAN, result : {"none", "ok", "error", "truncated"}]

Asked(kind, m, dept) ==
    [pc |-> "acquire", kind |-> kind, member |-> m, dept |-> dept, attempt |-> 1,
     snap |-> NULL, actor |-> NULL, out |-> <<>>, left |-> <<>>, next |-> NULL,
     began |-> FALSE, resent |-> FALSE, result |-> "none"]

Idle(r, result) ==
    [Asked("sweep", Subject[r], NULL) EXCEPT !.pc = "done", !.result = result]

\* What a walk would return if it were one query, by its keys.
Scope(kind, m, dept, d) ==
    IF kind = "list"
    THEN ByDate(Found(TenantOf[m], TenantBinding(m), d,
                      narrowToScope(d.member[m], [dept |-> dept, submitter |-> NULL])))
    ELSE Queued(TenantOf[m], TenantBinding(m), d, d.member[m].dept)

\* seen is every row returned so far, again the ones returned more than once,
\* steady the ones that have been in scope all the time.
Walks ==
    [kind : {"list", "queue"}, member : Member, dept : Department \cup {NULL},
     cursor : Keys \cup {NULL}, seen : SUBSET Keys, again : SUBSET Keys,
     steady : SUBSET Keys, done : BOOLEAN]

FirstPage(kind, m, dept) ==
    [kind |-> kind, member |-> m, dept |-> dept, cursor |-> NULL, seen |-> {},
     again |-> {}, steady |-> Scope(kind, m, dept, db), done |-> FALSE]

Init ==
    /\ db = Start
    /\ clock = 0
    /\ writes = 0
    /\ conns = [k \in Conn |-> [tx |-> NULL, local |-> Unset, session |-> Unset]]
    /\ req = [r \in Request |-> Idle(r, "none")]
    /\ walk = [r \in Request |->
                [kind |-> "list", member |-> Subject[r], dept |-> NULL,
                 cursor |-> NULL, seen |-> {}, again |-> {}, steady |-> {}, done |-> TRUE]]

-----------------------------------------------------------------------------
(* What the clients ask for. *)

AskFirstPage(r) ==
    /\ req[r].pc = "done"
    /\ walk[r].done
    /\ \E kind \in Calls[r] \cap {"list", "queue"}, dept \in Department \cup {NULL} :
        /\ kind = "queue" => dept = NULL
        /\ req' = [req EXCEPT ![r] = Asked(kind, Subject[r], dept)]
        /\ walk' = [walk EXCEPT ![r] = FirstPage(kind, Subject[r], dept)]
    /\ UNCHANGED <<db, clock, writes, conns>>

\* The page after the last one received, which is the same page again if the
\* request for it failed.
AskNextPage(r) ==
    /\ req[r].pc = "done"
    /\ ~walk[r].done
    /\ req' = [req EXCEPT ![r] = Asked(walk[r].kind, walk[r].member, walk[r].dept)]
    /\ UNCHANGED <<db, clock, writes, conns, walk>>

AskExport(r) ==
    /\ req[r].pc = "done"
    /\ "export" \in Calls[r]
    /\ \E dept \in Department \cup {NULL} :
            req' = [req EXCEPT ![r] = Asked("export", Subject[r], dept)]
    /\ UNCHANGED <<db, clock, writes, conns, walk>>

\* A worker's pass over all tenants.
Sweep(r) ==
    /\ req[r].pc = "done"
    /\ "sweep" \in Calls[r]
    /\ req' = [req EXCEPT ![r] = Asked("sweep", Subject[r], NULL)]
    /\ UNCHANGED <<db, clock, writes, conns, walk>>

-----------------------------------------------------------------------------
(* The transaction around every request. *)

HeldBy(k, r) == conns[k].tx = r

\* COMMIT and ROLLBACK drop the local settings.  A connection that could not be
\* rolled back is destroyed, and the one that replaces it starts the same way.
Release(r) ==
    conns' = [k \in Conn |->
                IF HeldBy(k, r) THEN [conns[k] EXCEPT !.tx = NULL, !.local = Unset]
                ELSE conns[k]]

Acquire(r) ==
    /\ req[r].pc = "acquire"
    /\ \E k \in Conn :
        /\ conns[k].tx = NULL
        /\ conns' = [conns EXCEPT ![k].tx = r]
    /\ req' = [req EXCEPT ![r].pc = "begun"]
    /\ UNCHANGED <<db, clock, writes, walk>>

\* A system transaction has no tenant and sees them all.
Binding(r) ==
    IF req[r].kind = "sweep" THEN [tenant |-> NULL, system |-> TRUE]
    ELSE TenantBinding(req[r].member)

\* Seeded fault: set_config with is_local = false.
BindForTheSession(r) ==
    /\ req[r].pc = "begun"
    /\ conns' = [k \in Conn |->
                    IF HeldBy(k, r) THEN [conns[k] EXCEPT !.session = Binding(r)]
                    ELSE conns[k]]
    /\ req' = [req EXCEPT ![r].pc = "bound",
                          ![r].snap = IF req[r].kind = "export" THEN db ELSE NULL]
    /\ UNCHANGED <<db, clock, writes, walk>>

\* The transaction's first statement, so it is where REPEATABLE READ takes the
\* export's snapshot.
bindSession(r) ==
    /\ req[r].pc = "begun"
    /\ conns' = [k \in Conn |->
                    IF HeldBy(k, r) THEN [conns[k] EXCEPT !.local = Binding(r)]
                    ELSE conns[k]]
    /\ req' = [req EXCEPT ![r].pc = "bound",
                          ![r].snap = IF req[r].kind = "export" THEN db ELSE NULL]
    /\ UNCHANGED <<db, clock, writes, walk>>

End(r, result) ==
    /\ req' = [req EXCEPT ![r] = Idle(r, result)]
    /\ Release(r)
    /\ UNCHANGED <<db, clock, writes, walk>>

\* Once the headers of a download are out, an error can only cut it short.
Failed(r) == IF req[r].began THEN "truncated" ELSE "error"

\* The statement timed out, the connection broke, or the client went away.
Fail(r) ==
    /\ req[r].pc # "done"
    /\ End(r, Failed(r))

\* The work is to be run again from the start.  A page is made anew; the rows
\* of a download that are sent stay sent, and stay counted.
Again(q) ==
    [q EXCEPT !.pc = "acquire", !.attempt = @ + 1, !.snap = NULL, !.actor = NULL,
              !.out = IF q.kind = "export" THEN @ ELSE <<>>, !.left = <<>>, !.next = NULL,
              !.resent = @ \/ (q.kind = "export" /\ q.out # <<>>)]

\* Seeded fault: a retry that does not give its connection back first.
RetryHoldingOn(r) ==
    /\ req[r].pc \notin {"done", "acquire"}
    /\ IF req[r].attempt < MaxSerializationRetries
       THEN /\ req' = [req EXCEPT ![r] = Again(req[r])]
            /\ UNCHANGED <<db, clock, writes, conns, walk>>
       ELSE End(r, Failed(r))

\* A statement or the COMMIT reports a deadlock or a serialization failure.
RetryableFailure(r) ==
    /\ req[r].pc \notin {"done", "acquire"}
    /\ IF req[r].attempt < MaxSerializationRetries
       THEN /\ req' = [req EXCEPT ![r] = Again(req[r])]
            /\ Release(r)
            /\ UNCHANGED <<db, clock, writes, walk>>
       ELSE End(r, Failed(r))

\* Seeded fault: every statement of a READ COMMITTED transaction sees the present.
ReadCommitted(r) == db

View(r) == IF req[r].kind = "export" THEN req[r].snap ELSE db

ResolveActor(r) ==
    /\ req[r].pc = "bound"
    /\ req[r].kind # "sweep"
    /\ LET actor == View(r).member[req[r].member]
       IN  IF Active(actor)
           THEN /\ req' = [req EXCEPT ![r].pc = "resolved", ![r].actor = actor]
                /\ UNCHANGED <<db, clock, writes, conns, walk>>
           ELSE End(r, Failed(r))

SweepWork(r) ==
    /\ req[r].pc = "bound"
    /\ req[r].kind = "sweep"
    /\ req' = [req EXCEPT ![r].pc = "commit"]
    /\ UNCHANGED <<db, clock, writes, conns, walk>>

SettingOf(r) == Setting(conns[CHOOSE k \in Conn : HeldBy(k, r)])

Page(r, page) ==
    /\ req' = [req EXCEPT ![r].pc = "commit", ![r].out = page.items, ![r].next = page.next]
    /\ UNCHANGED <<db, clock, writes, conns, walk>>

List(r) ==
    /\ req[r].pc = "resolved"
    /\ req[r].kind = "list"
    /\ LET f == narrowToScope(req[r].actor, [dept |-> req[r].dept, submitter |-> NULL])
       IN  Page(r, NewPage(ListExpenses(TenantOf[req[r].member], SettingOf(r), View(r), f,
                                        walk[r].cursor, PageSize + 1)))

PendingQueue(r) ==
    /\ req[r].pc = "resolved"
    /\ req[r].kind = "queue"
    /\ IF Can(req[r].actor, "ExpenseApprove")
       THEN Page(r, NewPage(ListPendingForApproval(
                        TenantOf[req[r].member], SettingOf(r), View(r), req[r].actor.dept,
                        walk[r].cursor, PageSize + 1)))
       ELSE End(r, Failed(r))

\* Everything that can be refused with a status is refused here; then the
\* headers go out.
OpenReport(r) ==
    /\ req[r].pc = "resolved"
    /\ req[r].kind = "export"
    /\ IF MayExport(req[r].actor)
       THEN /\ req' = [req EXCEPT ![r].pc = "opened", ![r].began = TRUE]
            /\ UNCHANGED <<db, clock, writes, conns, walk>>
       ELSE End(r, Failed(r))

StreamForExport(r) ==
    /\ req[r].pc = "opened"
    /\ LET f == narrow(req[r].actor, [dept |-> req[r].dept, submitter |-> NULL])
       IN  req' = [req EXCEPT ![r].pc = "streaming",
                      ![r].left = exportQuery(TenantOf[req[r].member], SettingOf(r), View(r), f)]
    /\ UNCHANGED <<db, clock, writes, conns, walk>>

ExportRows(r) == View(r).exportRows[TenantOf[req[r].member]]

\* One row: ErrExportTooLarge, or on to the socket with it.
StreamRow(r) ==
    /\ req[r].pc = "streaming"
    /\ req[r].left # <<>>
    /\ IF ExportRows(r) # NoLimit /\ Len(req[r].out) >= ExportRows(r)
       THEN End(r, "truncated")
       ELSE /\ req' = [req EXCEPT ![r].out = Append(@, Head(req[r].left)), ![r].left = Tail(@)]
            /\ UNCHANGED <<db, clock, writes, conns, walk>>

CloseReport(r) ==
    /\ req[r].pc = "streaming"
    /\ req[r].left = <<>>
    /\ req' = [req EXCEPT ![r].pc = "commit"]
    /\ UNCHANGED <<db, clock, writes, conns, walk>>

\* The client has the page, and the cursor of the next one if there is one.
Received(w, r) ==
    LET page == Range(req[r].out)
    IN  [w EXCEPT !.seen = @ \cup page, !.again = @ \cup (page \cap w.seen),
                  !.cursor = req[r].next, !.done = req[r].next = NULL]

Commit(r) ==
    /\ req[r].pc = "commit"
    /\ req' = [req EXCEPT ![r] = Idle(r, "ok")]
    /\ Release(r)
    /\ walk' = IF req[r].kind \in {"list", "queue"}
               THEN [walk EXCEPT ![r] = Received(@, r)] ELSE walk
    /\ UNCHANGED <<db, clock, writes>>

-----------------------------------------------------------------------------
(* What other requests commit meanwhile. *)

Write(d) ==
    /\ writes < MaxWrites
    /\ writes' = writes + 1
    /\ db' = d
    /\ walk' = [r \in Request |->
                    [walk[r] EXCEPT !.steady =
                        @ \cap Scope(walk[r].kind, walk[r].member, walk[r].dept, d)]]
    /\ UNCHANGED <<clock, conns, req>>

Create(c) == db.status[c] = "none" /\ Write([db EXCEPT !.status[c] = "draft"])

Submit(c) ==
    /\ db.status[c] = "draft"
    /\ Write([db EXCEPT !.status[c] = "pending_approval", !.submitted[c] = clock])

Withdraw(c) ==
    /\ db.status[c] = "pending_approval"
    /\ Write([db EXCEPT !.status[c] = "draft", !.submitted[c] = 0])

Approve(c) ==
    db.status[c] = "pending_approval" /\ Write([db EXCEPT !.status[c] = "approved"])

Discard(c) == db.status[c] = "draft" /\ Write([db EXCEPT !.status[c] = "deleted"])

UpdateMember(m) ==
    \E a \in Reassigned \ {db.member[m]} : a.id = m /\ Write([db EXCEPT !.member[m] = a])

PlanChanges(t) ==
    \E n \in ExportLimits \ {db.exportRows[t]} : Write([db EXCEPT !.exportRows[t] = n])

Tick ==
    /\ clock < MaxClock
    /\ clock' = clock + 1
    /\ UNCHANGED <<db, writes, conns, req, walk>>

-----------------------------------------------------------------------------
Ask(r) == AskFirstPage(r) \/ AskNextPage(r) \/ AskExport(r) \/ Sweep(r)

Work(r) ==
    \/ bindSession(r) \/ ResolveActor(r) \/ SweepWork(r) \/ List(r) \/ PendingQueue(r)
    \/ OpenReport(r) \/ StreamForExport(r) \/ StreamRow(r) \/ CloseReport(r) \/ Commit(r)
    \/ RetryableFailure(r) \/ Fail(r)

OtherRequests ==
    \/ \E c \in Claim : Create(c) \/ Submit(c) \/ Withdraw(c) \/ Approve(c) \/ Discard(c)
    \/ \E m \in Member : UpdateMember(m)
    \/ \E t \in Tenant : PlanChanges(t)

Next ==
    \/ \E r \in Request : Ask(r) \/ Acquire(r) \/ Work(r)
    \/ OtherRequests
    \/ Tick

Spec == Init /\ [][Next]_vars

-----------------------------------------------------------------------------
(* Properties. *)

\* The state has its type, a connection serves one request at a time, and a
\* request has a connection exactly while it is between Acquire and Release.
ReadsTypeOK ==
    /\ db \in Tables
    /\ clock \in 0 .. MaxClock
    /\ writes \in 0 .. MaxWrites
    /\ conns \in [Conn -> [tx : Request \cup {NULL}, local : Settings, session : Settings]]
    /\ req \in [Request -> Reqs]
    /\ walk \in [Request -> Walks]
    /\ \A r \in Request :
        Cardinality({k \in Conn : HeldBy(k, r)}) =
            IF req[r].pc \in {"done", "acquire"} THEN 0 ELSE 1

\* What assertBindingCleared checks: a connection in the pool carries nothing
\* of the tenant it served last, however the transaction ended; and one that
\* runs a request's statements is bound to that request's tenant, with
\* app.system on for a worker's sweep only.
PooledIsUnbound ==
    \A k \in Conn :
        /\ conns[k].tx = NULL => Setting(conns[k]) = Unset
        /\ \A r \in Request :
            HeldBy(k, r) => Setting(conns[k]) = IF req[r].pc = "begun" THEN Unset ELSE Binding(r)

\* Cursor's promise for the claim list: whatever is filed, withdrawn, approved
\* or deleted between two pages, whoever changes role, and whichever pages have
\* to be asked for again, no claim comes twice, and a walk that has ended has
\* returned every claim that was in scope from its start.  The queue keeps the
\* second half of it.
WalkIsExact ==
    \A r \in Request :
        /\ walk[r].kind = "list" => walk[r].again = {}
        /\ walk[r].done => walk[r].steady \subseteq walk[r].seen

\* narrowToScope and canRead agree: a page holds only claims of the caller's
\* tenant that the same caller could open one by one, whatever department the
\* request asked for.
ListedIsReadable ==
    \A r \in Request :
        req[r].kind \in {"list", "queue"} /\ req[r].pc = "commit" =>
            \A k \in Range(req[r].out) :
                canRead(req[r].actor, k[2]) /\ ClaimTenant(k[2]) = TenantOf[req[r].member]

\* A download that ended well is the whole report as of one instant: the caller
\* could export then, and the file has every claim the tenant had then in the
\* department the caller could see, once, in order, within the plan's limit of
\* then.  Anything less is a download the client sees cut short.  The one gap
\* is a transaction run again after rows were sent (runTx does not know): the
\* rows of the second run follow those of the first.
CompleteFileIsOneInstant ==
    \A r \in Request :
        req[r].kind = "export" /\ req[r].pc = "commit" /\ ~req[r].resent =>
            LET then == req[r].snap
                t == TenantOf[req[r].member]
                actor == then.member[req[r].member]
                dept == IF Can(actor, "ExpenseReadAll") THEN req[r].dept ELSE actor.dept
                file == req[r].out
            IN  /\ MayExport(actor)
                /\ {file[i][2] : i \in DOMAIN file} =
                        {c \in Rows(then) : ClaimTenant(c) = t /\ dept \in {NULL, Filed[c].dept}}
                /\ \A i, j \in DOMAIN file : i < j => Less(file[i], file[j])
                /\ then.exportRows[t] # NoLimit => Len(file) <= then.exportRows[t]

\* "resumes exactly where the previous page stopped" (page.go), said of the
\* approval queue: a claim submitted once is not returned on two pages.
QueueNeverRepeats == \A r \in Request : walk[r].kind = "queue" => walk[r].again = {}

-----------------------------------------------------------------------------
(* The inductive invariant behind the properties: who holds which connection, *)
(* and what a request has in hand at each of its steps.                       *)

Running(q) == q.pc \notin {"done", "acquire"}

ConnsOK ==
    /\ \A r \in Request : Running(req[r]) => \E k \in Conn : HeldBy(k, r)
    /\ \A r \in Request, k \in Conn : HeldBy(k, r) =>
          /\ Running(req[r])
          /\ conns[k].local = IF req[r].pc = "begun" THEN Unset ELSE Binding(r)
          /\ \A l \in Conn : HeldBy(l, r) => l = k
    /\ \A k \in Conn :
          /\ conns[k].session = Unset
          /\ conns[k].tx = NULL => conns[k].local = Unset

Asking(q) == [dept |-> q.dept, submitter |-> NULL]

Resolved(q) == q.pc \in {"resolved", "opened", "streaming", "commit"} /\ q.kind # "sweep"

RequestOK(q) ==
    /\ Resolved(q) => q.actor \in Actors /\ Active(q.actor)
    /\ q.pc \in {"opened", "streaming"} => q.kind = "export"
    /\ q.pc \notin {"streaming", "commit"} => q.left = <<>> /\ (~q.resent => q.out = <<>>)

\* What is sent and what is still to come make up the query's result on the
\* snapshot.
ReportOK(q) ==
    q.kind = "export" =>
        /\ Running(q) /\ q.pc # "begun" => q.snap \in Tables
        /\ Resolved(q) => q.actor = q.snap.member[q.member]
        /\ q.pc \in {"opened", "streaming", "commit"} => MayExport(q.actor)
        /\ q.pc \in {"streaming", "commit"} /\ ~q.resent =>
              /\ q.out \o q.left =
                    exportQuery(TenantOf[q.member], TenantBinding(q.member), q.snap,
                                narrow(q.actor, Asking(q)))
              /\ LET limit == q.snap.exportRows[TenantOf[q.member]]
                 IN  limit # NoLimit => Len(q.out) <= limit
        /\ q.pc = "commit" => q.left = <<>>

\* The rows after a cursor, in the order of the listing.
Ahead(kind, cursor, k) ==
    cursor = NULL \/ IF kind = "list" THEN Less(k, cursor) ELSE Less(cursor, k)

\* What has been in scope all the time is behind the cursor and seen, or ahead
\* of it; on the list, what has been seen is behind it.
WalkOK(w, d) ==
    /\ w.steady \subseteq Scope(w.kind, w.member, w.dept, d)
    /\ \A k \in w.steady : k \in w.seen \/ (~w.done /\ Ahead(w.kind, w.cursor, k))
    /\ w.kind = "list" =>
          /\ w.again = {}
          /\ ~w.done => \A k \in w.seen : w.cursor # NULL /\ ~Less(k, w.cursor)

\* What the actor of a query may be shown, be it read a while ago.
InView(q, c) ==
    IF q.kind = "list" THEN Matches(narrowToScope(q.actor, Asking(q)), c)
    ELSE q.actor.dept \in {NULL, Filed[c].dept}

\* The page fits in between what has been seen and what is to come.
PageOK(q, w) ==
    q.pc # "done" /\ q.kind \in {"list", "queue"} =>
        /\ w.kind = q.kind /\ w.member = q.member /\ w.dept = q.dept /\ ~w.done
        /\ q.pc = "resolved" => \A k \in w.steady : InView(q, k[2])
        /\ q.pc = "commit" =>
              /\ \A k \in w.steady :
                    \/ k \in w.seen \cup Range(q.out)
                    \/ q.next # NULL /\ Ahead(q.kind, q.next, k)
              /\ q.kind = "list" =>
                    /\ \A k \in Range(q.out) : Ahead("list", w.cursor, k)
                    /\ q.next # NULL =>
                          /\ Ahead("list", w.cursor, q.next)
                          /\ \A k \in Range(q.out) : ~Less(k, q.next)

ReadsInv ==
    /\ ReadsTypeOK
    /\ ConnsOK
    /\ ListedIsReadable
    /\ \A r \in Request :
        /\ RequestOK(req[r]) /\ ReportOK(req[r])
        /\ WalkOK(walk[r], db) /\ PageOK(req[r], walk[r])
=============================================================================
