--------------------------- MODULE Notifications ---------------------------
(***************************************************************************)
(* From a committed decision to the message about it.  The API commits a   *)
(* transition and then enqueues, in a second system, one task to tell      *)
(* people and, when the claim counts against a budget, one to check the    *)
(* envelope.  A task has an id made of what it is about, and an enqueue    *)
(* whose id exists in any state is dropped.  A worker runs the task: it    *)
(* reads the database in one transaction and sends after it.               *)
(*                                                                         *)
(*   expense_service.go   Decide, Commit, OtherApproval (Transition), and  *)
(*                        Enqueue, EnqueueFails, Crash (notify); Discard   *)
(*   worker/tasks.go      the ids and options, isDuplicate                 *)
(*   worker/handlers.go   buildExpenseEvent, Read, Skip, Finish,           *)
(*                        AttemptFails                                     *)
(*   queries/tenancy.sql  ListApprovers, ListFinance                       *)
(*   budget_repo.go       Consumed, BreachesThreshold                      *)
(*                                                                         *)
(* One claim is followed through its states; the other claims appear when  *)
(* they are approved.  Every claim costs one unit.  No code deletes a      *)
(* user, and the memberships do not change while the claim is followed.    *)
(***************************************************************************)
EXTENDS StateMachine, FiniteSets

CONSTANTS
    Move,           \* the transitions that are taken
    Team,           \* Team[m]: the membership m
    Submitter,      \* who filed the claim
    ClaimDept,      \* the claim's department, or NULL
    Elsewhere,      \* departments (or NULL) where other claims are approved
    BudgetMinor,    \* BudgetMinor[e]: the envelope e; NULL is the tenant-wide one
    ThresholdBps,   \* ThresholdBps[e]: its alert_threshold_bps
    Request,        \* API requests in flight at once
    MaxRetry,       \* 5 and 3 in the code
    MaxCommits,     \* bound: commits
    MaxLost         \* bound: enqueues lost with their request

Envelope == Department \cup {NULL}

\* The departments claims are approved in.
Spending == Elsewhere \cup {ClaimDept}

Id == ({"transition"} \X Move) \cup ({"budget"} \X Spending)

ASSUME NotificationsAssumption ==
    /\ Move \subseteq Actions
    /\ Team \in [Member -> Actors] /\ Submitter \in Member
    /\ ClaimDept \in Envelope /\ Elsewhere \subseteq Envelope
    /\ MaxRetry \in Nat /\ MaxCommits \in Nat /\ MaxLost \in Nat

ASSUME BudgetAssumption ==
    BudgetMinor \in [Envelope -> Nat \ {0}] /\ ThresholdBps \in [Envelope -> 1 .. 10000]

VARIABLES
    status,   \* the claim's status, or "deleted"
    others,   \* others[e]: approved claims other than it, by department
    clock,    \* commits so far
    req,      \* what each API request is doing
    task,     \* task[id]: the queue
    owed,     \* history: owed[id], the clock of the last commit that calls for id
              \*   and that no finished task for id has read; 0 when there is none
    alerted,  \* history: the envelopes an alert went out about
    missed,   \* history: the ids a call for which came to nothing
    lost      \* history: enqueues lost with their request

vars == <<status, others, clock, req, task, owed, alerted, missed, lost>>
dbVars == <<status, others, clock>>

NoTask == [state |-> "none", retried |-> 0, since |-> 0, read |-> NULL, found |-> {},
           to |-> {}]

Idle == [pc |-> "idle", action |-> NULL, at |-> 0, todo |-> <<>>]

Init ==
    /\ status = "draft"
    /\ others = [e \in Envelope |-> 0]
    /\ clock = 0
    /\ req = [r \in Request |-> Idle]
    /\ task = [id \in Id |-> NoTask]
    /\ owed = [id \in Id |-> 0]
    /\ alerted = {} /\ missed = {} /\ lost = 0

Deciding == {r \in Request : req[r].pc = "deciding"}

-----------------------------------------------------------------------------
(* Budgets.                                                                *)

CountsAgainstBudget(s) == s \in {"approved", "paid"}

\* The claims that count, by department; the one followed has number 0.
Counting ==
    {c \in Envelope \X (0 .. MaxCommits) :
        \/ c[2] > 0 /\ c[2] <= others[c[1]]
        \/ c = <<ClaimDept, 0>> /\ CountsAgainstBudget(status)}

\* BudgetConsumption: a tenant-wide envelope counts every department.
Consumed(e) == Cardinality({c \in Counting : e = NULL \/ c[1] = e})

UsageBps(e) ==
    IF BudgetMinor[e] = 0 THEN 0 ELSE (Consumed(e) * 10000) \div BudgetMinor[e]

\* Seeded fault: reaching the line is not crossing it.
BreachesStrictly(e) == UsageBps(e) > ThresholdBps[e]

BreachesThreshold(e) == UsageBps(e) >= ThresholdBps[e]

\* The envelopes HandleBudgetThreshold finds for a task of department d: a
\* task with a department looks at that department's only.
Found(d) ==
    {e \in Envelope : (d # NULL => e = d) /\ BreachesThreshold(e)}

-----------------------------------------------------------------------------
(* Recipients.                                                             *)

\* Seeded fault: only the approvers of the claim's own department are listed.
ListOwnApprovers(dept) ==
    {m \in Member : /\ Active(Team[m]) /\ Team[m].role \in {"owner", "admin", "manager"}
                    /\ Team[m].dept = dept}

ListApprovers(dept) ==
    {m \in Member : /\ Active(Team[m]) /\ Team[m].role \in {"owner", "admin", "manager"}
                    /\ Team[m].dept = NULL \/ dept = NULL \/ Team[m].dept = dept}

ListFinance == {m \in Member : Active(Team[m]) /\ Team[m].role \in {"owner", "finance"}}

\* buildExpenseEvent: a submission is told to those who decide, a decision to
\* the submitter, and nobody hears of a revision.
ToTell(a) ==
    CASE a \in {"submit", "withdraw"}       -> ListApprovers(ClaimDept) \ {Submitter}
      [] a \in {"approve", "reject", "pay"} -> {Submitter}
      [] a = "revise"                       -> {}

-----------------------------------------------------------------------------
(* The API.                                                                *)

\* Seeded fault: Transition enqueues inside its transaction.
DecideAndEnqueue(r, a) ==
    /\ req[r].pc = "idle" /\ Deciding = {}
    /\ a \in Move /\ status = From[a]
    /\ clock < MaxCommits
    /\ req' = [req EXCEPT ![r] = [Idle EXCEPT !.pc = "deciding", !.action = a]]
    /\ task' = [task EXCEPT ![<<"transition", a>>] =
            IF @.state = "none" THEN [NoTask EXCEPT !.state = "pending", !.since = clock + 1] ELSE @]
    /\ UNCHANGED <<dbVars, owed, alerted, missed, lost>>

\* Transition up to its commit: the row is locked and the machine allows a.
Decide(r, a) ==
    /\ req[r].pc = "idle" /\ Deciding = {}
    /\ a \in Move /\ status = From[a]
    /\ clock < MaxCommits
    /\ req' = [req EXCEPT ![r] = [Idle EXCEPT !.pc = "deciding", !.action = a]]
    /\ UNCHANGED <<dbVars, task, owed, alerted, missed, lost>>

\* What notify enqueues after a transition of the claim to s.
ToEnqueue(a, s) ==
    IF CountsAgainstBudget(s)
    THEN <<<<"transition", a>>, <<"budget", ClaimDept>>>>
    ELSE <<<<"transition", a>>>>

Owe(ids) == owed' = [id \in Id |-> IF id \in ids THEN clock + 1 ELSE owed[id]]

Commit(r) ==
    LET a == req[r].action
        todo == ToEnqueue(a, To[a])
    IN  /\ req[r].pc = "deciding"
        /\ status' = To[a] /\ clock' = clock + 1
        /\ Owe({todo[i] : i \in DOMAIN todo})
        /\ req' = [req EXCEPT ![r] =
                [Idle EXCEPT !.pc = "notifying", !.at = clock + 1, !.todo = todo]]
        /\ UNCHANGED <<others, task, alerted, missed, lost>>

\* The same for the approval of another claim of department d.
OtherApproval(r, d) ==
    /\ req[r].pc = "idle"
    /\ clock + Cardinality(Deciding) < MaxCommits
    /\ others' = [others EXCEPT ![d] = @ + 1] /\ clock' = clock + 1
    /\ Owe({<<"budget", d>>})
    /\ req' = [req EXCEPT ![r] =
            [Idle EXCEPT !.pc = "notifying", !.at = clock + 1, !.todo = <<<<"budget", d>>>>]]
    /\ UNCHANGED <<status, task, alerted, missed, lost>>

\* ExpenseService.Delete discards a draft nobody is deciding on.  It enqueues
\* nothing, and takes nothing back that is queued.
Discard ==
    /\ status = "draft" /\ Deciding = {}
    /\ status' = "deleted"
    /\ UNCHANGED <<others, clock, req, task, owed, alerted, missed, lost>>

Rest(r) ==
    LET todo == req[r].todo
    IN  req' = [req EXCEPT ![r] =
            IF Len(todo) = 1 THEN Idle ELSE [req[r] EXCEPT !.todo = Tail(todo)]]

\* Will the task read the database yet?
StillToRead(t) == t.state = "pending" \/ (t.state = "active" /\ t.read = NULL)

\* NotifyExpenseTransition and CheckBudgetThreshold: a conflicting id counts
\* as success (isDuplicate).
Enqueue(r) ==
    LET id == Head(req[r].todo)
    IN  /\ req[r].pc = "notifying"
        /\ IF task[id].state = "none"
           THEN /\ task' = [task EXCEPT ![id] =
                        [NoTask EXCEPT !.state = "pending", !.since = req[r].at]]
                /\ UNCHANGED missed
           ELSE /\ missed' = IF StillToRead(task[id]) THEN missed ELSE missed \cup {id}
                /\ UNCHANGED task
        /\ Rest(r)
        /\ UNCHANGED <<dbVars, owed, alerted, lost>>

\* The queue is unreachable: notify ignores the error.
EnqueueFails(r) ==
    /\ req[r].pc = "notifying" /\ lost < MaxLost
    /\ missed' = missed \cup {Head(req[r].todo)}
    /\ lost' = lost + 1
    /\ Rest(r)
    /\ UNCHANGED <<dbVars, task, owed, alerted>>

\* The process dies: before the commit nothing happened, after it what was
\* still to enqueue is gone.
Crash(r) ==
    /\ req[r].pc # "idle" /\ lost < MaxLost
    /\ missed' = missed \cup {req[r].todo[i] : i \in DOMAIN req[r].todo}
    /\ lost' = lost + 1
    /\ req' = [req EXCEPT ![r] = Idle]
    /\ UNCHANGED <<dbVars, task, owed, alerted>>

-----------------------------------------------------------------------------
(* The worker.                                                             *)

\* A task becomes due and a worker takes it.
Start(id) ==
    /\ task[id].state = "pending"
    /\ task' = [task EXCEPT ![id].state = "active"]
    /\ UNCHANGED <<dbVars, req, owed, alerted, missed, lost>>

\* The handler's read-only transaction.  Finance is looked up only when an
\* envelope has reached its line.
Read(id) ==
    LET found == IF id[1] = "budget" THEN Found(id[2]) ELSE {}
        to == IF id[1] = "transition" THEN ToTell(id[2])
              ELSE IF found = {} THEN {} ELSE ListFinance
    IN  /\ task[id].state = "active" /\ task[id].read = NULL
        /\ id[1] = "transition" => status # "deleted"
        /\ task' = [task EXCEPT ![id].read = clock, ![id].found = found, ![id].to = to]
        /\ UNCHANGED <<dbVars, req, owed, alerted, missed, lost>>

\* HandleExpenseTransition finds the claim gone (errSkip) and returns nil: the
\* task counts as done, and nobody is told.
Skip(id) ==
    /\ task[id].state = "active" /\ task[id].read = NULL
    /\ id[1] = "transition" /\ status = "deleted"
    /\ task' = [task EXCEPT ![id] = [NoTask EXCEPT !.state = "completed"]]
    /\ missed' = missed \cup {id}
    /\ UNCHANGED <<dbVars, req, owed, alerted, lost>>

\* The alerts of a task: none without somebody to tell.
Alerts(id) == IF task[id].to = {} THEN {} ELSE task[id].found

\* The messages go out and the handler returns nil.  A transition task is
\* kept for its retention, a budget task is not.
Finish(id) ==
    /\ task[id].state = "active" /\ task[id].read # NULL
    /\ alerted' = alerted \cup Alerts(id)
    /\ owed' = [owed EXCEPT ![id] = IF task[id].read >= @ THEN 0 ELSE @]
    /\ task' = [task EXCEPT ![id] =
            IF id[1] = "transition" THEN [NoTask EXCEPT !.state = "completed"] ELSE NoTask]
    /\ UNCHANGED <<dbVars, req, missed, lost>>

\* Seeded fault: a retry does not count as one.
RetryForever(n) == n

Retried(n) == n + 1

\* Seeded fault: the handler logs the error and returns nil.
ForgetAttempt(id) ==
    /\ task[id].state = "active"
    /\ alerted' = alerted
    /\ task' = [task EXCEPT ![id] = NoTask]
    /\ UNCHANGED <<dbVars, req, owed, missed, lost>>

\* Seeded fault: one retry too many.
OneMoreRetry(id) ==
    /\ task[id].state = "active" /\ task[id].retried <= MaxRetry
    /\ task' = [task EXCEPT ![id] =
            [@ EXCEPT !.state = "pending", !.retried = Retried(@), !.read = NULL, !.found = {},
                      !.to = {}]]
    /\ UNCHANGED <<dbVars, req, owed, alerted, missed, lost>>

\* The handler returns an error or its worker dies, perhaps after some of the
\* alerts went out: the task is retried, or archived when it has no retries
\* left.
AttemptFails(id) ==
    /\ task[id].state = "active"
    /\ \E sent \in SUBSET Alerts(id) : alerted' = alerted \cup sent
    /\ IF task[id].retried < MaxRetry
       THEN /\ task' = [task EXCEPT ![id] =
                    [task[id] EXCEPT !.state = "pending", !.retried = Retried(task[id].retried),
                                     !.read = NULL, !.found = {}, !.to = {}]]
            /\ UNCHANGED missed
       ELSE /\ task' = [task EXCEPT ![id] = [NoTask EXCEPT !.state = "archived"]]
            /\ missed' = missed \cup {id}
    /\ UNCHANGED <<dbVars, req, owed, lost>>

RetentionEnds(id) ==
    /\ task[id].state = "completed"
    /\ task' = [task EXCEPT ![id] = NoTask]
    /\ UNCHANGED <<dbVars, req, owed, alerted, missed, lost>>

ApiStep(r) ==
    \/ \E a \in Move : Decide(r, a)
    \/ Commit(r)
    \/ \E d \in Elsewhere : OtherApproval(r, d)
    \/ Enqueue(r) \/ EnqueueFails(r) \/ Crash(r)

WorkerStep(id) == Start(id) \/ Read(id) \/ Skip(id) \/ Finish(id) \/ AttemptFails(id)

Next ==
    \/ \E r \in Request : ApiStep(r)
    \/ Discard
    \/ \E id \in Id : WorkerStep(id) \/ RetentionEnds(id)

\* A request that has committed goes on to enqueue unless its process dies,
\* workers draw pending tasks from every queue, and an attempt ends, by its
\* timeout if need be.
Fairness ==
    /\ \A r \in Request : WF_vars(Commit(r) \/ Enqueue(r) \/ EnqueueFails(r) \/ Crash(r))
    /\ \A id \in Id : WF_vars(WorkerStep(id))

Spec == Init /\ [][Next]_vars /\ Fairness

-----------------------------------------------------------------------------
\* Every variable has its type; a task is retried at most MaxRetry times.
NotificationsTypeOK ==
    /\ status \in Statuses \cup {"deleted"} /\ clock \in 0 .. MaxCommits
    /\ others \in [Envelope -> 0 .. MaxCommits]
    /\ \A r \in Request :
          /\ req[r].pc \in {"idle", "deciding", "notifying"}
          /\ req[r].pc = "notifying" <=> req[r].todo # <<>>
    /\ \A id \in Id :
          /\ task[id].state \in {"none", "pending", "active", "completed", "archived"}
          /\ task[id].retried \in 0 .. MaxRetry
          /\ task[id].found \subseteq Envelope /\ task[id].to \subseteq Member
    /\ alerted \subseteq Envelope /\ missed \subseteq Id

\* A worker never loads "a claim in its previous state"
\* (expense_service.go:181-182): what it reads includes the commit its task
\* was enqueued for.
WorkersSeeTheTransition ==
    \A id \in Id : task[id].read # NULL => task[id].read >= task[id].since

\* Who may approve the claim, its amount aside (checkGuards).
MayDecide(m) ==
    /\ Can(Team[m], "ExpenseApprove") /\ GovernsDepartment(Team[m], ClaimDept)
    /\ m # Submitter

\* The recipients query and the state machine's guards, two statements of the
\* same rule, agree: whoever may decide on a submitted claim is told of it, and
\* for a claim of a department "a manager scoped elsewhere is deliberately
\* excluded" (ListApprovers).
DecidersAreTold ==
    LET id == <<"transition", "submit">>
        deciders == {m \in Member : MayDecide(m)}
    IN  id \in Id /\ task[id].read # NULL =>
            /\ deciders \subseteq task[id].to
            /\ ClaimDept # NULL => task[id].to \subseteq deciders

Unenqueued(id) == \E r \in Request : \E i \in DOMAIN req[r].todo : req[r].todo[i] = id

\* When nothing is queued, running or about to be enqueued for an id, the last
\* commit that called for it has been told, unless a call was missed: lost with
\* its request, dropped because a task with the same id had already read or was
\* kept, out of retries, or about a claim that was discarded before a worker
\* read it.  An id dropped for a task that has yet to read costs nothing
\* (tasks.go:117-121, 144-146).
NothingForgotten ==
    \A id \in Id :
        task[id].state \in {"none", "completed", "archived"} /\ ~Unenqueued(id) =>
            owed[id] = 0 \/ id \in missed

\* The envelope has reached its line, in exact arithmetic.
Reached(e) == clock > 0 /\ Consumed(e) * 10000 >= ThresholdBps[e] * BudgetMinor[e]

\* A department whose spending reaches the line is alerted about, unless a
\* check of it was missed.  The tenant-wide envelope has no such promise: the
\* check after a department's claim skips it (handlers.go:259).
BreachIsAlerted ==
    \A d \in Spending \ {NULL} : Reached(d) ~> (d \in alerted \/ <<"budget", d>> \in missed)

\* No task is at work for ever: retries are bounded and nothing stays active,
\* so the id comes free, or its task is archived.
TasksEnd ==
    \A id \in Id : []<>(task[id].state \in {"none", "completed", "archived"})

-----------------------------------------------------------------------------
(* The inductive invariant of NotificationsProofs.                         *)

Reqs ==
    [pc : {"idle", "deciding", "notifying"}, action : Move \cup {NULL}, at : Nat,
     todo : Seq(Id)]

Tasks ==
    [state : {"none", "pending", "active", "completed", "archived"}, retried : 0 .. MaxRetry,
     since : Nat, read : Nat \cup {NULL}, found : SUBSET Envelope, to : SUBSET Member]

\* Enqueued calls lie in the past, and so does what a task was enqueued for;
\* one decision on the claim is under way at most, and has its commit left.
RequestOK(r) ==
    /\ req[r].at <= clock
    /\ req[r].pc = "notifying" <=> req[r].todo # <<>>
    /\ req[r].pc = "deciding" =>
          req[r].action \in Move /\ clock < MaxCommits /\ \A s \in Deciding : s = r

\* What a task has read is no older than what it was enqueued for, and who it
\* is for is who the query found.
TaskOK(id) ==
    /\ task[id].since <= clock
    /\ task[id].read # NULL =>
          /\ task[id].state = "active" /\ task[id].read >= task[id].since
          /\ id[1] = "transition" => task[id].to = ToTell(id[2])

\* A commit that nobody has been told of, and that was not missed, is still to
\* be enqueued, or to be read by a task, or has been read by one.
Accounted(id) ==
    \/ owed[id] = 0 \/ id \in missed \/ Unenqueued(id)
    \/ StillToRead(task[id])
    \/ task[id].state = "active" /\ task[id].read # NULL /\ task[id].read >= owed[id]

NotificationsInv ==
    /\ status \in Statuses \cup {"deleted"} /\ clock \in 0 .. MaxCommits
    /\ others \in [Envelope -> Nat] /\ \A e \in Envelope : others[e] <= clock
    /\ req \in [Request -> Reqs] /\ task \in [Id -> Tasks] /\ owed \in [Id -> Nat]
    /\ alerted \subseteq Envelope /\ missed \subseteq Id
    /\ \A r \in Request : RequestOK(r)
    /\ \A id \in Id : TaskOK(id) /\ Accounted(id) /\ owed[id] <= clock
=============================================================================
