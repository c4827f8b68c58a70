------------------------------ MODULE Expenses ------------------------------
(***************************************************************************)
(* The expense service on PostgreSQL at READ COMMITTED: every request is a *)
(* transaction that resolves its actor, locks the claim with FOR UPDATE    *)
(* NOWAIT, applies the domain rules to the row it read, writes the row and *)
(* its ledger event, and commits.  Between any two of those statements     *)
(* other requests and membership changes commit.                           *)
(*                                                                         *)
(*   scope.go             Begin                                            *)
(*   expense_service.go   Attempts, with Load / Write / Refuse / Abort     *)
(*   expense_repo.go      Load, Write, Commit                              *)
(*   00004_expenses.sql   RowChecks, EventChecks                           *)
(***************************************************************************)
EXTENDS ClaimRecord

CONSTANTS
    Tx,                 \* requests that can be in flight at once
    Requests,           \* pairs <<member, operation>> the clients may ask for
    InitialMembers,     \* memberships at the start: Member -> Actors
    MembershipChange,   \* what UpdateMember may set: records [role, status, dept, limit]
    MaxVersion          \* bound: no write takes a row past this version

Ops == Actions \cup {"create", "update", "delete"}

ASSUME ExpensesAssumption ==
    /\ NULL \notin Tx
    /\ MaxVersion \in Nat
    /\ Requests \subseteq Member \X Ops
    /\ InitialMembers \in [Member -> Actors]
    /\ \A m \in Member : InitialMembers[m].id = m
    /\ MembershipChange \subseteq
          [role : Roles, status : MembershipStatuses,
           dept : Department \cup {NULL}, limit : Limit \cup {NULL}]

VARIABLES
    members,   \* members[m]: the committed memberships row
    lockedBy,  \* lockedBy[c]: the transaction holding c's row lock, or NULL
    tx         \* tx[t]: the request t is serving

vars == <<rows, ledger, members, lockedBy, tx>>

\* What one request has in hand.  read is the row it loaded, row and event
\* what it has written but not committed.
TxRecords ==
    [pc : {"idle", "resolved", "loaded", "written"}, op : Ops \cup {NULL},
     actor : Actors \cup {NULL}, claim : Claim \cup {NULL}, read : Rows \cup {NULL},
     row : Rows \cup {NULL, Deleted}, event : Events \cup {NULL}]

Idle == [pc |-> "idle", op |-> NULL, actor |-> NULL, claim |-> NULL,
         read |-> NULL, row |-> NULL, event |-> NULL]

Init ==
    /\ ClaimInit
    /\ members  = InitialMembers
    /\ lockedBy = [c \in Claim |-> NULL]
    /\ tx       = [t \in Tx |-> Idle]

-----------------------------------------------------------------------------
(* The CHECK constraints of 00004_expenses.sql.                            *)

\* expenses_amount_chk, expenses_revision_chk, expenses_version_chk and
\* expenses_status_timestamps_chk.  The two order checks compare readings of
\* the API processes' clocks, which are taken to agree.
RowChecks(e) ==
    /\ e.amount > 0 /\ e.revision >= 1 /\ e.version >= 1
    /\ CASE e.status = "draft" ->
              ~e.submittedAt /\ ~e.decidedAt /\ e.decidedBy = NULL /\ ~e.paidAt
         [] e.status = "pending_approval" ->
              e.submittedAt /\ ~e.decidedAt /\ e.decidedBy = NULL /\ ~e.paidAt
         [] e.status \in {"approved", "rejected"} ->
              e.submittedAt /\ e.decidedAt /\ e.decidedBy # NULL /\ ~e.paidAt
         [] e.status = "paid" ->
              e.submittedAt /\ e.decidedAt /\ e.decidedBy # NULL /\ e.paidAt

\* expense_events_transition_chk: from_status IS DISTINCT FROM to_status.
EventChecks(ev) == ev.from # ev.to

-----------------------------------------------------------------------------
(* One request.                                                            *)

Unlock(t) == [c \in Claim |-> IF lockedBy[c] = t THEN NULL ELSE lockedBy[c]]

\* Roll back: nothing written is kept and the row lock is released.
Rollback(t) ==
    /\ tx' = [tx EXCEPT ![t] = Idle]
    /\ lockedBy' = Unlock(t)
    /\ UNCHANGED <<rows, ledger, members>>

\* Scope.run: open the transaction and resolve the subject's membership; a
\* membership that is not active is refused before any work.  A create names
\* no claim yet.
Begin(t, m, op, c) ==
    /\ tx[t].pc = "idle"
    /\ Active(members[m])
    /\ (op = "create") <=> (c = NULL)
    /\ tx' = [tx EXCEPT ![t] = [pc |-> "resolved", op |-> op, actor |-> members[m],
                                claim |-> c, read |-> NULL, row |-> NULL, event |-> NULL]]
    /\ UNCHANGED <<rows, ledger, members, lockedBy>>

\* ExpenseService.Create: the two INSERTs, under a fresh id that no other
\* transaction knows, once permission and scope hold.
Insert(t, c, dept, amount) ==
    /\ tx[t].pc = "resolved" /\ tx[t].op = "create"
    /\ Can(tx[t].actor, "ExpenseCreate")
    /\ GovernsDepartment(tx[t].actor, dept)
    /\ rows[c] = NULL /\ lockedBy[c] = NULL
    /\ RowChecks(NewClaim(tx[t].actor.id, dept, amount))
    /\ EventChecks(NewEvent(tx[t].actor.id, amount))
    /\ tx' = [tx EXCEPT ![t].pc = "written", ![t].claim = c,
                        ![t].row = NewClaim(tx[t].actor.id, dept, amount),
                        ![t].event = NewEvent(tx[t].actor.id, amount)]
    /\ lockedBy' = [lockedBy EXCEPT ![c] = t]
    /\ UNCHANGED <<rows, ledger, members>>

\* Seeded fault: the load is a SELECT without FOR UPDATE NOWAIT.
PlainSelect(c) == Exists(c) /\ rows[c].version < MaxVersion

\* GetExpenseForUpdate finds the row and no other transaction holds it.
Lockable(c) == Exists(c) /\ lockedBy[c] = NULL /\ rows[c].version < MaxVersion

\* SELECT ... FOR UPDATE NOWAIT.
Load(t) ==
    /\ tx[t].pc = "resolved" /\ tx[t].op # "create"
    /\ Lockable(tx[t].claim)
    /\ tx' = [tx EXCEPT ![t].pc = "loaded", ![t].read = rows[tx[t].claim]]
    /\ lockedBy' = [lockedBy EXCEPT ![tx[t].claim] = t]
    /\ UNCHANGED <<rows, ledger, members>>

\* The row and ledger event a loaded request hands to the repository, one per
\* input it may carry; none when the service or the domain refuses it.
\* Transition applies the state machine, Update edits the draft, Delete
\* discards it.
Attempts(t) ==
    LET e     == tx[t].read
        actor == tx[t].actor
        op    == tx[t].op
    IN  CASE op \in Actions ->
               { [row |-> Moved(e, op, actor), event |-> MoveEvent(e, op, actor)] :
                    text \in {x \in CommandTexts : Applies(e, op, actor, x)} }
          [] op = "update" ->
               { [row |-> Edited(e, dept, amount), event |-> EditEvent(e, actor, amount)] :
                    dept \in Department \cup {NULL},
                    amount \in {x \in Amount : /\ actor.id = e.submitter
                                               /\ Can(actor, "ExpenseCreate")
                                               /\ Editable(e.status)} }
          [] op = "delete" ->
               { [row |-> Deleted, event |-> NULL] :
                    x \in {y \in {e} : /\ actor.id = e.submitter
                                       /\ Can(actor, "ExpenseDeleteOwn")
                                       /\ Editable(e.status)} }

\* The repository's statements, by what they match and what the CHECKs admit.
TransitionExpense(stored, read, row) == stored.version = read.version /\ RowChecks(row)

UpdateExpenseDraft(stored, read, row) ==
    stored.version = read.version /\ stored.status = "draft" /\ RowChecks(row)

DeleteExpenseDraft(stored) == stored.status = "draft"

AppendExpenseEvent(event) == EventChecks(event)

\* Whether they all succeed.
Accepts(t, w) ==
    LET stored == rows[tx[t].claim]
        read   == tx[t].read
    IN  \/ /\ tx[t].op \in Actions
           /\ TransitionExpense(stored, read, w.row) /\ AppendExpenseEvent(w.event)
        \/ /\ tx[t].op = "update"
           /\ UpdateExpenseDraft(stored, read, w.row) /\ AppendExpenseEvent(w.event)
        \/ /\ tx[t].op = "delete"
           /\ DeleteExpenseDraft(stored)

\* Save, UpdateDraft or DeleteDraft.
Write(t) ==
    /\ tx[t].pc = "loaded"
    /\ \E w \in Attempts(t) :
          /\ Accepts(t, w)
          /\ tx' = [tx EXCEPT ![t].pc = "written", ![t].row = w.row, ![t].event = w.event]
    /\ UNCHANGED <<rows, ledger, members, lockedBy>>

\* Seeded fault: the row is committed and its event is not appended.
CommitWithoutEvent(t) ==
    /\ tx[t].pc = "written"
    /\ rows' = [rows EXCEPT ![tx[t].claim] = tx[t].row]
    /\ tx' = [tx EXCEPT ![t] = Idle]
    /\ lockedBy' = Unlock(t)
    /\ UNCHANGED <<ledger, members>>

\* COMMIT publishes the row and its event together; deleting the row cascades
\* to its events.
Commit(t) ==
    /\ tx[t].pc = "written"
    /\ rows' = [rows EXCEPT ![tx[t].claim] = tx[t].row]
    /\ ledger' = [ledger EXCEPT ![tx[t].claim] =
                     IF tx[t].row = Deleted THEN << >> ELSE Append(@, tx[t].event)]
    /\ tx' = [tx EXCEPT ![t] = Idle]
    /\ lockedBy' = Unlock(t)
    /\ UNCHANGED members

\* Seeded fault: a claim that is missing or locked is waited for (NOWAIT and
\* the not-found return dropped).
RefuseUnlessMissing(t) ==
    /\ \/ tx[t].pc = "resolved" /\ tx[t].op = "create"
       \/ tx[t].pc = "loaded"
    /\ Rollback(t)

\* The request is answered with an error: the draft or the command's text
\* does not validate, the actor may not do it, the claim is missing or locked
\* by another transaction, or the database refuses the write.
Refuse(t) ==
    /\ \/ tx[t].pc = "resolved" /\ tx[t].op = "create"
       \/ tx[t].pc = "resolved" /\ tx[t].op # "create" /\ ~Lockable(tx[t].claim)
       \/ tx[t].pc = "loaded" /\ tx[t].op # "delete"
       \/ /\ tx[t].pc = "loaded" /\ tx[t].op = "delete"
          /\ \A w \in Attempts(t) : ~Accepts(t, w)
    /\ Rollback(t)

\* The API process dies, the client disconnects or a timeout fires: at any
\* point before COMMIT.
Abort(t) ==
    /\ tx[t].pc # "idle"
    /\ Rollback(t)

\* Seeded fault: the row is replaced by the request's body, losing its id.
ReplaceMember(m, target, new) ==
    /\ Can(members[m], "MemberManage")
    /\ m # target
    /\ OutranksStrictly(members[m].role, members[target].role)
    /\ OutranksStrictly(members[m].role, new.role)
    /\ members' = [members EXCEPT ![target] = new]
    /\ UNCHANGED <<rows, ledger, lockedBy, tx>>

\* OrgService.UpdateMember: an active member manager other than the target,
\* senior to the target's role and to the role granted.
UpdateMember(m, target, new) ==
    /\ Can(members[m], "MemberManage")
    /\ m # target
    /\ OutranksStrictly(members[m].role, members[target].role)
    /\ OutranksStrictly(members[m].role, new.role)
    /\ members' = [members EXCEPT ![target] =
                      [id |-> target, role |-> new.role, status |-> new.status,
                       dept |-> new.dept, limit |-> new.limit]]
    /\ UNCHANGED <<rows, ledger, lockedBy, tx>>

Progress(t) ==
    \/ \E c \in Claim, dept \in Department \cup {NULL}, amount \in Amount :
          Insert(t, c, dept, amount)
    \/ Load(t)
    \/ Write(t)
    \/ Commit(t)
    \/ Refuse(t)

Next ==
    \/ \E t \in Tx :
          \/ \E r \in Requests, c \in Claim \cup {NULL} : Begin(t, r[1], r[2], c)
          \/ Progress(t)
          \/ Abort(t)
    \/ \E m, target \in Member, new \in MembershipChange : UpdateMember(m, target, new)

Spec == Init /\ [][Next]_vars

\* Fairness: a request in flight keeps executing until it commits or is
\* refused.  Nothing is assumed of new requests, aborts or membership changes.
FairSpec == Spec /\ \A t \in Tx : WF_vars(Progress(t))

-----------------------------------------------------------------------------
\* Every variable has its type.
TypeOK ==
    /\ ClaimTypeOK
    /\ members  \in [Member -> Actors]
    /\ lockedBy \in [Claim -> Tx \cup {NULL}]
    /\ tx       \in [Tx -> TxRecords]

\* A row lock is held exactly by the one request that has loaded or written
\* that row, and while it is held the committed row is still the row the
\* request read: nothing another approver does between the load and the
\* commit can be lost, and no abort leaves a claim locked.
LockProtectsTheRead ==
    /\ \A c \in Claim : lockedBy[c] # NULL =>
          /\ tx[lockedBy[c]].claim = c
          /\ tx[lockedBy[c]].pc \in {"loaded", "written"}
    /\ \A t \in Tx : tx[t].pc \in {"loaded", "written"} =>
          /\ lockedBy[tx[t].claim] = t
          /\ rows[tx[t].claim] = tx[t].read

\* What the state machine commits is what the schema accepts: no transition
\* the domain allows is then refused by a CHECK constraint or by the
\* compare-and-swap (commit's timestamps "match expenses_status_timestamps_chk
\* exactly", and the lock makes a stale write impossible).
TransitionsMeetConstraints ==
    \A t \in Tx : tx[t].pc = "loaded" /\ tx[t].op \in Actions =>
        \A w \in Attempts(t) : Accepts(t, w)

\* A request in flight is answered: NOWAIT never leaves a request waiting for
\* another one's lock.
RequestsEnd == \A t \in Tx : tx[t].pc # "idle" ~> tx[t].pc = "idle"

\* "UpdateDraft persists an edit" (expense_repo.go:186): an edit the domain
\* allows is accepted by the database.
EditPersists ==
    \A t \in Tx : tx[t].pc = "loaded" /\ tx[t].op = "update" =>
        \A w \in Attempts(t) : Accepts(t, w)

-----------------------------------------------------------------------------
(* The inductive invariant behind the properties: what a request has in    *)
(* hand at each of its steps.                                              *)

\* What the request w has written is the result of a legal operation on the
\* row it read.
WriteIsLegal(w) ==
    \/ /\ w.op = "create" /\ w.read = NULL
       /\ Can(w.actor, "ExpenseCreate")
       /\ \E dept \in Department \cup {NULL}, amount \in Amount :
             /\ GovernsDepartment(w.actor, dept)
             /\ w.row = NewClaim(w.actor.id, dept, amount)
             /\ w.event = NewEvent(w.actor.id, amount)
    \/ /\ w.op \in Actions /\ w.read \in Rows
       /\ \E text \in CommandTexts : Applies(w.read, w.op, w.actor, text)
       /\ w.row = Moved(w.read, w.op, w.actor)
       /\ w.event = MoveEvent(w.read, w.op, w.actor)
    \/ /\ w.op = "delete" /\ w.read \in Rows
       /\ w.actor.id = w.read.submitter
       /\ Can(w.actor, "ExpenseDeleteOwn")
       /\ Editable(w.read.status)
       /\ w.row = Deleted

RequestOK(w) ==
    /\ w.pc # "idle" => w.actor \in Actors /\ w.op \in Ops
    /\ w.pc = "resolved" =>
          /\ w.read = NULL
          /\ w.op # "create" => w.claim \in Claim
    /\ w.pc = "loaded" => w.op # "create" /\ w.read \in Rows /\ w.claim \in Claim
    /\ w.pc = "written" =>
          /\ w.claim \in Claim
          /\ WriteIsLegal(w)
          /\ w.row # Deleted => RowChecks(w.row)

ExpensesInv ==
    /\ TypeOK
    /\ LockProtectsTheRead
    /\ \A t \in Tx : RequestOK(tx[t])
    /\ \A c \in Claim : Exists(c) => RowChecks(rows[c])
=============================================================================
