---------------------------- MODULE ClaimRecord ----------------------------
(***************************************************************************)
(* What the expense service promises about the record of a claim: the      *)
(* committed row of `expenses` and the committed rows of `expense_events`  *)
(* change together, atomically, one legal operation at a time.  There are  *)
(* no transactions, locks or membership rows here; Expenses shows that the *)
(* service's transactions implement this specification.                    *)
(*                                                                         *)
(* There is no operation that edits a draft: see EditPersists in Expenses. *)
(***************************************************************************)
EXTENDS StateMachine

CONSTANTS
    Claim,    \* claim ids; uuid.New never returns one twice
    Deleted   \* the row of a claim whose draft was discarded

VARIABLES
    rows,     \* rows[c]: the committed row, NULL before creation
    ledger    \* ledger[c]: the committed events of c, oldest first

claimVars == <<rows, ledger>>

ASSUME AbsentAssumption ==
    NULL # Deleted /\ NULL \notin Rows /\ Deleted \notin Rows /\ NULL \notin Claim

Exists(c) == rows[c] \notin {NULL, Deleted}

ClaimInit ==
    /\ rows   = [c \in Claim |-> NULL]
    /\ ledger = [c \in Claim |-> << >>]

CreateClaim(c) ==
    /\ rows[c] = NULL
    /\ \E actor \in Actors, dept \in Department \cup {NULL}, amount \in Amount :
          /\ Can(actor, "ExpenseCreate")
          /\ GovernsDepartment(actor, dept)
          /\ rows'   = [rows EXCEPT ![c] = NewClaim(actor.id, dept, amount)]
          /\ ledger' = [ledger EXCEPT ![c] = <<NewEvent(actor.id, amount)>>]

TransitionClaim(c, a) ==
    /\ Exists(c)
    /\ \E actor \in Actors, text \in CommandTexts :
          /\ Applies(rows[c], a, actor, text)
          /\ rows'   = [rows EXCEPT ![c] = Moved(@, a, actor)]
          /\ ledger' = [ledger EXCEPT ![c] = Append(@, MoveEvent(rows[c], a, actor))]

\* Deleting the row cascades to the claim's ledger.
DeleteClaim(c) ==
    /\ Exists(c)
    /\ \E actor \in Actors :
          actor.id = rows[c].submitter /\ Can(actor, "ExpenseDeleteOwn")
    /\ Editable(rows[c].status)
    /\ rows'   = [rows EXCEPT ![c] = Deleted]
    /\ ledger' = [ledger EXCEPT ![c] = << >>]

\* Every operation changes the row of its claim.
ClaimNext ==
    \E c \in Claim :
        /\ rows'[c] # rows[c]
        /\ \/ CreateClaim(c)
           \/ \E a \in Actions : TransitionClaim(c, a)
           \/ DeleteClaim(c)

ClaimSpec == ClaimInit /\ [][ClaimNext]_claimVars

-----------------------------------------------------------------------------
Decision(ev) == ev.action \in {"approved", "rejected"}

\* The committed state is well typed.
ClaimTypeOK ==
    /\ rows   \in [Claim -> Rows \cup {NULL, Deleted}]
    /\ ledger \in [Claim -> Seq(Events)]

\* The ledger cannot disagree with the claim: one event per version, each
\* starting in the status the one before it ended in, the last one showing
\* the status, revision and amount the row has now (the promise of
\* 00004_expenses.sql above expense_events).  No interleaving of writers may
\* leave a row that its own history does not lead to.
LedgerTellsTheClaim ==
    \A c \in Claim :
        IF Exists(c)
        THEN LET e == rows[c]
                 l == ledger[c]
             IN  /\ Len(l) = e.version
                 /\ l[1].from = NULL
                 /\ \A i \in 2 .. Len(l) : l[i].from = l[i - 1].to
                 /\ l[Len(l)].to = e.status
                 /\ l[Len(l)].revision = e.revision
                 /\ l[Len(l)].amount = e.amount
        ELSE ledger[c] = << >>

\* The pair (claim, revision) is decided at most once: a claim that was
\* rejected comes back only under a new revision, so no two decisions in the
\* ledger are about the same thing (the reason statemachine.go gives for
\* having no rejected -> pending edge).
OneDecisionPerRevision ==
    \A c \in Claim : \A i, j \in 1 .. Len(ledger[c]) :
        /\ Decision(ledger[c][i])
        /\ Decision(ledger[c][j])
        /\ ledger[c][i].revision = ledger[c][j].revision
        => i = j

\* Money leaves only with three people's agreement: behind every payment in
\* the ledger is an approval of the same revision and the same amount, and
\* the submitter, the approver and the payer are three different memberships,
\* whatever roles they were moved between in the meantime.
SeparationOfDuties ==
    \A c \in Claim : \A i \in 1 .. Len(ledger[c]) :
        ledger[c][i].action = "paid" =>
            \E j \in 1 .. (i - 1) :
                LET paid == ledger[c][i]
                    decided == ledger[c][j]
                IN  /\ decided.action = "approved"
                    /\ decided.revision = paid.revision
                    /\ decided.amount = paid.amount
                    /\ Exists(c)
                    /\ decided.actor # rows[c].submitter
                    /\ paid.actor # rows[c].submitter
                    /\ paid.actor # decided.actor

\* The row names as its decider exactly the member whose decision is the last
\* one in the ledger, while the claim is decided: what pay's
\* MustNotBeDecider guard reads is what the ledger recorded.
DeciderIsInLedger ==
    \A c \in Claim : Exists(c) /\ rows[c].status \in {"approved", "rejected", "paid"} =>
        \E i \in 1 .. Len(ledger[c]) :
            /\ Decision(ledger[c][i])
            /\ ledger[c][i].revision = rows[c].revision
            /\ ledger[c][i].actor = rows[c].decidedBy
            /\ \A j \in (i + 1) .. Len(ledger[c]) : ~Decision(ledger[c][j])

\* An approval is not reversible and a settled claim is final (suggest, in
\* statemachine.go): from approved the row moves only to paid, with the
\* decider, the amount and the revision it was approved with, and a paid row
\* is never written or deleted again.
SettledIsFinal ==
    [][\A c \in Claim : Exists(c) =>
          /\ rows[c].status = "paid" => rows'[c] = rows[c] /\ ledger'[c] = ledger[c]
          /\ rows[c].status = "approved" /\ rows'[c] # rows[c] =>
                /\ Exists(c)'
                /\ rows'[c].status = "paid"
                /\ rows'[c].decidedBy = rows[c].decidedBy
                /\ rows'[c].amount = rows[c].amount
                /\ rows'[c].revision = rows[c].revision]_claimVars

-----------------------------------------------------------------------------
(* The inductive invariant behind the properties above.  It adds to them   *)
(* where in the ledger the last decision and the payment are.              *)

\* The ledger l is a history that leads to the row e.
History(e, l) ==
    LET n == Len(l)
    IN  /\ n = e.version
        /\ l[1].from = NULL
        /\ \A i \in 2 .. n : l[i].from = l[i - 1].to
        /\ l[n].to = e.status /\ l[n].revision = e.revision /\ l[n].amount = e.amount
        /\ \A i \in 1 .. n : Decision(l[i]) => l[i].revision <= e.revision
        /\ e.status \in {"draft", "pending_approval"} =>
              \A i \in 1 .. n : Decision(l[i]) => l[i].revision < e.revision
        /\ \A i, j \in 1 .. n :
              Decision(l[i]) /\ Decision(l[j]) /\ l[i].revision = l[j].revision => i = j
        /\ e.status \in {"approved", "rejected"} =>
              /\ l[n].action = e.status
              /\ l[n].actor = e.decidedBy
              /\ e.decidedBy # e.submitter
        /\ \A i \in 1 .. n : l[i].action = "paid" => i = n /\ e.status = "paid"
        /\ e.status = "paid" =>
              /\ n > 1
              /\ l[n].action = "paid"
              /\ l[n].actor \notin {e.submitter, e.decidedBy}
              /\ l[n - 1].action = "approved"
              /\ l[n - 1].actor = e.decidedBy
              /\ l[n - 1].revision = e.revision
              /\ l[n - 1].amount = e.amount
              /\ e.decidedBy # e.submitter

ClaimInv ==
    /\ ClaimTypeOK
    /\ \A c \in Claim :
          IF Exists(c) THEN History(rows[c], ledger[c]) ELSE ledger[c] = << >>
=============================================================================
