--------------------------- MODULE ExpensesProofs ---------------------------
(***************************************************************************)
(* The record of a claim and the transactions of the expense service, for  *)
(* any number of requests, claims, members, departments, amounts and       *)
(* versions.  First the record on its own: ClaimInv is inductive, and the  *)
(* properties of ClaimRecord follow from it.  Then the service:            *)
(* ExpensesInv is inductive, the service implements ClaimRecord, and so    *)
(* every property of ClaimRecord holds of it.                              *)
(***************************************************************************)
EXTENDS Expenses, TLAPS

-----------------------------------------------------------------------------
(* The state machine's functions are well typed.                           *)

LEMMA MovedType ==
    ASSUME NEW e \in Rows, NEW a \in Actions, NEW actor \in Actors
    PROVE  /\ Moved(e, a, actor) \in Rows
           /\ MoveEvent(e, a, actor) \in Events
<1>1. Moved(e, a, actor) \in Rows
  BY DEF Rows, Actors, Actions, Moved, To, Statuses, Decides, Reopens
<1>2. Moved(e, a, actor).revision \in Nat \ {0}
  BY DEF Rows, Moved
<1>3. EventOf[a] \in EventActions /\ To[a] \in Statuses
  BY DEF Actions, EventOf, EventActions, To, Statuses
<1>4. MoveEvent(e, a, actor) \in Events
  BY <1>2, <1>3 DEF Rows, Actors, MoveEvent, Events
<1> QED
  BY <1>1, <1>4

LEMMA NewType ==
    ASSUME NEW m \in Member, NEW dept \in Department \cup {NULL}, NEW amount \in Amount
    PROVE  /\ NewClaim(m, dept, amount) \in Rows
           /\ NewEvent(m, amount) \in Events
<1>1. NewClaim(m, dept, amount) \in Rows
  BY DEF NewClaim, Rows, Statuses
<1>2. NewEvent(m, amount) \in Events
  BY DEF NewEvent, Events, EventActions, Statuses
<1> QED
  BY <1>1, <1>2

-----------------------------------------------------------------------------
(* A new claim's history, and how a transition extends one.                *)

LEMMA NewHistory ==
    ASSUME NEW m \in Member, NEW dept \in Department \cup {NULL}, NEW amount \in Amount
    PROVE  History(NewClaim(m, dept, amount), <<NewEvent(m, amount)>>)
  BY DEF History, NewClaim, NewEvent, Decision

LEMMA MovedHistory ==
    ASSUME NEW e \in Rows, NEW l \in Seq(Events), NEW a \in Actions,
           NEW actor \in Actors, NEW text \in CommandTexts,
           Applies(e, a, actor, text), History(e, l)
    PROVE  History(Moved(e, a, actor), Append(l, MoveEvent(e, a, actor)))
<1> DEFINE f  == Moved(e, a, actor)
           ev == MoveEvent(e, a, actor)
           k  == Append(l, ev)
           n  == Len(l)
<1>1. n \in Nat /\ n >= 1
  BY DEF History, Rows
<1>2. f \in Rows /\ ev \in Events
  BY MovedType
<1>3. k \in Seq(Events) /\ Len(k) = n + 1 /\ k[n + 1] = ev
  BY <1>2
<1>4. \A i \in 1 .. n : k[i] = l[i]
  BY <1>2
<1>5. /\ n = e.version
      /\ l[1].from = NULL
      /\ \A i \in 2 .. n : l[i].from = l[i - 1].to
      /\ l[n].to = e.status /\ l[n].revision = e.revision /\ l[n].amount = e.amount
  BY DEF History
<1>6. /\ f.version = n + 1 /\ f.status = To[a]
      /\ f.amount = e.amount /\ f.submitter = e.submitter
      /\ f.revision = IF a = "revise" THEN e.revision + 1 ELSE e.revision
      /\ f.decidedBy = IF Decides(a) THEN actor.id
                       ELSE IF Reopens(a) THEN NULL ELSE e.decidedBy
  BY <1>5, SMTT(40) DEF Moved, BumpsRevision
<1>7. /\ ev.action = EventOf[a] /\ ev.from = e.status /\ ev.to = f.status
      /\ ev.actor = actor.id /\ ev.amount = f.amount /\ ev.revision = f.revision
  BY DEF MoveEvent, Moved
<1>8. e.status = From[a] /\ checkGuards(e, a, actor, text)
  BY DEF Applies
<1>9. Decision(ev) <=> Decides(a)
  BY <1>7 DEF Actions, EventOf, Decision, Decides
<1>10. \A i \in 1 .. n : Decision(k[i]) <=> Decision(l[i])
  BY <1>4 DEF Decision
<1>11. e.revision \in Nat /\ f.revision \in Nat /\ \A i \in 1 .. n : l[i].revision \in Nat
  <2>1. \A i \in 1 .. n : l[i] \in Events
    OBVIOUS
  <2> HIDE DEF f, n
  <2> QED
    BY <2>1, <1>2, SMTT(40) DEF Rows, Events
<1> HIDE DEF f, ev, k, n
\* The new event continues the chain and shows the new row.
<1>12. /\ Len(k) = f.version
       /\ k[1].from = NULL
       /\ \A i \in 2 .. Len(k) : k[i].from = k[i - 1].to
       /\ k[Len(k)].to = f.status /\ k[Len(k)].revision = f.revision
       /\ k[Len(k)].amount = f.amount
  <2>1. \A i \in 2 .. (n + 1) : k[i].from = k[i - 1].to
    <3> SUFFICES ASSUME NEW i \in 2 .. (n + 1)  PROVE k[i].from = k[i - 1].to
      OBVIOUS
    <3>1. CASE i = n + 1
      <4>1. i - 1 = n /\ k[n] = l[n]
        BY <3>1, <1>1, <1>4
      <4> QED
        BY <4>1, <3>1, <1>3, <1>5, <1>7, SMTT(40)
    <3>2. CASE i # n + 1
      <4>1. i \in 2 .. n /\ i \in 1 .. n /\ i - 1 \in 1 .. n
        BY <3>2, <1>1
      <4>2. k[i] = l[i] /\ k[i - 1] = l[i - 1]
        BY <4>1, <1>4
      <4> QED
        BY <4>1, <4>2, <1>5
    <3> QED
      BY <3>1, <3>2
  <2>2. k[1] = l[1]
    BY <1>1, <1>4
  <2> QED
    BY <2>1, <2>2, <1>3, <1>5, <1>6, <1>7
\* Earlier decisions are about earlier revisions, and a decision is taken only
\* on a pending claim.
<1>13. \A i \in 1 .. n : Decision(l[i]) => l[i].revision <= e.revision
  BY DEF History, n
<1>14. e.status \in {"draft", "pending_approval"} =>
          \A i \in 1 .. n : Decision(l[i]) => l[i].revision < e.revision
  BY DEF History, n
<1>15. Decides(a) => e.status = "pending_approval"
  BY <1>8 DEF Decides, From
<1>16. \A i \in 1 .. Len(k) : Decision(k[i]) => k[i].revision <= f.revision
  BY <1>1, <1>3, <1>4, <1>6, <1>7, <1>10, <1>11, <1>13
<1>17. f.status \in {"draft", "pending_approval"} =>
          \A i \in 1 .. Len(k) : Decision(k[i]) => k[i].revision < f.revision
  <2> SUFFICES ASSUME f.status \in {"draft", "pending_approval"},
                      NEW i \in 1 .. Len(k), Decision(k[i])
               PROVE  k[i].revision < f.revision
    OBVIOUS
  <2>1. a \in {"submit", "withdraw", "revise"}
    BY <1>6 DEF Actions, To
  <2>2. ~Decides(a)
    BY <2>1 DEF Decides
  <2>3. i \in 1 .. n /\ Decision(l[i]) /\ k[i] = l[i]
    BY <2>2, <1>1, <1>3, <1>4, <1>9, <1>10
  <2>4. CASE a = "revise"
    BY <2>3, <2>4, <1>6, <1>11, <1>13
  <2>5. CASE a # "revise"
    <3>1. e.status \in {"draft", "pending_approval"}
      BY <2>1, <2>5, <1>8 DEF From
    <3> QED
      BY <3>1, <2>3, <2>5, <1>6, <1>11, <1>14
  <2> QED
    BY <2>4, <2>5
<1>18. \A i, j \in 1 .. n :
          Decision(l[i]) /\ Decision(l[j]) /\ l[i].revision = l[j].revision => i = j
  BY DEF History, n
<1>19. \A i, j \in 1 .. Len(k) :
          Decision(k[i]) /\ Decision(k[j]) /\ k[i].revision = k[j].revision => i = j
  <2>1. Decides(a) => f.revision = e.revision
    BY <1>6 DEF Decides
  <2>2. \A i \in 1 .. n : Decision(k[i]) /\ Decides(a) => k[i].revision < f.revision
    BY <2>1, <1>4, <1>10, <1>14, <1>15
  <2> QED
    BY <2>2, <1>1, <1>3, <1>4, <1>7, <1>9, <1>10, <1>11, <1>18
\* Who decided, and who paid.
<1>20. f.status \in {"approved", "rejected"} =>
          /\ k[Len(k)].action = f.status
          /\ k[Len(k)].actor = f.decidedBy
          /\ f.decidedBy # f.submitter
  BY <1>3, <1>6, <1>7, <1>8
     DEF Actions, To, EventOf, Decides, checkGuards, MustNotBeSubmitter
<1>21. \A i \in 1 .. n : l[i].action = "paid" => i = n /\ e.status = "paid"
  BY DEF History, n
<1>22. e.status # "paid"
  BY <1>8 DEF From, Actions
<1>23. \A i \in 1 .. Len(k) : k[i].action = "paid" => i = Len(k) /\ f.status = "paid"
  <2>1. \A i \in 1 .. n : k[i].action # "paid"
    BY <1>4, <1>21, <1>22
  <2>2. ev.action = "paid" => f.status = "paid"
    BY <1>6, <1>7 DEF Actions, EventOf, To
  <2> QED
    BY <2>1, <2>2, <1>1, <1>3
<1>24. e.status = "approved" =>
          l[n].action = "approved" /\ l[n].actor = e.decidedBy /\ e.decidedBy # e.submitter
  BY DEF History, n
<1>25. f.status = "paid" =>
          /\ Len(k) > 1
          /\ k[Len(k)].action = "paid"
          /\ k[Len(k)].actor \notin {f.submitter, f.decidedBy}
          /\ k[Len(k) - 1].action = "approved"
          /\ k[Len(k) - 1].actor = f.decidedBy
          /\ k[Len(k) - 1].revision = f.revision
          /\ k[Len(k) - 1].amount = f.amount
          /\ f.decidedBy # f.submitter
  <2> SUFFICES ASSUME f.status = "paid"
               PROVE  /\ k[n + 1].action = "paid"
                      /\ k[n + 1].actor \notin {f.submitter, f.decidedBy}
                      /\ k[n].action = "approved"
                      /\ k[n].actor = f.decidedBy
                      /\ k[n].revision = f.revision
                      /\ k[n].amount = f.amount
                      /\ f.decidedBy # f.submitter
    BY <1>1, <1>3
  <2>1. a = "pay"
    BY <1>6 DEF Actions, To
  <2>2. f.decidedBy = e.decidedBy /\ f.revision = e.revision
    BY <2>1, <1>6 DEF Decides, Reopens
  <2>3. actor.id # e.submitter /\ actor.id # e.decidedBy
    BY <2>1, <1>8 DEF checkGuards, MustNotBeSubmitter, MustNotBeDecider
  <2>4. e.status = "approved"
    BY <2>1, <1>8 DEF From
  <2>5. ev.action = "paid"
    BY <2>1, <1>7 DEF EventOf
  <2>6. k[n] = l[n]
    BY <1>1, <1>4
  <2> QED
    BY <2>2, <2>3, <2>4, <2>5, <2>6, <1>3, <1>5, <1>6, <1>7, <1>24
<1> QED
  <2> SUFFICES History(f, k)
    BY DEF f, k, ev
  <2> QED
    BY <1>12, <1>16, <1>17, <1>19, <1>20, <1>23, <1>25 DEF History

-----------------------------------------------------------------------------
(* ClaimInv is inductive.                                                  *)

LEMMA InitEstablishesInv == ClaimInit => ClaimInv
<1> SUFFICES ASSUME ClaimInit  PROVE ClaimInv
  OBVIOUS
<1>1. ClaimTypeOK
  BY DEF ClaimInit, ClaimTypeOK
<1>2. \A c \in Claim : ~Exists(c) /\ ledger[c] = << >>
  BY DEF ClaimInit, Exists
<1> QED
  BY <1>1, <1>2 DEF ClaimInv

\* What holds of one claim carries over to all of them, because an operation
\* touches one claim.
LEMMA OneClaimChanges ==
    ASSUME ClaimInv, NEW c \in Claim,
           NEW r \in Rows \cup {NULL, Deleted}, NEW l \in Seq(Events),
           rows'   = [rows EXCEPT ![c] = r],
           ledger' = [ledger EXCEPT ![c] = l],
           IF r \notin {NULL, Deleted} THEN History(r, l) ELSE l = << >>
    PROVE  ClaimInv'
<1>1. ClaimTypeOK'
  BY DEF ClaimInv, ClaimTypeOK
<1>2. ASSUME NEW d \in Claim
      PROVE  IF Exists(d)' THEN History(rows'[d], ledger'[d]) ELSE ledger'[d] = << >>
  <2>1. CASE d = c
    <3>1. rows'[d] = r /\ ledger'[d] = l
      BY <2>1 DEF ClaimInv, ClaimTypeOK
    <3> QED
      BY <3>1 DEF Exists
  <2>2. CASE d # c
    <3>1. rows'[d] = rows[d] /\ ledger'[d] = ledger[d]
      BY <2>2 DEF ClaimInv, ClaimTypeOK
    <3> QED
      BY <3>1 DEF Exists, ClaimInv
  <2> QED
    BY <2>1, <2>2
<1> QED
  BY <1>1, <1>2 DEF ClaimInv

LEMMA StepPreservesInv == ClaimInv /\ [ClaimNext]_claimVars => ClaimInv'
<1> SUFFICES ASSUME ClaimInv, [ClaimNext]_claimVars  PROVE ClaimInv'
  OBVIOUS
<1>1. ASSUME NEW c \in Claim, CreateClaim(c)
      PROVE  ClaimInv'
  <2>1. PICK actor \in Actors, dept \in Department \cup {NULL}, amount \in Amount :
            /\ Can(actor, "ExpenseCreate")
            /\ GovernsDepartment(actor, dept)
            /\ rows'   = [rows EXCEPT ![c] = NewClaim(actor.id, dept, amount)]
            /\ ledger' = [ledger EXCEPT ![c] = <<NewEvent(actor.id, amount)>>]
    BY <1>1, Zenon DEF CreateClaim
  <2>2. actor.id \in Member
    BY DEF Actors
  <2>3. /\ NewClaim(actor.id, dept, amount) \in Rows
        /\ <<NewEvent(actor.id, amount)>> \in Seq(Events)
    BY <2>2, NewType
  <2>4. History(NewClaim(actor.id, dept, amount), <<NewEvent(actor.id, amount)>>)
    BY <2>2, NewHistory
  <2> QED
    BY <2>1, <2>3, <2>4, OneClaimChanges, AbsentAssumption, Zenon
<1>2. ASSUME NEW c \in Claim, NEW a \in Actions, TransitionClaim(c, a)
      PROVE  ClaimInv'
  <2>1. PICK actor \in Actors, text \in CommandTexts :
            /\ Applies(rows[c], a, actor, text)
            /\ rows'   = [rows EXCEPT ![c] = Moved(@, a, actor)]
            /\ ledger' = [ledger EXCEPT ![c] = Append(@, MoveEvent(rows[c], a, actor))]
    BY <1>2, Zenon DEF TransitionClaim
  <2>2. rows[c] \in Rows /\ ledger[c] \in Seq(Events) /\ History(rows[c], ledger[c])
    BY <1>2 DEF TransitionClaim, Exists, ClaimInv, ClaimTypeOK
  <2>3. /\ Moved(rows[c], a, actor) \in Rows
        /\ Append(ledger[c], MoveEvent(rows[c], a, actor)) \in Seq(Events)
    BY <2>2, MovedType
  <2>4. History(Moved(rows[c], a, actor), Append(ledger[c], MoveEvent(rows[c], a, actor)))
    BY <2>1, <2>2, MovedHistory
  <2>5. /\ rows'   = [rows EXCEPT ![c] = Moved(rows[c], a, actor)]
        /\ ledger' = [ledger EXCEPT ![c] = Append(ledger[c], MoveEvent(rows[c], a, actor))]
    BY <2>1 DEF ClaimInv, ClaimTypeOK
  <2> QED
    BY <2>3, <2>4, <2>5, OneClaimChanges, AbsentAssumption, Zenon
<1>3. ASSUME NEW c \in Claim, DeleteClaim(c)
      PROVE  ClaimInv'
  <2>1. rows' = [rows EXCEPT ![c] = Deleted] /\ ledger' = [ledger EXCEPT ![c] = << >>]
    BY <1>3 DEF DeleteClaim
  <2>2. << >> \in Seq(Events)
    OBVIOUS
  <2> QED
    BY <2>1, <2>2, OneClaimChanges, Zenon
<1>4. CASE UNCHANGED claimVars
  BY <1>4 DEF claimVars, ClaimInv, ClaimTypeOK, Exists
<1> QED
  BY <1>1, <1>2, <1>3, <1>4 DEF ClaimNext

-----------------------------------------------------------------------------
(* The properties follow from it.                                          *)

LEMMA InvGivesLedger == ClaimInv => LedgerTellsTheClaim
  BY DEF ClaimInv, LedgerTellsTheClaim, History

LEMMA InvGivesOneDecision == ClaimInv => OneDecisionPerRevision
<1> SUFFICES ASSUME ClaimInv, NEW c \in Claim,
                    NEW i \in 1 .. Len(ledger[c]), NEW j \in 1 .. Len(ledger[c]),
                    Decision(ledger[c][i]), Decision(ledger[c][j]),
                    ledger[c][i].revision = ledger[c][j].revision
             PROVE  i = j
  BY DEF OneDecisionPerRevision
<1>1. Exists(c)
  BY SMTT(40) DEF ClaimInv
<1> QED
  BY <1>1 DEF ClaimInv, History

LEMMA InvGivesSeparation == ClaimInv => SeparationOfDuties
<1> SUFFICES ASSUME ClaimInv, NEW c \in Claim, NEW i \in 1 .. Len(ledger[c]),
                    ledger[c][i].action = "paid"
             PROVE  \E j \in 1 .. (i - 1) :
                       /\ ledger[c][j].action = "approved"
                       /\ ledger[c][j].revision = ledger[c][i].revision
                       /\ ledger[c][j].amount = ledger[c][i].amount
                       /\ Exists(c)
                       /\ ledger[c][j].actor # rows[c].submitter
                       /\ ledger[c][i].actor # rows[c].submitter
                       /\ ledger[c][i].actor # ledger[c][j].actor
  BY DEF SeparationOfDuties
<1>1. Exists(c)
  BY DEF ClaimInv
<1>2. History(rows[c], ledger[c])
  BY <1>1, SMTT(40) DEF ClaimInv
<1>3. i = Len(ledger[c]) /\ rows[c].status = "paid" /\ i > 1
  BY <1>2 DEF History
<1>4. i - 1 \in 1 .. (i - 1)
  BY <1>3
<1> WITNESS i - 1 \in 1 .. (i - 1)
<1> QED
  BY <1>1, <1>2, <1>3 DEF History

LEMMA InvGivesDecider == ClaimInv => DeciderIsInLedger
<1> SUFFICES ASSUME ClaimInv, NEW c \in Claim, Exists(c),
                    rows[c].status \in {"approved", "rejected", "paid"}
             PROVE  \E i \in 1 .. Len(ledger[c]) :
                       /\ Decision(ledger[c][i])
                       /\ ledger[c][i].revision = rows[c].revision
                       /\ ledger[c][i].actor = rows[c].decidedBy
                       /\ \A j \in (i + 1) .. Len(ledger[c]) : ~Decision(ledger[c][j])
  BY DEF DeciderIsInLedger
<1> DEFINE n == Len(ledger[c])
<1>1. History(rows[c], ledger[c])
  BY SMTT(40) DEF ClaimInv
<1>2. n \in Nat /\ n >= 1
  BY <1>1 DEF History, ClaimInv, ClaimTypeOK, Rows, Exists
<1>3. CASE rows[c].status # "paid"
  <2>1. /\ ledger[c][n].action \in {"approved", "rejected"}
        /\ ledger[c][n].revision = rows[c].revision
        /\ ledger[c][n].actor = rows[c].decidedBy
    BY <1>1, <1>3 DEF History
  <2>2. (n + 1) .. n = {} /\ n \in 1 .. n
    BY <1>2
  <2> QED
    BY <2>1, <2>2, SMTT(40) DEF Decision
<1>4. CASE rows[c].status = "paid"
  <2>1. /\ n > 1
        /\ ledger[c][n].action = "paid"
        /\ ledger[c][n - 1].action = "approved"
        /\ ledger[c][n - 1].revision = rows[c].revision
        /\ ledger[c][n - 1].actor = rows[c].decidedBy
    BY <1>1, <1>4 DEF History
  <2>2. n - 1 \in 1 .. n /\ \A j \in ((n - 1) + 1) .. n : j = n
    BY <1>2, <2>1
  <2>3. \A j \in ((n - 1) + 1) .. n : ~Decision(ledger[c][j])
    BY <2>1, <2>2 DEF Decision
  <2> QED
    BY <2>1, <2>2, <2>3, ZenonT(60) DEF Decision
<1> QED
  BY <1>3, <1>4

\* ClaimInv holds in every state of the record of claims.
THEOREM ClaimInvariance == ClaimSpec => []ClaimInv
<1>1. ClaimInit => ClaimInv
  BY InitEstablishesInv
<1>2. ClaimInv /\ [ClaimNext]_claimVars => ClaimInv'
  BY StepPreservesInv
<1> QED
  BY <1>1, <1>2, PTL DEF ClaimSpec

\* The ledger leads to the row, each revision is decided at most once, the
\* three people behind a payment differ, and the row names the last decider:
\* for every set of claims, members and amounts.
THEOREM ClaimSafety ==
    ClaimSpec => [](/\ ClaimTypeOK
                    /\ LedgerTellsTheClaim
                    /\ OneDecisionPerRevision
                    /\ SeparationOfDuties
                    /\ DeciderIsInLedger)
<1>1. ClaimInv => /\ ClaimTypeOK
                  /\ LedgerTellsTheClaim
                  /\ OneDecisionPerRevision
                  /\ SeparationOfDuties
                  /\ DeciderIsInLedger
  BY InvGivesLedger, InvGivesOneDecision, InvGivesSeparation, InvGivesDecider DEF ClaimInv
<1> QED
  BY <1>1, ClaimInvariance, PTL

\* No operation moves a paid claim, and none but the payment moves an
\* approved one.
LEMMA StepKeepsSettled ==
    ASSUME ClaimInv, ClaimNext, NEW c \in Claim, Exists(c)
    PROVE  /\ rows[c].status = "paid" => rows'[c] = rows[c] /\ ledger'[c] = ledger[c]
           /\ rows[c].status = "approved" /\ rows'[c] # rows[c] =>
                /\ Exists(c)'
                /\ rows'[c].status = "paid"
                /\ rows'[c].decidedBy = rows[c].decidedBy
                /\ rows'[c].amount = rows[c].amount
                /\ rows'[c].revision = rows[c].revision
<1>1. PICK d \in Claim : \/ CreateClaim(d)
                         \/ \E a \in Actions : TransitionClaim(d, a)
                         \/ DeleteClaim(d)
  BY DEF ClaimNext
<1>2. rows \in [Claim -> Rows \cup {NULL, Deleted}] /\ ledger \in [Claim -> Seq(Events)]
  BY DEF ClaimInv, ClaimTypeOK
<1>3. CASE d # c
  <2>1. rows'[c] = rows[c] /\ ledger'[c] = ledger[c]
    BY <1>1, <1>2, <1>3, SMTT(40) DEF CreateClaim, TransitionClaim, DeleteClaim
  <2> QED
    BY <2>1
<1>4. CASE d = c
  <2>1. ~CreateClaim(c)
    BY DEF CreateClaim, Exists
  <2>2. CASE DeleteClaim(c)
    BY <2>2 DEF DeleteClaim, Editable
  <2>3. ASSUME NEW a \in Actions, TransitionClaim(c, a)
        PROVE  /\ rows[c].status # "paid"
               /\ rows[c].status = "approved" =>
                    /\ Exists(c)'
                    /\ rows'[c].status = "paid"
                    /\ rows'[c].decidedBy = rows[c].decidedBy
                    /\ rows'[c].amount = rows[c].amount
                    /\ rows'[c].revision = rows[c].revision
    <3>1. PICK actor \in Actors, text \in CommandTexts :
              /\ Applies(rows[c], a, actor, text)
              /\ rows' = [rows EXCEPT ![c] = Moved(@, a, actor)]
      BY <2>3, Zenon DEF TransitionClaim
    <3>2. rows'[c] = Moved(rows[c], a, actor) /\ rows[c].status = From[a]
      BY <3>1, <1>2 DEF Applies
    <3>3. rows[c].status # "paid" /\ (rows[c].status = "approved" => a = "pay")
      BY <3>2 DEF From, Actions
    <3>4. rows'[c] \in Rows
      BY <3>2, <1>2, MovedType DEF Exists
    <3>5. a = "pay" => /\ rows'[c].status = "paid"
                       /\ rows'[c].decidedBy = rows[c].decidedBy
                       /\ rows'[c].amount = rows[c].amount
                       /\ rows'[c].revision = rows[c].revision
      BY <3>2 DEF Moved, To, Decides, Reopens, BumpsRevision
    <3> QED
      BY <3>3, <3>4, <3>5, AbsentAssumption DEF Exists
  <2> QED
    BY <1>1, <1>4, <2>1, <2>2, <2>3
<1> QED
  BY <1>3, <1>4

\* An approval is irreversible and a settled claim is final.
THEOREM ClaimSettledIsFinal == ClaimSpec => SettledIsFinal
<1>1. ClaimInv /\ [ClaimNext]_claimVars =>
          [\A c \in Claim : Exists(c) =>
             /\ rows[c].status = "paid" => rows'[c] = rows[c] /\ ledger'[c] = ledger[c]
             /\ rows[c].status = "approved" /\ rows'[c] # rows[c] =>
                  /\ Exists(c)'
                  /\ rows'[c].status = "paid"
                  /\ rows'[c].decidedBy = rows[c].decidedBy
                  /\ rows'[c].amount = rows[c].amount
                  /\ rows'[c].revision = rows[c].revision]_claimVars
  BY StepKeepsSettled
<1> QED
  BY <1>1, ClaimInvariance, PTL DEF ClaimSpec, SettledIsFinal

-----------------------------------------------------------------------------
(* The transactions of the service.                                        *)

LEMMA ConstantTypes ==
    /\ NULL \notin Tx
    /\ \A m \in Member : InitialMembers[m] \in Actors
    /\ Requests \subseteq Member \X Ops
    /\ Idle \in TxRecords
    /\ RequestOK(Idle)
    /\ Idle.pc = "idle"
<1>1. Idle \in TxRecords
  BY Zenon DEF Idle, TxRecords
<1>2. RequestOK(Idle)
  BY Zenon DEF Idle, RequestOK
<1> QED
  BY Zenon, <1>1, <1>2, ExpensesAssumption DEF Idle

LEMMA ExpensesInit == Init => ExpensesInv
<1> SUFFICES ASSUME Init  PROVE ExpensesInv
  BY Zenon
<1>1. ClaimTypeOK
  BY Zenon, InitEstablishesInv DEF Init, ClaimInv
<1>2. TypeOK
  BY Zenon, <1>1, ConstantTypes, ExpensesAssumption DEF Init, TypeOK
<1>3. LockProtectsTheRead
  BY Zenon, ConstantTypes DEF Init, LockProtectsTheRead
<1>4. \A t \in Tx : RequestOK(tx[t])
  BY Zenon, ConstantTypes DEF Init
<1>5. \A c \in Claim : ~Exists(c)
  BY Zenon DEF Init, ClaimInit, Exists
<1> QED
  BY Zenon, <1>2, <1>3, <1>4, <1>5 DEF ExpensesInv

-----------------------------------------------------------------------------
(* What a step of one request does to the others.                          *)

LEMMA BeginInv ==
    ASSUME ExpensesInv, NEW t \in Tx, NEW r \in Requests, NEW c \in Claim \cup {NULL},
           Begin(t, r[1], r[2], c)
    PROVE  ExpensesInv'
<1> DEFINE w == [pc |-> "resolved", op |-> r[2], actor |-> members[r[1]], claim |-> c,
                 read |-> NULL, row |-> NULL, event |-> NULL]
<1>1. r[1] \in Member /\ r[2] \in Ops
  BY Zenon, ConstantTypes
<1>2. members[r[1]] \in Actors
  BY Zenon, <1>1 DEF ExpensesInv, TypeOK
<1>3. w \in TxRecords
  BY Zenon, <1>1, <1>2 DEF TxRecords
<1>4. RequestOK(w)
  BY Zenon, <1>1, <1>2 DEF RequestOK, Begin
<1>5. tx' = [tx EXCEPT ![t] = w] /\ tx[t].pc = "idle"
  BY Zenon DEF Begin
<1>6. tx \in [Tx -> TxRecords]
  BY Zenon DEF ExpensesInv, TypeOK
<1>7. UNCHANGED <<rows, ledger, members, lockedBy>>
  BY Zenon DEF Begin
<1>8. w.pc = "resolved"
  BY Zenon
<1> HIDE DEF w
<1>9. TypeOK'
  BY Zenon, <1>3, <1>5, <1>6, <1>7 DEF ExpensesInv, TypeOK, ClaimTypeOK
<1>10. LockProtectsTheRead'
  BY SMTT(30), <1>5, <1>6, <1>7, <1>8 DEF ExpensesInv, TypeOK, LockProtectsTheRead
<1>11. \A u \in Tx : RequestOK(tx'[u])
  BY Zenon, <1>4, <1>5, <1>6 DEF ExpensesInv
<1>12. \A d \in Claim : Exists(d)' => RowChecks(rows'[d])
  BY Zenon, <1>7 DEF ExpensesInv, Exists
<1> QED
  BY Zenon, <1>9, <1>10, <1>11, <1>12 DEF ExpensesInv

\* Refuse and Abort both end in Rollback.
LEMMA RollbackInv ==
    ASSUME ExpensesInv, NEW t \in Tx, Rollback(t)
    PROVE  ExpensesInv'
<1>1. /\ tx \in [Tx -> TxRecords] /\ lockedBy \in [Claim -> Tx \cup {NULL}]
      /\ tx' = [tx EXCEPT ![t] = Idle]
      /\ UNCHANGED <<rows, ledger, members>>
  BY Zenon DEF ExpensesInv, TypeOK, Rollback
<1>2. \A c \in Claim : lockedBy'[c] = IF lockedBy[c] = t THEN NULL ELSE lockedBy[c]
  BY Zenon DEF Rollback, Unlock
<1>3. lockedBy' \in [Claim -> Tx \cup {NULL}]
  BY Zenon, <1>1 DEF Rollback, Unlock
<1>4. TypeOK'
  BY Zenon, <1>1, <1>3, ConstantTypes DEF ExpensesInv, TypeOK, ClaimTypeOK
<1>5. LockProtectsTheRead'
  BY SMTT(30), <1>1, <1>2, ConstantTypes DEF ExpensesInv, LockProtectsTheRead, RequestOK
<1>6. \A u \in Tx : RequestOK(tx'[u])
  BY Zenon, <1>1, ConstantTypes DEF ExpensesInv
<1>7. \A d \in Claim : Exists(d)' => RowChecks(rows'[d])
  BY Zenon, <1>1 DEF ExpensesInv, Exists
<1> QED
  BY Zenon, <1>4, <1>5, <1>6, <1>7 DEF ExpensesInv

LEMMA InsertInv ==
    ASSUME ExpensesInv, NEW t \in Tx, NEW c \in Claim,
           NEW dept \in Department \cup {NULL}, NEW amount \in Amount,
           Insert(t, c, dept, amount)
    PROVE  ExpensesInv'
<1>1. /\ tx \in [Tx -> TxRecords] /\ lockedBy \in [Claim -> Tx \cup {NULL}]
      /\ lockedBy' = [lockedBy EXCEPT ![c] = t]
      /\ UNCHANGED <<rows, ledger, members>>
      /\ lockedBy[c] = NULL /\ rows[c] = NULL
      /\ tx[t].pc = "resolved" /\ tx[t].op = "create"
      /\ Can(tx[t].actor, "ExpenseCreate") /\ GovernsDepartment(tx[t].actor, dept)
      /\ RowChecks(NewClaim(tx[t].actor.id, dept, amount))
  BY Zenon DEF ExpensesInv, TypeOK, Insert
<1>2. tx[t].actor \in Actors /\ tx[t].read = NULL
  BY Zenon, <1>1 DEF ExpensesInv, RequestOK
<1>3. /\ NewClaim(tx[t].actor.id, dept, amount) \in Rows
      /\ NewEvent(tx[t].actor.id, amount) \in Events
  BY <1>2, NewType, Zenon DEF Actors
<1>4. tx' = [tx EXCEPT ![t].pc = "written", ![t].claim = c,
                       ![t].row = NewClaim(tx[t].actor.id, dept, amount),
                       ![t].event = NewEvent(tx[t].actor.id, amount)]
  BY Zenon DEF Insert
<1>5. /\ tx'[t] \in TxRecords
      /\ tx'[t].pc = "written" /\ tx'[t].claim = c
      /\ tx'[t].op = "create" /\ tx'[t].actor = tx[t].actor /\ tx'[t].read = NULL
      /\ tx'[t].row = NewClaim(tx[t].actor.id, dept, amount)
      /\ tx'[t].event = NewEvent(tx[t].actor.id, amount)
  <2>1. tx[t] \in TxRecords
    BY Zenon, <1>1
  <2> QED
    BY <2>1, <1>1, <1>2, <1>3, <1>4, ZenonT(60) DEF TxRecords
<1>6. tx' \in [Tx -> TxRecords] /\ \A u \in Tx : u # t => tx'[u] = tx[u]
  BY Zenon, <1>1, <1>4, <1>5
<1>7. TypeOK'
  BY Zenon, <1>1, <1>6 DEF ExpensesInv, TypeOK, ClaimTypeOK
<1>8. LockProtectsTheRead'
  BY SMTT(30), <1>1, <1>5, <1>6, ConstantTypes DEF ExpensesInv, LockProtectsTheRead, RequestOK
<1>9. RequestOK(tx'[t])
  BY Zenon, <1>1, <1>2, <1>5 DEF RequestOK, WriteIsLegal, Ops
<1>10. \A u \in Tx : RequestOK(tx'[u])
  BY Zenon, <1>6, <1>9 DEF ExpensesInv
<1>11. \A d \in Claim : Exists(d)' => RowChecks(rows'[d])
  BY Zenon, <1>1 DEF ExpensesInv, Exists
<1> QED
  BY Zenon, <1>7, <1>8, <1>10, <1>11 DEF ExpensesInv

LEMMA LoadInv ==
    ASSUME ExpensesInv, NEW t \in Tx, Load(t)
    PROVE  ExpensesInv'
<1> DEFINE c == tx[t].claim
<1>1. /\ tx \in [Tx -> TxRecords] /\ lockedBy \in [Claim -> Tx \cup {NULL}]
      /\ rows \in [Claim -> Rows \cup {NULL, Deleted}]
      /\ lockedBy' = [lockedBy EXCEPT ![c] = t]
      /\ UNCHANGED <<rows, ledger, members>>
      /\ Exists(c) /\ lockedBy[c] = NULL
      /\ tx[t].pc = "resolved" /\ tx[t].op # "create"
  BY Zenon DEF ExpensesInv, TypeOK, ClaimTypeOK, Load, Lockable
<1>2. tx[t].actor \in Actors /\ tx[t].op \in Ops /\ c \in Claim
  BY Zenon, <1>1 DEF ExpensesInv, RequestOK
<1>3. rows[c] \in Rows
  BY Zenon, <1>1, <1>2 DEF Exists
<1>4. tx' = [tx EXCEPT ![t].pc = "loaded", ![t].read = rows[c]]
  BY Zenon DEF Load
<1>5. /\ tx'[t] \in TxRecords
      /\ tx'[t].pc = "loaded" /\ tx'[t].claim = c /\ tx'[t].op = tx[t].op
      /\ tx'[t].actor = tx[t].actor /\ tx'[t].read = rows[c]
  <2>1. tx[t] \in TxRecords
    BY Zenon, <1>1
  <2>2. tx'[t] = [tx[t] EXCEPT !.pc = "loaded", !.read = rows[c]]
    BY Zenon, <1>1, <1>4
  <2> QED
    BY <2>1, <2>2, <1>3, ZenonT(60) DEF TxRecords
<1>6. tx' \in [Tx -> TxRecords] /\ \A u \in Tx : u # t => tx'[u] = tx[u]
  BY Zenon, <1>1, <1>4, <1>5
<1> HIDE DEF c
<1>7. TypeOK'
  BY Zenon, <1>1, <1>2, <1>6 DEF ExpensesInv, TypeOK, ClaimTypeOK
<1>8. LockProtectsTheRead'
  BY SMTT(30), <1>1, <1>2, <1>5, <1>6, ConstantTypes DEF ExpensesInv, LockProtectsTheRead, RequestOK
<1>9. RequestOK(tx'[t])
  BY Zenon, <1>1, <1>2, <1>3, <1>5 DEF RequestOK
<1>10. \A u \in Tx : RequestOK(tx'[u])
  BY Zenon, <1>6, <1>9 DEF ExpensesInv
<1>11. \A d \in Claim : Exists(d)' => RowChecks(rows'[d])
  BY Zenon, <1>1 DEF ExpensesInv, Exists
<1> QED
  BY Zenon, <1>7, <1>8, <1>10, <1>11 DEF ExpensesInv

\* What a loaded request may hand to the repository, operation by operation.
LEMMA AttemptCases ==
    ASSUME NEW t \in Tx, tx[t].op \in Ops, tx[t].op # "create", NEW w \in Attempts(t)
    PROVE  \/ /\ tx[t].op \in Actions
              /\ \E text \in CommandTexts : Applies(tx[t].read, tx[t].op, tx[t].actor, text)
              /\ w.row = Moved(tx[t].read, tx[t].op, tx[t].actor)
              /\ w.event = MoveEvent(tx[t].read, tx[t].op, tx[t].actor)
           \/ /\ tx[t].op = "update"
              /\ w.event.from = w.event.to
           \/ /\ tx[t].op = "delete"
              /\ tx[t].actor.id = tx[t].read.submitter
              /\ Can(tx[t].actor, "ExpenseDeleteOwn")
              /\ Editable(tx[t].read.status)
              /\ w.row = Deleted /\ w.event = NULL
<1>1. CASE tx[t].op \in Actions
  <2>1. w \in { [row |-> Moved(tx[t].read, tx[t].op, tx[t].actor),
                 event |-> MoveEvent(tx[t].read, tx[t].op, tx[t].actor)] :
                   text \in {x \in CommandTexts :
                               Applies(tx[t].read, tx[t].op, tx[t].actor, x)} }
    BY <1>1 DEF Attempts, Actions
  <2> QED
    BY <1>1, <2>1
<1>2. CASE tx[t].op = "update"
  <2>1. PICK dept \in Department \cup {NULL}, amount \in Amount :
            w = [row |-> Edited(tx[t].read, dept, amount),
                 event |-> EditEvent(tx[t].read, tx[t].actor, amount)]
    BY <1>2 DEF Attempts, Actions
  <2> QED
    BY Zenon, <1>2, <2>1 DEF EditEvent
<1>3. CASE tx[t].op = "delete"
  BY <1>3 DEF Attempts, Actions
<1> QED
  BY Zenon, <1>1, <1>2, <1>3 DEF Ops

LEMMA WriteInv ==
    ASSUME ExpensesInv, NEW t \in Tx, Write(t)
    PROVE  ExpensesInv'
<1>1. /\ tx \in [Tx -> TxRecords] /\ tx[t].pc = "loaded"
      /\ UNCHANGED <<rows, ledger, members, lockedBy>>
  BY Zenon DEF ExpensesInv, TypeOK, Write
<1>2. /\ tx[t].actor \in Actors /\ tx[t].op \in Ops /\ tx[t].op # "create"
      /\ tx[t].read \in Rows /\ tx[t].claim \in Claim
  BY Zenon, <1>1 DEF ExpensesInv, RequestOK
<1>3. PICK w \in Attempts(t) :
          /\ Accepts(t, w)
          /\ tx' = [tx EXCEPT ![t].pc = "written", ![t].row = w.row, ![t].event = w.event]
  BY Zenon DEF Write
<1>4. tx[t].op # "delete" => RowChecks(w.row) /\ w.event.from # w.event.to
  BY Zenon, <1>3 DEF Accepts, TransitionExpense, UpdateExpenseDraft, AppendExpenseEvent, EventChecks
<1>5. \/ /\ tx[t].op \in Actions
         /\ \E text \in CommandTexts : Applies(tx[t].read, tx[t].op, tx[t].actor, text)
         /\ w.row = Moved(tx[t].read, tx[t].op, tx[t].actor)
         /\ w.event = MoveEvent(tx[t].read, tx[t].op, tx[t].actor)
      \/ /\ tx[t].op = "delete"
         /\ tx[t].actor.id = tx[t].read.submitter
         /\ Can(tx[t].actor, "ExpenseDeleteOwn")
         /\ Editable(tx[t].read.status)
         /\ w.row = Deleted /\ w.event = NULL
  BY Zenon, <1>2, <1>4, AttemptCases
<1>6. w.row \in Rows \cup {NULL, Deleted} /\ w.event \in Events \cup {NULL}
  BY Zenon, <1>2, <1>5, MovedType
<1>7. /\ tx'[t] \in TxRecords
      /\ tx'[t].pc = "written" /\ tx'[t].claim = tx[t].claim /\ tx'[t].op = tx[t].op
      /\ tx'[t].actor = tx[t].actor /\ tx'[t].read = tx[t].read
      /\ tx'[t].row = w.row /\ tx'[t].event = w.event
  <2>1. tx[t] \in TxRecords
    BY Zenon, <1>1
  <2> QED
    BY <2>1, <1>1, <1>3, <1>6, ZenonT(60) DEF TxRecords
<1>8. tx' \in [Tx -> TxRecords] /\ \A u \in Tx : u # t => tx'[u] = tx[u]
  BY Zenon, <1>1, <1>3, <1>7
<1>9. TypeOK'
  BY Zenon, <1>1, <1>8 DEF ExpensesInv, TypeOK, ClaimTypeOK
<1>10. LockProtectsTheRead'
  <2>1. \A u \in Tx : /\ tx'[u].claim = tx[u].claim /\ tx'[u].read = tx[u].read
                      /\ tx'[u].pc \in {"loaded", "written"}
                            <=> tx[u].pc \in {"loaded", "written"}
    BY Zenon, <1>1, <1>7, <1>8
  <2>2. lockedBy \in [Claim -> Tx \cup {NULL}]
    BY Zenon DEF ExpensesInv, TypeOK
  <2>3. LockProtectsTheRead /\ rows' = rows /\ lockedBy' = lockedBy
    BY Zenon, <1>1 DEF ExpensesInv
  <2>4. \A d \in Claim : lockedBy'[d] # NULL =>
            tx'[lockedBy'[d]].claim = d /\ tx'[lockedBy'[d]].pc \in {"loaded", "written"}
    <3> SUFFICES ASSUME NEW d \in Claim, lockedBy[d] # NULL
                 PROVE  tx'[lockedBy[d]].claim = d /\ tx'[lockedBy[d]].pc \in {"loaded", "written"}
      BY Zenon, <2>3
    <3>1. lockedBy[d] \in Tx
      BY <2>2
    <3> QED
      BY Zenon, <2>1, <2>3, <3>1 DEF LockProtectsTheRead
  <2>5. \A u \in Tx : tx'[u].pc \in {"loaded", "written"} =>
            lockedBy'[tx'[u].claim] = u /\ rows'[tx'[u].claim] = tx'[u].read
    BY Zenon, <2>1, <2>3 DEF LockProtectsTheRead
  <2> QED
    BY Zenon, <2>4, <2>5 DEF LockProtectsTheRead
<1>11. WriteIsLegal(tx'[t])
  BY Zenon, <1>2, <1>5, <1>7 DEF WriteIsLegal
<1>12. w.row # Deleted => RowChecks(w.row)
  BY Zenon, <1>4, <1>5 DEF Actions
<1>13. RequestOK(tx'[t])
  BY Zenon, <1>2, <1>7, <1>11, <1>12 DEF RequestOK
<1>14. \A u \in Tx : RequestOK(tx'[u])
  BY Zenon, <1>8, <1>13 DEF ExpensesInv
<1>15. \A d \in Claim : Exists(d)' => RowChecks(rows'[d])
  BY Zenon, <1>1 DEF ExpensesInv, Exists
<1> QED
  BY Zenon, <1>9, <1>10, <1>14, <1>15 DEF ExpensesInv

\* Commit publishes a row that is typed and meets the CHECKs, and no other
\* request has read the row it replaces.
LEMMA CommitInv ==
    ASSUME ExpensesInv, NEW t \in Tx, Commit(t)
    PROVE  ExpensesInv'
<1> DEFINE c == tx[t].claim
<1>1. /\ tx \in [Tx -> TxRecords] /\ lockedBy \in [Claim -> Tx \cup {NULL}]
      /\ rows \in [Claim -> Rows \cup {NULL, Deleted}] /\ ledger \in [Claim -> Seq(Events)]
      /\ tx[t].pc = "written"
      /\ rows' = [rows EXCEPT ![c] = tx[t].row]
      /\ ledger' = [ledger EXCEPT ![c] =
                      IF tx[t].row = Deleted THEN << >> ELSE Append(@, tx[t].event)]
      /\ tx' = [tx EXCEPT ![t] = Idle]
      /\ UNCHANGED members
  BY Zenon DEF ExpensesInv, TypeOK, ClaimTypeOK, Commit
<1>2. /\ c \in Claim /\ WriteIsLegal(tx[t])
      /\ tx[t].row # Deleted => RowChecks(tx[t].row)
      /\ tx[t].actor \in Actors
  BY Zenon, <1>1 DEF ExpensesInv, RequestOK
<1>3. \/ tx[t].row = Deleted
      \/ tx[t].row \in Rows /\ tx[t].event \in Events
  <2>1. tx[t].actor.id \in Member
    BY Zenon, <1>2 DEF Actors
  <2> QED
    BY <2>1, <1>2, NewType, MovedType, ZenonT(60) DEF WriteIsLegal
<1>4. \A d \in Claim : lockedBy'[d] = IF lockedBy[d] = t THEN NULL ELSE lockedBy[d]
  BY Zenon DEF Commit, Unlock
<1>5. lockedBy' \in [Claim -> Tx \cup {NULL}]
  BY Zenon, <1>1 DEF Commit, Unlock
<1>6. rows' \in [Claim -> Rows \cup {NULL, Deleted}]
  BY Zenon, <1>1, <1>2, <1>3
<1>7. ledger' \in [Claim -> Seq(Events)]
  BY <1>1, <1>2, <1>3
<1>8. TypeOK'
  BY Zenon, <1>1, <1>5, <1>6, <1>7, ConstantTypes DEF ExpensesInv, TypeOK, ClaimTypeOK
<1>9. LockProtectsTheRead'
  <2>1. \A u \in Tx : u # t => tx'[u] = tx[u]
    BY Zenon, <1>1
  <2>2. tx'[t].pc = "idle"
    BY Zenon, <1>1, ConstantTypes
  <2>3. lockedBy[c] = t
    BY Zenon, <1>1 DEF ExpensesInv, LockProtectsTheRead
  <2>4. \A u \in Tx : tx'[u].pc \in {"loaded", "written"} =>
            tx[u].claim # c /\ u # t /\ tx[u].claim \in Claim
    BY SMTT(30), <2>1, <2>2, <2>3 DEF ExpensesInv, LockProtectsTheRead, RequestOK
  <2>5. \A u \in Tx : tx'[u].pc \in {"loaded", "written"} =>
            lockedBy'[tx'[u].claim] = u /\ rows'[tx'[u].claim] = tx'[u].read
    BY SMTT(30), <2>1, <2>4, <1>1, <1>4 DEF ExpensesInv, LockProtectsTheRead
  <2>6. \A d \in Claim : lockedBy'[d] # NULL =>
            tx'[lockedBy'[d]].claim = d /\ tx'[lockedBy'[d]].pc \in {"loaded", "written"}
    BY SMTT(30), <2>1, <1>1, <1>4 DEF ExpensesInv, LockProtectsTheRead
  <2> QED
    BY Zenon, <2>5, <2>6 DEF LockProtectsTheRead
<1>10. \A u \in Tx : RequestOK(tx'[u])
  BY Zenon, <1>1, ConstantTypes DEF ExpensesInv
<1>11. \A d \in Claim : Exists(d)' => RowChecks(rows'[d])
  <2> SUFFICES ASSUME NEW d \in Claim, Exists(d)'  PROVE RowChecks(rows'[d])
    BY Zenon
  <2>1. CASE d = c
    BY Zenon, <2>1, <1>1, <1>2 DEF Exists
  <2>2. CASE d # c
    BY Zenon, <2>2, <1>1 DEF Exists, ExpensesInv
  <2> QED
    BY Zenon, <2>1, <2>2
<1> QED
  BY Zenon, <1>8, <1>9, <1>10, <1>11 DEF ExpensesInv

LEMMA UpdateMemberInv ==
    ASSUME ExpensesInv, NEW m \in Member, NEW target \in Member,
           NEW new \in MembershipChange, UpdateMember(m, target, new)
    PROVE  ExpensesInv'
<1>1. new \in [role : Roles, status : MembershipStatuses,
               dept : Department \cup {NULL}, limit : Limit \cup {NULL}]
  BY Zenon, ExpensesAssumption
<1>2. members' \in [Member -> Actors]
  BY Zenon, <1>1 DEF ExpensesInv, TypeOK, UpdateMember, Actors
<1>3. UNCHANGED <<rows, ledger, lockedBy, tx>>
  BY Zenon DEF UpdateMember
<1> QED
  BY Zenon, <1>2, <1>3
     DEF ExpensesInv, TypeOK, ClaimTypeOK, LockProtectsTheRead, Exists

LEMMA ExpensesStep == ExpensesInv /\ [Next]_vars => ExpensesInv'
<1> SUFFICES ASSUME ExpensesInv, [Next]_vars  PROVE ExpensesInv'
  BY Zenon
<1>1. ASSUME NEW t \in Tx, NEW r \in Requests, NEW c \in Claim \cup {NULL},
             Begin(t, r[1], r[2], c)
      PROVE  ExpensesInv'
  BY Zenon, <1>1, BeginInv
<1>2. ASSUME NEW t \in Tx, Progress(t)
      PROVE  ExpensesInv'
  BY Zenon, <1>2, InsertInv, LoadInv, WriteInv, CommitInv, RollbackInv DEF Progress, Refuse
<1>3. ASSUME NEW t \in Tx, Abort(t)
      PROVE  ExpensesInv'
  BY Zenon, <1>3, RollbackInv DEF Abort
<1>4. ASSUME NEW m \in Member, NEW target \in Member, NEW new \in MembershipChange,
             UpdateMember(m, target, new)
      PROVE  ExpensesInv'
  BY Zenon, <1>4, UpdateMemberInv
<1>5. CASE UNCHANGED vars
  BY Zenon, <1>5 DEF vars, ExpensesInv, TypeOK, ClaimTypeOK, LockProtectsTheRead, Exists
<1> QED
  BY Zenon, <1>1, <1>2, <1>3, <1>4, <1>5 DEF Next

-----------------------------------------------------------------------------
\* The invariant of the transactions holds in every reachable state; in
\* particular every variable has its type, and while a request holds a claim
\* the committed row is the row it read.
THEOREM ExpensesInvariance == Spec => [](ExpensesInv /\ TypeOK /\ LockProtectsTheRead)
<1>1. ExpensesInv => TypeOK /\ LockProtectsTheRead
  BY Zenon DEF ExpensesInv
<1> QED
  BY <1>1, ExpensesInit, ExpensesStep, PTL DEF Spec

\* A transition the domain allows moves a row that meets the CHECKs to a row
\* that meets them, and its event changes the status.
LEMMA MovedMeetsChecks ==
    ASSUME NEW e \in Rows, NEW a \in Actions, NEW actor \in Actors,
           NEW text \in CommandTexts, Applies(e, a, actor, text), RowChecks(e)
    PROVE  RowChecks(Moved(e, a, actor)) /\ EventChecks(MoveEvent(e, a, actor))
<1>1. e.status = From[a]
  BY Zenon DEF Applies
<1>2. actor.id # NULL
  BY Zenon, IdAssumption DEF Actors
<1>3. Moved(e, a, actor) \in Rows
  BY Zenon, MovedType
<1>4. /\ Moved(e, a, actor).amount > 0
      /\ Moved(e, a, actor).revision >= 1
      /\ Moved(e, a, actor).version >= 1
  <2> DEFINE f == Moved(e, a, actor)
  <2> HIDE DEF f
  <2>1. f.amount \in Amount /\ f.revision \in Nat \ {0} /\ f.version \in Nat \ {0}
    BY Zenon, <1>3 DEF Rows, f
  <2>2. f.amount \in Nat \ {0}
    BY <2>1, AmountAssumption, Zenon
  <2>3. f.amount > 0 /\ f.revision >= 1 /\ f.version >= 1
    BY <2>1, <2>2
  <2> QED
    BY Zenon, <2>3 DEF f
<1>5. RowChecks(Moved(e, a, actor))
  <2>1. CASE a = "submit"
    BY <2>1, <1>1, <1>4, ZenonT(60) DEF RowChecks, Moved, From, To, Decides, Reopens
  <2>2. CASE a = "approve"
    BY <2>2, <1>1, <1>2, <1>4, ZenonT(60) DEF RowChecks, Moved, From, To, Decides, Reopens
  <2>3. CASE a = "reject"
    BY <2>3, <1>1, <1>2, <1>4, ZenonT(60) DEF RowChecks, Moved, From, To, Decides, Reopens
  <2>4. CASE a = "withdraw"
    BY <2>4, <1>1, <1>4, ZenonT(60) DEF RowChecks, Moved, From, To, Decides, Reopens
  <2>5. CASE a = "revise"
    BY <2>5, <1>1, <1>4, ZenonT(60) DEF RowChecks, Moved, From, To, Decides, Reopens
  <2>6. CASE a = "pay"
    BY <2>6, <1>1, <1>4, ZenonT(60) DEF RowChecks, Moved, From, To, Decides, Reopens
  <2> QED
    BY Zenon, <2>1, <2>2, <2>3, <2>4, <2>5, <2>6 DEF Actions
<1>6. EventChecks(MoveEvent(e, a, actor))
  BY <1>1, SMTT(40) DEF EventChecks, MoveEvent, Actions, From, To
<1> QED
  BY Zenon, <1>5, <1>6

LEMMA InvGivesConstraints == ExpensesInv => TransitionsMeetConstraints
<1> SUFFICES ASSUME ExpensesInv, NEW t \in Tx, tx[t].pc = "loaded", tx[t].op \in Actions,
                    NEW w \in Attempts(t)
             PROVE  Accepts(t, w)
  BY Zenon DEF TransitionsMeetConstraints
<1>1. /\ tx[t].actor \in Actors /\ tx[t].op \in Ops /\ tx[t].op # "create"
      /\ tx[t].read \in Rows /\ tx[t].claim \in Claim
      /\ rows[tx[t].claim] = tx[t].read
  BY Zenon DEF ExpensesInv, RequestOK, LockProtectsTheRead
<1>2. RowChecks(tx[t].read)
  BY Zenon, <1>1, AbsentAssumption DEF ExpensesInv, Exists
<1>3. tx[t].op \notin {"update", "delete"}
  BY Zenon DEF Actions
<1>4. PICK text \in CommandTexts : Applies(tx[t].read, tx[t].op, tx[t].actor, text)
  BY Zenon, <1>1, <1>3, AttemptCases
<1>5. /\ w.row = Moved(tx[t].read, tx[t].op, tx[t].actor)
      /\ w.event = MoveEvent(tx[t].read, tx[t].op, tx[t].actor)
  BY Zenon, <1>1, <1>3, AttemptCases
<1>6. RowChecks(w.row) /\ EventChecks(w.event)
  BY Zenon, <1>1, <1>2, <1>4, <1>5, MovedMeetsChecks
<1> QED
  BY Zenon, <1>1, <1>3, <1>6 DEF Accepts, TransitionExpense, AppendExpenseEvent

\* No transition the domain allows is refused by the schema, whatever the
\* other requests do.
THEOREM ConstraintsMet == Spec => []TransitionsMeetConstraints
  BY ExpensesInvariance, InvGivesConstraints, PTL

-----------------------------------------------------------------------------
(* The service implements ClaimRecord: a commit is one of its operations,  *)
(* every other step leaves the record alone.                               *)

LEMMA CommitIsClaimStep ==
    ASSUME ExpensesInv, ClaimInv, NEW t \in Tx, Commit(t)
    PROVE  ClaimNext
<1> DEFINE c == tx[t].claim
           w == tx[t]
<1>1. /\ rows \in [Claim -> Rows \cup {NULL, Deleted}] /\ ledger \in [Claim -> Seq(Events)]
      /\ w.pc = "written"
      /\ rows' = [rows EXCEPT ![c] = w.row]
      /\ ledger' = [ledger EXCEPT ![c] =
                      IF w.row = Deleted THEN << >> ELSE Append(@, w.event)]
  BY Zenon DEF ExpensesInv, TypeOK, ClaimTypeOK, Commit
<1>2. /\ c \in Claim /\ WriteIsLegal(w) /\ w.actor \in Actors
      /\ rows[c] = w.read
  BY Zenon, <1>1 DEF ExpensesInv, RequestOK, LockProtectsTheRead
<1>3. rows'[c] = w.row
  BY Zenon, <1>1, <1>2
<1> HIDE DEF c, w
<1>4. CASE w.op = "create"
  <2>1. PICK dept \in Department \cup {NULL}, amount \in Amount :
            /\ GovernsDepartment(w.actor, dept)
            /\ w.row = NewClaim(w.actor.id, dept, amount)
            /\ w.event = NewEvent(w.actor.id, amount)
    BY Zenon, <1>2, <1>4 DEF WriteIsLegal, Actions
  <2>2. w.read = NULL /\ Can(w.actor, "ExpenseCreate")
    BY Zenon, <1>2, <1>4 DEF WriteIsLegal, Actions
  <2>3. w.row \in Rows /\ w.event \in Events
    BY Zenon, <2>1, <1>2, NewType DEF Actors
  <2>4. w.row # Deleted /\ w.row # NULL
    BY Zenon, <2>3, AbsentAssumption
  <2>5. ledger[c] = << >>
    BY Zenon, <2>2, <1>2 DEF ClaimInv, Exists
  <2>6. ledger' = [ledger EXCEPT ![c] = <<w.event>>]
    BY <2>3, <2>4, <2>5, <1>1, <1>2
  <2>7. CreateClaim(c)
    <3>1. /\ rows'   = [rows EXCEPT ![c] = NewClaim(w.actor.id, dept, amount)]
          /\ ledger' = [ledger EXCEPT ![c] = <<NewEvent(w.actor.id, amount)>>]
      BY Zenon, <2>1, <2>6, <1>1
    <3>2. rows[c] = NULL
      BY Zenon, <2>2, <1>2
    <3> QED
      BY <3>1, <3>2, <2>1, <2>2, <1>2, Zenon DEF CreateClaim
  <2> QED
    BY Zenon, <2>2, <2>4, <2>7, <1>2, <1>3 DEF ClaimNext
<1>5. CASE w.op \in Actions
  <2>1. /\ w.read \in Rows
        /\ w.row = Moved(w.read, w.op, w.actor)
        /\ w.event = MoveEvent(w.read, w.op, w.actor)
    BY Zenon, <1>2, <1>5 DEF WriteIsLegal, Actions
  <2>2. PICK text \in CommandTexts : Applies(w.read, w.op, w.actor, text)
    BY Zenon, <1>2, <1>5 DEF WriteIsLegal, Actions
  <2>3. w.row \in Rows /\ w.row # Deleted
    BY Zenon, <2>1, <1>2, <1>5, MovedType, AbsentAssumption
  <2>4. /\ rows'   = [rows EXCEPT ![c] = Moved(@, w.op, w.actor)]
        /\ ledger' = [ledger EXCEPT ![c] = Append(@, MoveEvent(rows[c], w.op, w.actor))]
    BY Zenon, <2>1, <2>3, <1>1, <1>2
  <2>5. Exists(c)
    BY Zenon, <2>1, <1>2, AbsentAssumption DEF Exists
  <2>6. TransitionClaim(c, w.op)
    BY <2>2, <2>4, <2>5, <1>2, ZenonT(60) DEF TransitionClaim
  <2>7. rows'[c] # rows[c]
    <3>1. w.row.version = w.read.version + 1 /\ w.read.version \in Nat
      BY <2>1, SMTT(40) DEF Moved, Rows
    <3> QED
      BY <3>1, <1>2, <1>3, SMTT(40)
  <2> QED
    BY Zenon, <2>6, <2>7, <1>2, <1>5 DEF ClaimNext
<1>6. CASE w.op = "delete"
  <2>1. /\ w.read \in Rows /\ w.row = Deleted
        /\ w.actor.id = w.read.submitter
        /\ Can(w.actor, "ExpenseDeleteOwn")
        /\ Editable(w.read.status)
    BY Zenon, <1>2, <1>6 DEF WriteIsLegal, Actions
  <2>2. DeleteClaim(c)
    BY Zenon, <2>1, <1>1, <1>2, AbsentAssumption DEF DeleteClaim, Exists
  <2>3. rows'[c] # rows[c]
    BY Zenon, <2>1, <1>2, <1>3, AbsentAssumption
  <2> QED
    BY Zenon, <2>2, <2>3, <1>2 DEF ClaimNext
<1> QED
  BY Zenon, <1>2, <1>4, <1>5, <1>6 DEF WriteIsLegal

LEMMA StepIsClaimStep ==
    ExpensesInv /\ ClaimInv /\ [Next]_vars => [ClaimNext]_claimVars
<1> SUFFICES ASSUME ExpensesInv, ClaimInv, [Next]_vars  PROVE [ClaimNext]_claimVars
  BY Zenon
<1>1. ASSUME NEW t \in Tx, Progress(t)
      PROVE  ClaimNext \/ UNCHANGED claimVars
  BY <1>1, CommitIsClaimStep, ZenonT(60)
  DEF Progress, Insert, Load, Write, Refuse, Rollback, claimVars
<1>2. ASSUME NEW t \in Tx, Abort(t)
      PROVE  UNCHANGED claimVars
  BY Zenon, <1>2 DEF Abort, Rollback, claimVars
<1>3. ASSUME NEW t \in Tx, NEW r \in Requests, NEW c \in Claim \cup {NULL},
             Begin(t, r[1], r[2], c)
      PROVE  UNCHANGED claimVars
  BY Zenon, <1>3 DEF Begin, claimVars
<1>4. ASSUME NEW m \in Member, NEW target \in Member, NEW new \in MembershipChange,
             UpdateMember(m, target, new)
      PROVE  UNCHANGED claimVars
  BY Zenon, <1>4 DEF UpdateMember, claimVars
<1>5. CASE UNCHANGED vars
  BY Zenon, <1>5 DEF vars, claimVars
<1> QED
  BY Zenon, <1>1, <1>2, <1>3, <1>4, <1>5 DEF Next

\* The concurrent service implements the atomic record of claims.
THEOREM ImplementsClaimRecord == Spec => ClaimSpec
<1>1. Init => ClaimInit /\ ClaimInv
  BY Zenon, InitEstablishesInv DEF Init
<1>2. ExpensesInv /\ ClaimInv /\ [Next]_vars => ClaimInv' /\ [ClaimNext]_claimVars
  BY Zenon, StepIsClaimStep, StepPreservesInv
<1> QED
  BY <1>1, <1>2, ExpensesInvariance, PTL DEF Spec, ClaimSpec

\* Under every interleaving of requests, aborts and role changes: the ledger
\* leads to the row, no revision is decided twice, and the submitter, the
\* approver and the payer of a paid claim are three different members.
THEOREM ExpensesSafety ==
    Spec => [](/\ LedgerTellsTheClaim
               /\ OneDecisionPerRevision
               /\ SeparationOfDuties
               /\ DeciderIsInLedger)
  BY ImplementsClaimRecord, ClaimSafety, PTL

\* Approved claims only ever become paid, paid claims never change.
THEOREM ExpensesSettledIsFinal == Spec => SettledIsFinal
  BY ImplementsClaimRecord, ClaimSettledIsFinal, PTL
=============================================================================
