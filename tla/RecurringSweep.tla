--------------------------- MODULE RecurringSweep ---------------------------
(***************************************************************************)
(* The nightly sweep that turns due vendor subscriptions into draft        *)
(* claims.  A batch is read in one transaction, whose row locks end with   *)
(* it; each charge of the batch is then written in a transaction of its    *)
(* own, from the row as the batch read it.  A person's edit is checked     *)
(* against the row and the date of one moment and written at a later one,  *)
(* over whatever is there by then.                                         *)
(*                                                                         *)
(*   worker/handlers.go    StartSweep, MaterialiseOne, MaterialiseFails,   *)
(*                         EndBatch                                        *)
(*   queries/billing.sql   Due, Batches, Advanced                          *)
(*   budget_repo.go        NextChargeDate                                  *)
(*   org_service.go        CreateVendorSubscription,                       *)
(*                         UpdateVendorSubscription: the checks            *)
(*   org_repo.go           Insert, Save: the writes                        *)
(*                                                                         *)
(* Dates are counted in cadences of one subscription.  A claim is the pair *)
(* of its source_subscription_id and spent_at, the key of                  *)
(* expenses_recurring_once_per_charge_key; a filed draft is not discarded. *)
(***************************************************************************)
EXTENDS Integers, FiniteSets

CONSTANTS
    Sub,                 \* vendor subscriptions with auto_create_expense
    Tracked,             \* those there from the start, first due on the first day
    Owned,               \* those with an owner to attribute the claim to
    Acceptable,          \* those whose draft passes expense.New's validation
    Sweep,               \* sweeps that can overlap
    Editor,              \* people creating and editing at once
    RecurringBatchSize,  \* 100 in the code
    MaxDate,             \* bound: the last day
    MaxEdits,            \* bound: edits of subscriptions
    MaxFaults            \* bound: crashes and failed transactions

ASSUME RecurringAssumption ==
    /\ IsFiniteSet(Sub)
    /\ Tracked \subseteq Sub /\ Owned \subseteq Sub /\ Acceptable \subseteq Sub
    /\ RecurringBatchSize \in Nat \ {0}
    /\ MaxDate \in Nat \ {0} /\ MaxEdits \in Nat /\ MaxFaults \in Nat

VARIABLES
    today,   \* the date
    subs,    \* subs[v]: status ("none" before it exists), next_charge_on,
             \*   last_generated_on (0 for NULL)
    drafts,  \* what has passed its checks and is not written yet
    since,   \* history, since[v]: the charge date a person last gave v
    behind,  \* history: the charges an edit asked for when a sweep already
             \*   had a later one of the same subscription in hand
    claims,  \* the claims filed
    sweep,   \* sweep[w]: what the sweep w has in hand
    edits,   \* edits so far
    faults   \* faults so far

vars == <<today, subs, drafts, since, behind, claims, sweep, edits, faults>>

Statuses == {"active", "paused", "cancelled"}

Date == Nat \ {0}

Rows == [status : Statuses \cup {"none"}, next : Date, last : Nat]

\* A due charge as its batch read it.
Charges == [sub : Sub, next : Date]

Sweeps == [pc : {"idle", "batch"}, day : Nat, todo : SUBSET Charges,
           page : 0 .. RecurringBatchSize]

\* A request between its checks and its write.
Drafts == [by : Editor, kind : {"create", "update"}, sub : Sub, status : Statuses, next : Date]

Idle == [pc |-> "idle", day |-> 0, todo |-> {}, page |-> 0]

Init ==
    /\ today = 1
    /\ subs = [v \in Sub |-> [status |-> IF v \in Tracked THEN "active" ELSE "none",
                              next |-> 1, last |-> 0]]
    /\ drafts = {}
    /\ since = [v \in Sub |-> 1]
    /\ behind = {}
    /\ claims = {}
    /\ sweep = [w \in Sweep |-> Idle]
    /\ edits = 0
    /\ faults = 0

-----------------------------------------------------------------------------
NextDay ==
    /\ today < MaxDate
    /\ today' = today + 1
    /\ UNCHANGED <<subs, drafts, since, behind, claims, sweep, edits, faults>>

\* VendorSubscriptionDraft.Validate: the date is not in the past.
Validate(next) == next >= today

Busy(e) == \E f \in drafts : f.by = e

Checked(e, kind, v, status, next) ==
    /\ ~Busy(e)
    /\ drafts' = drafts \cup
                    {[by |-> e, kind |-> kind, sub |-> v, status |-> status, next |-> next]}
    /\ UNCHANGED <<today, subs, since, behind, claims, sweep, faults>>

\* The first charge is not in the past when it is checked; v is the id the
\* INSERT will draw.  Whether the plan admits one more subscription is left
\* open here (see Organisation for enforceLimit).
CreateVendorSubscription(e, v, next) ==
    /\ subs[v].status = "none" /\ \A f \in drafts : f.sub # v
    /\ Validate(next)
    /\ Checked(e, "create", v, "active", next)
    /\ UNCHANGED edits

\* A SELECT without a lock.
GetVendorSubscription(v) == subs[v]

\* The draft carries the whole row, the date included; a date in the past is
\* refused unless the row is cancelled with the date it was read with.  Either
\* the row read or the clock decides, never both, so one moment stands for the
\* two.  The rest of the row (owner, vendor, amount) keeps its value here.
UpdateVendorSubscription(e, v, status, next) ==
    /\ edits < MaxEdits
    /\ GetVendorSubscription(v).status # "none"
    /\ Validate(next) \/ (status = "cancelled" /\ next = GetVendorSubscription(v).next)
    /\ Checked(e, "update", v, status, next)
    /\ edits' = edits + 1

\* The row INSERT INTO vendor_subscriptions makes.
Inserted(next) == [status |-> "active", next |-> next, last |-> 0]

\* UPDATE vendor_subscriptions sets every column but last_generated_on, with
\* no condition on the row it was checked against.
Updated(row, status, next) == [row EXCEPT !.status = status, !.next = next]

\* The charges from this date on that lie before one a sweep has in hand.
Overtaken(v, next) ==
    {c \in [sub : {v}, next : next .. today] :
        \E w \in Sweep : \E d \in sweep[w].todo : d.sub = v /\ c.next < d.next}

\* The row is written; since and behind record a new date.
Written(f, row) ==
    /\ drafts' = drafts \ {f}
    /\ subs' = [subs EXCEPT ![f.sub] = row]
    /\ IF f.kind = "update" /\ f.next = subs[f.sub].next
       THEN UNCHANGED <<since, behind>>
       ELSE /\ since' = [since EXCEPT ![f.sub] = f.next]
            /\ behind' = behind \cup Overtaken(f.sub, f.next)
    /\ UNCHANGED <<today, claims, sweep, edits, faults>>

Insert(f) == f.kind = "create" /\ Written(f, Inserted(f.next))

Save(f) == f.kind = "update" /\ Written(f, Updated(subs[f.sub], f.status, f.next))

\* The request fails after its checks, and nothing is written.
Abandon(f) ==
    /\ drafts' = drafts \ {f}
    /\ UNCHANGED <<today, subs, since, behind, claims, sweep, edits, faults>>

-----------------------------------------------------------------------------
(* The queries.                                                            *)

\* Seeded fault: the IS NULL branch is missing, and a comparison with NULL is
\* not true.
DueUnlessNew(v, day) ==
    /\ subs[v].status = "active"
    /\ subs[v].next <= day
    /\ subs[v].last # 0 /\ subs[v].last < subs[v].next

\* The predicate of ClaimDueVendorSubscriptions.
Due(v, day) ==
    /\ subs[v].status = "active"
    /\ subs[v].next <= day
    /\ subs[v].last = 0 \/ subs[v].last < subs[v].next

\* Seeded fault: the query has no LIMIT.
UnlimitedBatches(day) == {{v \in Sub : Due(v, day)}}

\* The batches it may return: the oldest due rows, up to the limit.
Batches(day) ==
    LET due == {v \in Sub : Due(v, day)}
    IN  {b \in SUBSET due :
            /\ Cardinality(b) <= RecurringBatchSize
            /\ b = due \/ Cardinality(b) = RecurringBatchSize
            /\ \A v \in b, u \in due \ b : subs[v].next <= subs[u].next}

\* Seeded fault: the date is advanced by two cadences.
SkipOneDate(d) == d + 2

NextChargeDate(d) == d + 1

\* AdvanceVendorSubscription: last_generated_on takes the date the row has
\* now, next_charge_on the date computed from the batch's copy of the row.
Advanced(row, next) == [row EXCEPT !.last = row.next, !.next = next]

-----------------------------------------------------------------------------
(* A sweep.                                                                *)

\* claimDue: the batch, as read.
TakeBatch(w, day) ==
    \E b \in Batches(day) :
        sweep' = [sweep EXCEPT ![w] =
            [pc |-> "batch", day |-> day, page |-> Cardinality(b),
             todo |-> {[sub |-> v, next |-> subs[v].next] : v \in b}]]

\* HandleRecurringSweep starts: today is read once.
StartSweep(w) ==
    /\ sweep[w].pc = "idle"
    /\ TakeBatch(w, today)
    /\ UNCHANGED <<today, subs, drafts, since, behind, claims, edits, faults>>

\* The batch is worked through oldest charge first.
Foremost(w, d) ==
    /\ sweep[w].pc = "batch" /\ d \in sweep[w].todo
    /\ \A o \in sweep[w].todo : d.next <= o.next

\* materialise: the claim is inserted unless there is one for this charge,
\* and the subscription is advanced; without an owner it is only advanced.
MaterialiseOne(w, d) ==
    /\ Foremost(w, d)
    /\ d.sub \in Owned => d.sub \in Acceptable
    /\ claims' = IF d.sub \in Owned THEN claims \cup {d} ELSE claims
    /\ subs' = [subs EXCEPT ![d.sub] = Advanced(@, NextChargeDate(d.next))]
    /\ sweep' = [sweep EXCEPT ![w].todo = @ \ {d}]
    /\ UNCHANGED <<today, drafts, since, behind, edits, faults>>

\* The draft is not valid, so this charge fails every time.
MaterialiseRefused(w, d) ==
    /\ Foremost(w, d)
    /\ d.sub \in Owned \ Acceptable
    /\ sweep' = [sweep EXCEPT ![w].todo = @ \ {d}]
    /\ UNCHANGED <<today, subs, drafts, since, behind, claims, edits, faults>>

\* The transaction fails and rolls back: logged, and the batch goes on.
MaterialiseFails(w, d) ==
    /\ Foremost(w, d) /\ faults < MaxFaults
    /\ sweep' = [sweep EXCEPT ![w].todo = @ \ {d}]
    /\ faults' = faults + 1
    /\ UNCHANGED <<today, subs, drafts, since, behind, claims, edits>>

\* A short page ends the sweep; after a full one the next batch is read.
EndBatch(w) ==
    /\ sweep[w].pc = "batch" /\ sweep[w].todo = {}
    /\ IF sweep[w].page < RecurringBatchSize
       THEN sweep' = [sweep EXCEPT ![w] = Idle]
       ELSE TakeBatch(w, sweep[w].day)
    /\ UNCHANGED <<today, subs, drafts, since, behind, claims, edits, faults>>

\* The worker dies; the transactions it committed stay.
Crash(w) ==
    /\ sweep[w].pc = "batch" /\ faults < MaxFaults
    /\ sweep' = [sweep EXCEPT ![w] = Idle]
    /\ faults' = faults + 1
    /\ UNCHANGED <<today, subs, drafts, since, behind, claims, edits>>

Step(w) ==
    \/ \E d \in sweep[w].todo : MaterialiseOne(w, d) \/ MaterialiseRefused(w, d)
    \/ EndBatch(w)

Next ==
    \/ NextDay
    \/ \E e \in Editor, v \in Sub, next \in 1 .. MaxDate :
          \/ CreateVendorSubscription(e, v, next)
          \/ \E status \in Statuses : UpdateVendorSubscription(e, v, status, next)
    \/ \E f \in drafts : Insert(f) \/ Save(f) \/ Abandon(f)
    \/ \E w \in Sweep :
          \/ StartSweep(w)
          \/ Step(w)
          \/ \E d \in sweep[w].todo : MaterialiseFails(w, d)
          \/ Crash(w)

Spec == Init /\ [][Next]_vars

\* Fairness: the sweep is scheduled every night and a running sweep goes on.
FairSpec == Spec /\ \A w \in Sweep : WF_vars(StartSweep(w)) /\ WF_vars(Step(w))

-----------------------------------------------------------------------------
\* Every variable has its type.
RecurringTypeOK ==
    /\ today \in Date
    /\ subs \in [Sub -> Rows]
    /\ drafts \subseteq Drafts
    /\ since \in [Sub -> Date]
    /\ behind \subseteq Charges
    /\ claims \subseteq Charges
    /\ sweep \in [Sweep -> Sweeps]
    /\ edits \in Nat /\ faults \in Nat

\* The sweep skips no charge and files none early: when a subscription with
\* an owner expects its next charge at some date, every charge from the date a
\* person last gave it has its claim, through crashes, failed transactions,
\* edits written over rows that have changed since their check, and sweeps
\* that work from stale copies of the row; and no claim is for a day to come.
\* The one gap is a charge an edit asks for when a sweep already has a later
\* one in hand: that sweep advances the row past it.  A date that has not
\* passed by the time it is written is never in the gap.
EveryChargeFiled ==
    /\ \A v \in Owned : \A d \in since[v] .. (subs[v].next - 1) :
          [sub |-> v, next |-> d] \in claims \cup behind
    /\ \A c \in behind : c.next < today
    /\ \A c \in claims : c.next <= today

\* "Last date a draft was generated for" (00005_recurring_and_billing.sql, on
\* last_generated_on), which materialiseOne calls safe when "two sweeps running
\* at once could both reach this for the same subscription"
\* (worker/handlers.go:417): the date on the row is one that has a claim.
LastGeneratedIsTrue ==
    \A v \in Owned : subs[v].last # 0 => [sub |-> v, next |-> subs[v].last] \in claims

\* A charge does not stay due: it is filed in the end, unless its row changes
\* first; a neighbour whose draft never validates does not stand in its way.
DueIsFiled ==
    \A v \in Owned \cap Acceptable, d \in 1 .. MaxDate :
        subs[v].status = "active" /\ subs[v].next = d /\ d <= today /\ subs[v].last < d
           ~> \/ [sub |-> v, next |-> d] \in claims
              \/ subs[v].status # "active" \/ subs[v].next # d \/ subs[v].last >= d

\* The invariant the proof of EveryChargeFiled carries: a charge in a sweep's
\* hand, however stale, was due, and the charges before it are filed or were
\* asked for behind its back.
HandsOK ==
    \A w \in Sweep :
        /\ sweep[w].day <= today
        /\ \A d \in sweep[w].todo :
              /\ d.next <= today
              /\ d.sub \in Owned =>
                    \A k \in since[d.sub] .. (d.next - 1) :
                        [sub |-> d.sub, next |-> k] \in claims \cup behind

RecurringInv == RecurringTypeOK /\ EveryChargeFiled /\ HandsOK
=============================================================================
