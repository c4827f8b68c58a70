---------------------------- MODULE BillingRelay ----------------------------
(***************************************************************************)
(* One tenant's own subscription, projected from the payment gateway.  The *)
(* gateway forwards an unordered, at-least-once stream; the receiver       *)
(* claims an event id in the ledger `billing_events`, applies the event to *)
(* `tenant_subscriptions` and settles the ledger row, in three separate    *)
(* transactions.  A periodic sweep takes up rows that were claimed and     *)
(* never settled, and a nightly job asks the gateway for the truth.        *)
(*                                                                         *)
(*   handler/billing.go     Claim, Duplicate, Answer                       *)
(*   billing_service.go     Apply, Settle, GiveUp, Reconcile*, checkout    *)
(*   worker/handlers.go     Reclaim, TakeUp, SweepDone                     *)
(*   queries/billing.sql    Upserted, Settled                              *)
(*                                                                         *)
(* A verified delivery is the starting point: the signature check lets     *)
(* nothing else through and changes no state.  Time is logical: one clock  *)
(* stamps events and reconciliations, and may or may not have moved on     *)
(* since the last stamp.                                                   *)
(***************************************************************************)
EXTENDS Integers, Sequences

CONSTANTS
    NULL,
    Receiver,         \* relay requests that can be in flight at once
    Sweeper,          \* relay sweeps that can overlap
    MaxRelayAttempts, \* 5 in the code
    RelaySweepBatch,  \* 50 in the code
    MaxEvents,        \* bound: events the gateway emits
    MaxTime,          \* bound: clock readings
    MaxFaults         \* bound: crashes, failed statements and lost links

Worker  == Receiver \cup Sweeper
EventId == 1 .. MaxEvents

\* "handled": one of the five known types, with a subscription.  "ignored":
\* an unrecognised type, or an event that carries no subscription.
Kinds == {"handled", "ignored"}

Outcomes == {"succeeded", "skipped", "failed"}

LedgerRows == [status : Outcomes \cup {"processing"}, attempts : Nat \ {0}]

ASSUME RelayAssumption ==
    /\ Receiver \cap Sweeper = {}
    /\ NULL \notin Worker /\ NULL \notin Nat /\ NULL \notin LedgerRows
    /\ MaxRelayAttempts \in Nat /\ RelaySweepBatch \in Nat
    /\ MaxEvents \in Nat /\ MaxTime \in Nat \ {0} /\ MaxFaults \in Nat

VARIABLES
    now,       \* the clock
    checkout,  \* "none", or "accepted" while the link is still to be written
    customer,  \* the gateway knows the tenant as a customer
    linked,    \* tenants.billing_customer_ref is set
    log,       \* the events the gateway has emitted, in order
    truth,     \* the event that made the subscription what it is there, 0 for none
    acked,     \* events the gateway has had a 2xx for
    ledger,    \* billing_events: NULL or [status, attempts]
    line,      \* the 'processing' rows by received_at, oldest first
    job,       \* what each receiver and sweeper is doing
    proj,      \* tenant_subscriptions: state number and last_event_at; 0 if no row
    rec,       \* the reconciliation job: the state it read, or NULL
    faults     \* faults so far

vars == <<now, checkout, customer, linked, log, truth, acked, ledger, line, job, proj,
          rec, faults>>

gatewayVars == <<now, checkout, customer, linked, log, truth>>

\* todo: the reclaimed deliveries a sweep has still to look at, with the
\* attempts each had when it was reclaimed.
Jobs == [pc : {"idle", "sweeping", "claimed", "applied"}, event : EventId \cup {NULL},
         outcome : Outcomes \cup {NULL}, todo : SUBSET (EventId \X Nat)]

Idle == [pc |-> "idle", event |-> NULL, outcome |-> NULL, todo |-> {}]

Claimed == {e \in EventId : ledger[e] # NULL}

Processing(e) == ledger[e] # NULL /\ ledger[e].status = "processing"

Init ==
    /\ now = 1 /\ checkout = "none" /\ customer = FALSE /\ linked = FALSE
    /\ log = << >> /\ truth = 0 /\ acked = {}
    /\ ledger = [e \in EventId |-> NULL]
    /\ line = << >>
    /\ job = [w \in Worker |-> Idle]
    /\ proj = [sub |-> 0, at |-> 0]
    /\ rec = NULL
    /\ faults = 0

-----------------------------------------------------------------------------
(* The gateway and the checkout.                                           *)

\* The clock is read and says t.
ReadClock(t) == t \in now .. MaxTime /\ now' = t

\* The subscription changes, or something else worth an event happens.  Two
\* events may carry the same created_at.
Emit(kind, t) ==
    /\ customer /\ Len(log) < MaxEvents
    /\ ReadClock(t)
    /\ log' = Append(log, [at |-> t, kind |-> kind])
    /\ truth' = IF kind = "handled" THEN Len(log) + 1 ELSE truth
    /\ UNCHANGED <<checkout, customer, linked, acked, ledger, line, job, proj, rec, faults>>

\* BillingService.StartCheckout, up to the gateway accepting the session.
StartCheckout ==
    /\ checkout = "none" /\ ~linked
    /\ checkout' = "accepted" /\ customer' = TRUE
    /\ UNCHANGED <<now, linked, log, truth, acked, ledger, line, job, proj, rec, faults>>

\* The second transaction of StartCheckout: LinkBillingCustomer.
Link ==
    /\ checkout = "accepted"
    /\ checkout' = "none" /\ linked' = TRUE
    /\ UNCHANGED <<now, customer, log, truth, acked, ledger, line, job, proj, rec, faults>>

\* That transaction fails, or the process dies before it: the failure is
\* logged and the session is returned all the same.
LinkLost ==
    /\ checkout = "accepted" /\ faults < MaxFaults
    /\ checkout' = "none" /\ faults' = faults + 1
    /\ UNCHANGED <<now, customer, linked, log, truth, acked, ledger, line, job, proj, rec>>

-----------------------------------------------------------------------------
(* The statements of queries/billing.sql.                                  *)

\* Seeded fault: the DO UPDATE branch without its WHERE clause.
AlwaysFresh(p, at) == TRUE

\* The WHERE clause of UpsertTenantSubscription's DO UPDATE branch: an event
\* older than the applied one changes nothing, one with the same timestamp
\* goes through.
Fresh(p, at) == p.at <= at

Upserted(p, sub, at) == IF Fresh(p, at) THEN [sub |-> sub, at |-> at] ELSE p

\* Seeded fault: SettleBillingEvent without AND status = 'processing'.
SettledAnyway(row, outcome) == [row EXCEPT !.status = outcome]

\* Seeded fault: SettleBillingEvent only for the attempt the receiver claimed.
SettledFirstAttempt(row, outcome) ==
    IF row.status = "processing" /\ row.attempts = 1
    THEN [row EXCEPT !.status = outcome] ELSE row

\* SettleBillingEvent.
Settled(row, outcome) ==
    IF row.status = "processing" THEN [row EXCEPT !.status = outcome] ELSE row

\* The line without e, which is in it at most once.
Without(s, e) ==
    IF \E i \in 1 .. Len(s) : s[i] = e
    THEN LET i == CHOOSE n \in 1 .. Len(s) : s[n] = e
         IN  SubSeq(s, 1, i - 1) \o SubSeq(s, i + 1, Len(s))
    ELSE s

\* SettleDelivery as part of a step: the row leaves 'processing'.
SettleRow(e, outcome) ==
    /\ ledger' = [ledger EXCEPT ![e] = Settled(@, outcome)]
    /\ line' = Without(line, e)

-----------------------------------------------------------------------------
(* A delivery at the receiver.                                             *)

\* Seeded fault: attempts defaults to 0, against billing_events_attempts_chk.
ClaimedRowFromZero == [status |-> "processing", attempts |-> 0]

\* What ClaimBillingEvent inserts: the columns' defaults.
ClaimedRow == [status |-> "processing", attempts |-> 1]

\* IngestRelayedEvent: the id is new and the claim is committed.
Claim(r, e) ==
    /\ job[r].pc = "idle"
    /\ e \in 1 .. Len(log) /\ ledger[e] = NULL
    /\ ledger' = [ledger EXCEPT ![e] = ClaimedRow]
    /\ line' = Append(line, e)
    /\ job' = [job EXCEPT ![r] = [Idle EXCEPT !.pc = "claimed", !.event = e]]
    /\ UNCHANGED <<gatewayVars, acked, proj, rec, faults>>

\* The id is already in the ledger, whatever became of it: answered 200.
Duplicate(r, e) ==
    /\ job[r].pc = "idle"
    /\ e \in 1 .. Len(log) /\ ledger[e] # NULL /\ e \notin acked
    /\ acked' = acked \cup {e}
    /\ UNCHANGED <<gatewayVars, ledger, line, job, proj, rec, faults>>

\* The customer named in the event is this tenant's billing_customer_ref.
ResolveTenantByBillingRef == linked

\* applyEvent: an ignored event, an unknown tenant and a stale event are all
\* skipped.
Apply(w) ==
    LET e       == job[w].event
        known   == log[e].kind = "handled" /\ ResolveTenantByBillingRef
    IN  /\ job[w].pc = "claimed"
        /\ proj' = IF known THEN Upserted(proj, e, log[e].at) ELSE proj
        /\ job' = [job EXCEPT ![w].pc = "applied",
                              ![w].outcome = IF known /\ Fresh(proj, log[e].at)
                                             THEN "succeeded" ELSE "skipped"]
        /\ UNCHANGED <<gatewayVars, acked, ledger, line, rec, faults>>

\* A statement of applyEvent fails: the database is away, the caller hung up,
\* the route's timeout fired, or a CHECK refused the row.
ApplyFails(w) ==
    /\ job[w].pc = "claimed" /\ faults < MaxFaults
    /\ job' = [job EXCEPT ![w].pc = "applied", ![w].outcome = "failed"]
    /\ faults' = faults + 1
    /\ UNCHANGED <<gatewayVars, acked, ledger, line, proj, rec>>

\* Where a worker goes once it has dealt with a delivery.
Resume(w) == [Idle EXCEPT !.pc = IF w \in Sweeper THEN "sweeping" ELSE "idle",
                          !.todo = job[w].todo]

\* HandleRelay's status code: 200 stops redelivery, 500 does not.  A sweep
\* answers nobody.  An answer that is lost on the way makes the gateway
\* redeliver to a Duplicate that answers the same.
Answer(w) ==
    acked' = IF w \in Receiver /\ job[w].outcome # "failed"
             THEN acked \cup {job[w].event} ELSE acked

\* The end of applyAndSettle.
Settle(w) ==
    /\ job[w].pc = "applied"
    /\ SettleRow(job[w].event, job[w].outcome)
    /\ job' = [job EXCEPT ![w] = Resume(w)]
    /\ Answer(w)
    /\ UNCHANGED <<gatewayVars, proj, rec, faults>>

\* SettleDelivery fails: logged, and the answer is the same.
SettleFails(w) ==
    /\ job[w].pc = "applied" /\ faults < MaxFaults
    /\ job' = [job EXCEPT ![w] = Resume(w)]
    /\ Answer(w)
    /\ faults' = faults + 1
    /\ UNCHANGED <<gatewayVars, ledger, line, proj, rec>>

\* The process dies; what it committed stays.
Crash(w) ==
    /\ job[w].pc # "idle" /\ faults < MaxFaults
    /\ job' = [job EXCEPT ![w] = Idle]
    /\ faults' = faults + 1
    /\ UNCHANGED <<gatewayVars, acked, ledger, line, proj, rec>>

-----------------------------------------------------------------------------
(* The relay sweep.                                                        *)

BeingReceived(e) == \E r \in Receiver : job[r].pc # "idle" /\ job[r].event = e

\* ReclaimStuckBillingEvents: the k oldest stale rows get one more attempt
\* and go to the back of the line.  A row in a receiver's hands is not stale,
\* since RelayStaleAfter (5m) exceeds the relay route's timeout (25s); one in
\* another sweep's hands may be.
Reclaim(s, k) ==
    LET batch == SubSeq(line, 1, k)
        taken == {batch[i] : i \in 1 .. k}
    IN  /\ job[s].pc = "idle"
        /\ k <= RelaySweepBatch /\ k <= Len(line)
        /\ \A e \in taken : Processing(e) /\ ~BeingReceived(e)
        /\ ledger' = [e \in EventId |->
              IF e \in taken THEN [ledger[e] EXCEPT !.attempts = @ + 1] ELSE ledger[e]]
        /\ line' = SubSeq(line, k + 1, Len(line)) \o batch
        /\ job' = [job EXCEPT ![s] = [Idle EXCEPT !.pc = "sweeping",
                      !.todo = {<<e, ledger[e].attempts + 1>> : e \in taken}]]
        /\ UNCHANGED <<gatewayVars, acked, proj, rec, faults>>

\* ReapplyStuck goes on to applyAndSettle with the stored payload.
TakeUp(s, e, n) ==
    /\ job[s].pc = "sweeping" /\ <<e, n>> \in job[s].todo
    /\ n <= MaxRelayAttempts
    /\ job' = [job EXCEPT ![s].pc = "claimed", ![s].event = e,
                          ![s].todo = @ \ {<<e, n>>}]
    /\ UNCHANGED <<gatewayVars, acked, ledger, line, proj, rec, faults>>

\* ReapplyStuck abandons a delivery that has had its attempts.
GiveUp(s, e, n) ==
    /\ job[s].pc = "sweeping" /\ <<e, n>> \in job[s].todo
    /\ n > MaxRelayAttempts
    /\ SettleRow(e, "failed")
    /\ job' = [job EXCEPT ![s].todo = @ \ {<<e, n>>}]
    /\ UNCHANGED <<gatewayVars, acked, proj, rec, faults>>

SweepDone(s) ==
    /\ job[s].pc = "sweeping" /\ job[s].todo = {}
    /\ job' = [job EXCEPT ![s] = Idle]
    /\ UNCHANGED <<gatewayVars, acked, ledger, line, proj, rec, faults>>

-----------------------------------------------------------------------------
(* Reconciliation: the sweep enqueues it for tenants that are linked.      *)

\* The tenant is among those the nightly job asks about.
TenantsWithBilling == linked

\* The gateway's record, 0 for its 404; a call that fails is retried and then
\* given up, and nothing happens.
GetSubscription == truth

\* Seeded fault: a tenant that already has a projection is not asked about.
ReconcileReadIfMissing ==
    /\ TenantsWithBilling /\ rec = NULL /\ GetSubscription # 0 /\ proj.sub = 0
    /\ rec' = GetSubscription
    /\ UNCHANGED <<gatewayVars, acked, ledger, line, job, proj, faults>>

\* Reconcile up to the answer; a customer without a subscription is left
\* alone.
ReconcileRead ==
    /\ TenantsWithBilling /\ rec = NULL /\ GetSubscription # 0
    /\ rec' = GetSubscription
    /\ UNCHANGED <<gatewayVars, acked, ledger, line, job, proj, faults>>

\* ApplySubscription stamped with time.Now().
ReconcileWrite(t) ==
    /\ rec # NULL
    /\ ReadClock(t)
    /\ proj' = Upserted(proj, rec, t)
    /\ rec' = NULL
    /\ UNCHANGED <<checkout, customer, linked, log, truth, acked, ledger, line, job, faults>>

ReconcileFails ==
    /\ rec # NULL /\ faults < MaxFaults
    /\ rec' = NULL /\ faults' = faults + 1
    /\ UNCHANGED <<gatewayVars, acked, ledger, line, job, proj>>

-----------------------------------------------------------------------------
Sweep(s) ==
    \/ \E d \in job[s].todo : TakeUp(s, d[1], d[2]) \/ GiveUp(s, d[1], d[2])
    \/ SweepDone(s)

ReclaimSome(s) == \E k \in 1 .. RelaySweepBatch : Reclaim(s, k)

Next ==
    \/ \E kind \in Kinds, t \in 1 .. MaxTime : Emit(kind, t)
    \/ StartCheckout
    \/ Link
    \/ LinkLost
    \/ \E r \in Receiver, e \in EventId : Claim(r, e) \/ Duplicate(r, e)
    \/ \E w \in Worker : Apply(w) \/ ApplyFails(w) \/ Settle(w) \/ SettleFails(w) \/ Crash(w)
    \/ \E s \in Sweeper : ReclaimSome(s) \/ Sweep(s)
    \/ ReconcileRead
    \/ \E t \in 1 .. MaxTime : ReconcileWrite(t)
    \/ ReconcileFails

Spec == Init /\ [][Next]_vars

\* Fairness: a process that is running goes on (its faults are bounded), the
\* relay sweep runs every ten minutes and the reconciliation every night.
\* Nothing is assumed of the gateway: it may never redeliver anything.
FairSpec ==
    /\ Spec
    /\ \A w \in Worker : WF_vars(Apply(w)) /\ WF_vars(Settle(w))
    /\ \A s \in Sweeper : WF_vars(ReclaimSome(s)) /\ WF_vars(Sweep(s))
    /\ WF_vars(ReconcileRead) /\ WF_vars(\E t \in 1 .. MaxTime : ReconcileWrite(t))

-----------------------------------------------------------------------------
\* Every variable has its type.
RelayTypeOK ==
    /\ now \in Nat \ {0}
    /\ checkout \in {"none", "accepted"}
    /\ customer \in BOOLEAN /\ linked \in BOOLEAN
    /\ log \in Seq([at : Nat \ {0}, kind : Kinds]) /\ Len(log) <= MaxEvents
    /\ truth \in 0 .. Len(log)
    /\ acked \subseteq EventId
    /\ ledger \in [EventId -> LedgerRows \cup {NULL}]
    /\ line \in Seq(EventId)
    /\ job \in [Worker -> Jobs]
    /\ proj \in [sub : Nat, at : Nat]
    /\ rec \in EventId \cup {NULL}
    /\ faults \in Nat

\* The out-of-order guard does its work across receivers, sweeps, repeats and
\* reconciliations: an event the ledger calls succeeded is in the projection
\* or has been superseded by something no older, however the deliveries were
\* interleaved, so a late `updated` never undoes the `canceled` after it.
SucceededIsReflected ==
    \A e \in EventId : ledger[e] # NULL /\ ledger[e].status = "succeeded" =>
        proj.at >= log[e].at

\* A delivery is settled once: a slow handler, a second sweep over the same
\* row or a give-up cannot change an outcome that is already recorded.
SettledOnce ==
    [][\A e \in EventId : ledger[e] # NULL /\ ~Processing(e) =>
          ledger'[e] = ledger[e]]_vars

\* No crash loses a claimed delivery: a row in 'processing' is settled in the
\* end (ReapplyStuck: "without this path, one crash at the wrong moment drops
\* a subscription change permanently").
ClaimedIsSettled == \A e \in EventId : Processing(e) ~> ~Processing(e)

\* Whatever the relay lost, reconciliation repairs: once the tenant is linked
\* and the gateway's state no longer changes, the projection comes to show
\* that state and keeps showing it.
Converges ==
    [](linked /\ Len(log) = MaxEvents /\ truth # 0 => <>[](proj.sub = truth))

\* "Duplicate event_id | 200 | already done" (docs/BILLING_INTEGRATION.md:111)
\* and "a genuine processing failure is 500 (retry, it might work)"
\* (handler/billing.go:116-117): the gateway is never told to stop redelivering
\* an event whose processing failed.
AcknowledgedIsDone ==
    \A e \in acked : ledger[e].status # "failed"

-----------------------------------------------------------------------------
(* The inductive invariant behind SucceededIsReflected and SettledOnce: a  *)
(* delivery in a worker's hands, in a sweep's batch or in the line is in   *)
(* the ledger and was emitted, and a worker about to settle an event as    *)
(* succeeded has it in the projection already.                             *)

JobOK(j) ==
    /\ j.pc \in {"claimed", "applied"} => j.event \in Claimed
    /\ j.pc = "applied" => j.outcome \in Outcomes
    /\ j.pc = "applied" /\ j.outcome = "succeeded" => proj.at >= log[j.event].at
    /\ \A d \in j.todo : d[1] \in Claimed

RelayInv ==
    /\ RelayTypeOK
    /\ SucceededIsReflected
    /\ \A e \in Claimed : e <= Len(log)
    /\ line \in Seq(Claimed)
    /\ \A w \in Worker : JobOK(job[w])
=============================================================================
