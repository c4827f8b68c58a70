------------------------- MODULE BillingRelayProofs -------------------------
(***************************************************************************)
(* Proofs about the billing relay, for any number of receivers, sweeps,    *)
(* events and faults.  RelayInv is inductive: one lemma per group of       *)
(* actions, then the theorems.                                             *)
(***************************************************************************)
EXTENDS BillingRelay, SequenceTheorems, TLAPS

\* Settling a row takes its event out of the line and adds nothing to it.
LEMMA WithoutType ==
    ASSUME NEW S, NEW s \in Seq(S), NEW e
    PROVE  Without(s, e) \in Seq(S)
<1>1. CASE ~ \E i \in 1 .. Len(s) : s[i] = e
  BY <1>1 DEF Without
<1>2. CASE \E i \in 1 .. Len(s) : s[i] = e
  <2> DEFINE i == CHOOSE n \in 1 .. Len(s) : s[n] = e
  <2>1. i \in 1 .. Len(s)
    BY <1>2
  <2>2. Len(s) \in Nat
    OBVIOUS
  <2>3. \A n \in 1 .. Len(s) : s[n] \in S
    BY ElementOfSeq
  <2> HIDE DEF i
  <2>4. SubSeq(s, 1, i - 1) \in Seq(S)
    BY <2>1, <2>2, <2>3, SubSeqProperties
  <2>5. SubSeq(s, i + 1, Len(s)) \in Seq(S)
    BY <2>1, <2>2, <2>3, SubSeqProperties
  <2>6. SubSeq(s, 1, i - 1) \o SubSeq(s, i + 1, Len(s)) \in Seq(S)
    BY <2>4, <2>5, ConcatProperties
  <2> QED BY <1>2, <2>6 DEF Without, i
<1> QED BY <1>1, <1>2

\* The upsert never takes the projection back in time, and what it lets
\* through is in the projection afterwards.
LEMMA UpsertProperties ==
    ASSUME NEW p \in [sub : Nat, at : Nat], NEW sub \in Nat, NEW at \in Nat
    PROVE  /\ Upserted(p, sub, at) \in [sub : Nat, at : Nat]
           /\ Upserted(p, sub, at).at >= p.at
           /\ Fresh(p, at) => Upserted(p, sub, at).at = at
BY DEF Upserted, Fresh

\* A ledger row is not the absence of one.
LEMMA NullIsNoRow == NULL \notin LedgerRows
BY RelayAssumption

\* The emitted events are indexed from 1 and stamped with a time.
LEMMA LogFacts ==
    ASSUME RelayTypeOK
    PROVE  /\ Len(log) \in Nat
           /\ \A e \in 1 .. Len(log) : log[e].at \in Nat \ {0}
<1> DEFINE E == [at : Nat \ {0}, kind : Kinds]
<1>1. log \in Seq(E)
  BY DEF RelayTypeOK
<1>2. \A e \in 1 .. Len(log) : log[e] \in E
  <2> HIDE DEF E
  <2> QED BY <1>1, ElementOfSeq
<1>3. Len(log) \in Nat
  <2> HIDE DEF E
  <2> QED BY <1>1, LenProperties
<1> QED BY <1>2, <1>3

LEMMA RelayInit == Init => RelayInv
<1> SUFFICES ASSUME Init PROVE RelayInv
  OBVIOUS
<1>1. RelayTypeOK
  <2>1. log \in Seq([at : Nat \ {0}, kind : Kinds]) /\ Len(log) = 0 /\ line \in Seq(EventId)
    BY EmptySeq DEF Init
  <2>2. job \in [Worker -> Jobs]
    <3>1. Idle \in Jobs
      BY DEF Idle, Jobs
    <3> QED BY <3>1 DEF Init
  <2>3. customer \in BOOLEAN /\ linked \in BOOLEAN
    BY Zenon DEF Init
  <2>4. /\ now \in Nat \ {0} /\ checkout \in {"none", "accepted"} /\ Len(log) <= MaxEvents
        /\ truth \in 0 .. Len(log) /\ acked \subseteq EventId
        /\ ledger \in [EventId -> LedgerRows \cup {NULL}]
        /\ proj \in [sub : Nat, at : Nat] /\ rec \in EventId \cup {NULL} /\ faults \in Nat
    BY <2>1, RelayAssumption DEF Init
  <2> QED BY <2>1, <2>2, <2>3, <2>4 DEF RelayTypeOK
<1>2. line \in Seq(Claimed) /\ Claimed = {}
  BY EmptySeq DEF Init, Claimed
<1>3. \A w \in Worker : JobOK(job[w])
  BY DEF Init, Idle, JobOK
<1> QED BY <1>1, <1>2, <1>3 DEF RelayInv, Init, SucceededIsReflected

\* What a step carries over when it removes nothing from the ledger and does
\* not move the projection back: every fact about a delivery in hand.
LEMMA Carried ==
    ASSUME RelayInv, RelayTypeOK',
           \A e \in EventId : ledger[e] # NULL => ledger'[e] # NULL,
           proj'.at >= proj.at,
           Len(log') >= Len(log),
           \A e \in 1 .. Len(log) : log'[e] = log[e]
    PROVE  /\ \A e \in Claimed : e \in Claimed' /\ e <= Len(log')
           /\ \A e \in Claimed : log'[e] = log[e] /\ log[e].at \in Nat
           /\ \A j \in Jobs : JobOK(j) => JobOK(j)'
           /\ line \in Seq(Claimed')
<1>0. Len(log) \in Nat /\ Len(log') \in Nat
  <2>1. (Len(log) \in Nat)'
    BY LogFacts
  <2> QED BY <2>1, LogFacts DEF RelayInv
<1>1. \A e \in Claimed : e \in 1 .. Len(log) /\ e \in Claimed' /\ e <= Len(log')
  BY <1>0 DEF RelayInv, EventId, Claimed
<1>2. \A e \in Claimed : log'[e] = log[e] /\ log[e].at \in Nat
  BY <1>1, LogFacts DEF RelayInv
<1>3. proj.at \in Nat /\ proj'.at \in Nat
  BY DEF RelayInv, RelayTypeOK
<1>4. ASSUME NEW j \in Jobs, JobOK(j) PROVE JobOK(j)'
  BY <1>1, <1>2, <1>3, <1>4 DEF JobOK
<1>5. line \in Seq(Claimed')
  BY <1>1, SeqMonotonic DEF RelayInv
<1> QED BY <1>1, <1>2, <1>4, <1>5

\* Steps that touch neither the ledger, the line nor the workers: the clock,
\* the checkout and the reconciliation only ever move the projection forward.
LEMMA QuietStep ==
    ASSUME RelayInv, UNCHANGED <<ledger, line, job>>,
           RelayTypeOK', proj'.at >= proj.at,
           Len(log') >= Len(log),
           \A e \in 1 .. Len(log) : log'[e] = log[e]
    PROVE  RelayInv'
<1>1. /\ \A e \in Claimed : e \in Claimed' /\ e <= Len(log')
      /\ \A e \in Claimed : log'[e] = log[e] /\ log[e].at \in Nat
      /\ \A j \in Jobs : JobOK(j) => JobOK(j)'
      /\ line \in Seq(Claimed')
  BY Carried
<1>2. Claimed' = Claimed
  BY DEF Claimed
<1>3. proj.at \in Nat /\ proj'.at \in Nat
  BY DEF RelayInv, RelayTypeOK
<1>4. SucceededIsReflected'
  BY <1>1, <1>3 DEF RelayInv, SucceededIsReflected, Claimed
<1>5. \A w \in Worker : JobOK(job[w])'
  BY <1>1 DEF RelayInv, RelayTypeOK
<1> QED BY <1>1, <1>2, <1>4, <1>5 DEF RelayInv

LEMMA GatewayStep ==
    ASSUME RelayInv, \/ \E kind \in Kinds, t \in 1 .. MaxTime : Emit(kind, t)
                     \/ StartCheckout \/ Link \/ LinkLost
    PROVE  RelayInv'
<1>1. ASSUME NEW kind \in Kinds, NEW t \in 1 .. MaxTime, Emit(kind, t) PROVE RelayInv'
  <2> DEFINE ev == [at |-> t, kind |-> kind]
             E  == [at : Nat \ {0}, kind : Kinds]
  <2>1. ev \in E /\ log \in Seq(E) /\ t \in Nat \ {0} /\ Len(log) \in Nat /\ MaxEvents \in Nat
    BY RelayAssumption DEF RelayInv, RelayTypeOK
  <2>2. /\ log' \in Seq(E)
        /\ Len(log') = Len(log) + 1
        /\ \A e \in 1 .. Len(log) : log'[e] = log[e]
    <3> HIDE DEF ev, E
    <3>1. log' = Append(log, ev)
      BY <1>1 DEF Emit, ev
    <3> QED BY <3>1, <2>1, AppendProperties
  <2>3. RelayTypeOK'
    BY <1>1, <2>1, <2>2 DEF Emit, ReadClock, RelayInv, RelayTypeOK
  <2>4. UNCHANGED <<ledger, line, job, proj>> /\ proj.at \in Nat
    BY <1>1 DEF Emit, RelayInv, RelayTypeOK
  <2> QED BY <2>1, <2>2, <2>3, <2>4, QuietStep
<1>2. CASE StartCheckout \/ Link \/ LinkLost
  <2>1. UNCHANGED <<now, log, truth, acked, ledger, line, job, proj, rec>>
    BY <1>2 DEF StartCheckout, Link, LinkLost
  <2>2. customer' \in BOOLEAN /\ linked' \in BOOLEAN
    BY <1>2, Zenon DEF StartCheckout, Link, LinkLost, RelayInv, RelayTypeOK
  <2>3. checkout' \in {"none", "accepted"} /\ faults' \in Nat
    BY <1>2 DEF StartCheckout, Link, LinkLost, RelayInv, RelayTypeOK
  <2>4. RelayTypeOK'
    BY <2>1, <2>2, <2>3 DEF RelayInv, RelayTypeOK
  <2>5. proj.at \in Nat /\ Len(log) \in Nat
    BY LogFacts DEF RelayInv, RelayTypeOK
  <2> QED BY <2>1, <2>4, <2>5, QuietStep
<1> QED BY <1>1, <1>2

LEMMA ReconcileStep ==
    ASSUME RelayInv, \/ ReconcileRead \/ ReconcileFails
                     \/ \E t \in 1 .. MaxTime : ReconcileWrite(t)
    PROVE  RelayInv'
<1>1. CASE ReconcileRead \/ ReconcileFails
  <2>1. UNCHANGED <<gatewayVars, acked, ledger, line, job, proj>>
    BY <1>1 DEF ReconcileRead, ReconcileFails
  <2>2. rec' \in EventId \cup {NULL} /\ faults' \in Nat
    BY <1>1, LogFacts, RelayAssumption, SMTT(40)
    DEF ReconcileRead, GetSubscription, ReconcileFails, RelayInv, RelayTypeOK, EventId
  <2>3. RelayTypeOK'
    BY <2>1, <2>2 DEF RelayInv, RelayTypeOK, gatewayVars
  <2>4. proj.at \in Nat /\ Len(log) \in Nat
    BY LogFacts DEF RelayInv, RelayTypeOK
  <2> QED BY <2>1, <2>3, <2>4, QuietStep DEF gatewayVars
<1>2. ASSUME NEW t \in 1 .. MaxTime, ReconcileWrite(t) PROVE RelayInv'
  <2>1. proj' = Upserted(proj, rec, t) /\ rec \in Nat /\ t \in Nat \ {0}
    BY <1>2 DEF ReconcileWrite, RelayInv, RelayTypeOK, EventId
  <2>2. proj' \in [sub : Nat, at : Nat] /\ proj'.at >= proj.at
    BY <2>1, UpsertProperties, SMTT(40) DEF RelayInv, RelayTypeOK
  <2>3. RelayTypeOK' /\ UNCHANGED <<ledger, line, job, log>>
    BY <1>2, <2>1, <2>2 DEF ReconcileWrite, ReadClock, RelayInv, RelayTypeOK
  <2> QED BY <2>2, <2>3, QuietStep DEF RelayInv, RelayTypeOK
<1> QED BY <1>1, <1>2

\* A step of the worker v: what is left to show of it.
LEMMA WorkerStep ==
    ASSUME RelayInv, NEW v \in Worker,
           UNCHANGED <<gatewayVars, rec>>,
           acked' \subseteq EventId, faults' \in Nat,
           ledger' \in [EventId -> LedgerRows \cup {NULL}],
           \A e \in EventId : ledger[e] # NULL => ledger'[e] # NULL,
           \A e \in Claimed' : e <= Len(log),
           line' \in Seq(Claimed'),
           proj' \in [sub : Nat, at : Nat], proj'.at >= proj.at,
           job' \in [Worker -> Jobs],
           \A w \in Worker \ {v} : job'[w] = job[w],
           JobOK(job[v])',
           SucceededIsReflected'
    PROVE  RelayInv'
<1>1. line' \in Seq(EventId)
  <2>1. Claimed' \subseteq EventId
    BY DEF Claimed, EventId
  <2> QED BY <2>1, SeqMonotonic
<1>2. RelayTypeOK'
  BY <1>1 DEF RelayInv, RelayTypeOK, gatewayVars
<1>3. Len(log) \in Nat
  BY LogFacts DEF RelayInv
<1>4. \A j \in Jobs : JobOK(j) => JobOK(j)'
  BY <1>2, <1>3, Carried DEF gatewayVars
<1>5. \A w \in Worker : JobOK(job[w])'
  BY <1>4, Zenon DEF RelayInv, RelayTypeOK
<1>6. \A e \in Claimed' : e <= Len(log')
  BY DEF gatewayVars
<1> QED BY <1>2, <1>5, <1>6 DEF RelayInv

LEMMA ClaimStep ==
    ASSUME RelayInv, NEW r \in Receiver, NEW e \in EventId, Claim(r, e)
    PROVE  RelayInv'
<1>0. r \in Worker
  BY DEF Worker
<1>1. ClaimedRow \in LedgerRows /\ ClaimedRow # NULL /\ ledger' = [ledger EXCEPT ![e] = ClaimedRow]
  <2>1. ClaimedRow \in LedgerRows
    BY DEF ClaimedRow, LedgerRows
  <2> QED BY <2>1, NullIsNoRow DEF Claim
<1>2. /\ ledger' \in [EventId -> LedgerRows \cup {NULL}]
      /\ \A x \in EventId : ledger[x] # NULL => ledger'[x] # NULL
      /\ Claimed' = Claimed \cup {e}
  BY <1>1 DEF RelayInv, RelayTypeOK, Claimed
<1>3. line' \in Seq(Claimed')
  <2>1. line \in Seq(Claimed') /\ e \in Claimed'
    BY <1>2, SeqMonotonic DEF RelayInv
  <2> QED BY <2>1, AppendProperties DEF Claim
<1>4. job' \in [Worker -> Jobs] /\ job'[r] = [Idle EXCEPT !.pc = "claimed", !.event = e]
      /\ \A w \in Worker \ {r} : job'[w] = job[w]
  BY <1>0, Zenon DEF Claim, Idle, Jobs, RelayInv, RelayTypeOK
<1>5. JobOK(job[r])'
  BY <1>2, <1>4 DEF JobOK, Idle
<1>6. SucceededIsReflected'
  BY <1>1 DEF Claim, SucceededIsReflected, RelayInv, RelayTypeOK, ClaimedRow, gatewayVars
<1>7. \A x \in Claimed' : x <= Len(log)
  BY <1>2, LogFacts DEF Claim, RelayInv
<1>8. /\ UNCHANGED <<gatewayVars, rec>> /\ acked' \subseteq EventId /\ faults' \in Nat
      /\ proj' \in [sub : Nat, at : Nat] /\ proj'.at >= proj.at
  BY DEF Claim, RelayInv, RelayTypeOK
<1> QED BY <1>0, <1>2, <1>3, <1>4, <1>5, <1>6, <1>7, <1>8, WorkerStep

\* Steps that leave the ledger and the line alone.
LEMMA LedgerKept ==
    ASSUME RelayInv, UNCHANGED <<ledger, line>>
    PROVE  /\ ledger' \in [EventId -> LedgerRows \cup {NULL}]
           /\ \A e \in EventId : ledger[e] # NULL => ledger'[e] # NULL
           /\ Claimed' = Claimed
           /\ line' \in Seq(Claimed')
           /\ UNCHANGED gatewayVars => \A e \in Claimed' : e <= Len(log)
<1>1. Claimed' = Claimed
  BY DEF Claimed
<1> QED BY <1>1 DEF RelayInv, RelayTypeOK

LEMMA DuplicateStep ==
    ASSUME RelayInv, NEW r \in Receiver, NEW e \in EventId, Duplicate(r, e)
    PROVE  RelayInv'
<1>1. RelayTypeOK' /\ UNCHANGED <<gatewayVars, ledger, line, job, proj>>
  BY SMTT(40) DEF Duplicate, RelayInv, RelayTypeOK, gatewayVars
<1>2. proj.at \in Nat /\ Len(log) \in Nat
  BY LogFacts DEF RelayInv, RelayTypeOK
<1> QED BY <1>1, <1>2, QuietStep DEF gatewayVars

LEMMA ApplyStep ==
    ASSUME RelayInv, NEW w \in Worker, Apply(w)
    PROVE  RelayInv'
<1> DEFINE e == job[w].event
           known == log[e].kind = "handled" /\ linked
<1>1. e \in Claimed /\ e \in EventId /\ e \in Nat /\ log[e].at \in Nat
  BY LogFacts DEF Apply, RelayInv, JobOK, Claimed, EventId
<1>2. /\ proj' = IF known THEN Upserted(proj, e, log[e].at) ELSE proj
      /\ job' = [job EXCEPT ![w].pc = "applied",
                            ![w].outcome = IF known /\ Fresh(proj, log[e].at)
                                           THEN "succeeded" ELSE "skipped"]
      /\ UNCHANGED <<gatewayVars, acked, ledger, line, rec, faults>>
  BY DEF Apply, ResolveTenantByBillingRef
<1>3. proj \in [sub : Nat, at : Nat] /\ job \in [Worker -> Jobs] /\ job[w] \in Jobs
  BY DEF RelayInv, RelayTypeOK
<1>4. /\ proj' \in [sub : Nat, at : Nat]
      /\ proj'.at >= proj.at
      /\ known /\ Fresh(proj, log[e].at) => proj'.at = log[e].at
  <2> HIDE DEF e, known
  <2> QED BY <1>1, <1>2, <1>3, UpsertProperties
<1>5. /\ job' \in [Worker -> Jobs]
      /\ \A x \in Worker \ {w} : job'[x] = job[x]
      /\ job'[w].pc = "applied" /\ job'[w].event = e /\ job'[w].todo = job[w].todo
      /\ job'[w].outcome = IF known /\ Fresh(proj, log[e].at) THEN "succeeded" ELSE "skipped"
  <2> HIDE DEF known
  <2> QED BY <1>1, <1>2, <1>3, ZenonT(60) DEF Jobs, Outcomes
<1>6. Claimed' = Claimed /\ log' = log
  BY <1>2 DEF Claimed, gatewayVars
<1>7. JobOK(job[w])'
  <2> HIDE DEF e, known
  <2>1. JobOK(job[w])
    BY DEF RelayInv
  <2>2. job'[w].outcome \in Outcomes
    BY <1>5 DEF Outcomes
  <2>3. job'[w].outcome = "succeeded" => proj'.at = log'[e].at
    BY <1>4, <1>5, <1>6
  <2> QED BY <1>1, <1>4, <1>5, <1>6, <2>1, <2>2, <2>3 DEF JobOK
<1>8. SucceededIsReflected'
  <2>1. \A x \in Claimed : x <= Len(log) /\ log[x].at \in Nat
    BY LogFacts DEF RelayInv, Claimed, EventId
  <2> QED BY <1>2, <1>3, <1>4, <1>6, <2>1 DEF SucceededIsReflected, RelayInv, Claimed
<1> HIDE DEF e, known
<1> QED BY <1>2, <1>4, <1>5, <1>7, <1>8, LedgerKept, WorkerStep, Zenon DEF RelayInv, RelayTypeOK

\* Steps in which the worker only changes what it has in hand.
LEMMA HandsStep ==
    ASSUME RelayInv, NEW w \in Worker,
           UNCHANGED <<gatewayVars, ledger, line, proj, rec>>,
           acked' \subseteq EventId, faults' \in Nat,
           job' \in [Worker -> Jobs],
           \A x \in Worker \ {w} : job'[x] = job[x],
           job'[w].pc \in {"claimed", "applied"} => job'[w].event \in Claimed,
           job'[w].pc = "applied" => job'[w].outcome \in Outcomes \ {"succeeded"},
           \A d \in job'[w].todo : d[1] \in Claimed
    PROVE  RelayInv'
<1>1. Claimed' = Claimed
  BY DEF Claimed
<1>2. JobOK(job[w])'
  BY <1>1 DEF JobOK
<1>3. SucceededIsReflected'
  BY DEF RelayInv, SucceededIsReflected, gatewayVars
<1>4. proj' \in [sub : Nat, at : Nat] /\ proj'.at >= proj.at
  BY DEF RelayInv, RelayTypeOK
<1> QED BY <1>2, <1>3, <1>4, LedgerKept, WorkerStep

LEMMA HandsSteps ==
    ASSUME RelayInv, NEW w \in Worker,
           \/ ApplyFails(w) \/ SettleFails(w) \/ Crash(w)
           \/ w \in Sweeper /\ SweepDone(w)
           \/ w \in Sweeper /\ \E d \in job[w].todo : TakeUp(w, d[1], d[2])
    PROVE  RelayInv'
<1>0. job \in [Worker -> Jobs] /\ job[w] \in Jobs /\ JobOK(job[w]) /\ faults \in Nat /\ acked \subseteq EventId
  BY DEF RelayInv, RelayTypeOK
<1>1. CASE ApplyFails(w)
  <2>1. job' \in [Worker -> Jobs]
    BY <1>0, <1>1, Zenon DEF ApplyFails, Jobs, Outcomes
  <2> QED BY <1>0, <1>1, <2>1, HandsStep DEF ApplyFails, JobOK, Outcomes
<1>2. CASE SettleFails(w)
  <2>1. Resume(w) \in Jobs /\ Resume(w).pc \notin {"claimed", "applied"} /\ Resume(w).todo = job[w].todo
    BY <1>0, Zenon DEF Resume, Idle, Jobs
  <2>2. acked' \subseteq EventId
    BY <1>0, <1>2, SMTT(40) DEF SettleFails, Answer, JobOK, Claimed
  <2> QED BY <1>0, <1>2, <2>1, <2>2, HandsStep DEF SettleFails, JobOK
<1>3. CASE Crash(w) \/ SweepDone(w)
  <2>1. Idle \in Jobs /\ Idle.pc = "idle" /\ Idle.todo = {}
    BY DEF Idle, Jobs
  <2>2. job' = [job EXCEPT ![w] = Idle] /\ acked' = acked /\ faults' \in Nat
        /\ UNCHANGED <<gatewayVars, ledger, line, proj, rec>>
    BY <1>0, <1>3, SMTT(40) DEF Crash, SweepDone
  <2> QED BY <1>0, <2>1, <2>2, HandsStep
<1>4. ASSUME NEW d \in job[w].todo, TakeUp(w, d[1], d[2]) PROVE RelayInv'
  <2>1. d \in EventId \X Nat /\ d[1] \in Claimed
    BY <1>0 DEF JobOK, Jobs
  <2>2. /\ job' \in [Worker -> Jobs]
        /\ \A x \in Worker \ {w} : job'[x] = job[x]
        /\ job'[w].pc = "claimed" /\ job'[w].event = d[1] /\ job'[w].todo \subseteq job[w].todo
    <3> DEFINE j == [job[w] EXCEPT !.pc = "claimed", !.event = d[1],
                                   !.todo = @ \ {<<d[1], d[2]>>}]
    <3>1. job' = [job EXCEPT ![w] = j]
      BY <1>0, <1>4, Zenon DEF TakeUp
    <3>2. j.todo = job[w].todo \ {<<d[1], d[2]>>} /\ j.pc = "claimed" /\ j.event = d[1]
      BY <1>0 DEF Jobs
    <3>3. j \in Jobs
      BY <1>0, <2>1, Zenon DEF Jobs
    <3> HIDE DEF j
    <3> QED BY <1>0, <3>1, <3>2, <3>3, SMTT(40)
  <2>3. UNCHANGED <<gatewayVars, ledger, line, proj, rec, acked, faults>>
    BY <1>4, Zenon DEF TakeUp
  <2> QED BY <1>0, <2>1, <2>2, <2>3, HandsStep DEF JobOK
<1> QED BY <1>1, <1>2, <1>3, <1>4

\* SettleRow: the rows stay rows, and only a row in 'processing' changes.
LEMMA SettleRowProperties ==
    ASSUME RelayInv, NEW e \in Claimed, NEW outcome \in Outcomes, SettleRow(e, outcome)
    PROVE  /\ ledger' \in [EventId -> LedgerRows \cup {NULL}]
           /\ \A x \in EventId : ledger[x] # NULL => ledger'[x] # NULL
           /\ Claimed' = Claimed
           /\ line' \in Seq(Claimed')
           /\ \A x \in EventId : x # e => ledger'[x] = ledger[x]
           /\ ledger'[e].status \in {ledger[e].status, outcome}
           /\ ledger[e].status # "processing" => ledger'[e] = ledger[e]
<1>1. e \in EventId /\ ledger[e] \in LedgerRows /\ ledger \in [EventId -> LedgerRows \cup {NULL}]
  BY DEF RelayInv, RelayTypeOK, Claimed
<1>2. /\ Settled(ledger[e], outcome) \in LedgerRows
      /\ Settled(ledger[e], outcome).status \in {ledger[e].status, outcome}
      /\ ledger[e].status # "processing" => Settled(ledger[e], outcome) = ledger[e]
  BY <1>1 DEF Settled, LedgerRows
<1>3. ledger' = [ledger EXCEPT ![e] = Settled(ledger[e], outcome)]
  BY DEF SettleRow
<1>4. Settled(ledger[e], outcome) # NULL
  BY <1>2, NullIsNoRow
<1>5. Claimed' = Claimed
  BY <1>1, <1>3, <1>4 DEF Claimed
<1>6. line' \in Seq(Claimed')
  BY <1>5, WithoutType DEF SettleRow, RelayInv
<1> QED BY <1>1, <1>2, <1>3, <1>4, <1>5, <1>6

LEMMA SettleSteps ==
    ASSUME RelayInv, NEW w \in Worker,
           \/ Settle(w)
           \/ w \in Sweeper /\ \E d \in job[w].todo : GiveUp(w, d[1], d[2])
    PROVE  RelayInv'
<1>0. job \in [Worker -> Jobs] /\ job[w] \in Jobs /\ JobOK(job[w]) /\ faults \in Nat
      /\ acked \subseteq EventId /\ \A e \in Claimed : e <= Len(log)
  BY DEF RelayInv, RelayTypeOK
<1>a. proj \in [sub : Nat, at : Nat] /\ proj.at \in Nat
  BY SMTT(40) DEF RelayInv, RelayTypeOK
<1>1. CASE Settle(w)
  <2> DEFINE e == job[w].event
             o == job[w].outcome
  <2>1. e \in Claimed /\ e \in EventId /\ o \in Outcomes /\ SettleRow(e, o)
        /\ (o = "succeeded" => proj.at >= log[e].at)
    BY <1>0, <1>1 DEF Settle, JobOK, Claimed
  <2>2. /\ Resume(w) \in Jobs /\ Resume(w).pc \notin {"claimed", "applied"}
        /\ Resume(w).todo = job[w].todo
    BY <1>0, ZenonT(60) DEF Resume, Idle, Jobs
  <2>3. /\ job' \in [Worker -> Jobs] /\ job'[w] = Resume(w)
        /\ \A x \in Worker \ {w} : job'[x] = job[x]
        /\ acked' \subseteq EventId
        /\ UNCHANGED <<gatewayVars, proj, rec, faults>>
    BY <1>0, <1>1, <2>1, <2>2, SMTT(40) DEF Settle, Answer
  <2> HIDE DEF e, o
  <2>4. /\ ledger' \in [EventId -> LedgerRows \cup {NULL}]
        /\ \A x \in EventId : ledger[x] # NULL => ledger'[x] # NULL
        /\ Claimed' = Claimed
        /\ line' \in Seq(Claimed')
        /\ \A x \in EventId : x # e => ledger'[x] = ledger[x]
        /\ ledger'[e].status \in {ledger[e].status, o}
    BY <2>1, SettleRowProperties, SMTT(40)
  <2>5. JobOK(job[w])'
    BY <1>0, <2>2, <2>3, <2>4, SMTT(40) DEF JobOK
  <2>6. SucceededIsReflected'
    BY <2>1, <2>3, <2>4, SMTT(40) DEF SucceededIsReflected, RelayInv, gatewayVars, Claimed
  <2> QED BY <1>0, <1>a, <2>3, <2>4, <2>5, <2>6, WorkerStep
<1>2. ASSUME NEW d \in job[w].todo, GiveUp(w, d[1], d[2]) PROVE RelayInv'
  <2> DEFINE e == d[1]
  <2>1. e \in Claimed /\ e \in EventId /\ SettleRow(e, "failed") /\ "failed" \in Outcomes
    BY <1>0, <1>2 DEF GiveUp, JobOK, Claimed, Outcomes
  <2>3. /\ job' \in [Worker -> Jobs]
        /\ \A x \in Worker \ {w} : job'[x] = job[x]
        /\ job'[w].pc = "sweeping" /\ job'[w].todo \subseteq job[w].todo
        /\ UNCHANGED <<gatewayVars, proj, rec, faults, acked>>
    BY <1>0, <1>2, SMTT(40) DEF GiveUp, Jobs
  <2> HIDE DEF e
  <2>4. /\ ledger' \in [EventId -> LedgerRows \cup {NULL}]
        /\ \A x \in EventId : ledger[x] # NULL => ledger'[x] # NULL
        /\ Claimed' = Claimed
        /\ line' \in Seq(Claimed')
        /\ \A x \in EventId : x # e => ledger'[x] = ledger[x]
        /\ ledger'[e].status \in {ledger[e].status, "failed"}
    BY <2>1, SettleRowProperties, SMTT(40)
  <2>5. JobOK(job[w])'
    BY <1>0, <2>3, <2>4, SMTT(40) DEF JobOK
  <2>6. SucceededIsReflected'
    BY <2>1, <2>3, <2>4, Zenon DEF SucceededIsReflected, RelayInv, gatewayVars, Claimed
  <2> QED BY <1>0, <1>a, <2>3, <2>4, <2>5, <2>6, WorkerStep
<1> QED BY <1>1, <1>2

LEMMA ReclaimStep ==
    ASSUME RelayInv, NEW s \in Sweeper, NEW k \in 1 .. RelaySweepBatch, Reclaim(s, k)
    PROVE  RelayInv'
<1> DEFINE batch == SubSeq(line, 1, k)
           rest  == SubSeq(line, k + 1, Len(line))
           taken == {batch[i] : i \in 1 .. k}
           j     == [Idle EXCEPT !.pc = "sweeping",
                                 !.todo = {<<e, ledger[e].attempts + 1>> : e \in taken}]
<1>0. s \in Worker /\ k \in Nat /\ k >= 1 /\ k <= Len(line) /\ Len(line) \in Nat
  <2>1. Len(line) \in Nat
    BY LenProperties DEF RelayInv
  <2> QED BY <2>1, RelayAssumption DEF Worker, Reclaim
<1>1. /\ ledger' = [e \in EventId |->
            IF e \in taken THEN [ledger[e] EXCEPT !.attempts = @ + 1] ELSE ledger[e]]
      /\ line' = rest \o batch
      /\ job' = [job EXCEPT ![s] = j]
      /\ UNCHANGED <<gatewayVars, acked, proj, rec, faults>>
  BY DEF Reclaim
<1>2. \A i \in 1 .. Len(line) : line[i] \in Claimed
  BY ElementOfSeq DEF RelayInv
<1>3. batch \in Seq(Claimed) /\ Len(batch) = k /\ rest \in Seq(Claimed)
  BY <1>0, <1>2, SubSeqProperties
<1>4. taken \subseteq Claimed
  <2> HIDE DEF batch
  <2> QED BY <1>3, ElementOfSeq
<1>5. \A e \in Claimed : e \in EventId /\ ledger[e] \in LedgerRows
  BY DEF RelayInv, RelayTypeOK, Claimed
<1> HIDE DEF taken, batch, rest
<1>6. \A e \in Claimed : [ledger[e] EXCEPT !.attempts = @ + 1] \in LedgerRows
      /\ [ledger[e] EXCEPT !.attempts = @ + 1].status = ledger[e].status
  BY <1>5 DEF LedgerRows
<1>7. /\ ledger' \in [EventId -> LedgerRows \cup {NULL}]
      /\ \A e \in EventId : ledger'[e] = NULL <=> ledger[e] = NULL
      /\ \A e \in Claimed : ledger'[e].status = ledger[e].status
  BY <1>1, <1>4, <1>5, <1>6, NullIsNoRow DEF RelayInv, RelayTypeOK
<1>8. Claimed' = Claimed
  BY <1>7 DEF Claimed
<1>9. line' \in Seq(Claimed')
  BY <1>1, <1>3, <1>8, ConcatProperties
<1>10. j \in Jobs /\ j.pc = "sweeping" /\ \A d \in j.todo : d[1] \in Claimed
  <2>1. \A e \in taken : <<e, ledger[e].attempts + 1>> \in EventId \X Nat
    BY <1>4, <1>5 DEF LedgerRows
  <2>2. j.pc = "sweeping" /\ j.todo = {<<e, ledger[e].attempts + 1>> : e \in taken}
    BY DEF Idle
  <2>3. j \in Jobs
    BY <2>1, ZenonT(60) DEF Idle, Jobs
  <2> QED BY <1>4, <2>2, <2>3
<1> HIDE DEF j
<1>11. /\ job' \in [Worker -> Jobs] /\ job'[s] = j
       /\ \A x \in Worker \ {s} : job'[x] = job[x]
  BY <1>0, <1>1, <1>10 DEF RelayInv, RelayTypeOK
<1>12. JobOK(job[s])'
  BY <1>8, <1>10, <1>11 DEF JobOK
<1>13. SucceededIsReflected'
  BY <1>1, <1>7 DEF SucceededIsReflected, RelayInv, Claimed, gatewayVars
<1>14. /\ proj' \in [sub : Nat, at : Nat] /\ proj'.at >= proj.at
       /\ acked' \subseteq EventId /\ faults' \in Nat
       /\ \A e \in Claimed' : e <= Len(log)
  BY <1>1, <1>8 DEF RelayInv, RelayTypeOK
<1> QED BY <1>0, <1>1, <1>7, <1>9, <1>11, <1>12, <1>13, <1>14, WorkerStep, SMTT(40)

\* RelayInv is inductive.
LEMMA RelayStep == RelayInv /\ [Next]_vars => RelayInv'
<1> SUFFICES ASSUME RelayInv, [Next]_vars PROVE RelayInv'
  BY SMTT(40)
<1>1. CASE UNCHANGED vars
  BY <1>1 DEF vars, RelayInv, RelayTypeOK, SucceededIsReflected, Claimed, JobOK
<1>2. CASE (\E kind \in Kinds, t \in 1 .. MaxTime : Emit(kind, t)) \/ StartCheckout \/ Link \/ LinkLost
  BY <1>2, GatewayStep
<1>3. CASE \E r \in Receiver, e \in EventId : Claim(r, e) \/ Duplicate(r, e)
  BY <1>3, ClaimStep, DuplicateStep, SMTT(40)
<1>4. ASSUME NEW w \in Worker,
             Apply(w) \/ ApplyFails(w) \/ Settle(w) \/ SettleFails(w) \/ Crash(w)
      PROVE  RelayInv'
  BY <1>4, ApplyStep, HandsSteps, SettleSteps
<1>5. ASSUME NEW s \in Sweeper, ReclaimSome(s) \/ Sweep(s) PROVE RelayInv'
  <2>1. s \in Worker
    BY DEF Worker
  <2> QED BY <1>5, <2>1, ReclaimStep, HandsSteps, SettleSteps DEF ReclaimSome, Sweep
<1>6. CASE ReconcileRead \/ ReconcileFails \/ \E t \in 1 .. MaxTime : ReconcileWrite(t)
  BY <1>6, ReconcileStep
<1> QED BY <1>1, <1>2, <1>3, <1>4, <1>5, <1>6 DEF Next

\* Every reachable state of the relay satisfies the inductive invariant, so
\* an event recorded as succeeded is in the projection or superseded, for any
\* number of receivers, overlapping sweeps, events and faults.
THEOREM RelaySafety == Spec => [](RelayTypeOK /\ SucceededIsReflected)
<1>1. RelayInv => RelayTypeOK /\ SucceededIsReflected
  BY DEF RelayInv
<1> QED BY <1>1, RelayInit, RelayStep, PTL DEF Spec

\* A settled delivery stays as it was settled, whichever receiver, sweep or
\* give-up comes after it.
THEOREM RelaySettledOnce == Spec => SettledOnce
<1>1. RelayInv /\ [Next]_vars =>
         [\A e \in EventId : ledger[e] # NULL /\ ~Processing(e) => ledger'[e] = ledger[e]]_vars
  <2> SUFFICES ASSUME RelayInv, Next, NEW e \in EventId, ledger[e] # NULL, ~Processing(e)
               PROVE  ledger'[e] = ledger[e]
    BY DEF vars
  <2>0. \A x \in Claimed, o \in Outcomes : SettleRow(x, o) => ledger'[e] = ledger[e]
    BY SettleRowProperties, Zenon DEF Processing, Claimed
  <2>1. CASE UNCHANGED ledger
    BY <2>1
  <2>2. ASSUME NEW r \in Receiver, NEW x \in EventId, Claim(r, x) PROVE ledger'[e] = ledger[e]
    BY <2>2 DEF Claim, RelayInv, RelayTypeOK
  <2>3. ASSUME NEW w \in Worker, Settle(w) PROVE ledger'[e] = ledger[e]
    <3>1. job[w].event \in Claimed /\ job[w].outcome \in Outcomes
      BY <2>3 DEF Settle, RelayInv, JobOK
    <3> QED BY <2>0, <2>3, <3>1 DEF Settle
  <2>4. ASSUME NEW s \in Sweeper, NEW d \in job[s].todo, GiveUp(s, d[1], d[2])
        PROVE  ledger'[e] = ledger[e]
    <3>1. d[1] \in Claimed /\ "failed" \in Outcomes
      BY <2>4 DEF RelayInv, JobOK, Worker, Outcomes
    <3> QED BY <2>0, <2>4, <3>1, SMTT(40) DEF GiveUp
  <2>5. ASSUME NEW s \in Sweeper, NEW k \in 1 .. RelaySweepBatch, Reclaim(s, k)
        PROVE  ledger'[e] = ledger[e]
    BY <2>5 DEF Reclaim, Processing
  <2> QED
    BY <2>1, <2>2, <2>3, <2>4, <2>5, Zenon
    DEF Next, Emit, StartCheckout, Link, LinkLost, Duplicate, Apply, ApplyFails, SettleFails,
        Crash, Sweep, ReclaimSome, TakeUp, SweepDone, ReconcileRead, ReconcileWrite, ReconcileFails
<1> QED BY <1>1, RelayInit, RelayStep, PTL DEF Spec, SettledOnce
=============================================================================
