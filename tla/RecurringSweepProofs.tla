------------------------ MODULE RecurringSweepProofs ------------------------
(***************************************************************************)
(* The sweep skips no charge and files none early, for any number of       *)
(* subscriptions, of overlapping sweeps, of edits at once and of faults.   *)
(***************************************************************************)
EXTENDS RecurringSweep, FiniteSetTheorems, TLAPS

\* What claimDue reads: charges that are due, no more than the batch size.
LEMMA BatchProperties ==
    ASSUME RecurringInv, NEW day \in Nat, day <= today, NEW w \in Sweep,
           TakeBatch(w, day),
           UNCHANGED <<today, subs, drafts, since, behind, claims, edits, faults>>
    PROVE  RecurringInv'
  <1>1. PICK b \in Batches(day) :
            sweep' = [sweep EXCEPT ![w] =
                [pc |-> "batch", day |-> day, page |-> Cardinality(b),
                 todo |-> {[sub |-> v, next |-> subs[v].next] : v \in b}]]
    BY Zenon DEF TakeBatch
  <1>2. b \subseteq Sub /\ Cardinality(b) <= RecurringBatchSize
            /\ \A v \in b : subs[v].next <= day
    BY DEF Batches, Due
  <1>3. Cardinality(b) \in 0 .. RecurringBatchSize
    BY <1>2, FS_Subset, FS_CardinalityType, RecurringAssumption
  <1> DEFINE todo == {[sub |-> v, next |-> subs[v].next] : v \in b}
  <1>4. todo \subseteq Charges
    BY <1>2 DEF RecurringInv, RecurringTypeOK, Charges, Rows
  <1>5. RecurringTypeOK'
    BY <1>1, <1>3, <1>4 DEF RecurringInv, RecurringTypeOK, Sweeps
  <1>6. EveryChargeFiled'
    BY DEF RecurringInv, EveryChargeFiled
  <1>7. ASSUME NEW d \in todo
        PROVE  /\ d.next <= today
               /\ d.sub \in Owned =>
                     \A k \in since[d.sub] .. (d.next - 1) :
                        [sub |-> d.sub, next |-> k] \in claims \cup behind
    <2>1. PICK v \in b : d = [sub |-> v, next |-> subs[v].next]
      BY <1>7
    <2> QED
      BY <2>1, <1>2 DEF RecurringInv, RecurringTypeOK, EveryChargeFiled, Date, Rows
  <1>8. HandsOK'
    BY <1>1, <1>7 DEF RecurringInv, RecurringTypeOK, HandsOK
  <1> QED
    BY <1>5, <1>6, <1>8 DEF RecurringInv

\* Letting go of work in hand keeps the invariant.
LEMMA HandsShrink ==
    ASSUME RecurringInv, NEW w \in Sweep, NEW h \in Sweeps,
           h.todo \subseteq sweep[w].todo, h.day <= today,
           sweep' = [sweep EXCEPT ![w] = h], faults' \in Nat,
           UNCHANGED <<today, subs, drafts, since, behind, claims, edits>>
    PROVE  RecurringInv'
  <1>1. RecurringTypeOK'
    BY DEF RecurringInv, RecurringTypeOK
  <1>2. EveryChargeFiled'
    BY DEF RecurringInv, EveryChargeFiled
  <1>3. HandsOK'
    BY DEF RecurringInv, RecurringTypeOK, HandsOK
  <1> QED
    BY <1>1, <1>2, <1>3 DEF RecurringInv

LEMMA IdleIsSweep == Idle \in Sweeps /\ Idle.todo = {} /\ Idle.day = 0
  BY RecurringAssumption DEF Idle, Sweeps

\* What is left of a sweep's hand once one charge is dealt with.
LEMMA Dropped ==
    ASSUME RecurringInv, NEW w \in Sweep, NEW d
    PROVE  /\ [sweep[w] EXCEPT !.todo = @ \ {d}] \in Sweeps
           /\ [sweep[w] EXCEPT !.todo = @ \ {d}].todo = sweep[w].todo \ {d}
           /\ [sweep[w] EXCEPT !.todo = @ \ {d}].day = sweep[w].day
           /\ sweep[w].day \in Nat /\ sweep[w].day <= today
           /\ [sweep EXCEPT ![w].todo = @ \ {d}]
                 = [sweep EXCEPT ![w] = [sweep[w] EXCEPT !.todo = @ \ {d}]]
  <1>1. sweep[w] \in Sweeps
    BY DEF RecurringInv, RecurringTypeOK
  <1> QED
    BY <1>1 DEF RecurringInv, RecurringTypeOK, HandsOK, Sweeps

\* What an edit asks for behind the back of a sweep has passed.
LEMMA OvertakenProperties ==
    ASSUME RecurringInv, NEW v \in Sub, NEW next \in Date
    PROVE  /\ Overtaken(v, next) \subseteq Charges
           /\ \A c \in Overtaken(v, next) : c.next < today
           /\ \A w \in Sweep : \A d \in sweep[w].todo : d.sub = v =>
                 \A k \in next .. (d.next - 1) : [sub |-> v, next |-> k] \in Overtaken(v, next)
  <1>0. today \in Nat /\ next \in Nat /\ next > 0
    BY DEF RecurringInv, RecurringTypeOK, Date
  <1>1. \A w \in Sweep : \A d \in sweep[w].todo : d.next \in Nat /\ d.next <= today
    BY DEF RecurringInv, RecurringTypeOK, HandsOK, Sweeps, Charges, Date
  <1>2. Overtaken(v, next) \subseteq Charges
    BY <1>0 DEF Overtaken, Charges, Date
  <1>3. \A c \in Overtaken(v, next) : c.next < today
    BY <1>0, <1>1 DEF Overtaken
  <1>4. ASSUME NEW w \in Sweep, NEW d \in sweep[w].todo, d.sub = v,
               NEW k \in next .. (d.next - 1)
        PROVE  [sub |-> v, next |-> k] \in Overtaken(v, next)
    <2>1. k \in next .. today /\ k < d.next
      BY <1>0, <1>1, <1>4
    <2> QED
      BY <2>1, <1>4 DEF Overtaken
  <1> QED
    BY <1>2, <1>3, <1>4

\* A person writes a row: it keeps its charge date, or takes another, which
\* the charges in the sweeps' hands may have overtaken.
LEMMA RowWritten ==
    ASSUME RecurringInv, NEW v \in Sub, NEW row \in Rows, NEW from \in Date,
           \/ from = since[v] /\ row.next = subs[v].next /\ behind' = behind
           \/ from = row.next /\ behind' = behind \cup Overtaken(v, from),
           subs' = [subs EXCEPT ![v] = row], since' = [since EXCEPT ![v] = from],
           drafts' \subseteq drafts, UNCHANGED <<today, claims, sweep, edits, faults>>
    PROVE  RecurringInv'
  <1>0. /\ behind \subseteq behind' /\ behind' \subseteq Charges
        /\ \A c \in behind' : c.next < today
    BY OvertakenProperties DEF RecurringInv, RecurringTypeOK, EveryChargeFiled
  <1>1. RecurringTypeOK'
    BY <1>0 DEF RecurringInv, RecurringTypeOK
  <1>2. /\ \A u \in Sub : u # v => since'[u] = since[u] /\ subs'[u] = subs[u]
        /\ subs'[v] = row /\ since'[v] = from
    BY DEF RecurringInv, RecurringTypeOK
  <1>3. row.next \in Nat /\ from \in Nat /\ today \in Nat
    BY DEF RecurringInv, RecurringTypeOK, Rows, Date
  <1>4. EveryChargeFiled'
    <2>1. ASSUME NEW u \in Owned, NEW k \in since'[u] .. (subs'[u].next - 1)
          PROVE  [sub |-> u, next |-> k] \in claims \cup behind'
      BY <1>0, <1>2, <1>3, <2>1, RecurringAssumption DEF RecurringInv, EveryChargeFiled
    <2> QED
      BY <2>1, <1>0 DEF RecurringInv, EveryChargeFiled
  <1>5. HandsOK'
    <2> SUFFICES ASSUME NEW w \in Sweep, NEW d \in sweep[w].todo, d.sub \in Owned,
                        NEW k \in since'[d.sub] .. (d.next - 1)
                 PROVE  [sub |-> d.sub, next |-> k] \in claims \cup behind'
      BY DEF RecurringInv, HandsOK
    <2>1. CASE since'[d.sub] = since[d.sub] /\ (d.sub # v \/ behind' = behind)
      BY <2>1, <1>0 DEF RecurringInv, HandsOK
    <2>2. CASE d.sub = v /\ behind' = behind \cup Overtaken(v, from)
      BY <2>2, <1>2, OvertakenProperties
    <2> QED
      BY <2>1, <2>2, <1>2, RecurringAssumption
  <1> QED
    BY <1>1, <1>4, <1>5 DEF RecurringInv

\* A draft that has passed its checks touches no row yet.
LEMMA CheckedStep ==
    ASSUME RecurringInv, NEW e \in Editor, NEW kind \in {"create", "update"}, NEW v \in Sub,
           NEW status \in Statuses, NEW next \in Date, Checked(e, kind, v, status, next),
           edits' \in Nat
    PROVE  RecurringInv'
  <1>1. /\ drafts' \subseteq Drafts
        /\ UNCHANGED <<today, subs, since, behind, claims, sweep, faults>>
    BY DEF Checked, Drafts, RecurringInv, RecurringTypeOK
  <1> QED
    BY <1>1 DEF RecurringInv, RecurringTypeOK, EveryChargeFiled, HandsOK

\* The INSERT and the UPDATE, whatever has become of the row since the checks.
LEMMA WrittenStep ==
    ASSUME RecurringInv, NEW f \in drafts, NEW row \in Rows, row.next = f.next, Written(f, row)
    PROVE  RecurringInv'
  <1>1. f \in Drafts /\ f.sub \in Sub /\ f.next \in Date
    BY DEF RecurringInv, RecurringTypeOK, Drafts
  <1>2. /\ subs' = [subs EXCEPT ![f.sub] = row] /\ drafts' \subseteq drafts
        /\ UNCHANGED <<today, claims, sweep, edits, faults>>
    BY DEF Written
  <1>3. CASE f.kind = "update" /\ f.next = subs[f.sub].next
    <2>1. since[f.sub] \in Date /\ since' = [since EXCEPT ![f.sub] = since[f.sub]]
          /\ behind' = behind
      BY <1>1, <1>3 DEF Written, RecurringInv, RecurringTypeOK
    <2> QED
      BY <1>1, <1>2, <1>3, <2>1, RowWritten, Zenon
  <1>4. CASE ~(f.kind = "update" /\ f.next = subs[f.sub].next)
    <2>1. since' = [since EXCEPT ![f.sub] = f.next]
          /\ behind' = behind \cup Overtaken(f.sub, f.next)
      BY <1>4 DEF Written
    <2> QED
      BY <1>1, <1>2, <2>1, RowWritten, Zenon
  <1> QED
    BY <1>3, <1>4

\* A person's requests: the checks, the writes, and a request that fails
\* in between.
LEMMA EditorStep ==
    ASSUME RecurringInv,
           \/ \E e \in Editor, v \in Sub, next \in 1 .. MaxDate :
                 \/ CreateVendorSubscription(e, v, next)
                 \/ \E status \in Statuses : UpdateVendorSubscription(e, v, status, next)
           \/ \E f \in drafts : Insert(f) \/ Save(f) \/ Abandon(f)
    PROVE  RecurringInv'
  <1>0. edits \in Nat /\ "active" \in Statuses
    BY DEF RecurringInv, RecurringTypeOK, Statuses
  <1>1. ASSUME NEW e \in Editor, NEW v \in Sub, NEW next \in 1 .. MaxDate,
               CreateVendorSubscription(e, v, next)
        PROVE  RecurringInv'
    BY <1>0, <1>1, CheckedStep DEF CreateVendorSubscription, Date
  <1>2. ASSUME NEW e \in Editor, NEW v \in Sub, NEW next \in 1 .. MaxDate,
               NEW status \in Statuses, UpdateVendorSubscription(e, v, status, next)
        PROVE  RecurringInv'
    BY <1>0, <1>2, CheckedStep DEF UpdateVendorSubscription, Date
  <1>3. ASSUME NEW f \in drafts PROVE f.sub \in Sub /\ f.status \in Statuses /\ f.next \in Date
    BY DEF RecurringInv, RecurringTypeOK, Drafts
  <1>4. ASSUME NEW f \in drafts, Insert(f) PROVE RecurringInv'
    <2>1. Inserted(f.next) \in Rows /\ Inserted(f.next).next = f.next
      BY <1>3 DEF Inserted, Rows, Statuses
    <2> QED
      BY <1>4, <2>1, WrittenStep DEF Insert
  <1>5. ASSUME NEW f \in drafts, Save(f) PROVE RecurringInv'
    <2>1. subs[f.sub] \in Rows
      BY <1>3 DEF RecurringInv, RecurringTypeOK
    <2>2. /\ Updated(subs[f.sub], f.status, f.next) \in Rows
          /\ Updated(subs[f.sub], f.status, f.next).next = f.next
      BY <1>3, <2>1, Zenon DEF Updated, Rows
    <2> QED
      BY <1>5, <2>2, WrittenStep DEF Save
  <1>6. ASSUME NEW f \in drafts, Abandon(f) PROVE RecurringInv'
    BY <1>6 DEF Abandon, RecurringInv, RecurringTypeOK, EveryChargeFiled, HandsOK
  <1> QED
    BY <1>1, <1>2, <1>4, <1>5, <1>6

\* materialise files the charge in hand, so that all charges up to the date it
\* advances the row to are filed.
LEMMA MaterialiseStep ==
    ASSUME RecurringInv, NEW w \in Sweep, NEW d \in sweep[w].todo, MaterialiseOne(w, d)
    PROVE  RecurringInv'
  <1>1. d \in Charges /\ d.next <= today
    BY DEF RecurringInv, RecurringTypeOK, HandsOK, Sweeps
  <1>2. d.sub \in Sub /\ d.next \in Date /\ d = [sub |-> d.sub, next |-> d.next]
    BY <1>1 DEF Charges
  <1>3. /\ claims \subseteq claims' /\ claims' \subseteq claims \cup {d}
        /\ d.sub \in Owned => d \in claims'
        /\ UNCHANGED <<today, drafts, since, behind, edits, faults>>
    BY DEF MaterialiseOne
  <1>4. /\ \A u \in Sub : u # d.sub => subs'[u] = subs[u]
        /\ subs'[d.sub].next = d.next + 1
        /\ subs' \in [Sub -> Rows]
    <2>1. subs[d.sub] \in Rows
      BY <1>2 DEF RecurringInv, RecurringTypeOK
    <2>2. Advanced(subs[d.sub], d.next + 1) \in Rows
            /\ Advanced(subs[d.sub], d.next + 1).next = d.next + 1
      <3>1. subs[d.sub].next \in Nat /\ d.next + 1 \in Date
        BY <1>2, <2>1 DEF Date, Rows
      <3> QED
        BY <2>1, <3>1, Zenon DEF Advanced, Rows
    <2>3. subs' = [subs EXCEPT ![d.sub] = Advanced(subs[d.sub], d.next + 1)]
      BY DEF MaterialiseOne, NextChargeDate
    <2> QED
      BY <1>2, <2>2, <2>3 DEF RecurringInv, RecurringTypeOK
  <1>5. sweep' \in [Sweep -> Sweeps]
        /\ \A x \in Sweep : sweep'[x].todo \subseteq sweep[x].todo /\ sweep'[x].day = sweep[x].day
    BY Dropped, ZenonT(60) DEF MaterialiseOne, RecurringInv, RecurringTypeOK
  <1>6. RecurringTypeOK'
    BY <1>1, <1>3, <1>4, <1>5 DEF RecurringInv, RecurringTypeOK
  <1>7. EveryChargeFiled'
    <2>1. ASSUME NEW v \in Owned, NEW k \in since[v] .. (subs'[v].next - 1)
          PROVE  [sub |-> v, next |-> k] \in claims' \cup behind
      <3>0. v \in Sub /\ since[v] \in Nat
        BY RecurringAssumption DEF RecurringInv, RecurringTypeOK, Date
      <3>1. CASE v # d.sub
        BY <3>0, <3>1, <2>1, <1>3, <1>4 DEF RecurringInv, EveryChargeFiled
      <3>2. CASE v = d.sub
        <4>1. k \in since[v] .. (d.next - 1) \/ k = d.next
          BY <3>0, <3>2, <1>2, <1>4, <2>1 DEF Date
        <4> QED
          BY <4>1, <3>2, <1>2, <1>3, <2>1 DEF RecurringInv, HandsOK
      <3> QED
        BY <3>1, <3>2
    <2>2. (\A c \in claims' : c.next <= today) /\ (\A c \in behind : c.next < today)
      BY <1>1, <1>3 DEF RecurringInv, EveryChargeFiled
    <2> QED
      BY <2>1, <2>2, <1>3 DEF EveryChargeFiled
  <1>8. HandsOK'
    BY <1>3, <1>5 DEF RecurringInv, HandsOK
  <1> QED
    BY <1>6, <1>7, <1>8 DEF RecurringInv

\* The invariant is inductive: one step per action of the sweep, of the user
\* and of the calendar.
LEMMA RecurringStep == RecurringInv /\ [Next]_vars => RecurringInv'
  <1> SUFFICES ASSUME RecurringInv, [Next]_vars PROVE RecurringInv'
    OBVIOUS
  <1>0. today \in Nat /\ faults \in Nat
    BY DEF RecurringInv, RecurringTypeOK, Date
  <1>1. CASE NextDay
    <2>1. /\ today' = today + 1
          /\ UNCHANGED <<subs, drafts, since, behind, claims, sweep, edits, faults>>
      BY <1>1 DEF NextDay
    <2>2. RecurringTypeOK'
      BY <2>1 DEF RecurringInv, RecurringTypeOK, Date
    <2>3. EveryChargeFiled'
      BY <2>1, <1>0 DEF RecurringInv, RecurringTypeOK, EveryChargeFiled, Charges, Date
    <2>4. HandsOK'
      <3>1. \A w \in Sweep : sweep[w].day \in Nat /\ sweep[w].todo \subseteq Charges
        BY DEF RecurringInv, RecurringTypeOK, Sweeps
      <3> QED
        BY <2>1, <3>1, <1>0 DEF RecurringInv, HandsOK, Charges, Date
    <2> QED
      BY <2>2, <2>3, <2>4 DEF RecurringInv
  <1>2. CASE \/ \E e \in Editor, v \in Sub, next \in 1 .. MaxDate :
                   \/ CreateVendorSubscription(e, v, next)
                   \/ \E status \in Statuses : UpdateVendorSubscription(e, v, status, next)
             \/ \E f \in drafts : Insert(f) \/ Save(f) \/ Abandon(f)
    BY <1>2, EditorStep
  <1>3. ASSUME NEW w \in Sweep, StartSweep(w) PROVE RecurringInv'
    BY <1>0, <1>3, BatchProperties DEF StartSweep
  <1>4. ASSUME NEW w \in Sweep, NEW d \in sweep[w].todo, MaterialiseOne(w, d)
        PROVE  RecurringInv'
    BY <1>4, MaterialiseStep
  <1>5. ASSUME NEW w \in Sweep, NEW d \in sweep[w].todo,
               MaterialiseRefused(w, d) \/ MaterialiseFails(w, d)
        PROVE  RecurringInv'
    <2>1. /\ sweep' = [sweep EXCEPT ![w].todo = @ \ {d}] /\ faults' \in Nat
          /\ UNCHANGED <<today, subs, drafts, since, behind, claims, edits>>
      BY <1>0, <1>5 DEF MaterialiseRefused, MaterialiseFails
    <2> QED
      BY <2>1, Dropped, HandsShrink, ZenonT(60)
  <1>6. ASSUME NEW w \in Sweep, EndBatch(w) PROVE RecurringInv'
    <2>1. CASE sweep[w].page < RecurringBatchSize
      BY <1>0, <1>6, <2>1, IdleIsSweep, HandsShrink DEF EndBatch
    <2>2. CASE ~(sweep[w].page < RecurringBatchSize)
      BY <1>6, <2>2, Dropped, BatchProperties, Zenon DEF EndBatch
    <2> QED
      BY <2>1, <2>2
  <1>7. ASSUME NEW w \in Sweep, Crash(w) PROVE RecurringInv'
    <2>1. /\ sweep' = [sweep EXCEPT ![w] = Idle] /\ faults' \in Nat
          /\ UNCHANGED <<today, subs, drafts, since, behind, claims, edits>>
      BY <1>0, <1>7 DEF Crash
    <2>2. Idle.todo \subseteq sweep[w].todo /\ Idle.day <= today
      BY <1>0, IdleIsSweep
    <2> QED
      BY <2>1, <2>2, IdleIsSweep, HandsShrink, Zenon
  <1>8. CASE UNCHANGED vars
    BY <1>8 DEF vars, RecurringInv, RecurringTypeOK, EveryChargeFiled, HandsOK
  <1> QED
    BY <1>1, <1>2, <1>3, <1>4, <1>5, <1>6, <1>7, <1>8 DEF Next, Step

LEMMA RecurringInit == Init => RecurringInv
  <1> SUFFICES ASSUME Init PROVE RecurringInv
    OBVIOUS
  <1>1. RecurringTypeOK
    BY IdleIsSweep DEF Init, RecurringTypeOK, Rows, Date, Statuses
  <1>2. EveryChargeFiled
    BY RecurringAssumption DEF Init, EveryChargeFiled
  <1>3. HandsOK
    BY IdleIsSweep DEF Init, HandsOK
  <1> QED
    BY <1>1, <1>2, <1>3 DEF RecurringInv

\* The recurring sweep files none early and skips no charge
\* (HandleRecurringSweep, materialise) but one that UpdateVendorSubscription's
\* unconditional write asks for when a sweep already holds a later one; and
\* every variable keeps its type.
THEOREM RecurringSafety == Spec => [](RecurringTypeOK /\ EveryChargeFiled)
  <1>1. RecurringInv => RecurringTypeOK /\ EveryChargeFiled
    BY DEF RecurringInv
  <1> QED
    BY <1>1, RecurringInit, RecurringStep, PTL DEF Spec
=============================================================================
