------------------------ MODULE NotificationsProofs ------------------------
(***************************************************************************)
(* What is told and what is not: for any team, budgets, moves and number   *)
(* of requests.                                                            *)
(***************************************************************************)
EXTENDS Notifications, FiniteSetTheorems, SequenceTheorems, TLAPS

\* The two bounds of the code and the one on commits.
LEMMA Bounds == MaxCommits \in Nat /\ MaxRetry \in Nat
BY NotificationsAssumption

\* The records of a free connection and of an id without a task.
LEMMA Blank ==
    /\ Idle \in Reqs /\ Idle.pc = "idle" /\ Idle.at = 0 /\ Idle.todo = <<>>
    /\ NoTask \in Tasks /\ NoTask.state = "none" /\ NoTask.since = 0 /\ NoTask.read = NULL
BY Bounds, SMTT(40) DEF Idle, Reqs, NoTask, Tasks

\* The queries over memberships return members, whatever the claim's move.
LEMMA TellsMembers == \A a \in Move : ToTell(a) \subseteq Member
BY NotificationsAssumption DEF ToTell, ListApprovers, Actions

\* Nothing has happened.
LEMMA NotificationsInitial == Init => NotificationsInv
<1> SUFFICES ASSUME Init PROVE NotificationsInv
  OBVIOUS
<1>1. /\ status \in Statuses \cup {"deleted"} /\ clock \in 0 .. MaxCommits
      /\ others \in [Envelope -> Nat] /\ \A e \in Envelope : others[e] <= clock
      /\ owed \in [Id -> Nat] /\ alerted \subseteq Envelope /\ missed \subseteq Id
  BY Bounds DEF Init, Statuses
<1>2. req \in [Request -> Reqs] /\ task \in [Id -> Tasks]
  BY Blank DEF Init
<1>3. \A r \in Request : RequestOK(r)
  BY Blank DEF Init, RequestOK
<1>4. \A id \in Id : TaskOK(id) /\ Accounted(id) /\ owed[id] <= clock
  BY Blank DEF Init, TaskOK, Accounted
<1> QED
  BY <1>1, <1>2, <1>3, <1>4 DEF NotificationsInv

\* notify goes on to its next task: of what was to be enqueued, only the first
\* is gone.
LEMMA Rested ==
    ASSUME NotificationsInv, NEW r \in Request, req[r].pc = "notifying", Rest(r)
    PROVE  /\ req' \in [Request -> Reqs] /\ Head(req[r].todo) \in Id
           /\ \A s \in Request \ {r} : req'[s] = req[s]
           /\ req'[r].at <= clock /\ req'[r].pc # "deciding"
           /\ req'[r].pc = "notifying" <=> req'[r].todo # <<>>
           /\ \A id \in Id : Unenqueued(id) /\ id # Head(req[r].todo) => Unenqueued(id)'
<1>0. req[r] \in Reqs /\ RequestOK(r) /\ clock \in Nat
  BY Bounds DEF NotificationsInv
<1>1. /\ req[r] \in Reqs /\ req[r].todo \in Seq(Id) /\ req[r].todo # <<>>
      /\ req[r].at \in Nat /\ req[r].at <= clock /\ clock \in Nat
  BY <1>0 DEF RequestOK, Reqs
<1>2. CASE Len(req[r].todo) = 1
  <2>1. req' = [req EXCEPT ![r] = Idle]
    BY <1>2 DEF Rest, NotificationsInv
  <2>2. \A i \in DOMAIN req[r].todo : req[r].todo[i] = Head(req[r].todo)
    BY <1>1, <1>2
  <2>3. \A id \in Id : Unenqueued(id) /\ id # Head(req[r].todo) => Unenqueued(id)'
    BY <2>1, <2>2 DEF Unenqueued, NotificationsInv
  <2> QED
    BY <1>1, <2>1, <2>3, Blank DEF NotificationsInv
<1>3. CASE Len(req[r].todo) # 1
  <2>1. req' = [req EXCEPT ![r] = [req[r] EXCEPT !.todo = Tail(req[r].todo)]]
    BY <1>3 DEF Rest, NotificationsInv
  <2>0. /\ Len(req[r].todo) \in Nat /\ Len(req[r].todo) # 0
        /\ DOMAIN req[r].todo = 1 .. Len(req[r].todo)
        /\ Tail(req[r].todo) \in Seq(Id) /\ Len(Tail(req[r].todo)) = Len(req[r].todo) - 1
        /\ DOMAIN Tail(req[r].todo) = 1 .. Len(Tail(req[r].todo))
        /\ \A i \in 1 .. Len(Tail(req[r].todo)) : Tail(req[r].todo)[i] = req[r].todo[i + 1]
    BY <1>1, HeadTailProperties, LenProperties, EmptySeq
  <2>2. /\ Tail(req[r].todo) \in Seq(Id) /\ Tail(req[r].todo) # <<>>
        /\ \A i \in DOMAIN req[r].todo :
              i # 1 => /\ i - 1 \in DOMAIN Tail(req[r].todo)
                       /\ Tail(req[r].todo)[i - 1] = req[r].todo[i]
    <3> DEFINE todo == req[r].todo
               rest == Tail(todo)
    <3> HIDE DEF todo, rest
    <3>1. Len(rest) # 0
      BY <1>3, <2>0 DEF todo, rest
    <3>2. rest # <<>>
      BY <3>1
    <3>3. ASSUME NEW i \in 1 .. Len(todo), i # 1
          PROVE  i - 1 \in 1 .. Len(rest) /\ rest[i - 1] = todo[i]
      <4>1. /\ Len(todo) \in Nat /\ Len(rest) = Len(todo) - 1
            /\ \A n \in 1 .. Len(rest) : rest[n] = todo[n + 1]
        BY <2>0 DEF todo, rest
      <4>2. i - 1 \in 1 .. Len(rest) /\ (i - 1) + 1 = i
        BY <3>3, <4>1
      <4>3. rest[i - 1] = todo[(i - 1) + 1]
        BY <4>1, <4>2
      <4> QED
        BY <4>2, <4>3
    <3> QED
      BY <2>0, <3>2, <3>3, SMTT(40) DEF todo, rest
  <2>3. req'[r] = [req[r] EXCEPT !.todo = Tail(req[r].todo)]
    BY <2>1 DEF NotificationsInv
  <2>4. req'[r] \in Reqs /\ req'[r].todo = Tail(req[r].todo) /\ req'[r].at = req[r].at
        /\ req'[r].pc = "notifying"
    BY <1>1, <2>2, <2>3, Zenon DEF Reqs
  <2>5. ASSUME NEW id \in Id, Unenqueued(id), id # Head(req[r].todo)
        PROVE  Unenqueued(id)'
    <3>0. PICK s \in Request : \E i \in DOMAIN req[s].todo : req[s].todo[i] = id
      BY <2>5 DEF Unenqueued
    <3>1. PICK i \in DOMAIN req[s].todo : req[s].todo[i] = id
      BY <3>0
    <3>2. CASE s # r
      BY <2>1, <3>1, <3>2 DEF Unenqueued, NotificationsInv
    <3>3. CASE s = r
      <4>1. i # 1
        BY <1>1, <2>5, <3>1, <3>3
      <4>2. i - 1 \in DOMAIN req'[r].todo /\ req'[r].todo[i - 1] = id
        BY <2>2, <2>4, <3>1, <3>3, <4>1
      <4> QED
        BY <4>2 DEF Unenqueued
    <3> QED
      BY <3>2, <3>3
  <2> QED
    BY <1>1, <2>1, <2>2, <2>4, <2>5, SMTT(40) DEF NotificationsInv
<1> QED
  BY <1>2, <1>3

\* A step of a worker or of the queue, on one task.
LEMMA TaskMoves ==
    ASSUME NotificationsInv, NEW id \in Id, NEW t \in Tasks, NEW n \in Nat, n <= clock,
           task' = [task EXCEPT ![id] = t], owed' = [owed EXCEPT ![id] = n],
           alerted' \subseteq Envelope, missed \subseteq missed', missed' \subseteq Id,
           UNCHANGED <<status, others, clock, req>>, TaskOK(id)', Accounted(id)'
    PROVE  NotificationsInv'
<1>1. task' \in [Id -> Tasks] /\ owed' \in [Id -> Nat] /\ \A x \in Id : owed'[x] <= clock'
  BY DEF NotificationsInv
<1>2. \A r \in Request : RequestOK(r)'
  BY DEF NotificationsInv, RequestOK, Deciding
<1>3. ASSUME NEW x \in Id, x # id
      PROVE  TaskOK(x)' /\ Accounted(x)'
  <2>1. /\ TaskOK(x) /\ Accounted(x) /\ task'[x] = task[x] /\ owed'[x] = owed[x]
        /\ clock' = clock /\ req' = req
    BY <1>3 DEF NotificationsInv
  <2>2. TaskOK(x)'
    BY <2>1, Zenon DEF TaskOK, ToTell, ListApprovers
  <2>3. Accounted(x)'
    BY <2>1 DEF Accounted, Unenqueued, StillToRead
  <2> QED
    BY <2>2, <2>3
<1> QED
  BY <1>1, <1>2, <1>3 DEF NotificationsInv

\* A worker takes a task.
LEMMA StartInv ==
    ASSUME NotificationsInv, NEW id \in Id, Start(id)
    PROVE  NotificationsInv'
<1>1. task[id] \in Tasks /\ task[id].read = NULL /\ owed[id] \in Nat /\ owed[id] <= clock
  BY DEF NotificationsInv, Start, TaskOK
<1>2. PICK t \in Tasks : t = [task[id] EXCEPT !.state = "active"]
  BY <1>1, Zenon DEF Tasks
<1>3. /\ task' = [task EXCEPT ![id] = t] /\ owed' = [owed EXCEPT ![id] = owed[id]]
      /\ UNCHANGED <<status, others, clock, req, alerted, missed>>
  BY <1>2 DEF Start, dbVars, NotificationsInv
<1>4. t.state = "active" /\ t.read = NULL /\ t.since = task[id].since /\ task'[id] = t
  BY <1>1, <1>2, <1>3 DEF Tasks, NotificationsInv
<1>5. TaskOK(id)' /\ Accounted(id)'
  BY <1>3, <1>4 DEF TaskOK, Accounted, StillToRead, NotificationsInv
<1> QED
  BY <1>1, <1>3, <1>5, TaskMoves, Zenon DEF NotificationsInv

\* The handler reads everything committed so far.
LEMMA ReadInv ==
    ASSUME NotificationsInv, NEW id \in Id, Read(id)
    PROVE  NotificationsInv'
<1>1. /\ task[id] \in Tasks /\ owed[id] \in Nat /\ owed[id] <= clock /\ clock \in Nat
      /\ task[id].since <= clock /\ task[id].since \in Nat /\ task[id].state = "active"
  BY Bounds DEF NotificationsInv, Read, TaskOK, Tasks
<1>2. PICK t : /\ t.read = clock /\ t.state = "active" /\ t.since = task[id].since
               /\ id[1] = "transition" => t.to = ToTell(id[2])
               /\ t \in Tasks /\ task' = [task EXCEPT ![id] = t]
  <2> DEFINE found == IF id[1] = "budget" THEN Found(id[2]) ELSE {}
             to == IF id[1] = "transition" THEN ToTell(id[2])
                   ELSE IF found = {} THEN {} ELSE ListFinance
  <2>1. found \subseteq Envelope
    BY DEF Found
  <2>2. to \subseteq Member
    <3>1. id[1] = "transition" => id[2] \in Move
      BY DEF Id
    <3> QED
      BY <3>1, TellsMembers DEF ListFinance
  <2> HIDE DEF found, to
  <2>3. task' = [task EXCEPT ![id] =
            [task[id] EXCEPT !.read = clock, !.found = found, !.to = to]]
    <3>1. task' = [task EXCEPT ![id].read = clock, ![id].found = found, ![id].to = to]
      BY DEF Read, found, to
    <3> QED
      BY <1>1, <3>1, Zenon DEF NotificationsInv, Tasks
  <2> DEFINE t == [task[id] EXCEPT !.read = clock, !.found = found, !.to = to]
  <2>4. t \in Tasks /\ t.read = clock /\ t.state = "active" /\ t.since = task[id].since
        /\ t.to = to
    BY <1>1, <2>1, <2>2, Zenon DEF Tasks
  <2>5. id[1] = "transition" => to = ToTell(id[2])
    BY DEF to
  <2> HIDE DEF t
  <2> QED
    BY <2>3, <2>4, <2>5, Zenon DEF t
<1>3. /\ owed' = [owed EXCEPT ![id] = owed[id]] /\ task'[id] = t
      /\ UNCHANGED <<status, others, clock, req, alerted, missed>>
  BY <1>2, Zenon DEF Read, dbVars, NotificationsInv
<1>4. ToTell(id[2])' = ToTell(id[2])
  BY DEF ToTell, ListApprovers
<1>5. TaskOK(id)'
  BY <1>1, <1>2, <1>3, <1>4 DEF TaskOK
<1>6. Accounted(id)'
  BY <1>1, <1>2, <1>3 DEF Accounted, StillToRead
<1> QED
  BY <1>1, <1>2, <1>3, <1>5, <1>6, TaskMoves, Zenon DEF NotificationsInv

\* A task about a discarded claim ends, and its message is missed.
LEMMA SkipInv ==
    ASSUME NotificationsInv, NEW id \in Id, Skip(id)
    PROVE  NotificationsInv'
<1>1. /\ owed[id] \in Nat /\ owed[id] <= clock /\ clock \in Nat
      /\ alerted \subseteq Envelope /\ missed \subseteq Id
  BY Bounds DEF NotificationsInv
<1>2. PICK t \in Tasks : t = [NoTask EXCEPT !.state = "completed"]
  BY Blank, Zenon DEF Tasks
<1>3. t.read = NULL /\ t.since = 0
  BY <1>2, Blank DEF Tasks
<1>4. /\ task' = [task EXCEPT ![id] = t] /\ task'[id] = t /\ missed' = missed \cup {id}
      /\ owed' = [owed EXCEPT ![id] = owed[id]] /\ alerted' \subseteq Envelope
      /\ missed \subseteq missed' /\ missed' \subseteq Id
      /\ UNCHANGED <<status, others, clock, req>>
  BY <1>1, <1>2 DEF Skip, dbVars, NotificationsInv
<1>5. TaskOK(id)'
  BY <1>1, <1>3, <1>4 DEF TaskOK
<1>6. Accounted(id)'
  BY <1>4 DEF Accounted
<1> QED
  BY <1>1, <1>4, <1>5, <1>6, TaskMoves, Zenon

\* A discarded claim takes nothing out of the queue.
LEMMA DiscardInv ==
    ASSUME NotificationsInv, Discard
    PROVE  NotificationsInv'
<1>1. /\ status' = "deleted"
      /\ UNCHANGED <<others, clock, req, task, owed, alerted, missed>>
  BY DEF Discard
<1>2. \A r \in Request : RequestOK(r)'
  BY <1>1, SMTT(40) DEF NotificationsInv, RequestOK, Deciding
<1>3. \A id \in Id : TaskOK(id)' /\ Accounted(id)'
  BY <1>1, ZenonT(60)
  DEF NotificationsInv, TaskOK, ToTell, ListApprovers, Accounted, Unenqueued, StillToRead
<1> QED
  BY <1>1, <1>2, <1>3 DEF NotificationsInv

\* The messages go out.  A task that read too early for the last commit leaves
\* it owed, and then that commit's own call is still to be enqueued or missed.
LEMMA FinishInv ==
    ASSUME NotificationsInv, NEW id \in Id, Finish(id)
    PROVE  NotificationsInv'
<1>1. /\ task[id] \in Tasks /\ owed[id] \in Nat /\ owed[id] <= clock /\ clock \in Nat
      /\ task[id].state = "active" /\ task[id].read # NULL
      /\ alerted \subseteq Envelope /\ Accounted(id) /\ missed \subseteq Id
  BY Bounds DEF NotificationsInv, Finish
<1>2. PICK t \in Tasks : /\ task' = [task EXCEPT ![id] = t]
                        /\ t.read = NULL /\ t.since = 0
  <2>1. [NoTask EXCEPT !.state = "completed"] \in Tasks
    BY Blank DEF Tasks
  <2>2. [NoTask EXCEPT !.state = "completed"].read = NULL
        /\ [NoTask EXCEPT !.state = "completed"].since = 0
    BY Blank DEF Tasks
  <2>3. CASE id[1] = "transition"
    BY <2>1, <2>2, <2>3, Zenon DEF Finish
  <2>4. CASE id[1] # "transition"
    BY <2>4, Blank, Zenon DEF Finish
  <2> QED
    BY <2>3, <2>4
<1>3. PICK n \in Nat : /\ n <= clock /\ owed' = [owed EXCEPT ![id] = n]
                      /\ n = IF task[id].read >= owed[id] THEN 0 ELSE owed[id]
  <2> DEFINE m == IF task[id].read >= owed[id] THEN 0 ELSE owed[id]
  <2>1. owed' = [owed EXCEPT ![id] = m]
    BY DEF Finish, NotificationsInv
  <2>2. m \in Nat /\ m <= clock
    BY <1>1
  <2> HIDE DEF m
  <2> QED
    BY <2>1, <2>2, Zenon DEF m
<1>4. /\ UNCHANGED <<status, others, clock, req, missed>> /\ alerted' \subseteq Envelope
      /\ task'[id] = t /\ owed'[id] = n
  BY <1>1, <1>2, <1>3 DEF Finish, dbVars, Alerts, Tasks, NotificationsInv
<1>5. TaskOK(id)'
  BY <1>1, <1>2, <1>4 DEF TaskOK
<1>6. Accounted(id)'
  BY <1>1, <1>3, <1>4 DEF Accounted, Unenqueued, StillToRead
<1> QED
  BY <1>1, <1>2, <1>3, <1>4, <1>5, <1>6, TaskMoves, Zenon

\* A failed attempt is tried again from its reading, or given up as missed.
LEMMA AttemptFailsInv ==
    ASSUME NotificationsInv, NEW id \in Id, AttemptFails(id)
    PROVE  NotificationsInv'
<1>1. /\ task[id] \in Tasks /\ owed[id] \in Nat /\ owed[id] <= clock /\ clock \in Nat
      /\ task[id].since <= clock /\ alerted \subseteq Envelope /\ missed \subseteq Id
  BY Bounds DEF NotificationsInv, TaskOK
<1>2. alerted' \subseteq Envelope
  BY <1>1 DEF AttemptFails, Alerts, Tasks
<1>3. /\ UNCHANGED <<status, others, clock, req>> /\ owed' = [owed EXCEPT ![id] = owed[id]]
      /\ owed'[id] = owed[id]
  BY DEF AttemptFails, dbVars, NotificationsInv
<1>4. CASE task[id].retried < MaxRetry
  <2>1. task' = [task EXCEPT ![id] =
            [task[id] EXCEPT !.state = "pending", !.retried = task[id].retried + 1,
                             !.read = NULL, !.found = {}, !.to = {}]] /\ missed' = missed
    BY <1>4 DEF AttemptFails, Retried
  <2>2. PICK t \in Tasks :
            t = [task[id] EXCEPT !.state = "pending", !.retried = task[id].retried + 1,
                                 !.read = NULL, !.found = {}, !.to = {}]
    <3>1. task[id].retried + 1 \in 0 .. MaxRetry
      BY <1>1, <1>4, Bounds DEF Tasks
    <3> QED
      BY <1>1, <3>1, Zenon DEF Tasks
  <2>3. t.state = "pending" /\ t.read = NULL /\ t.since = task[id].since
    BY <1>1, <2>2 DEF Tasks
  <2>4. task' = [task EXCEPT ![id] = t] /\ task'[id] = t
    BY <2>1, <2>2 DEF NotificationsInv
  <2>5. TaskOK(id)' /\ Accounted(id)'
    BY <1>1, <1>3, <2>3, <2>4 DEF TaskOK, Accounted, StillToRead
  <2> QED
    BY <1>1, <1>2, <1>3, <2>1, <2>4, <2>5, TaskMoves, Zenon
<1>5. CASE ~(task[id].retried < MaxRetry)
  <2>1. task' = [task EXCEPT ![id] = [NoTask EXCEPT !.state = "archived"]]
        /\ missed' = missed \cup {id}
    BY <1>5 DEF AttemptFails
  <2>2. PICK t \in Tasks : t = [NoTask EXCEPT !.state = "archived"]
    BY Blank, Zenon DEF Tasks
  <2>3. t.read = NULL /\ t.since = 0
    BY <2>2, Blank DEF Tasks
  <2>4. task' = [task EXCEPT ![id] = t] /\ task'[id] = t
    BY <2>1, <2>2 DEF NotificationsInv
  <2>5. TaskOK(id)'
    BY <1>1, <1>3, <2>3, <2>4 DEF TaskOK
  <2>6. Accounted(id)'
    BY <2>1 DEF Accounted
  <2> QED
    BY <1>1, <1>2, <1>3, <2>1, <2>4, <2>5, <2>6, TaskMoves, Zenon
<1> QED
  BY <1>4, <1>5

\* The id of a finished task comes free.
LEMMA RetentionEndsInv ==
    ASSUME NotificationsInv, NEW id \in Id, RetentionEnds(id)
    PROVE  NotificationsInv'
<1>1. /\ owed[id] \in Nat /\ owed[id] <= clock /\ clock \in Nat /\ Accounted(id)
      /\ task[id].state = "completed"
  BY Bounds DEF NotificationsInv, RetentionEnds
<1>2. /\ UNCHANGED <<status, others, clock, req, alerted, missed>>
      /\ owed' = [owed EXCEPT ![id] = owed[id]] /\ owed'[id] = owed[id]
      /\ task' = [task EXCEPT ![id] = NoTask] /\ task'[id] = NoTask
  BY DEF RetentionEnds, dbVars, NotificationsInv
<1>3. TaskOK(id)' /\ Accounted(id)'
  BY <1>1, <1>2, Blank DEF TaskOK, Accounted, Unenqueued, StillToRead
<1> QED
  BY <1>1, <1>2, <1>3, Blank, TaskMoves, Zenon DEF NotificationsInv

\* The machine has an edge for every move, between two statuses.
LEMMA Edges == \A a \in Move : To[a] \in Statuses
<1>1. \A a \in Actions : To[a] \in Statuses
  BY DEF To, Actions, Statuses
<1>2. Move \subseteq Actions
  BY NotificationsAssumption, Zenon
<1> QED
  BY <1>1, <1>2, Zenon

\* A request that is not notifying has nothing left to enqueue.
LEMMA OthersUnenqueued ==
    ASSUME NotificationsInv, NEW r \in Request, req[r].pc # "notifying",
           \A s \in Request \ {r} : req'[s] = req[s]
    PROVE  \A id \in Id : Unenqueued(id) => Unenqueued(id)'
<1>1. req[r].todo = <<>>
  BY DEF NotificationsInv, RequestOK
<1> QED
  BY <1>1 DEF Unenqueued

\* The row is locked: the one decision under way is r's.
LEMMA DecideInv ==
    ASSUME NotificationsInv, NEW r \in Request, NEW a \in Move, Decide(r, a)
    PROVE  NotificationsInv'
<1>1. PICK q \in Reqs : /\ q.pc = "deciding" /\ q.action = a /\ q.at = 0 /\ q.todo = <<>>
                       /\ req' = [req EXCEPT ![r] = q]
  <2>1. [Idle EXCEPT !.pc = "deciding", !.action = a] \in Reqs
    BY Blank, Zenon DEF Reqs, Idle
  <2> QED
    BY <2>1, Zenon DEF Decide, Idle
<1>2. /\ UNCHANGED <<status, others, clock, task, owed, alerted, missed>>
      /\ Deciding = {} /\ clock < MaxCommits /\ req[r].pc = "idle"
      /\ req' \in [Request -> Reqs] /\ clock \in Nat
      /\ req'[r] = q /\ \A s \in Request \ {r} : req'[s] = req[s]
  BY <1>1, Bounds DEF Decide, dbVars, NotificationsInv
<1>3. ASSUME NEW s \in Request PROVE RequestOK(s)'
  <2>1. \A x \in Deciding' : x = r
    BY <1>2 DEF Deciding
  <2>2. CASE s = r
    BY <1>1, <1>2, <2>1, <2>2 DEF RequestOK
  <2>3. CASE s # r
    <3>1. req'[s] = req[s] /\ req[s].pc # "deciding" /\ RequestOK(s)
      BY <1>2, <2>3 DEF Deciding, NotificationsInv
    <3> QED
      BY <1>2, <3>1 DEF RequestOK
  <2> QED
    BY <2>2, <2>3, SMTT(40)
<1>4. \A id \in Id : Unenqueued(id) => Unenqueued(id)'
  BY <1>2, OthersUnenqueued
<1>5. \A id \in Id : TaskOK(id)' /\ Accounted(id)' /\ (owed[id] <= clock)'
  BY <1>2, <1>4, ZenonT(60) DEF NotificationsInv, TaskOK, Accounted, StillToRead, ToTell, ListApprovers
<1> QED
  BY <1>2, <1>3, <1>5 DEF NotificationsInv

\* A commit: what it calls for is owed from now on, and still to be enqueued.
LEMMA Committed ==
    ASSUME NotificationsInv, NEW r \in Request, NEW q \in Reqs, req[r].pc # "notifying",
           req' = [req EXCEPT ![r] = q], q.pc = "notifying", q.at = clock + 1, q.todo # <<>>,
           Owe({q.todo[i] : i \in DOMAIN q.todo}),
           clock' = clock + 1, clock + 1 <= MaxCommits, status' \in Statuses \cup {"deleted"},
           others' \in [Envelope -> Nat], \A e \in Envelope : others'[e] <= clock + 1,
           \A s \in Deciding \ {r} : clock + 1 < MaxCommits,
           UNCHANGED <<task, alerted, missed>>
    PROVE  NotificationsInv'
<1>1. /\ req' \in [Request -> Reqs] /\ req'[r] = q /\ clock \in Nat /\ MaxCommits \in Nat
      /\ \A s \in Request \ {r} : req'[s] = req[s]
      /\ \A id \in Id : owed[id] \in Nat /\ owed[id] <= clock
  BY Bounds DEF NotificationsInv
<1>2. ASSUME NEW s \in Request PROVE RequestOK(s)'
  <2>1. CASE s = r
    BY <1>1, <2>1 DEF RequestOK
  <2>2. CASE s # r
    <3>1. req'[s] = req[s] /\ RequestOK(s) /\ req[s].at \in Nat
      BY <1>1, <2>2 DEF NotificationsInv, Reqs
    <3>2. Deciding' \subseteq Deciding
      BY <1>1 DEF Deciding
    <3>3. req[s].pc = "deciding" => s \in Deciding \ {r}
      BY <2>2 DEF Deciding
    <3> QED
      BY <1>1, <3>1, <3>2, <3>3, SMTT(40) DEF RequestOK
  <2> QED
    BY <2>1, <2>2
<1>3. \A id \in Id : Unenqueued(id) => Unenqueued(id)'
  BY <1>1, OthersUnenqueued
<1>4. ASSUME NEW id \in Id
      PROVE  TaskOK(id)' /\ Accounted(id)' /\ owed'[id] \in Nat /\ owed'[id] <= clock'
  <2>1. task'[id] = task[id] /\ TaskOK(id) /\ task[id].since \in Nat /\ Accounted(id)
    BY DEF NotificationsInv, Tasks
  <2>2. TaskOK(id)'
    <3>1. task[id].since <= clock' /\ ToTell(id[2])' = ToTell(id[2])
      BY <1>1, <2>1 DEF TaskOK, ToTell, ListApprovers
    <3> QED
      BY <2>1, <3>1 DEF TaskOK
  <2>3. CASE \E i \in DOMAIN q.todo : q.todo[i] = id
    <3>1. Unenqueued(id)' /\ owed'[id] = clock + 1
      BY <1>1, <2>3, SMTT(40) DEF Unenqueued, Owe
    <3> QED
      BY <1>1, <2>2, <3>1, SMTT(40) DEF Accounted
  <2>4. CASE ~ \E i \in DOMAIN q.todo : q.todo[i] = id
    <3>1. owed'[id] = owed[id]
      BY <2>4 DEF Owe
    <3>2. Accounted(id)'
      BY <1>3, <2>1, <3>1, SMTT(40) DEF Accounted, StillToRead
    <3> QED
      BY <1>1, <2>2, <3>1, <3>2
  <2> QED
    BY <2>3, <2>4
<1>5. owed' \in [Id -> Nat] /\ clock' \in 0 .. MaxCommits
  BY <1>1, <1>4 DEF Owe
<1> QED
  BY <1>1, <1>2, <1>4, <1>5 DEF NotificationsInv

\* A request with a commit behind it and these tasks to enqueue.
LEMMA Notifying ==
    ASSUME NEW ids \in Seq(Id), NEW n \in Nat
    PROVE  \E q \in Reqs :
              /\ q = [Idle EXCEPT !.pc = "notifying", !.at = n, !.todo = ids]
              /\ q.pc = "notifying" /\ q.at = n /\ q.todo = ids
<1> DEFINE q == [Idle EXCEPT !.pc = "notifying", !.at = n, !.todo = ids]
<1>1. q \in Reqs
  BY Blank, Zenon DEF Reqs
<1>2. q.pc = "notifying" /\ q.at = n /\ q.todo = ids
  BY Blank DEF Reqs
<1> HIDE DEF q
<1> QED
  BY <1>1, <1>2, Zenon DEF q

\* Transition commits: the decision under way was the only one.
LEMMA CommitInv ==
    ASSUME NotificationsInv, NEW r \in Request, Commit(r)
    PROVE  NotificationsInv'
<1> DEFINE a == req[r].action
           ids == ToEnqueue(a, To[a])
<1>1. /\ req[r].pc = "deciding" /\ RequestOK(r) /\ a \in Move /\ clock < MaxCommits
      /\ \A s \in Deciding : s = r
      /\ clock \in Nat /\ \A e \in Envelope : others[e] <= clock /\ others[e] \in Nat
  BY Bounds DEF Commit, RequestOK, NotificationsInv
<1>2. /\ status' = To[a] /\ clock' = clock + 1 /\ Owe({ids[i] : i \in DOMAIN ids})
      /\ req' = [req EXCEPT ![r] =
                    [Idle EXCEPT !.pc = "notifying", !.at = clock + 1, !.todo = ids]]
      /\ UNCHANGED <<others, task, alerted, missed>>
  BY DEF Commit
<1>3. ids \in Seq(Id) /\ ids # <<>>
  <2>1. <<"transition", a>> \in Id /\ <<"budget", ClaimDept>> \in Id
    BY <1>1 DEF Id, Spending
  <2> QED
    BY <2>1 DEF ToEnqueue
<1> HIDE DEF ids
<1>4. PICK q \in Reqs : /\ q = [Idle EXCEPT !.pc = "notifying", !.at = clock + 1, !.todo = ids]
                       /\ q.pc = "notifying" /\ q.at = clock + 1 /\ q.todo = ids
  <2>1. clock + 1 \in Nat
    BY <1>1
  <2> QED
    BY <1>3, <2>1, Notifying, ZenonT(60)
<1>5. req' = [req EXCEPT ![r] = q] /\ Owe({q.todo[i] : i \in DOMAIN q.todo})
  BY <1>2, <1>4
<1>6. /\ others' \in [Envelope -> Nat] /\ \A e \in Envelope : others'[e] <= clock + 1
      /\ clock + 1 <= MaxCommits
  BY <1>1, <1>2, Bounds DEF NotificationsInv
<1>7. status' \in Statuses \cup {"deleted"} /\ \A s \in Deciding \ {r} : clock + 1 < MaxCommits
  BY <1>1, <1>2, Edges
<1> QED
  BY <1>1, <1>2, <1>3, <1>4, <1>5, <1>6, <1>7, Committed, Zenon

\* Another claim is approved; a decision under way keeps room for its commit.
LEMMA OtherApprovalInv ==
    ASSUME NotificationsInv, NEW r \in Request, NEW d \in Elsewhere, OtherApproval(r, d)
    PROVE  NotificationsInv'
<1> DEFINE ids == <<<<"budget", d>>>>
<1>1. /\ req[r].pc = "idle" /\ clock \in Nat /\ others \in [Envelope -> Nat]
      /\ \A e \in Envelope : others[e] <= clock
      /\ clock + Cardinality(Deciding) < MaxCommits
      /\ clock' = clock + 1 /\ others' = [others EXCEPT ![d] = others[d] + 1]
      /\ Owe({<<"budget", d>>})
      /\ req' = [req EXCEPT ![r] =
                    [Idle EXCEPT !.pc = "notifying", !.at = clock + 1, !.todo = ids]]
      /\ UNCHANGED <<status, task, alerted, missed>>
  BY Bounds DEF OtherApproval, NotificationsInv
<1>2. d \in Envelope /\ <<"budget", d>> \in Id
  BY NotificationsAssumption DEF Id, Spending
<1>3. /\ ids \in Seq(Id) /\ ids # <<>>
      /\ {ids[i] : i \in DOMAIN ids} = {<<"budget", d>>}
  BY <1>2, SMTT(40)
<1> HIDE DEF ids
<1>4. PICK q \in Reqs : /\ q = [Idle EXCEPT !.pc = "notifying", !.at = clock + 1, !.todo = ids]
                       /\ q.pc = "notifying" /\ q.at = clock + 1 /\ q.todo = ids
  <2>1. clock + 1 \in Nat
    BY <1>1
  <2> QED
    BY <1>3, <2>1, Notifying, ZenonT(60)
<1>5. clock + 1 <= MaxCommits /\ \A s \in Deciding \ {r} : clock + 1 < MaxCommits
  <2>1. CASE Deciding = {}
    BY <1>1, <2>1, FS_EmptySet, Bounds
  <2>2. CASE Deciding # {}
    <3>1. PICK s \in Request : Deciding = {s}
      BY <2>2 DEF Deciding, NotificationsInv, RequestOK
    <3>2. Cardinality(Deciding) = 1
      BY <3>1, FS_Singleton, SMTT(40)
    <3> QED
      BY <1>1, <3>2, Bounds
  <2> QED
    BY <2>1, <2>2
<1>6. others' \in [Envelope -> Nat] /\ \A e \in Envelope : others'[e] <= clock + 1
  BY <1>1, <1>2
<1>7. req' = [req EXCEPT ![r] = q] /\ Owe({q.todo[i] : i \in DOMAIN q.todo})
  <2>1. {q.todo[i] : i \in DOMAIN q.todo} = {<<"budget", d>>}
    BY <1>3, <1>4
  <2>2. req' = [req EXCEPT ![r] = q]
    BY <1>1, <1>4
  <2> QED
    BY <1>1, <2>1, <2>2, Zenon
<1>8. status' \in Statuses \cup {"deleted"}
  BY <1>1 DEF NotificationsInv
<1> QED
  BY <1>1, <1>3, <1>4, <1>5, <1>6, <1>7, <1>8, Committed, ZenonT(60)

\* notify has dealt with one task, h.
LEMMA NotifyMoves ==
    ASSUME NotificationsInv, NEW r \in Request, req[r].pc = "notifying", Rest(r),
           NEW h, h = Head(req[r].todo),
           task' \in [Id -> Tasks], \A x \in Id \ {h} : task'[x] = task[x],
           missed \subseteq missed', missed' \subseteq Id,
           UNCHANGED <<status, others, clock, owed, alerted>>, TaskOK(h)', Accounted(h)'
    PROVE  NotificationsInv'
<1>1. /\ req' \in [Request -> Reqs]
      /\ \A s \in Request \ {r} : req'[s] = req[s]
      /\ req'[r].at <= clock /\ req'[r].pc # "deciding"
      /\ req'[r].pc = "notifying" <=> req'[r].todo # <<>>
      /\ \A id \in Id : Unenqueued(id) /\ id # h => Unenqueued(id)'
  BY Rested
<1>2. ASSUME NEW s \in Request PROVE RequestOK(s)'
  <2>1. CASE s = r
    BY <1>1, <2>1 DEF RequestOK
  <2>2. CASE s # r
    <3>1. req'[s] = req[s] /\ RequestOK(s)
      BY <1>1, <2>2 DEF NotificationsInv
    <3>2. Deciding' \subseteq Deciding
      BY <1>1 DEF Deciding
    <3> QED
      BY <3>1, <3>2, SMTT(40) DEF RequestOK
  <2> QED
    BY <2>1, <2>2
<1>3. ASSUME NEW x \in Id PROVE TaskOK(x)' /\ Accounted(x)'
  <2>1. CASE x = h
    BY <2>1
  <2>2. CASE x # h
    <3>1. /\ task'[x] = task[x] /\ TaskOK(x) /\ Accounted(x)
          /\ Unenqueued(x) => Unenqueued(x)'
      BY <1>1, <2>2, SMTT(40) DEF NotificationsInv
    <3>2. TaskOK(x)'
      BY <3>1, ZenonT(60) DEF TaskOK, ToTell, ListApprovers
    <3>3. Accounted(x)'
      BY <3>1 DEF Accounted, StillToRead
    <3> QED
      BY <3>2, <3>3, SMTT(40)
  <2> QED
    BY <2>1, <2>2
<1> QED
  BY <1>1, <1>2, <1>3, SMTT(40) DEF NotificationsInv

\* A new task will read the present; so will one that is there and has not
\* read; otherwise the call is missed.
LEMMA EnqueueInv ==
    ASSUME NotificationsInv, NEW r \in Request, Enqueue(r)
    PROVE  NotificationsInv'
<1>1. req[r].pc = "notifying" /\ Rest(r) /\ UNCHANGED <<status, others, clock, owed, alerted>>
  BY DEF Enqueue, dbVars
<1>2. PICK h \in Id : h = Head(req[r].todo)
  BY <1>1, Rested
<1>3. CASE task[h].state = "none"
  <2>1. PICK t \in Tasks : /\ t = [NoTask EXCEPT !.state = "pending", !.since = req[r].at]
                          /\ t.state = "pending" /\ t.since = req[r].at /\ t.read = NULL
    <3> DEFINE t == [NoTask EXCEPT !.state = "pending", !.since = req[r].at]
    <3>1. req[r].at \in Nat
      BY DEF NotificationsInv, Reqs
    <3>2. t \in Tasks
      BY <3>1, Blank, ZenonT(60) DEF Tasks
    <3>3. t.state = "pending" /\ t.since = req[r].at /\ t.read = NULL
      BY Blank DEF Tasks
    <3> HIDE DEF t
    <3> QED
      BY <3>2, <3>3, Zenon DEF t
  <2>2. task' = [task EXCEPT ![h] = t] /\ missed' = missed
    BY <1>2, <1>3, <2>1 DEF Enqueue
  <2>3. /\ task' \in [Id -> Tasks] /\ task'[h] = t /\ missed' \subseteq Id
        /\ \A x \in Id \ {h} : task'[x] = task[x]
    BY <2>2 DEF NotificationsInv
  <2>4. TaskOK(h)' /\ Accounted(h)'
    BY <1>1, <2>1, <2>3, SMTT(40) DEF TaskOK, Accounted, StillToRead, NotificationsInv, RequestOK
  <2> QED
    BY <1>1, <1>2, <2>2, <2>3, <2>4, NotifyMoves
<1>4. CASE task[h].state # "none"
  <2>1. /\ task' = task
        /\ missed' = IF StillToRead(task[h]) THEN missed ELSE missed \cup {h}
    BY <1>2, <1>4 DEF Enqueue
  <2>2. task' \in [Id -> Tasks] /\ missed \subseteq missed' /\ missed' \subseteq Id
    BY <2>1 DEF NotificationsInv
  <2>3. TaskOK(h)'
    <3>1. TaskOK(h)
      BY DEF NotificationsInv
    <3> QED
      BY <1>1, <2>1, <3>1, Zenon DEF TaskOK, ToTell, ListApprovers
  <2>4. Accounted(h)'
    BY <2>1 DEF Accounted, StillToRead
  <2> QED
    BY <1>1, <1>2, <2>1, <2>2, <2>3, <2>4, NotifyMoves, SMTT(40)
<1> QED
  BY <1>3, <1>4

\* A call that does not reach the queue is missed.
LEMMA EnqueueFailsInv ==
    ASSUME NotificationsInv, NEW r \in Request, EnqueueFails(r)
    PROVE  NotificationsInv'
<1>1. /\ req[r].pc = "notifying" /\ Rest(r)
      /\ UNCHANGED <<status, others, clock, task, owed, alerted>>
      /\ missed' = missed \cup {Head(req[r].todo)}
  BY DEF EnqueueFails, dbVars
<1>2. PICK h \in Id : h = Head(req[r].todo)
  BY <1>1, Rested
<1>3. TaskOK(h)'
  <2>1. TaskOK(h)
    BY DEF NotificationsInv
  <2> QED
    BY <1>1, <2>1, ZenonT(60) DEF TaskOK, ToTell, ListApprovers
<1>4. Accounted(h)'
  BY <1>1, <1>2 DEF Accounted
<1>5. task' \in [Id -> Tasks] /\ missed \subseteq missed' /\ missed' \subseteq Id
  BY <1>1, <1>2 DEF NotificationsInv
<1> QED
  BY <1>1, <1>2, <1>3, <1>4, <1>5, NotifyMoves

\* What a request that dies has not enqueued is missed.
LEMMA CrashInv ==
    ASSUME NotificationsInv, NEW r \in Request, Crash(r)
    PROVE  NotificationsInv'
<1>1. /\ req' = [req EXCEPT ![r] = Idle]
      /\ missed' = missed \cup {req[r].todo[i] : i \in DOMAIN req[r].todo}
      /\ UNCHANGED <<status, others, clock, task, owed, alerted>>
  BY SMTT(40) DEF Crash, dbVars
<1>2. /\ req' \in [Request -> Reqs] /\ req'[r] = Idle /\ clock \in Nat
      /\ \A s \in Request \ {r} : req'[s] = req[s]
  BY <1>1, Blank, Bounds DEF NotificationsInv
<1>3. missed' \subseteq Id
  <2>1. req[r].todo \in Seq(Id) /\ missed \subseteq Id
    BY DEF NotificationsInv, Reqs
  <2> QED
    BY <1>1, <2>1
<1>4. ASSUME NEW s \in Request PROVE RequestOK(s)'
  <2>1. CASE s = r
    BY <1>1, <1>2, <2>1, Blank, SMTT(40) DEF RequestOK
  <2>2. CASE s # r
    <3>1. req'[s] = req[s] /\ RequestOK(s) /\ Deciding' \subseteq Deciding
      BY <1>2, <2>2, Blank DEF NotificationsInv, Deciding
    <3> QED
      BY <1>1, <3>1, SMTT(40) DEF RequestOK
  <2> QED
    BY <2>1, <2>2
<1>5. ASSUME NEW x \in Id PROVE TaskOK(x)' /\ Accounted(x)'
  <2>1. TaskOK(x) /\ Accounted(x)
    BY DEF NotificationsInv
  <2>2. TaskOK(x)'
    BY <1>1, <2>1, ZenonT(60) DEF TaskOK, ToTell, ListApprovers
  <2>3. Unenqueued(x) => Unenqueued(x)' \/ x \in missed'
    BY <1>1, <1>2 DEF Unenqueued
  <2>4. Accounted(x)'
    BY <1>1, <2>1, <2>3 DEF Accounted, StillToRead
  <2> QED
    BY <2>2, <2>4
<1> QED
  BY <1>1, <1>2, <1>3, <1>4, <1>5 DEF NotificationsInv

\* Every step preserves the invariant.
LEMMA NotificationsStep ==
    ASSUME NotificationsInv, [Next]_vars
    PROVE  NotificationsInv'
<1>1. ASSUME NEW r \in Request, ApiStep(r) PROVE NotificationsInv'
  <2>1. ASSUME NEW a \in Move, Decide(r, a) PROVE NotificationsInv'
    BY <2>1, DecideInv
  <2>2. CASE Commit(r)
    BY <2>2, CommitInv
  <2>3. ASSUME NEW d \in Elsewhere, OtherApproval(r, d) PROVE NotificationsInv'
    BY <2>3, OtherApprovalInv
  <2>4. CASE Enqueue(r)
    BY <2>4, EnqueueInv
  <2>5. CASE EnqueueFails(r)
    BY <2>5, EnqueueFailsInv
  <2>6. CASE Crash(r)
    BY <2>6, CrashInv
  <2> QED
    BY <1>1, <2>1, <2>2, <2>3, <2>4, <2>5, <2>6 DEF ApiStep
<1>2. ASSUME NEW id \in Id, WorkerStep(id) \/ RetentionEnds(id) PROVE NotificationsInv'
  <2>1. CASE Start(id)
    BY <2>1, StartInv
  <2>2. CASE Read(id)
    BY <2>2, ReadInv, SMTT(40)
  <2>3. CASE Finish(id)
    BY <2>3, FinishInv
  <2>4. CASE AttemptFails(id)
    BY <2>4, AttemptFailsInv
  <2>5. CASE RetentionEnds(id)
    BY <2>5, RetentionEndsInv
  <2>6. CASE Skip(id)
    BY <2>6, SkipInv
  <2> QED
    BY <1>2, <2>1, <2>2, <2>3, <2>4, <2>5, <2>6 DEF WorkerStep
<1>3. CASE UNCHANGED vars
  <2>1. UNCHANGED <<status, others, clock, req, task, owed, alerted, missed>>
    BY <1>3, SMTT(40) DEF vars
  <2>2. \A r \in Request : RequestOK(r)'
    BY <2>1, SMTT(40) DEF NotificationsInv, RequestOK, Deciding
  <2>3. \A id \in Id : TaskOK(id)' /\ Accounted(id)'
    BY <2>1, ZenonT(60) DEF NotificationsInv, TaskOK, ToTell, ListApprovers, Accounted, Unenqueued, StillToRead
  <2> QED
    BY <2>1, <2>2, <2>3 DEF NotificationsInv
<1>4. CASE Discard
  BY <1>4, DiscardInv
<1> QED
  BY <1>1, <1>2, <1>3, <1>4 DEF Next

\* The calls for a message are accounted for in every reachable state: each is
\* told, still to be told, or on record as missed (notify, Handle*).
THEOREM NotificationsInvariance == Spec => []NotificationsInv
<1>1. Init => NotificationsInv
  BY NotificationsInitial
<1>2. NotificationsInv /\ [Next]_vars => NotificationsInv'
  BY NotificationsStep
<1> QED
  BY <1>1, <1>2, PTL DEF Spec

\* Retries stay within MaxRetry and notify stops when it has nothing left.
LEMMA NotificationsTyped == NotificationsInv => NotificationsTypeOK
<1> SUFFICES ASSUME NotificationsInv PROVE NotificationsTypeOK
  OBVIOUS
<1>1. /\ status \in Statuses \cup {"deleted"} /\ clock \in 0 .. MaxCommits
      /\ alerted \subseteq Envelope /\ missed \subseteq Id
  BY DEF NotificationsInv
<1>2. others \in [Envelope -> 0 .. MaxCommits]
  <2>1. \A e \in Envelope : others[e] \in 0 .. MaxCommits
    BY Bounds DEF NotificationsInv
  <2> QED
    BY <2>1 DEF NotificationsInv
<1>3. ASSUME NEW r \in Request
      PROVE  /\ req[r].pc \in {"idle", "deciding", "notifying"}
             /\ req[r].pc = "notifying" <=> req[r].todo # <<>>
  <2>1. req[r] \in Reqs /\ RequestOK(r)
    BY DEF NotificationsInv
  <2> QED
    BY <2>1 DEF Reqs, RequestOK
<1>4. ASSUME NEW id \in Id
      PROVE  /\ task[id].state \in {"none", "pending", "active", "completed", "archived"}
             /\ task[id].retried \in 0 .. MaxRetry
             /\ task[id].found \subseteq Envelope /\ task[id].to \subseteq Member
  <2>1. task[id] \in Tasks
    BY DEF NotificationsInv
  <2> QED
    BY <2>1 DEF Tasks
<1> QED
  BY <1>1, <1>2, <1>3, <1>4 DEF NotificationsTypeOK

\* Types, and that what a worker reads includes the commit its task was
\* enqueued for: Transition enqueues after its commit.
THEOREM WorkersAreCurrent == Spec => [](NotificationsTypeOK /\ WorkersSeeTheTransition)
<1>1. NotificationsInv => WorkersSeeTheTransition
  BY DEF NotificationsInv, TaskOK, WorkersSeeTheTransition
<1> QED
  BY <1>1, NotificationsTyped, NotificationsInvariance, PTL

\* A message that is neither told nor under way was missed for one of the
\* reasons on record, however requests, workers and crashes interleave.
THEOREM CallsAreKept == Spec => []NothingForgotten
<1>1. NotificationsInv => NothingForgotten
  <2> SUFFICES ASSUME NotificationsInv, NEW id \in Id,
                      task[id].state \in {"none", "completed", "archived"}, ~Unenqueued(id)
               PROVE  owed[id] = 0 \/ id \in missed
    BY DEF NothingForgotten
  <2>1. Accounted(id)
    BY DEF NotificationsInv
  <2> QED
    BY <2>1 DEF Accounted, StillToRead
<1> QED
  BY <1>1, NotificationsInvariance, PTL

\* For an active member the roles ListApprovers names are those the permission
\* matrix lets approve.
LEMMA ApproverRoles ==
    \A m \in Member : Can(Team[m], "ExpenseApprove") <=>
        Active(Team[m]) /\ Team[m].role \in {"owner", "admin", "manager"}
<1>1. \A r \in Roles : Allows(r, "ExpenseApprove") <=> r \in {"owner", "admin", "manager"}
  BY SMTT(40) DEF Allows, matrix, Permissions, Roles
<1>2. \A m \in Member : Team[m].role \in Roles
  BY NotificationsAssumption DEF Actors
<1> QED
  BY <1>1, <1>2 DEF Can

\* The recipients query and the guards of the state machine agree for every
\* team and every claim.
THEOREM RecipientsDecide == Spec => []DecidersAreTold
<1>1. NotificationsInv => DecidersAreTold
  <2> DEFINE id == <<"transition", "submit">>
  <2> SUFFICES ASSUME NotificationsInv, id \in Id, task[id].read # NULL
               PROVE  /\ {m \in Member : MayDecide(m)} \subseteq task[id].to
                      /\ ClaimDept # NULL => task[id].to \subseteq {m \in Member : MayDecide(m)}
    BY DEF DecidersAreTold
  <2>1. task[id].to = ToTell("submit")
    <3>1. TaskOK(id)
      BY DEF NotificationsInv
    <3> QED
      BY <3>1 DEF TaskOK
  <2>2. ToTell("submit") = ListApprovers(ClaimDept) \ {Submitter}
    BY DEF ToTell
  <2>3. ASSUME NEW m \in Member, MayDecide(m)
        PROVE  m \in ListApprovers(ClaimDept) \ {Submitter}
    BY <2>3, ApproverRoles DEF MayDecide, GovernsDepartment, ListApprovers
  <2>4. ASSUME NEW m \in ListApprovers(ClaimDept) \ {Submitter}, ClaimDept # NULL
        PROVE  m \in Member /\ MayDecide(m)
    BY <2>4, ApproverRoles DEF MayDecide, GovernsDepartment, ListApprovers
  <2> QED
    BY <2>1, <2>2, <2>3, <2>4
<1> QED
  BY <1>1, NotificationsInvariance, PTL
=============================================================================
