---------------------------- MODULE BookingProof ----------------------------
(***************************************************************************)
(* Proofs about Booking for any number of bookings, customers, points,     *)
(* windows and concurrent requests: the inductive invariant and what       *)
(* follows from it, the slot a row lock protects, and the refinement of    *)
(* BookingLedger.                                                          *)
(***************************************************************************)
EXTENDS Booking, TLAPS

-----------------------------------------------------------------------------
(* What the operators of QueueTable return, for every table. *)

(* A row is absent exactly when its status is none of the statuses. *)
LEMMA RowShape ==
    ASSUME NEW q \in Row \cup {NoRow}
    PROVE  /\ q # NoRow <=> q \in Row
           /\ q # NoRow <=> q.status \in Status
           /\ q = NoRow <=> q.status = "none"
  BY DEF Row, NoRow, Status

(* What a client asks for, field by field. *)
LEMMA AskShape ==
    ASSUME NEW a \in Asks
    PROVE  /\ a.source \in {"app", "manual"} /\ a.overflow \in BOOLEAN
           /\ a.user \in Users /\ a.point \in Points /\ a.box \in Nat
           /\ a.start \in Nat /\ a.minutes \in Nat /\ End(a) \in Nat
           /\ NewRow(a) \in Row
  BY AskAssumption DEF AskType, End, NewRow, Row, Status

(* A change of status keeps a row a row and touches two columns. *)
LEMMA WithStatusShape ==
    ASSUME NEW q \in Row, NEW to \in Status
    PROVE  /\ WithStatus(q, to) \in Row
           /\ WithStatus(q, to).status = to
           /\ WithStatus(q, to).user = q.user
           /\ WithStatus(q, to).point = q.point
           /\ WithStatus(q, to).box = q.box
           /\ WithStatus(q, to).start = q.start
           /\ WithStatus(q, to).end = q.end
           /\ WithStatus(q, to).overflow = q.overflow
  BY DEF WithStatus, Row, Status

(* A cancel sets canceled_at, a restore clears it, the rest leave it. *)
LEMMA WithStatusCanceledAt ==
    ASSUME NEW q \in Row, NEW to \in Status
    PROVE  /\ to = "canceled" => WithStatus(q, to).canceled_at
           /\ to = "queue" => ~WithStatus(q, to).canceled_at
           /\ to \notin {"canceled", "queue"} => (WithStatus(q, to).canceled_at <=> q.canceled_at)
  BY DEF WithStatus, Row, Status

(* Staff transitions lead from a status to a status. *)
LEMMA TransitionShape ==
    ASSUME NEW s, NEW to \in staffStatusTransitions(s)
    PROVE  s \in Status /\ to \in Status
  BY DEF staffStatusTransitions, Status

(* A pause mark keeps a row a row and touches one column. *)
LEMMA PausedShape ==
    ASSUME NEW q \in Row, NEW b \in BOOLEAN
    PROVE  LET n == [q EXCEPT !.paused_at = b] IN
           /\ n \in Row /\ n.status = q.status /\ n.user = q.user /\ n.point = q.point
           /\ n.box = q.box /\ n.start = q.start /\ n.end = q.end
           /\ n.overflow = q.overflow /\ n.canceled_at = q.canceled_at
  BY DEF Row

-----------------------------------------------------------------------------
(* The inductive invariant *)

Booker == {"lock", "verify", "client", "insert"}

(***************************************************************************)
(* What a request carries fits where it stands: a booker's row does not    *)
(* exist yet and lies in its window, a writer's row does, and a transition *)
(* was legal for the status that was read.                                 *)
(***************************************************************************)
JobOK(r) ==
    /\ pc[r] = "idle" <=> job[r] = Idle
    /\ pc[r] \in Booker => /\ job[r].kind = "book"
                           /\ queue[job[r].id] = NoRow
                           /\ job[r].open <= job[r].ask.start
                           /\ End(job[r].ask) <= job[r].close
    /\ pc[r] \in {"write", "publish"} => /\ job[r] # Idle
                                         /\ queue[job[r].id] # NoRow
    /\ pc[r] = "write" => job[r].kind # "book"
    /\ job[r].kind = "status" => job[r].to \in staffStatusTransitions(job[r].from)
    /\ job[r].kind = "cancel" => job[r].from \in {"queue", "waiting"} /\ job[r].to = "canceled"

JobsOK == \A r \in Reqs : JobOK(r)

(* The row lock of a point is held by the request working under it. *)
LockOK ==
    \A r \in Reqs, p \in Points :
        lock[p] = r <=> pc[r] \in Locked /\ job[r].ask.point = p

(* Bookers have chosen different primary keys. *)
IdsOK ==
    \A r, s \in Reqs :
        r # s /\ job[r].kind = "book" /\ job[s].kind = "book" => job[r].id # job[s].id

(* What a finished status change will push is already true for good. *)
PushOK ==
    \A r \in Reqs :
        pc[r] = "publish" /\ job[r].kind = "status" =>
            /\ job[r].to = "washing" => queue[job[r].id].status \in {"washing", "ready"}
            /\ job[r].to = "ready" => queue[job[r].id].status = "ready"

IInv ==
    /\ TypeOK /\ JobsOK /\ LockOK /\ IdsOK /\ PushOK
    /\ NoDoubleBooking /\ OneActivePerUser /\ CanceledAtIffCanceled
    /\ EveryChangeAnnounced /\ PushesStayTrue

-----------------------------------------------------------------------------
(* Shapes of jobs *)

(* A request that is booking carries an ask and a window. *)
LEMMA BookShape ==
    ASSUME NEW j \in Job \cup {Idle}, j.kind = "book"
    PROVE  j \in [kind : {"book"}, id : Ids, ask : Asks, open : Nat, close : Nat]
  BY DEF Job, Idle

(* A request that is cancelling or moving carries both statuses. *)
LEMMA ChangeShape ==
    ASSUME NEW j \in Job \cup {Idle}, j.kind \in {"cancel", "status"}
    PROVE  j \in [kind : {"cancel", "status"}, id : Ids, from : Status, to : Status]
  BY DEF Job, Idle

(* A request that is pausing carries the mark it will write. *)
LEMMA PauseShape ==
    ASSUME NEW j \in Job \cup {Idle}, j.kind = "pause"
    PROVE  j \in [kind : {"pause"}, id : Ids, paused : BOOLEAN]
  BY DEF Job, Idle

(* Every job is of one of these kinds, and names a booking. *)
LEMMA JobKinds ==
    ASSUME NEW j \in Job \cup {Idle}
    PROVE  /\ j = Idle <=> j.kind = "none"
           /\ j # Idle => j.id \in Ids /\ j.kind \in {"book", "cancel", "status", "pause"}
  BY DEF Job, Idle

-----------------------------------------------------------------------------
(* Each step keeps the types *)

(* Each step keeps the type invariant. *)
LEMMA TypeStep ==
    ASSUME TypeOK, NEW r \in Reqs, JobOK(r), Arrive(r) \/ LockPoint(r) \/ Step(r) \/ Fail(r)
    PROVE  TypeOK'
<1> USE DEF TypeOK
<1>j. job[r] \in Job \cup {Idle}
  OBVIOUS
<1>f. ASSUME Finish(r) PROVE pc' \in [Reqs -> {"idle", "lock", "verify", "client", "insert", "write", "publish"}]
                             /\ job' \in [Reqs -> Job \cup {Idle}]
  BY <1>f DEF Finish
<1>u. ASSUME Unlock(r) PROVE lock' \in [Points -> Reqs \cup {Nobody}]
  BY <1>u DEF Unlock
<1>1. ASSUME NEW id \in Ids, NEW a \in Asks, NEW w \in Windows, CreateBooking(r, id, a, w)
      PROVE  TypeOK'
  <2>1. w[1] \in Nat /\ w[2] \in Nat
    BY WindowAssumption
  <2>2. [kind |-> "book", id |-> id, ask |-> a, open |-> w[1], close |-> w[2]] \in Job
    BY <2>1 DEF Job
  <2>. QED
    BY <1>1, <2>2 DEF CreateBooking
<1>2. ASSUME NEW id \in Ids, CancelBooking(r, id) PROVE TypeOK'
  <2>1. [kind |-> "cancel", id |-> id, from |-> queue[id].status, to |-> "canceled"] \in Job
    BY <1>2 DEF CancelBooking, Job, Status
  <2>. QED
    BY <1>2, <2>1 DEF CancelBooking
<1>3. ASSUME NEW id \in Ids, NEW to \in Status, UpdateStatus(r, id, to) PROVE TypeOK'
  <2>1. queue[id].status \in Status
    BY <1>3, TransitionShape DEF UpdateStatus
  <2>2. [kind |-> "status", id |-> id, from |-> queue[id].status, to |-> to] \in Job
    BY <2>1 DEF Job
  <2>. QED
    BY <1>3, <2>2 DEF UpdateStatus
<1>4. ASSUME NEW id \in Ids, NEW paused \in BOOLEAN, TogglePause(r, id, paused) PROVE TypeOK'
  <2>1. [kind |-> "pause", id |-> id, paused |-> paused] \in Job
    BY DEF Job
  <2>. QED
    BY <1>4, <2>1 DEF TogglePause
<1>5. CASE LockPoint(r)
  BY <1>5 DEF LockPoint
<1>6. CASE VerifyBox(r)
  BY <1>6, <1>f, <1>u DEF VerifyBox
<1>7. CASE CheckClient(r)
  BY <1>7, <1>f, <1>u DEF CheckClient
<1>8. CASE Insert(r)
  <2>1. job[r].ask \in Asks /\ job[r].id \in Ids
    BY <1>8, <1>j, BookShape DEF Insert, JobOK, Booker
  <2>2. NewRow(job[r].ask) \in Row /\ job[r].ask.point \in Points
    BY <2>1, AskShape
  <2>. QED
    BY <1>8, <1>u, <2>1, <2>2 DEF Insert
<1>9. CASE InsertRefused(r)
  BY <1>9, <1>f, <1>u DEF InsertRefused
<1>10. CASE WriteStatus(r)
  <2>1. job[r].id \in Ids /\ job[r].to \in Status
    BY <1>10, <1>j, ChangeShape DEF WriteStatus
  <2>2. queue[job[r].id] \in Row
    BY <1>10, <2>1, RowShape DEF WriteStatus, JobOK
  <2>3. WithStatus(queue[job[r].id], job[r].to) \in Row /\ queue[job[r].id].point \in Points
    BY <2>1, <2>2, WithStatusShape DEF Row
  <2>. QED
    BY <1>10, <2>1, <2>3 DEF WriteStatus
<1>11. CASE WritePausedAt(r)
  <2>1. job[r].id \in Ids /\ job[r].paused \in BOOLEAN
    BY <1>11, <1>j, PauseShape DEF WritePausedAt
  <2>2. queue[job[r].id] \in Row
    BY <1>11, <2>1, RowShape DEF WritePausedAt, JobOK
  <2>3. [queue[job[r].id] EXCEPT !.paused_at = job[r].paused] \in Row
        /\ queue[job[r].id].point \in Points
    BY <2>1, <2>2 DEF Row
  <2>. QED
    BY <1>11, <2>1, <2>3 DEF WritePausedAt
<1>12. CASE WriteRefused(r)
  BY <1>12, <1>f DEF WriteRefused
<1>13. CASE Publish(r)
  <2>1. job[r].kind = "status" => job[r].id \in Ids
    BY <1>j, ChangeShape
  <2>2. kindForStatus(job[r].to) \subseteq {"started", "finished"}
    BY DEF kindForStatus
  <2>3. stages' \in SUBSET (Ids \X {"started", "finished"})
    BY <1>13, <2>1, <2>2 DEF Publish
  <2>. QED
    BY <1>13, <1>f, <2>3 DEF Publish
<1>14. CASE Fail(r)
  BY <1>14, <1>f, <1>u DEF Fail
<1>. QED
  BY <1>1, <1>2, <1>3, <1>4, <1>5, <1>6, <1>7, <1>8, <1>9, <1>10, <1>11, <1>12, <1>13, <1>14
  DEF Arrive, Step

-----------------------------------------------------------------------------
(* What a step leaves alone *)

Act(r) == Arrive(r) \/ LockPoint(r) \/ Step(r) \/ Fail(r)

(* The actions that leave the table as it is. *)
Quiet(r) ==
    \/ Arrive(r) \/ LockPoint(r) \/ VerifyBox(r) \/ CheckClient(r) \/ InsertRefused(r)
    \/ WriteRefused(r) \/ Publish(r) \/ Fail(r)

(* A step of one request does not touch what the others hold in memory. *)
LEMMA OthersUntouched ==
    ASSUME TypeOK, NEW r \in Reqs, Act(r), NEW s \in Reqs, s # r
    PROVE  pc'[s] = pc[s] /\ job'[s] = job[s]
  BY DEF Act, TypeOK, Arrive, Step, CreateBooking, CancelBooking, UpdateStatus, TogglePause,
         LockPoint, VerifyBox, CheckClient, Insert, InsertRefused, WriteStatus, WritePausedAt,
         WriteRefused, Publish, Fail, Finish

(* Only three actions write the table. *)
LEMMA QuietSteps ==
    ASSUME NEW r \in Reqs
    PROVE  /\ Act(r) => Quiet(r) \/ Insert(r) \/ WriteStatus(r) \/ WritePausedAt(r)
           /\ Quiet(r) => Act(r) /\ UNCHANGED queue
  BY DEF Act, Quiet, Arrive, Step, CreateBooking, CancelBooking, UpdateStatus, TogglePause,
         LockPoint, VerifyBox, CheckClient, InsertRefused, WriteRefused, Publish, Fail

(* Insert adds the booking to a key that had no row. *)
LEMMA InsertEffect ==
    ASSUME TypeOK, JobsOK, NEW r \in Reqs, Insert(r)
    PROVE  /\ job[r].id \in Ids /\ job[r].ask \in Asks /\ job[r].kind = "book"
           /\ queue[job[r].id] = NoRow
           /\ queue'[job[r].id] = NewRow(job[r].ask)
           /\ \A i \in Ids : i # job[r].id => queue'[i] = queue[i]
<1>1. job[r].kind = "book" /\ queue[job[r].id] = NoRow
  BY DEF Insert, JobsOK, JobOK, Booker
<1>2. job[r].id \in Ids /\ job[r].ask \in Asks
  BY <1>1, BookShape DEF TypeOK
<1>. QED
  BY <1>1, <1>2 DEF Insert, TypeOK

(* WriteStatus moves an existing booking along a transition it checked. *)
LEMMA WriteStatusEffect ==
    ASSUME TypeOK, JobsOK, NEW r \in Reqs, WriteStatus(r)
    PROVE  /\ job[r].id \in Ids /\ queue[job[r].id] \in Row /\ queue[job[r].id].status = job[r].from
           /\ job[r].from \in Status /\ job[r].to \in Status
           /\ queue'[job[r].id] = WithStatus(queue[job[r].id], job[r].to)
           /\ \A o \in Ids : o # job[r].id => queue'[o] = queue[o]
           /\ \/ job[r].to \in staffStatusTransitions(job[r].from)
              \/ job[r].from \in {"queue", "waiting"} /\ job[r].to = "canceled"
<1>1. job[r].kind \in {"cancel", "status"} /\ queue[job[r].id].status = job[r].from
  BY DEF WriteStatus
<1>2. job[r].id \in Ids /\ job[r].from \in Status /\ job[r].to \in Status
  BY <1>1, ChangeShape DEF TypeOK
<1>3. queue[job[r].id] \in Row
  BY <1>1, <1>2, RowShape DEF TypeOK
<1>4. \/ job[r].to \in staffStatusTransitions(job[r].from)
      \/ job[r].from \in {"queue", "waiting"} /\ job[r].to = "canceled"
  BY <1>1 DEF JobsOK, JobOK
<1>. QED
  BY <1>1, <1>2, <1>3, <1>4 DEF WriteStatus, TypeOK

(* WritePausedAt marks a booking that is being washed. *)
LEMMA WritePausedAtEffect ==
    ASSUME TypeOK, JobsOK, NEW r \in Reqs, WritePausedAt(r)
    PROVE  /\ job[r].id \in Ids /\ queue[job[r].id] \in Row /\ queue[job[r].id].status = "washing"
           /\ job[r].paused \in BOOLEAN
           /\ queue'[job[r].id] = [queue[job[r].id] EXCEPT !.paused_at = job[r].paused]
           /\ \A o \in Ids : o # job[r].id => queue'[o] = queue[o]
<1>1. job[r].kind = "pause" /\ queue[job[r].id].status = "washing"
  BY DEF WritePausedAt
<1>2. job[r].id \in Ids /\ job[r].paused \in BOOLEAN
  BY <1>1, PauseShape DEF TypeOK
<1>3. queue[job[r].id] \in Row
  BY <1>1, <1>2, RowShape DEF TypeOK, Status
<1>. QED
  BY <1>1, <1>2, <1>3 DEF WritePausedAt, TypeOK

(* Bookings are never deleted, and only Insert adds one. *)
LEMMA RowsStay ==
    ASSUME TypeOK, JobsOK, NEW r \in Reqs, Act(r), NEW i \in Ids
    PROVE  /\ queue[i] # NoRow => queue'[i] # NoRow
           /\ queue[i] # NoRow => queue'[i].point = queue[i].point
           /\ queue[i] = NoRow => queue'[i] = NoRow \/ (Insert(r) /\ i = job[r].id)
<1>1. CASE Quiet(r)
  BY <1>1, QuietSteps
<1>2. CASE Insert(r)
  BY <1>2, InsertEffect, AskShape, RowShape DEF TypeOK
<1>3. CASE WriteStatus(r)
  <2>1. /\ job[r].id \in Ids /\ queue[job[r].id] \in Row /\ job[r].to \in Status
        /\ queue'[job[r].id] = WithStatus(queue[job[r].id], job[r].to)
        /\ \A o \in Ids : o # job[r].id => queue'[o] = queue[o]
    BY <1>3, WriteStatusEffect
  <2>2. queue'[job[r].id] \in Row /\ queue'[job[r].id].point = queue[job[r].id].point
    BY <2>1, WithStatusShape
  <2>. QED
    BY <2>1, <2>2, RowShape
<1>4. CASE WritePausedAt(r)
  <2>1. /\ job[r].id \in Ids /\ queue[job[r].id] \in Row /\ job[r].paused \in BOOLEAN
        /\ queue'[job[r].id] = [queue[job[r].id] EXCEPT !.paused_at = job[r].paused]
        /\ \A o \in Ids : o # job[r].id => queue'[o] = queue[o]
    BY <1>4, WritePausedAtEffect
  <2>2. queue'[job[r].id] \in Row /\ queue'[job[r].id].point = queue[job[r].id].point
    BY <2>1, PausedShape
  <2>. QED
    BY <2>1, <2>2, RowShape
<1>. QED
  BY <1>1, <1>2, <1>3, <1>4, QuietSteps

-----------------------------------------------------------------------------
(* Each step keeps the bookkeeping of requests *)

(* Each step keeps requests at the place their kind of job allows. *)
LEMMA JobsStep ==
    ASSUME IInv, NEW r \in Reqs, Act(r)
    PROVE  JobsOK'
<1>i. TypeOK /\ JobsOK /\ IdsOK
  BY DEF IInv
<1> SUFFICES ASSUME NEW s \in Reqs PROVE JobOK(s)'
  BY DEF JobsOK
<1>j. JobOK(s) /\ job[s] \in Job \cup {Idle}
  BY <1>i DEF JobsOK, TypeOK
<1>1. CASE s # r
  <2>1. pc'[s] = pc[s] /\ job'[s] = job[s]
    BY <1>1, <1>i, OthersUntouched
  <2>2. job[s] # Idle /\ queue[job[s].id] # NoRow => queue'[job[s].id] # NoRow
    BY <1>i, <1>j, JobKinds, RowsStay
  <2>3. ASSUME pc[s] \in Booker PROVE queue'[job[s].id] = NoRow
    <3>1. job[s].kind = "book" /\ job[s].id \in Ids /\ queue[job[s].id] = NoRow
      BY <1>j, <2>3, BookShape DEF JobOK
    <3>2. Insert(r) => job[r].kind = "book"
      BY <1>i, InsertEffect
    <3>3. Insert(r) => job[r].id # job[s].id
      BY <1>1, <1>i, <3>1, <3>2 DEF IdsOK
    <3>. QED
      BY <1>i, <3>1, <3>3, RowsStay
  <2>. QED
    BY <1>j, <2>1, <2>2, <2>3 DEF JobOK, Booker
<1>2. CASE s = r
  <2>f. Finish(r) => JobOK(r)'
    BY <1>i DEF Finish, JobOK, TypeOK, Booker, Idle
  <2>1. ASSUME NEW id \in Ids, NEW a \in Asks, NEW w \in Windows, CreateBooking(r, id, a, w)
        PROVE  JobOK(r)'
    BY <1>i, <2>1 DEF CreateBooking, FreshId, planBooking, JobOK, TypeOK, Booker, Idle
  <2>2. ASSUME NEW id \in Ids, CancelBooking(r, id) PROVE JobOK(r)'
    BY <1>i, <2>2 DEF CancelBooking, JobOK, TypeOK, Booker, Idle, NoRow
  <2>3. ASSUME NEW id \in Ids, NEW to \in Status, UpdateStatus(r, id, to) PROVE JobOK(r)'
    <3>1. queue[id] # NoRow
      BY <2>3, TransitionShape DEF UpdateStatus, NoRow, Status
    <3>. QED
      BY <1>i, <2>3, <3>1 DEF UpdateStatus, JobOK, TypeOK, Booker, Idle
  <2>4. ASSUME NEW id \in Ids, NEW paused \in BOOLEAN, TogglePause(r, id, paused)
        PROVE  JobOK(r)'
    BY <1>i, <2>4 DEF TogglePause, JobOK, TypeOK, Booker, Idle, NoRow
  <2>5. CASE LockPoint(r)
    BY <1>i, <1>j, <1>2, <2>5 DEF LockPoint, JobOK, TypeOK, Booker
  <2>6. CASE VerifyBox(r)
    BY <1>i, <1>j, <1>2, <2>6, <2>f DEF VerifyBox, JobOK, TypeOK, Booker
  <2>7. CASE CheckClient(r)
    BY <1>i, <1>j, <1>2, <2>7, <2>f DEF CheckClient, JobOK, TypeOK, Booker
  <2>8. CASE Insert(r)
    <3>1. job[r].kind = "book" /\ queue'[job[r].id] # NoRow
      BY <1>i, <2>8, InsertEffect, AskShape, RowShape
    <3>2. pc'[r] = "publish" /\ job'[r] = job[r]
      BY <1>i, <2>8 DEF Insert, TypeOK
    <3>. QED
      BY <1>j, <1>2, <3>1, <3>2 DEF JobOK, Booker, Idle
  <2>9. CASE WriteStatus(r)
    <3>1. queue'[job[r].id] # NoRow
      BY <1>i, <2>9, WriteStatusEffect, WithStatusShape, RowShape
    <3>2. pc[r] = "write" /\ pc'[r] = "publish" /\ job'[r] = job[r]
      BY <1>i, <2>9 DEF WriteStatus, TypeOK
    <3>. QED
      BY <1>j, <1>2, <3>1, <3>2 DEF JobOK, Booker
  <2>10. CASE WritePausedAt(r)
    <3>1. queue'[job[r].id] # NoRow
      BY ZenonT(30), <1>i, <2>10, WritePausedAtEffect, PausedShape, RowShape
    <3>2. pc[r] = "write" /\ pc'[r] = "publish" /\ job'[r] = job[r]
      BY <1>i, <2>10 DEF WritePausedAt, TypeOK
    <3>. QED
      BY <1>j, <1>2, <3>1, <3>2 DEF JobOK, Booker
  <2>11. CASE InsertRefused(r) \/ WriteRefused(r) \/ Publish(r) \/ Fail(r)
    BY <1>2, <2>11, <2>f DEF InsertRefused, WriteRefused, Publish, Fail
  <2>. QED
    BY <1>2, <2>1, <2>2, <2>3, <2>4, <2>5, <2>6, <2>7, <2>8, <2>9, <2>10, <2>11
    DEF Act, Arrive, Step
<1>. QED
  BY <1>1, <1>2

(* Each step keeps the keys of bookings under way fresh and distinct. *)
LEMMA IdsStep ==
    ASSUME IInv, NEW r \in Reqs, Act(r)
    PROVE  IdsOK'
<1>i. TypeOK /\ JobsOK /\ IdsOK
  BY DEF IInv
<1>1. ASSUME NEW id \in Ids, NEW a \in Asks, NEW w \in Windows, CreateBooking(r, id, a, w)
      PROVE  IdsOK'
  BY <1>i, <1>1 DEF CreateBooking, FreshId, IdsOK, TypeOK
<1>2. ASSUME \/ job'[r] = job[r]
             \/ job'[r].kind # "book"
      PROVE  IdsOK'
  <2>1. \A s \in Reqs : s # r => job'[s] = job[s]
    BY <1>i, OthersUntouched
  <2>. QED
    BY <1>i, <1>2, <2>1 DEF IdsOK
<1>3. \/ \E id \in Ids, a \in Asks, w \in Windows : CreateBooking(r, id, a, w)
      \/ job'[r] = job[r] \/ job'[r].kind # "book"
  BY <1>i DEF Act, TypeOK, Arrive, Step, CancelBooking, UpdateStatus, TogglePause,
         LockPoint, VerifyBox, CheckClient, Insert, InsertRefused, WriteStatus, WritePausedAt,
         WriteRefused, Publish, Fail, Finish, Idle
<1>. QED
  BY <1>1, <1>2, <1>3

(* Each step keeps the lock with the one request that is under it. *)
LEMMA LockStep ==
    ASSUME IInv, NEW r \in Reqs, Act(r)
    PROVE  LockOK'
<1>i. TypeOK /\ JobsOK /\ LockOK
  BY DEF IInv
<1>o. \A s \in Reqs : s # r => pc'[s] = pc[s] /\ job'[s] = job[s]
  BY <1>i, OthersUntouched
<1>1. ASSUME Finish(r), Unlock(r) PROVE LockOK'
  BY <1>i, <1>o, <1>1, NobodyAssumption DEF Finish, Unlock, LockOK, TypeOK, Locked
<1>2. CASE LockPoint(r)
  <2>1. job[r].ask.point \in Points
    BY <1>i, <1>2, BookShape, AskShape DEF LockPoint, JobsOK, JobOK, Booker, TypeOK
  <2>. QED
    BY <1>i, <1>o, <1>2, <2>1, NobodyAssumption DEF LockPoint, LockOK, TypeOK, Locked
<1>3. CASE VerifyBox(r) \/ CheckClient(r)
  <2>1. CASE Finish(r) /\ Unlock(r)
    BY <2>1, <1>1
  <2>2. CASE pc[r] \in Locked /\ pc'[r] \in Locked /\ UNCHANGED <<lock, job>>
    BY <1>i, <1>o, <2>2 DEF LockOK, TypeOK
  <2>. QED
    BY <1>i, <1>3, <2>1, <2>2 DEF VerifyBox, CheckClient, TypeOK, Locked
<1>4. CASE Insert(r)
  BY <1>i, <1>o, <1>4, NobodyAssumption DEF Insert, Unlock, LockOK, TypeOK, Locked
<1>5. CASE Arrive(r) \/ WriteStatus(r) \/ WritePausedAt(r) \/ WriteRefused(r) \/ Publish(r)
  <2>1. pc[r] \notin Locked /\ pc'[r] \notin Locked /\ UNCHANGED lock
    BY <1>i, <1>5 DEF TypeOK, Locked, Finish, Arrive, CreateBooking, CancelBooking, UpdateStatus,
           TogglePause, WriteStatus, WritePausedAt, WriteRefused, Publish
  <2>. QED
    BY <1>i, <1>o, <2>1 DEF LockOK, TypeOK
<1>6. CASE InsertRefused(r) \/ Fail(r)
  BY <1>1, <1>6 DEF InsertRefused, Fail
<1>. QED
  BY <1>2, <1>3, <1>4, <1>5, <1>6 DEF Act, Step

-----------------------------------------------------------------------------
(* Each step keeps the promises about the table *)

(* A pause mark changes no column the promises are about. *)
LEMMA PauseKeeps ==
    ASSUME TypeOK, JobsOK, NEW r \in Reqs, WritePausedAt(r), NEW i \in Ids
    PROVE  /\ queue'[i].status = queue[i].status /\ queue'[i].user = queue[i].user
           /\ queue'[i].point = queue[i].point /\ queue'[i].box = queue[i].box
           /\ queue'[i].start = queue[i].start /\ queue'[i].end = queue[i].end
           /\ queue'[i].overflow = queue[i].overflow
           /\ queue'[i].canceled_at = queue[i].canceled_at
<1>1. CASE i # job[r].id
  BY <1>1, WritePausedAtEffect
<1>2. CASE i = job[r].id
  <2>1. /\ queue[i] \in Row /\ job[r].paused \in BOOLEAN
        /\ queue'[i] = [queue[i] EXCEPT !.paused_at = job[r].paused]
    BY <1>2, WritePausedAtEffect
  <2>. QED
    BY <2>1, PausedShape
<1>. QED
  BY <1>1, <1>2

(* Writing one row keeps boxes free of overlaps if EXCLUDE lets it pass. *)
LEMMA PutKeepsBoxes ==
    ASSUME NoDoubleBooking, NEW n \in Ids,
           \A i \in Ids : i # n => queue'[i] = queue[i],
           HoldsBox(n)' => ~BoxTaken(Ids \ {n}, queue'[n].point, queue'[n].box,
                                     queue'[n].start, queue'[n].end)
    PROVE  NoDoubleBooking'
<1> SUFFICES ASSUME NEW i \in Ids, NEW j \in Ids, i # j, HoldsBox(i)', HoldsBox(j)',
                    queue'[i].point = queue'[j].point, queue'[i].box = queue'[j].box
             PROVE  ~Overlap(queue'[i].start, queue'[i].end, queue'[j].start, queue'[j].end)
  BY DEF NoDoubleBooking
<1>1. CASE i # n /\ j # n
  BY <1>1 DEF NoDoubleBooking, HoldsBox
<1>2. CASE i = n
  BY <1>2 DEF BoxTaken, HoldsBox, Overlap
<1>3. CASE j = n
  BY <1>3 DEF BoxTaken, HoldsBox, Overlap
<1>. QED
  BY <1>1, <1>2, <1>3

(* Each step keeps the bookings of a box apart. *)
LEMMA BoxesStep ==
    ASSUME IInv, NEW r \in Reqs, Act(r)
    PROVE  NoDoubleBooking'
<1>i. TypeOK /\ JobsOK /\ NoDoubleBooking
  BY DEF IInv
<1>1. CASE Quiet(r)
  BY <1>1, <1>i, QuietSteps DEF NoDoubleBooking, HoldsBox
<1>2. CASE Insert(r)
  <2>1. /\ job[r].id \in Ids /\ queue'[job[r].id] = NewRow(job[r].ask)
        /\ \A i \in Ids : i # job[r].id => queue'[i] = queue[i]
    BY <1>i, <1>2, InsertEffect
  <2>2. job[r].ask.overflow
        \/ ~BoxTaken(Ids, job[r].ask.point, job[r].ask.box, job[r].ask.start, End(job[r].ask))
    BY <1>2 DEF Insert, CreateRefused
  <2>n. PICK n \in Ids : n = job[r].id
    BY <2>1
  <2>3. HoldsBox(n)' =>
          ~BoxTaken(Ids \ {n}, queue'[n].point, queue'[n].box, queue'[n].start, queue'[n].end)
    BY <2>n, <2>1, <2>2 DEF HoldsBox, BoxTaken, NewRow
  <2>. QED
    BY <1>i, <2>n, <2>1, <2>3, PutKeepsBoxes
<1>3. CASE WriteStatus(r)
  <2>n. PICK n \in Ids : n = job[r].id
    BY <1>i, <1>3, WriteStatusEffect
  <2>1. /\ queue[n] \in Row /\ job[r].to \in Status
        /\ queue'[n] = WithStatus(queue[n], job[r].to)
        /\ \A i \in Ids : i # n => queue'[i] = queue[i]
    BY <1>i, <1>3, <2>n, WriteStatusEffect
  <2>2. /\ queue'[n].status = job[r].to /\ queue'[n].point = queue[n].point
        /\ queue'[n].box = queue[n].box /\ queue'[n].start = queue[n].start
        /\ queue'[n].end = queue[n].end /\ queue'[n].overflow = queue[n].overflow
    BY <2>1, WithStatusShape
  <2>3. job[r].to \in OccupyingStatus /\ ~queue[n].overflow =>
          ~BoxTaken(Ids \ {n}, queue[n].point, queue[n].box, queue[n].start, queue[n].end)
    BY <1>3, <2>n DEF WriteStatus, UpdateRefused
  <2>4. HoldsBox(n)' =>
          ~BoxTaken(Ids \ {n}, queue'[n].point, queue'[n].box, queue'[n].start, queue'[n].end)
    BY <2>2, <2>3 DEF HoldsBox
  <2>. QED
    BY <1>i, <2>1, <2>4, PutKeepsBoxes
<1>4. CASE WritePausedAt(r)
  <2>2. \A i \in Ids : /\ queue'[i].status = queue[i].status /\ queue'[i].point = queue[i].point
                       /\ queue'[i].box = queue[i].box /\ queue'[i].start = queue[i].start
                       /\ queue'[i].end = queue[i].end /\ queue'[i].overflow = queue[i].overflow
    BY <1>i, <1>4, PauseKeeps
  <2>. QED
    BY <1>i, <2>2 DEF NoDoubleBooking, HoldsBox
<1>. QED
  BY <1>1, <1>2, <1>3, <1>4, QuietSteps

(* Each step keeps customers to one active booking. *)
LEMMA UsersStep ==
    ASSUME IInv, NEW r \in Reqs, Act(r)
    PROVE  OneActivePerUser'
<1>i. TypeOK /\ JobsOK /\ OneActivePerUser
  BY DEF IInv
<1>1. CASE Quiet(r)
  BY <1>1, <1>i, QuietSteps DEF OneActivePerUser
<1>2. CASE Insert(r)
  <2>1. /\ job[r].id \in Ids /\ queue'[job[r].id] = NewRow(job[r].ask)
        /\ \A i \in Ids : i # job[r].id => queue'[i] = queue[i]
    BY <1>i, <1>2, InsertEffect
  <2>2. ~UserTaken(Ids, job[r].ask.user) /\ NewRow(job[r].ask).user = job[r].ask.user
    BY <1>2 DEF Insert, CreateRefused, NewRow
  <2>. QED
    BY <1>i, <2>1, <2>2 DEF OneActivePerUser, UserTaken
<1>3. CASE WriteStatus(r)
  <2> DEFINE n == job[r].id
  <2>1. /\ n \in Ids /\ queue[n] \in Row /\ job[r].to \in Status
        /\ queue'[n] = WithStatus(queue[n], job[r].to)
        /\ \A i \in Ids : i # n => queue'[i] = queue[i]
    BY <1>i, <1>3, WriteStatusEffect
  <2>2. queue'[n].status = job[r].to /\ queue'[n].user = queue[n].user
    BY <2>1, WithStatusShape
  <2>3. job[r].to \in ActiveStatus => ~UserTaken(Ids \ {n}, queue[n].user)
    BY <1>3 DEF WriteStatus, UpdateRefused
  <2>. QED
    BY <1>i, <2>1, <2>2, <2>3 DEF OneActivePerUser, UserTaken
<1>4. CASE WritePausedAt(r)
  <2>2. \A i \in Ids : queue'[i].status = queue[i].status /\ queue'[i].user = queue[i].user
    BY <1>i, <1>4, PauseKeeps
  <2>. QED
    BY <1>i, <2>2 DEF OneActivePerUser
<1>. QED
  BY <1>1, <1>2, <1>3, <1>4, QuietSteps

(* Each step keeps canceled_at in agreement with the status. *)
LEMMA CanceledAtStep ==
    ASSUME IInv, NEW r \in Reqs, Act(r)
    PROVE  CanceledAtIffCanceled'
<1>i. TypeOK /\ JobsOK /\ CanceledAtIffCanceled
  BY DEF IInv
<1>1. CASE Quiet(r)
  BY <1>1, <1>i, QuietSteps DEF CanceledAtIffCanceled
<1>2. CASE Insert(r)
  <2>1. /\ job[r].id \in Ids /\ queue'[job[r].id] = NewRow(job[r].ask)
        /\ \A i \in Ids : i # job[r].id => queue'[i] = queue[i]
    BY <1>i, <1>2, InsertEffect
  <2>2. ~NewRow(job[r].ask).canceled_at /\ NewRow(job[r].ask).status = "queue"
    BY DEF NewRow
  <2>. QED
    BY <1>i, <2>1, <2>2 DEF CanceledAtIffCanceled
<1>3. CASE WriteStatus(r)
  <2> DEFINE n == job[r].id
             t == job[r].to
  <2>1. /\ n \in Ids /\ queue[n] \in Row /\ t \in Status /\ queue[n].status = job[r].from
        /\ queue'[n] = WithStatus(queue[n], t)
        /\ \A i \in Ids : i # n => queue'[i] = queue[i]
        /\ t \in staffStatusTransitions(job[r].from) \/ t = "canceled"
    BY <1>i, <1>3, WriteStatusEffect
  <2>2. queue[n] # NoRow
    BY <2>1, RowShape
  <2>3. t \notin {"canceled", "queue"} => queue[n].status # "canceled"
    BY <2>1 DEF staffStatusTransitions
  <2>4. queue'[n].canceled_at <=> queue'[n].status = "canceled"
    BY <1>i, <2>1, <2>2, <2>3, WithStatusShape, WithStatusCanceledAt DEF CanceledAtIffCanceled
  <2>. QED
    BY <1>i, <2>1, <2>4 DEF CanceledAtIffCanceled
<1>4. CASE WritePausedAt(r)
  <2>1. \A i \in Ids : queue'[i].status = queue[i].status /\ queue'[i].canceled_at = queue[i].canceled_at
    BY <1>i, <1>4, PauseKeeps
  <2>2. \A i \in Ids : queue'[i] # NoRow => queue[i] # NoRow
    BY <1>i, <1>4, WritePausedAtEffect, RowShape
  <2>. QED
    BY <1>i, <2>1, <2>2 DEF CanceledAtIffCanceled
<1>. QED
  BY <1>1, <1>2, <1>3, <1>4, QuietSteps

-----------------------------------------------------------------------------
(* Each step keeps the promises about announcements and pushes *)

(* Each step keeps every committed change with someone who announces it. *)
LEMMA AnnounceStep ==
    ASSUME IInv, NEW r \in Reqs, Act(r)
    PROVE  EveryChangeAnnounced'
<1>i. TypeOK /\ JobsOK /\ EveryChangeAnnounced
  BY DEF IInv
<1> SUFFICES ASSUME NEW p \in unseen'
             PROVE  \E s \in Reqs : pc'[s] = "publish" /\ queue'[job'[s].id].point = p
  BY DEF EveryChangeAnnounced
<1>1. ASSUME NEW s \in Reqs, s # r, pc[s] = "publish", queue[job[s].id].point = p
      PROVE  pc'[s] = "publish" /\ queue'[job'[s].id].point = p
  <2>1. pc'[s] = pc[s] /\ job'[s] = job[s]
    BY <1>i, <1>1, OthersUntouched
  <2>2. job[s].id \in Ids /\ queue[job[s].id] # NoRow
    BY <1>i, <1>1, JobKinds DEF JobsOK, JobOK, TypeOK
  <2>. QED
    BY <1>i, <1>1, <2>1, <2>2, RowsStay
<1>2. CASE pc[r] # "publish" /\ unseen' = unseen
  BY <1>i, <1>1, <1>2 DEF EveryChangeAnnounced
<1>3. CASE Insert(r)
  <2>0. queue'[job[r].id] = NewRow(job[r].ask)
    BY <1>i, <1>3, InsertEffect
  <2>1. queue'[job[r].id].point = job[r].ask.point
    BY <2>0 DEF NewRow
  <2>2. pc[r] # "publish" /\ pc'[r] = "publish" /\ job'[r] = job[r]
        /\ unseen' = unseen \cup {job[r].ask.point}
    BY <1>i, <1>3 DEF Insert, TypeOK
  <2>. QED
    BY <1>i, <1>1, <2>1, <2>2 DEF EveryChangeAnnounced
<1>4. CASE WriteStatus(r) \/ WritePausedAt(r)
  <2>1. job[r].id \in Ids /\ queue[job[r].id] # NoRow
    BY <1>i, <1>4, WriteStatusEffect, WritePausedAtEffect, RowShape
  <2>2. queue'[job[r].id].point = queue[job[r].id].point
    BY <1>i, <2>1, RowsStay
  <2>3. pc[r] # "publish" /\ pc'[r] = "publish" /\ job'[r] = job[r]
        /\ unseen' = unseen \cup {queue[job[r].id].point}
    BY <1>i, <1>4 DEF WriteStatus, WritePausedAt, TypeOK
  <2>. QED
    BY <1>i, <1>1, <2>2, <2>3 DEF EveryChangeAnnounced
<1>5. CASE Publish(r)
  <2>1. p \in unseen /\ p # queue[job[r].id].point
    BY <1>5 DEF Publish
  <2>2. PICK s \in Reqs : pc[s] = "publish" /\ queue[job[s].id].point = p
    BY <1>i, <2>1 DEF EveryChangeAnnounced
  <2>. QED
    BY <1>1, <2>1, <2>2
<1>6. CASE Arrive(r) \/ LockPoint(r) \/ VerifyBox(r) \/ CheckClient(r) \/ InsertRefused(r)
           \/ WriteRefused(r) \/ Fail(r)
  BY <1>2, <1>6 DEF Arrive, CreateBooking, CancelBooking, UpdateStatus, TogglePause, LockPoint,
         VerifyBox, CheckClient, InsertRefused, WriteRefused, Fail
<1>. QED
  BY <1>3, <1>4, <1>5, <1>6 DEF Act, Step

(* A wash that started goes on to ready and stays there. *)
LEMMA WashGoesForward ==
    ASSUME TypeOK, JobsOK, NEW r \in Reqs, Act(r), NEW i \in Ids
    PROVE  /\ queue[i].status \in {"washing", "ready"} => queue'[i].status \in {"washing", "ready"}
           /\ queue[i].status = "ready" => queue'[i].status = "ready"
<1>1. CASE Quiet(r)
  BY <1>1, QuietSteps
<1>2. CASE Insert(r)
  BY <1>2, InsertEffect DEF NoRow
<1>3. CASE WriteStatus(r)
  <2>1. /\ job[r].id \in Ids /\ queue[job[r].id] \in Row /\ job[r].to \in Status
        /\ queue[job[r].id].status = job[r].from
        /\ queue'[job[r].id] = WithStatus(queue[job[r].id], job[r].to)
        /\ \A o \in Ids : o # job[r].id => queue'[o] = queue[o]
        /\ \/ job[r].to \in staffStatusTransitions(job[r].from)
           \/ job[r].from \in {"queue", "waiting"} /\ job[r].to = "canceled"
    BY <1>3, WriteStatusEffect
  <2>2. queue'[job[r].id].status = job[r].to
    BY <2>1, WithStatusShape
  <2>3. job[r].from # "ready" /\ (job[r].from = "washing" => job[r].to = "ready")
    BY <2>1 DEF staffStatusTransitions
  <2>. QED
    BY <2>1, <2>2, <2>3
<1>4. CASE WritePausedAt(r)
  BY <1>4, PauseKeeps
<1>. QED
  BY <1>1, <1>2, <1>3, <1>4, QuietSteps

(* Each step keeps the pushes already announced true. *)
LEMMA PushStep ==
    ASSUME IInv, NEW r \in Reqs, Act(r)
    PROVE  PushOK' /\ PushesStayTrue'
<1>i. TypeOK /\ JobsOK /\ PushOK /\ PushesStayTrue
  BY DEF IInv
<1>1. PushOK'
  <2> SUFFICES ASSUME NEW s \in Reqs, pc'[s] = "publish", job'[s].kind = "status"
               PROVE  /\ job'[s].to = "washing" => queue'[job'[s].id].status \in {"washing", "ready"}
                      /\ job'[s].to = "ready" => queue'[job'[s].id].status = "ready"
    BY DEF PushOK
  <2>1. CASE s # r
    <3>1. pc[s] = "publish" /\ job[s].kind = "status" /\ job'[s] = job[s]
      BY <1>i, <2>1, OthersUntouched
    <3>2. job[s].id \in Ids
      BY <1>i, <3>1, ChangeShape DEF TypeOK
    <3>. QED
      BY <1>i, <3>1, <3>2, WashGoesForward DEF PushOK
  <2>2. CASE s = r
    <3>1. Insert(r) \/ WriteStatus(r) \/ WritePausedAt(r)
      BY <1>i, <2>2 DEF Act, TypeOK, Arrive, Step, CreateBooking, CancelBooking, UpdateStatus,
         TogglePause, LockPoint, VerifyBox, CheckClient, InsertRefused, WriteRefused, Publish, Fail,
         Finish
    <3>2. job'[r] = job[r]
      BY <3>1 DEF Insert, WriteStatus, WritePausedAt
    <3>3. WriteStatus(r)
      BY <1>i, <2>2, <3>1, <3>2, InsertEffect DEF WritePausedAt
    <3>. QED
      BY <1>i, <2>2, <3>2, <3>3, WriteStatusEffect, WithStatusShape
  <2>. QED
    BY <2>1, <2>2
<1>2. PushesStayTrue'
  <2>1. ASSUME NEW s \in stages
        PROVE  queue'[s[1]].status \in IF s[2] = "started" THEN {"washing", "ready"} ELSE {"ready"}
    <3>1. s[1] \in Ids
      BY <1>i DEF TypeOK
    <3>. QED
      BY <1>i, <3>1, WashGoesForward DEF PushesStayTrue
  <2>2. CASE stages' = stages
    BY <2>1, <2>2 DEF PushesStayTrue
  <2>3. CASE Publish(r)
    <3>1. ASSUME NEW s \in stages', s \notin stages
          PROVE  queue'[s[1]].status \in IF s[2] = "started" THEN {"washing", "ready"} ELSE {"ready"}
      <4>1. /\ job[r].kind = "status" /\ pc[r] = "publish" /\ UNCHANGED queue
            /\ s \in {job[r].id} \X kindForStatus(job[r].to)
        BY <2>3, <3>1 DEF Publish
      <4>2. /\ s[1] = job[r].id
            /\ \/ job[r].to = "washing" /\ s[2] = "started"
               \/ job[r].to = "ready" /\ s[2] = "finished"
        BY <4>1 DEF kindForStatus
      <4>. QED
        BY <1>i, <4>1, <4>2 DEF PushOK
    <3>. QED
      BY <2>1, <3>1 DEF PushesStayTrue
  <2>. QED
    BY <2>2, <2>3 DEF Act, Arrive, Step, CreateBooking, CancelBooking, UpdateStatus, TogglePause,
       LockPoint, VerifyBox, CheckClient, Insert, InsertRefused, WriteStatus, WritePausedAt,
       WriteRefused, Fail
<1>. QED
  BY <1>1, <1>2

-----------------------------------------------------------------------------
(* The invariants of every behaviour *)

(* An empty table without requests satisfies the invariant. *)
LEMMA InitIInv == Init => IInv
<1> SUFFICES ASSUME Init PROVE IInv
  OBVIOUS
<1> USE DEF Init
<1>1. TypeOK
  BY DEF TypeOK
<1>2. JobsOK
  BY DEF JobsOK, JobOK, Booker, Idle
<1>3. LockOK
  BY NobodyAssumption DEF LockOK, Locked
<1>4. IdsOK /\ PushOK
  BY DEF IdsOK, PushOK, Idle
<1>5. NoDoubleBooking /\ OneActivePerUser /\ CanceledAtIffCanceled
  BY DEF NoDoubleBooking, OneActivePerUser, CanceledAtIffCanceled, HoldsBox, NoRow,
         OccupyingStatus, Status, ActiveStatus
<1>6. EveryChangeAnnounced /\ PushesStayTrue
  BY DEF EveryChangeAnnounced, PushesStayTrue
<1>. QED
  BY <1>1, <1>2, <1>3, <1>4, <1>5, <1>6 DEF IInv

(* The invariant is inductive. *)
LEMMA NextIInv == IInv /\ [Next]_vars => IInv'
<1> SUFFICES ASSUME IInv, [Next]_vars PROVE IInv'
  OBVIOUS
<1>1. ASSUME NEW r \in Reqs, Act(r) PROVE IInv'
  <2>1. TypeOK'
    BY <1>1, TypeStep DEF IInv, JobsOK, Act
  <2>. QED
    BY <1>1, <2>1, JobsStep, LockStep, IdsStep, PushStep, BoxesStep, UsersStep, CanceledAtStep,
       AnnounceStep DEF IInv
<1>2. CASE UNCHANGED vars
  BY <1>2 DEF vars, IInv, TypeOK, JobsOK, JobOK, LockOK, IdsOK, PushOK, NoDoubleBooking, HoldsBox,
     OneActivePerUser, CanceledAtIffCanceled, EveryChangeAnnounced, PushesStayTrue
<1>. QED
  BY <1>1, <1>2 DEF Next, Act

(***************************************************************************)
(* Every reachable state satisfies the inductive invariant.                *)
(***************************************************************************)
THEOREM Invariance == Spec => []IInv
  BY InitIInv, NextIInv, PTL DEF Spec

(* Requests, rows and locks keep their types. *)
THEOREM TypeCorrect == Spec => []TypeOK
  BY Invariance, PTL DEF IInv

(* No box is ever booked twice for the same time. *)
THEOREM BoxSafety == Spec => []NoDoubleBooking
  BY Invariance, PTL DEF IInv

(* No customer ever has two active bookings. *)
THEOREM UserSafety == Spec => []OneActivePerUser
  BY Invariance, PTL DEF IInv

(* canceled_at always marks exactly the canceled bookings. *)
THEOREM CanceledAtCorrect == Spec => []CanceledAtIffCanceled
  BY Invariance, PTL DEF IInv

(* No committed change is left without a Publish to come. *)
THEOREM Announced == Spec => []EveryChangeAnnounced
  BY Invariance, PTL DEF IInv

(* No push is ever contradicted by a later status. *)
THEOREM PushSafety == Spec => []PushesStayTrue
  BY Invariance, PTL DEF IInv

-----------------------------------------------------------------------------
(***************************************************************************)
(* What Booking's steps may do, for any number of requests: the row lock   *)
(* protects a verified slot, and the requests implement BookingLedger.     *)
(***************************************************************************)

(* A box verified against the day's rows is not taken anywhere in the table. *)
LEMMA VerifiedIsFree ==
    ASSUME TypeOK, NEW a \in Asks, NEW from \in Nat, NEW to \in Nat,
           from <= a.start, End(a) <= to,
           verifyBoxAvailable(a, FindActiveBookingsInRange(a.point, from, to))
    PROVE  ~BoxTaken(Ids, a.point, a.box, a.start, End(a))
<1> SUFFICES ASSUME NEW o \in Ids, HoldsBox(o), queue[o].point = a.point, queue[o].box = a.box,
                    Overlap(queue[o].start, queue[o].end, a.start, End(a))
             PROVE  FALSE
  BY DEF BoxTaken
<1>1. queue[o].start \in Nat /\ queue[o].end \in Nat
  <2>1. queue[o] \in Row
    BY RowShape DEF TypeOK, HoldsBox, OccupyingStatus
  <2>. QED
    BY <2>1 DEF Row
<1>2. a.start \in Nat /\ End(a) \in Nat
  BY AskShape
<1>3. Overlap(queue[o].start, queue[o].end, from, to)
  BY <1>1, <1>2 DEF Overlap
<1>. QED
  BY <1>3 DEF verifyBoxAvailable, FindActiveBookingsInRange

(* Does booking i stand in the way of the slot this request asks for? *)
InTheWay(i, a) ==
    /\ HoldsBox(i)
    /\ queue[i].point = a.point /\ queue[i].box = a.box
    /\ Overlap(queue[i].start, queue[i].end, a.start, End(a))

(* A write by another request puts nobody in the way of a verified slot. *)
LEMMA SlotStep ==
    ASSUME IInv, NEW s \in Reqs, Act(s), NEW r \in Reqs, LostSlot(r)', ~Restored
    PROVE  LostSlot(r)
<1>i. TypeOK /\ JobsOK /\ LockOK
  BY DEF IInv
<1>p. pc'[r] \in Verified /\ ~job'[r].ask.overflow
  BY DEF LostSlot
<1>1. CASE s = r
  <2>1. VerifyBox(r) \/ CheckClient(r)
    BY <1>i, <1>p, <1>1 DEF Act, TypeOK, Verified, Arrive, Step, CreateBooking, CancelBooking,
       UpdateStatus, TogglePause, LockPoint, Insert, InsertRefused, WriteStatus, WritePausedAt,
       WriteRefused, Publish, Fail, Finish
  <2>2. job'[r] = job[r] /\ UNCHANGED queue
    BY <1>i, <1>p, <2>1 DEF VerifyBox, CheckClient, Finish, TypeOK, Verified
  <2>3. BoxTaken(Ids, job[r].ask.point, job[r].ask.box, job[r].ask.start, End(job[r].ask))
    BY <2>2 DEF LostSlot, BoxTaken, HoldsBox, End
  <2>4. CASE VerifyBox(r)
    <3>1. /\ job[r].kind = "book"
          /\ job[r].open <= job[r].ask.start /\ End(job[r].ask) <= job[r].close
      BY <1>i, <2>4 DEF VerifyBox, JobsOK, JobOK, Booker
    <3>2. job[r].ask \in Asks /\ job[r].open \in Nat /\ job[r].close \in Nat
      BY <1>i, <3>1, BookShape DEF TypeOK
    <3>3. verifyBoxAvailable(job[r].ask,
            FindActiveBookingsInRange(job[r].ask.point, job[r].open, job[r].close))
      BY <1>i, <1>p, <2>2, <2>4 DEF VerifyBox, Finish, TypeOK, Verified
    <3>. QED
      BY <1>i, <2>3, <3>1, <3>2, <3>3, VerifiedIsFree
  <2>5. CASE CheckClient(r)
    BY <1>p, <2>2, <2>3, <2>5 DEF CheckClient, LostSlot, Verified
  <2>. QED
    BY <2>1, <2>4, <2>5
<1>2. CASE s # r
  <2>1. pc[r] \in Verified /\ job'[r] = job[r] /\ ~job[r].ask.overflow
    BY <1>i, <1>p, <1>2, OthersUntouched
  <2>a. PICK a : a = job[r].ask
    OBVIOUS
  <2>2. PICK o \in Ids : InTheWay(o, a)'
    BY <2>1, <2>a DEF LostSlot, BoxTaken, InTheWay, End
  <2>3. ASSUME InTheWay(o, a) PROVE LostSlot(r)
    BY <2>1, <2>a, <2>3 DEF LostSlot, BoxTaken, InTheWay
  <2>4. CASE Quiet(s)
    BY <2>2, <2>3, <2>4, QuietSteps DEF InTheWay, HoldsBox
  <2>5. CASE Insert(s)
    <3>1. job[r].kind = "book" /\ job[s].kind = "book"
      BY <1>i, <2>1, <2>5 DEF Insert, Verified, JobsOK, JobOK, Booker
    <3>2. job[r].ask \in Asks /\ job[s].ask \in Asks
      BY <1>i, <3>1, BookShape DEF TypeOK
    <3>3. a.point \in Points
      BY <2>a, <3>2, AskShape
    <3>4. lock[a.point] = r
      BY <1>i, <2>1, <2>a, <3>3 DEF LockOK, Locked, Verified
    <3>5. job[s].ask.point # a.point
      BY <1>i, <1>2, <2>5, <3>3, <3>4 DEF LockOK, Locked, Insert
    <3>6. /\ queue'[job[s].id] = NewRow(job[s].ask)
          /\ \A i \in Ids : i # job[s].id => queue'[i] = queue[i]
      BY <1>i, <2>5, InsertEffect
    <3>7. NewRow(job[s].ask).point = job[s].ask.point
      BY DEF NewRow
    <3>8. o # job[s].id
      BY <2>2, <3>5, <3>6, <3>7 DEF InTheWay
    <3>. QED
      BY <2>2, <2>3, <3>6, <3>8 DEF InTheWay, HoldsBox
  <2>6. CASE WriteStatus(s)
    <3>n. PICK n \in Ids : n = job[s].id
      BY <1>i, <2>6, WriteStatusEffect
    <3>1. /\ queue[n] \in Row /\ queue[n].status = job[s].from /\ job[s].to \in Status
          /\ queue'[n] = WithStatus(queue[n], job[s].to)
          /\ \A i \in Ids : i # n => queue'[i] = queue[i]
          /\ \/ job[s].to \in staffStatusTransitions(job[s].from)
             \/ job[s].from \in {"queue", "waiting"} /\ job[s].to = "canceled"
      BY <1>i, <2>6, <3>n, WriteStatusEffect
    <3>2. /\ queue'[n].status = job[s].to /\ queue'[n].point = queue[n].point
          /\ queue'[n].box = queue[n].box /\ queue'[n].start = queue[n].start
          /\ queue'[n].end = queue[n].end /\ queue'[n].overflow = queue[n].overflow
      BY <3>1, WithStatusShape
    <3>3. ~(queue[n].status \in {"canceled", "no_show"} /\ queue'[n].status = "queue")
      BY DEF Restored
    <3>4. job[s].to \in OccupyingStatus => queue[n].status \in OccupyingStatus
      BY <3>1, <3>2, <3>3 DEF OccupyingStatus, Status, staffStatusTransitions
    <3>5. HoldsBox(n)' => HoldsBox(n)
      BY <3>2, <3>4 DEF HoldsBox
    <3>6. CASE o = n
      BY <2>2, <2>3, <3>2, <3>5, <3>6 DEF InTheWay
    <3>7. CASE o # n
      BY <2>2, <2>3, <3>1, <3>7 DEF InTheWay, HoldsBox
    <3>. QED
      BY <3>6, <3>7
  <2>7. CASE WritePausedAt(s)
    <3>1. /\ queue'[o].status = queue[o].status /\ queue'[o].point = queue[o].point
          /\ queue'[o].box = queue[o].box /\ queue'[o].start = queue[o].start
          /\ queue'[o].end = queue[o].end /\ queue'[o].overflow = queue[o].overflow
      BY <1>i, <2>7, PauseKeeps
    <3>. QED
      BY <2>2, <2>3, <3>1 DEF InTheWay, HoldsBox
  <2>. QED
    BY <2>4, <2>5, <2>6, <2>7, QuietSteps
<1>. QED
  BY <1>1, <1>2

(***************************************************************************)
(* Between verifyBoxAvailable and the insert, only a restore can take the  *)
(* slot: the washing point's row lock serializes everybody else.           *)
(***************************************************************************)
THEOREM SlotProtected == Spec => LockProtectsSlot
<1>1. IInv /\ [Next]_vars => [\A r \in Reqs : LostSlot(r)' => LostSlot(r) \/ Restored]_vars
  BY SlotStep DEF Next, Act
<1>. QED
  BY <1>1, Invariance, PTL DEF Spec, LockProtectsSlot

-----------------------------------------------------------------------------
(* Refinement: every write is one step of BookingLedger *)

(* Each step of a request is one step of the ledger, or none. *)
LEMMA LedgerStep ==
    ASSUME IInv, NEW r \in Reqs, Act(r)
    PROVE  Ledger!Next \/ UNCHANGED queue
<1>i. TypeOK /\ JobsOK
  BY DEF IInv
<1>1. CASE Quiet(r)
  BY <1>1, QuietSteps
<1>2. CASE Insert(r)
  <2>1. /\ job[r].id \in Ids /\ job[r].ask \in Asks /\ queue[job[r].id] = NoRow
    BY <1>i, <1>2, InsertEffect
  <2>2. /\ ~CreateRefused(job[r].ask)
        /\ queue' = [queue EXCEPT ![job[r].id] = NewRow(job[r].ask)]
    BY <1>2 DEF Insert
  <2>3. Ledger!Book(job[r].id, job[r].ask)
    BY <2>1, <2>2 DEF Ledger!Book, Ledger!NoRow, NoRow, Ledger!CreateRefused, CreateRefused,
       Ledger!BoxTaken, BoxTaken, Ledger!UserTaken, UserTaken, Ledger!HoldsBox, HoldsBox,
       Ledger!NewRow, NewRow, Ledger!End, End, Ledger!Overlap, Overlap,
       Ledger!OccupyingStatus, OccupyingStatus, Ledger!ActiveStatus, ActiveStatus,
       Ledger!Status, Status
  <2>. QED
    BY <2>1, <2>3 DEF Ledger!Next
<1>3. CASE WriteStatus(r)
  <2>1. /\ job[r].id \in Ids /\ queue[job[r].id].status = job[r].from /\ job[r].to \in Status
        /\ \/ job[r].to \in staffStatusTransitions(job[r].from)
           \/ job[r].from \in {"queue", "waiting"} /\ job[r].to = "canceled"
    BY <1>i, <1>3, WriteStatusEffect
  <2>2. /\ ~UpdateRefused(job[r].id, job[r].to)
        /\ queue' = [queue EXCEPT ![job[r].id] = WithStatus(queue[job[r].id], job[r].to)]
    BY <1>3 DEF WriteStatus
  <2>3. CASE job[r].to \in staffStatusTransitions(job[r].from)
    <3>1. job[r].to \in Ledger!staffStatusTransitions(queue[job[r].id].status)
      BY <2>1, <2>3 DEF Ledger!staffStatusTransitions, staffStatusTransitions
    <3>2. ~Ledger!UpdateRefused(job[r].id, job[r].to)
      BY <2>2 DEF Ledger!UpdateRefused, UpdateRefused, Ledger!BoxTaken, BoxTaken,
         Ledger!UserTaken, UserTaken, Ledger!HoldsBox, HoldsBox, Ledger!Overlap, Overlap,
         Ledger!OccupyingStatus, OccupyingStatus, Ledger!ActiveStatus, ActiveStatus,
         Ledger!Status, Status
    <3>3. Ledger!Move(job[r].id, job[r].to)
      BY <2>2, <3>1, <3>2 DEF Ledger!Move, Ledger!WithStatus, WithStatus
    <3>. QED
      BY <2>1, <3>3 DEF Ledger!Next, Ledger!Status, Status
  <2>4. CASE job[r].from \in {"queue", "waiting"} /\ job[r].to = "canceled"
    <3>1. Ledger!Cancel(job[r].id)
      BY <2>1, <2>2, <2>4 DEF Ledger!Cancel, Ledger!WithStatus, WithStatus
    <3>. QED
      BY <2>1, <3>1 DEF Ledger!Next
  <2>. QED
    BY <2>1, <2>3, <2>4
<1>4. CASE WritePausedAt(r)
  <2>1. /\ job[r].id \in Ids /\ queue[job[r].id].status = "washing" /\ job[r].paused \in BOOLEAN
    BY <1>i, <1>4, WritePausedAtEffect
  <2>2. Ledger!Pause(job[r].id, job[r].paused)
    BY <1>4, <2>1 DEF WritePausedAt, Ledger!Pause
  <2>. QED
    BY <2>1, <2>2 DEF Ledger!Next
<1>. QED
  BY <1>1, <1>2, <1>3, <1>4, QuietSteps

(***************************************************************************)
(* The interleaved requests, with their stale reads, implement the atomic  *)
(* booking ledger.                                                         *)
(***************************************************************************)
THEOREM Refinement == Spec => LedgerSpec
<1>1. Init => Ledger!Init
  BY DEF Init, Ledger!Init, NoRow, Ledger!NoRow
<1>2. IInv /\ [Next]_vars => [Ledger!Next]_queue
  BY LedgerStep DEF Next, Act, vars
<1>. QED
  BY <1>1, <1>2, Invariance, PTL DEF Spec, LedgerSpec, Ledger!Spec
=============================================================================
