------------------------------- MODULE Booking -------------------------------
(***************************************************************************)
(* The requests that change the queue table: internal/queue/manager.go on  *)
(* top of internal/queue/repository.go.                                    *)
(*                                                                         *)
(* A request is an HTTP handler goroutine.  It reads and writes the        *)
(* database in separate statements, so requests interleave between any two *)
(* of them.  A row is visible once its transaction commits; the statements *)
(* of one transaction that nobody else can observe are one step.  The      *)
(* constraints are checked by the statement that inserts or updates.       *)
(***************************************************************************)
EXTENDS QueueTable

CONSTANTS
    Windows,  \* opening hours <<open, close>> a weekday schedule resolves to
    Reqs,     \* concurrently running requests
    Nobody    \* the holder of a row lock that is not held

ASSUME WindowAssumption == Windows \subseteq Nat \X Nat

ASSUME NobodyAssumption == Nobody \notin Reqs

VARIABLES
    lock,       \* holder of SELECT ... FOR UPDATE on a washing point row
    pc,         \* where each request stands
    job,        \* what each request is doing, with what it read so far
    unseen,     \* points with a committed change that no Publish followed yet
    stages      \* NotifyStatus calls: <<booking, "started" or "finished">>

vars == <<queue, lock, pc, job, unseen, stages>>

Idle == [kind |-> "none"]

Job ==
         [kind : {"book"}, id : Ids, ask : Asks, open : Nat, close : Nat]
    \cup [kind : {"cancel", "status"}, id : Ids, from : Status, to : Status]
    \cup [kind : {"pause"}, id : Ids, paused : BOOLEAN]

(* Where a request holds the row lock of its washing point. *)
Locked == {"verify", "client", "insert"}

(* Where a request has checked its box under that lock. *)
Verified == {"client", "insert"}

Finish(r) ==
    /\ pc' = [pc EXCEPT ![r] = "idle"]
    /\ job' = [job EXCEPT ![r] = Idle]

(* The end of insertLocked's transaction, committed or rolled back. *)
MutNeverUnlock(r) == lock' = lock

Unlock(r) == lock' = [p \in Points |-> IF lock[p] = r THEN Nobody ELSE lock[p]]

Init ==
    /\ queue = [id \in Ids |-> NoRow]
    /\ lock = [p \in Points |-> Nobody]
    /\ pc = [r \in Reqs |-> "idle"]
    /\ job = [r \in Reqs |-> Idle]
    /\ unseen = {}
    /\ stages = {}

-----------------------------------------------------------------------------
(* Creating a booking *)

(***************************************************************************)
(* planBooking: everything it reads (services, prices, point status, open  *)
(* boxes, the weekday's schedule) belongs to other components, so it       *)
(* either fails, which is Fail below, or yields the day's opening hours    *)
(* <<open, close>>, which contain the booking (PointDay has the breaks and *)
(* the boxes).  It runs before the lock is taken.                          *)
(***************************************************************************)
planBooking(a, w) == w[1] <= a.start /\ End(a) <= w[2]

(* A primary key nobody uses; Ids bounds the bookings ever created. *)
FreshId(id) ==
    /\ queue[id] = NoRow
    /\ \A s \in Reqs : job[s].kind = "book" => job[s].id # id

(***************************************************************************)
(* CreateBooking and CreateManualBooking up to the transaction.  Only the  *)
(* customer's own request looks for an active booking at this stage.       *)
(***************************************************************************)
CreateBooking(r, id, a, w) ==
    /\ pc[r] = "idle"
    /\ FreshId(id)
    /\ a.source = "app" => ~HasActiveForUser(a.user)
    /\ planBooking(a, w)
    /\ job' = [job EXCEPT ![r] = [kind |-> "book", id |-> id, ask |-> a,
                                  open |-> w[1], close |-> w[2]]]
    /\ pc' = [pc EXCEPT ![r] = "lock"]
    /\ UNCHANGED <<queue, lock, unseen, stages>>

(* insertLocked begins: SELECT ... FOR UPDATE on the washing point. *)
MutLockNotExclusive(r) ==
    /\ pc[r] = "lock"
    /\ lock' = [lock EXCEPT ![job[r].ask.point] = r]
    /\ pc' = [pc EXCEPT ![r] = "verify"]
    /\ UNCHANGED <<queue, job, unseen, stages>>

LockPoint(r) ==
    /\ pc[r] = "lock"
    /\ lock[job[r].ask.point] = Nobody
    /\ lock' = [lock EXCEPT ![job[r].ask.point] = r]
    /\ pc' = [pc EXCEPT ![r] = "verify"]
    /\ UNCHANGED <<queue, job, unseen, stages>>

(* verifyBoxAvailable over the busy rows of the planned day. *)
verifyBoxAvailable(a, busy) ==
    \A o \in busy :
        ~(queue[o].box = a.box /\ Overlap(queue[o].start, queue[o].end, a.start, End(a)))

VerifyBox(r) ==
    LET a    == job[r].ask
        busy == FindActiveBookingsInRange(a.point, job[r].open, job[r].close)
    IN  /\ pc[r] = "verify"
        /\ \/ /\ a.overflow \/ verifyBoxAvailable(a, busy)
              /\ pc' = [pc EXCEPT ![r] = IF a.source = "manual" THEN "client" ELSE "insert"]
              /\ UNCHANGED <<lock, job>>
           \/ /\ ~a.overflow /\ ~verifyBoxAvailable(a, busy)
              /\ Finish(r) /\ Unlock(r)
        /\ UNCHANGED <<queue, unseen, stages>>

(***************************************************************************)
(* The beforeInsert callback of CreateManualBooking: find or create the    *)
(* client, who must not have an active booking.                            *)
(***************************************************************************)
CheckClient(r) ==
    /\ pc[r] = "client"
    /\ \/ /\ ~HasActiveForUser(job[r].ask.user)
          /\ pc' = [pc EXCEPT ![r] = "insert"]
          /\ UNCHANGED <<lock, job>>
       \/ HasActiveForUser(job[r].ask.user) /\ Finish(r) /\ Unlock(r)
    /\ UNCHANGED <<queue, unseen, stages>>

(***************************************************************************)
(* Repository.Create and the commit, which releases the lock.              *)
(***************************************************************************)
MutInsertUnannounced(r) ==
    /\ pc[r] = "insert" /\ ~CreateRefused(job[r].ask)
    /\ queue' = [queue EXCEPT ![job[r].id] = NewRow(job[r].ask)]
    /\ unseen' = unseen \cup {job[r].ask.point}
    /\ Finish(r) /\ Unlock(r)
    /\ UNCHANGED stages

Insert(r) ==
    /\ pc[r] = "insert" /\ ~CreateRefused(job[r].ask)
    /\ queue' = [queue EXCEPT ![job[r].id] = NewRow(job[r].ask)]
    /\ unseen' = unseen \cup {job[r].ask.point}
    /\ pc' = [pc EXCEPT ![r] = "publish"]
    /\ Unlock(r)
    /\ UNCHANGED <<job, stages>>

(* 409 slot_unavailable or active_booking_exists out of the constraints. *)
InsertRefused(r) ==
    /\ pc[r] = "insert" /\ CreateRefused(job[r].ask)
    /\ Finish(r) /\ Unlock(r)
    /\ UNCHANGED <<queue, unseen, stages>>

-----------------------------------------------------------------------------
(* Changing a booking: read and check, then a conditional write *)

(* CancelBooking reads the booking and checks its status. *)
CancelBooking(r, id) ==
    /\ pc[r] = "idle"
    /\ queue[id].status \in {"queue", "waiting"}
    /\ job' = [job EXCEPT ![r] =
                 [kind |-> "cancel", id |-> id, from |-> queue[id].status, to |-> "canceled"]]
    /\ pc' = [pc EXCEPT ![r] = "write"]
    /\ UNCHANGED <<queue, lock, unseen, stages>>

(* Manager.UpdateStatus reads the booking and checks the transition. *)
UpdateStatus(r, id, to) ==
    /\ pc[r] = "idle"
    /\ to \in staffStatusTransitions(queue[id].status)
    /\ job' = [job EXCEPT ![r] =
                 [kind |-> "status", id |-> id, from |-> queue[id].status, to |-> to]]
    /\ pc' = [pc EXCEPT ![r] = "write"]
    /\ UNCHANGED <<queue, lock, unseen, stages>>

(* Pause (paused = TRUE) and Resume (FALSE) read the booking and check it. *)
TogglePause(r, id, paused) ==
    /\ pc[r] = "idle"
    /\ queue[id].status = "washing"
    /\ queue[id].paused_at # paused
    /\ job' = [job EXCEPT ![r] = [kind |-> "pause", id |-> id, paused |-> paused]]
    /\ pc' = [pc EXCEPT ![r] = "write"]
    /\ UNCHANGED <<queue, lock, unseen, stages>>

(* Repository.UpdateStatus: UPDATE ... WHERE id = ? AND status = from. *)
MutWriteStaleStatus(r) ==
    LET j == job[r]
    IN  /\ pc[r] = "write" /\ j.kind \in {"cancel", "status"}
        /\ ~UpdateRefused(j.id, j.to)
        /\ queue' = [queue EXCEPT ![j.id] = WithStatus(queue[j.id], j.to)]
        /\ unseen' = unseen \cup {queue[j.id].point}
        /\ pc' = [pc EXCEPT ![r] = "publish"]
        /\ UNCHANGED <<lock, job, stages>>

WriteStatus(r) ==
    LET j == job[r]
    IN  /\ pc[r] = "write" /\ j.kind \in {"cancel", "status"}
        /\ queue[j.id].status = j.from /\ ~UpdateRefused(j.id, j.to)
        /\ queue' = [queue EXCEPT ![j.id] = WithStatus(queue[j.id], j.to)]
        /\ unseen' = unseen \cup {queue[j.id].point}
        /\ pc' = [pc EXCEPT ![r] = "publish"]
        /\ UNCHANGED <<lock, job, stages>>

(* Repository.UpdatePausedAt: UPDATE ... WHERE id = ? AND status = 'washing'. *)
MutPauseAnyStatus(r) ==
    LET j == job[r]
    IN  /\ pc[r] = "write" /\ j.kind = "pause"
        /\ queue' = [queue EXCEPT ![j.id].paused_at = j.paused]
        /\ unseen' = unseen \cup {queue[j.id].point}
        /\ pc' = [pc EXCEPT ![r] = "publish"]
        /\ UNCHANGED <<lock, job, stages>>

WritePausedAt(r) ==
    LET j == job[r]
    IN  /\ pc[r] = "write" /\ j.kind = "pause"
        /\ queue[j.id].status = "washing"
        /\ queue' = [queue EXCEPT ![j.id].paused_at = j.paused]
        /\ unseen' = unseen \cup {queue[j.id].point}
        /\ pc' = [pc EXCEPT ![r] = "publish"]
        /\ UNCHANGED <<lock, job, stages>>

(* 409 status_changed, slot_unavailable or active_booking_exists. *)
WriteRefused(r) ==
    LET j == job[r]
    IN  /\ pc[r] = "write"
        /\ \/ j.kind = "pause" /\ queue[j.id].status # "washing"
           \/ /\ j.kind \in {"cancel", "status"}
              /\ queue[j.id].status # j.from \/ UpdateRefused(j.id, j.to)
        /\ Finish(r)
        /\ UNCHANGED <<queue, lock, unseen, stages>>

-----------------------------------------------------------------------------
(* After the commit, and failures before it *)

(* kindForStatus: the push a status change triggers, if any. *)
kindForStatus(s) ==
    CASE s = "washing" -> {"started"}
      [] s = "ready"   -> {"finished"}
      [] OTHER         -> {}

(***************************************************************************)
(* bus.Publish for the booking's point and, after a staff status change,   *)
(* notifier.NotifyStatus.                                                  *)
(***************************************************************************)
Publish(r) ==
    LET j == job[r]
    IN  /\ pc[r] = "publish"
        /\ unseen' = unseen \ {queue[j.id].point}
        /\ stages' = IF j.kind = "status" THEN stages \cup ({j.id} \X kindForStatus(j.to))
                                          ELSE stages
        /\ Finish(r)
        /\ UNCHANGED <<queue, lock>>

(***************************************************************************)
(* Before its commit a request may fail at any statement: a plan or client *)
(* it does not accept, a database error, or a client that hung up and with *)
(* it a canceled context.  The transaction rolls back.                     *)
(***************************************************************************)
Fail(r) ==
    /\ pc[r] \in {"lock", "verify", "client", "insert", "write"}
    /\ Finish(r) /\ Unlock(r)
    /\ UNCHANGED <<queue, unseen, stages>>

-----------------------------------------------------------------------------

(* A request arrives. *)
Arrive(r) ==
    \E id \in Ids :
        \/ \E a \in Asks, w \in Windows : CreateBooking(r, id, a, w)
        \/ CancelBooking(r, id)
        \/ \E to \in Status : UpdateStatus(r, id, to)
        \/ \E paused \in BOOLEAN : TogglePause(r, id, paused)

(* What a request does next once it has its locks. *)
Step(r) ==
    \/ VerifyBox(r) \/ CheckClient(r) \/ Insert(r) \/ InsertRefused(r)
    \/ WriteStatus(r) \/ WritePausedAt(r) \/ WriteRefused(r)
    \/ Publish(r)

Next == \E r \in Reqs : Arrive(r) \/ LockPoint(r) \/ Step(r) \/ Fail(r)

Spec == Init /\ [][Next]_vars

(***************************************************************************)
(* Handlers run to their end, and PostgreSQL queues the waiters of a row   *)
(* lock, so none waits while others keep taking it.  Nobody has to arrive. *)
(***************************************************************************)
FairSpec ==
    /\ Spec
    /\ \A r \in Reqs : WF_vars(Step(r)) /\ SF_vars(LockPoint(r))

-----------------------------------------------------------------------------
(* Properties, beside those of QueueTable *)

(* Rows, locks, requests and announced stages keep their shapes. *)
TypeOK ==
    /\ queue \in [Ids -> Row \cup {NoRow}]
    /\ lock \in [Points -> Reqs \cup {Nobody}]
    /\ pc \in [Reqs -> {"idle", "lock", "verify", "client", "insert", "write", "publish"}]
    /\ job \in [Reqs -> Job \cup {Idle}]
    /\ unseen \in SUBSET Points
    /\ stages \in SUBSET (Ids \X {"started", "finished"})

(* Has the box this request verified under the lock been taken since? *)
LostSlot(r) ==
    /\ pc[r] \in Verified
    /\ ~job[r].ask.overflow
    /\ BoxTaken(Ids, job[r].ask.point, job[r].ask.box, job[r].ask.start, End(job[r].ask))

(* A staff restore of a canceled or missed booking. *)
Restored ==
    \E id \in Ids : /\ queue[id].status \in {"canceled", "no_show"}
                    /\ queue'[id].status = "queue"

(***************************************************************************)
(* Booking attempts at one point are serialized by its row lock: from the  *)
(* moment verifyBoxAvailable accepts a box until the insert, no other      *)
(* booking takes that box and time.  Only a restore, which does not take   *)
(* the lock, can, and that is the one case left to the EXCLUDE backstop.   *)
(***************************************************************************)
LockProtectsSlot ==
    [][\A r \in Reqs : LostSlot(r)' => LostSlot(r) \/ Restored]_vars

(***************************************************************************)
(* Every committed change is still to be announced by the request that     *)
(* made it, or has been followed by a Publish for its point: no board      *)
(* stream is left with a change that nobody will tell it about.            *)
(***************************************************************************)
EveryChangeAnnounced ==
    \A p \in unseen : \E r \in Reqs : pc[r] = "publish" /\ queue[job[r].id].point = p

(***************************************************************************)
(* A push is never contradicted: a customer told that the wash started has *)
(* a booking in washing or ready for good, and one told it finished has a  *)
(* ready booking (UpdateStatus's conditional write, the forward-only table *)
(* of transitions, and CancelBooking's check together).                    *)
(***************************************************************************)
PushesStayTrue ==
    \A s \in stages : queue[s[1]].status \in
        IF s[2] = "started" THEN {"washing", "ready"} ELSE {"ready"}

(***************************************************************************)
(* Requests with stale reads change the table only as BookingLedger does:  *)
(* every committed write is legal at the instant it commits.               *)
(***************************************************************************)
Ledger == INSTANCE BookingLedger WITH queue <- queue

LedgerSpec == Ledger!Spec

(***************************************************************************)
(* Every request that arrives is answered: waiting for a point's row lock  *)
(* never lasts forever, on any path through a transaction.                 *)
(***************************************************************************)
RequestsFinish == \A r \in Reqs : pc[r] # "idle" ~> pc[r] = "idle"
=============================================================================
