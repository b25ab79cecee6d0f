----------------------------- MODULE QueueTable -----------------------------
(***************************************************************************)
(* The queue table of the booking API: its rows, what the statements of    *)
(* internal/queue/repository.go read from it, and the two constraints the  *)
(* migrations put on it.                                                   *)
(***************************************************************************)
EXTENDS Naturals

CONSTANTS
    Ids,      \* primary keys a booking row may get
    Users,    \* customers, identified by account or by phone
    Points,   \* washing points
    Asks      \* the bookings clients ask for

AskType ==
    [source : {"app", "manual"}, overflow : BOOLEAN, user : Users,
     point : Points, box : Nat \ {0}, start : Nat, minutes : Nat \ {0}]

(***************************************************************************)
(* Boxes are numbered from 1 and service minutes are positive; only the    *)
(* cabinet's manual form has an overflow flag.                             *)
(***************************************************************************)
ASSUME AskAssumption ==
    /\ Asks \subseteq AskType
    /\ \A a \in Asks : a.overflow => a.source = "manual"

VARIABLE queue      \* id -> row, NoRow where there is none

Status == {"queue", "waiting", "washing", "ready", "canceled", "no_show"}

Row ==
    [user : Users, point : Points, box : Nat, start : Nat, end : Nat,
     overflow : BOOLEAN, status : Status,
     canceled_at : BOOLEAN, paused_at : BOOLEAN]

NoRow == [status |-> "none"]

(* What one client may have only one of, at any point. *)
ActiveStatus == {"queue", "waiting", "washing"}

(* What takes up time in a numbered box: ready rows do too. *)
OccupyingStatus == Status \ {"canceled", "no_show"}

(***************************************************************************)
(* staffStatusTransitions: what PATCH /queue/{id}/status may do.           *)
(***************************************************************************)
staffStatusTransitions(s) ==
    CASE s = "queue"    -> {"waiting", "no_show"}
      [] s = "waiting"  -> {"washing", "no_show"}
      [] s = "washing"  -> {"ready"}
      [] s = "no_show"  -> {"queue"}
      [] s = "canceled" -> {"queue"}
      [] OTHER          -> {}

HoldsBox(id) == queue[id].status \in OccupyingStatus /\ ~queue[id].overflow

(* Half-open intervals. *)
Overlap(s1, e1, s2, e2) == s1 < e2 /\ s2 < e1

(***************************************************************************)
(* The EXCLUDE constraint: does one of these rows hold the box of the      *)
(* point during [s, e)?                                                    *)
(***************************************************************************)
MutExcludeOnlyUpcoming(rows, p, b, s, e) ==
    \E o \in rows :
        /\ HoldsBox(o) /\ queue[o].status \in {"queue", "waiting"}
        /\ queue[o].point = p /\ queue[o].box = b
        /\ Overlap(queue[o].start, queue[o].end, s, e)

BoxTaken(rows, p, b, s, e) ==
    \E o \in rows :
        /\ HoldsBox(o)
        /\ queue[o].point = p /\ queue[o].box = b
        /\ Overlap(queue[o].start, queue[o].end, s, e)

(* The partial unique index: does one of these rows claim the user? *)
MutIndexSkipsWashing(rows, u) ==
    \E o \in rows : /\ queue[o].status \in {"queue", "waiting"}
                    /\ queue[o].user = u

UserTaken(rows, u) ==
    \E o \in rows : queue[o].status \in ActiveStatus /\ queue[o].user = u

(* HasActiveForUser asks the same of the whole table. *)
HasActiveForUser(u) ==
    \E o \in Ids : queue[o].status \in ActiveStatus /\ queue[o].user = u

(***************************************************************************)
(* FindActiveBookingsInRange: the rows of a point that hold a box and      *)
(* touch [from, to).                                                       *)
(***************************************************************************)
FindActiveBookingsInRange(p, from, to) ==
    {o \in Ids : /\ HoldsBox(o) /\ queue[o].point = p
                 /\ Overlap(queue[o].start, queue[o].end, from, to)}

End(a) == a.start + a.minutes

(* The row CreateBooking and CreateManualBooking build. *)
NewRow(a) ==
    [user |-> a.user, point |-> a.point, box |-> IF a.overflow THEN 0 ELSE a.box,
     start |-> a.start, end |-> End(a), overflow |-> a.overflow,
     status |-> "queue", canceled_at |-> FALSE, paused_at |-> FALSE]

(* Repository.Create: would a constraint refuse the row? *)
CreateRefused(a) ==
    \/ ~a.overflow /\ BoxTaken(Ids, a.point, a.box, a.start, End(a))
    \/ UserTaken(Ids, a.user)

(* The columns Repository.UpdateStatus sets. *)
MutKeepCanceledAt(q, to) ==
    [q EXCEPT !.status = to, !.canceled_at = (to = "canceled") \/ q.canceled_at]

WithStatus(q, to) ==
    [q EXCEPT !.status = to,
              !.canceled_at = CASE to = "canceled" -> TRUE
                                [] to = "queue"    -> FALSE
                                [] OTHER           -> q.canceled_at]

(* Repository.UpdateStatus: would a constraint refuse the new status? *)
UpdateRefused(id, to) ==
    LET q == queue[id]
    IN  \/ /\ to \in OccupyingStatus /\ ~q.overflow
           /\ BoxTaken(Ids \ {id}, q.point, q.box, q.start, q.end)
        \/ to \in ActiveStatus /\ UserTaken(Ids \ {id}, q.user)

-----------------------------------------------------------------------------

(***************************************************************************)
(* No two bookings that occupy the same numbered box of a point overlap in *)
(* time, whatever mix of bookings, walk-ins, cancels and restores ran      *)
(* (insertLocked's lock and check, the EXCLUDE constraint behind them).    *)
(***************************************************************************)
NoDoubleBooking ==
    \A i, j \in Ids :
        /\ i # j /\ HoldsBox(i) /\ HoldsBox(j)
        /\ queue[i].point = queue[j].point /\ queue[i].box = queue[j].box
        => ~Overlap(queue[i].start, queue[i].end, queue[j].start, queue[j].end)

(***************************************************************************)
(* A customer has at most one booking in queue, waiting or washing, over   *)
(* all washing points and with out-of-queue walk-ins counted               *)
(* (HasActiveForUser and queue_one_active_booking_per_user).               *)
(***************************************************************************)
OneActivePerUser ==
    \A i, j \in Ids :
        /\ queue[i].status \in ActiveStatus /\ queue[j].status \in ActiveStatus
        /\ queue[i].user = queue[j].user
        => i = j

(***************************************************************************)
(* canceled_at is set exactly on canceled bookings, through cancels,       *)
(* restores and the no-shows in between (Repository.UpdateStatus).         *)
(***************************************************************************)
CanceledAtIffCanceled ==
    \A i \in Ids : queue[i] # NoRow => (queue[i].canceled_at <=> queue[i].status = "canceled")
=============================================================================
