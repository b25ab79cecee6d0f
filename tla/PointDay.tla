------------------------------ MODULE PointDay ------------------------------
(***************************************************************************)
(* One washing point on one day: its weekday's schedule row, its boxes and *)
(* the bookings in them.  Clients ask for free slots (Handler.availability *)
(* in internal/queue/handler.go) and book (planBooking and insertLocked in *)
(* manager.go) while staff edit the schedule (internal/schedule) and the   *)
(* boxes (internal/box).  The service and the point are active and the     *)
(* times lie in the future; everything else a plan may fail on is not      *)
(* about the day.                                                          *)
(***************************************************************************)
EXTENDS Availability

CONSTANTS
    Inputs,       \* schedule rows staff submit, valid or not
    Durations,    \* lengths of bookings: sums of queue minutes
    Horizon,      \* the end of the day
    MaxBoxes,     \* bound on box numbers
    MaxBookings,  \* bound on simultaneous bookings of the day
    Reqs          \* booking requests in flight

Schedule ==
    [is_open : BOOLEAN, open : 0..Horizon, close : 0..Horizon, brk : SUBSET (Nat \X Nat)]

ASSUME DayAssumption ==
    /\ Inputs \subseteq Schedule
    /\ \A in \in Inputs : \A b, c \in in.brk : b = c
    /\ Durations \subseteq Nat \ {0} /\ Horizon \in Nat
    /\ MaxBoxes \in Nat \ {0} /\ MaxBookings \in Nat

VARIABLES
    hours,        \* the weekday's schedule row
    boxes,        \* box rows by number: "open", "closed", "missing"
    boxes_count,  \* capacity of the point
    busy,         \* intervals of boxes held by bookings
    plans         \* what each request has planned, {} or one plan

vars == <<hours, boxes, boxes_count, busy, plans>>

Numbers == 1..MaxBoxes
ClosedDay == [is_open |-> FALSE, open |-> 0, close |-> 0, brk |-> {}]
Interval == [box : Numbers, start : 0..Horizon, end : 0..Horizon]
Plan == [box : Numbers, start : 0..Horizon, end : 0..Horizon, dayOpen : 0..Horizon, dayClose : 0..Horizon]

(* A new point: its boxes seeded, no schedule row yet, which means closed. *)
Init ==
    /\ hours = ClosedDay
    /\ boxes_count \in Numbers
    /\ boxes = [n \in Numbers |-> IF n <= boxes_count THEN "open" ELSE "missing"]
    /\ busy = {}
    /\ plans = [r \in Reqs |-> {}]

-----------------------------------------------------------------------------
(* Reading free slots *)

(* FindActiveBookingsInRange for this point. *)
MutOnlyInsideRange(from, to) == {b \in busy : from <= b.start /\ b.end <= to}

FindActiveBookingsInRange(from, to) == {b \in busy : Overlaps(b.start, b.end, from, to)}

(* Closed boxes count as booked for all of the opening hours. *)
closedBoxes ==
    {[box |-> n, start |-> hours.open, end |-> hours.close] :
        n \in {m \in Numbers : boxes[m] = "closed"}}

(* GET /washing-points/{id}/availability. *)
MutForgetClosed(duration) ==
    ComputeAvailableSlotsForDay(hours, boxes_count, duration,
        FindActiveBookingsInRange(hours.open, hours.close))

availability(duration) ==
    ComputeAvailableSlotsForDay(hours, boxes_count, duration,
        FindActiveBookingsInRange(hours.open, hours.close) \cup closedBoxes)

(* GET .../queue/overflow-slots: one virtual box, nothing busy. *)
overflowSlots(duration) == ComputeAvailableSlotsForDay(hours, 1, duration, {})

-----------------------------------------------------------------------------
(* Booking *)

(* What planBooking demands of the day; an overflow booking needs no box. *)
FitsHours(start, duration) == Contains(hours, start, start + duration)

planBooking(n, start, duration) ==
    /\ n \in 1..boxes_count
    /\ boxes[n] # "closed"
    /\ FitsHours(start, duration)

verifyBoxAvailable(n, start, end, rows) ==
    ~ \E b \in rows : b.box = n /\ Overlaps(b.start, b.end, start, end)

CreateBooking(r, n, start, duration) ==
    /\ plans[r] = {}
    /\ planBooking(n, start, duration)
    /\ plans' = [plans EXCEPT ![r] =
                   {[box |-> n, start |-> start, end |-> start + duration,
                     dayOpen |-> hours.open, dayClose |-> hours.close]}]
    /\ UNCHANGED <<hours, boxes, boxes_count, busy>>

(***************************************************************************)
(* Under the point's row lock, so in one step: verify and insert, or 409.  *)
(* The EXCLUDE constraint behind it is left out: BoxesDisjoint must hold   *)
(* without it.                                                             *)
(***************************************************************************)
insertLocked(r) ==
    \E p \in plans[r] :
        LET free == verifyBoxAvailable(p.box, p.start, p.end,
                        FindActiveBookingsInRange(p.dayOpen, p.dayClose))
        IN  /\ free => Cardinality(busy) < MaxBookings
            /\ busy' = IF free THEN busy \cup {[box |-> p.box, start |-> p.start, end |-> p.end]}
                               ELSE busy
            /\ plans' = [plans EXCEPT ![r] = {}]
            /\ UNCHANGED <<hours, boxes, boxes_count>>

(* A booking is canceled or missed and gives up its box. *)
Release(b) ==
    /\ busy' = busy \ {b}
    /\ UNCHANGED <<hours, boxes, boxes_count, plans>>

-----------------------------------------------------------------------------
(* Editing the point *)

validateHours(in) ==
    in.is_open => /\ in.open < in.close
                  /\ \A b \in in.brk : b[1] < b[2] /\ in.open <= b[1] /\ b[2] <= in.close

(* PUT /washing-points/{id}/schedule; a closed row keeps no hours. *)
Replace(in) ==
    /\ validateHours(in)
    /\ hours' = IF in.is_open THEN in ELSE ClosedDay
    /\ UNCHANGED <<boxes, boxes_count, busy, plans>>

(* POST .../boxes: one past the highest number. *)
BoxCreate ==
    LET highest == Max({0} \cup {n \in Numbers : boxes[n] # "missing"})
    IN  /\ highest < MaxBoxes
        /\ boxes' = [boxes EXCEPT ![highest + 1] = "open"]
        /\ UNCHANGED <<hours, boxes_count, busy, plans>>

(* PATCH .../boxes/{boxId} *)
BoxUpdate(n, state) ==
    /\ boxes[n] # "missing"
    /\ boxes' = [boxes EXCEPT ![n] = state]
    /\ UNCHANGED <<hours, boxes_count, busy, plans>>

(* DELETE .../boxes/{boxId} *)
BoxDelete(n) ==
    /\ boxes[n] # "missing"
    /\ boxes' = [boxes EXCEPT ![n] = "missing"]
    /\ UNCHANGED <<hours, boxes_count, busy, plans>>

(* PATCH /washing-points/{id} with boxes_count *)
SetBoxesCount(n) ==
    /\ boxes_count' = n
    /\ UNCHANGED <<hours, boxes, busy, plans>>

Next ==
    \/ \E r \in Reqs :
          \/ \E n \in Numbers, s \in 0..Horizon, d \in Durations : CreateBooking(r, n, s, d)
          \/ insertLocked(r)
    \/ \E b \in busy : Release(b)
    \/ \E in \in Inputs : Replace(in)
    \/ BoxCreate
    \/ \E n \in Numbers : BoxUpdate(n, "open") \/ BoxUpdate(n, "closed") \/ BoxDelete(n)
    \/ \E n \in Numbers : SetBoxesCount(n)

Spec == Init /\ [][Next]_vars

-----------------------------------------------------------------------------
(* Properties *)

(* The stored hours are always ones that validateHours accepts. *)
TypeOK ==
    /\ hours \in Inputs \cup {ClosedDay} /\ validateHours(hours)
    /\ boxes \in [Numbers -> {"open", "closed", "missing"}]
    /\ boxes_count \in Numbers
    /\ busy \in SUBSET Interval
    /\ plans \in [Reqs -> SUBSET Plan]

(* Is the start one of the candidates of an open window? *)
OnGrid(start, duration) == \E w \in Windows(hours) : start \in Starts(w, duration)

(***************************************************************************)
(* The free slots clients see are exactly what booking accepts: a slot and *)
(* box is listed if and only if its start is a candidate and planBooking   *)
(* and verifyBoxAvailable, which share no code with the listing, accept it *)
(* in the same state.  The staff's overflow slots are likewise the         *)
(* candidates an overflow plan accepts.                                    *)
(***************************************************************************)
OfferedIffBookable ==
    \A d \in Durations, s \in 0..Horizon :
        /\ \A n \in Numbers :
              (\E slot \in availability(d) : slot.start = s /\ n \in slot.boxes)
              <=> /\ OnGrid(s, d)
                  /\ planBooking(n, s, d)
                  /\ verifyBoxAvailable(n, s, s + d, FindActiveBookingsInRange(hours.open, hours.close))
        /\ (\E slot \in overflowSlots(d) : slot.start = s) <=> OnGrid(s, d) /\ FitsHours(s, d)

(***************************************************************************)
(* Bookings of a box never overlap, though requests verify against the     *)
(* hours they read before the lock and staff move the hours meanwhile: the *)
(* rows that verifyBoxAvailable is given always include every conflict.    *)
(***************************************************************************)
BoxesDisjoint ==
    \A b, c \in busy : b.box = c.box /\ b # c => ~Overlaps(b.start, b.end, c.start, c.end)

(* Is the point open at t by row d: within the hours and outside the break? *)
OpenAt(d, t) ==
    /\ d.is_open /\ d.open <= t /\ t < d.close
    /\ \A b \in d.brk : ~(b[1] <= t /\ t < b[2])

WindowsMatch(d) ==
    \A s \in 0..Horizon :
        /\ OpenAt(d, s) <=> \E w \in Windows(d) : w[1] <= s /\ s < w[2]
        /\ \A n \in Durations : Contains(d, s, s + n) <=> \A t \in s..(s + n - 1) : OpenAt(d, t)

InputsMatch == \A d \in Inputs : WindowsMatch(d)

(***************************************************************************)
(* By the stored row and by every row staff may submit, also those that    *)
(* validateHours refuses: an instant lies in an open window exactly when   *)
(* it is within the opening hours and outside the break, and a booking     *)
(* fits the windows exactly when all its instants are open.  A break may   *)
(* touch the hours, exceed them, miss them or be inverted; Windows clips.  *)
(***************************************************************************)
WindowsAreOpenHours == WindowsMatch(hours) /\ InputsMatch

(***************************************************************************)
(* maxOverlap's sweep counts what it should, the most bookings at once, so *)
(* the older list of slots never hides one that has a free box, however    *)
(* the bookings are spread over the boxes (ComputeAvailableSlots).         *)
(***************************************************************************)
SweepCountsBusyBoxes ==
    /\ \A d \in Durations, s \in 0..Horizon :
          maxOverlap(s, s + d, busy) = MostAtOnce(s, s + d, busy)
    /\ \A w \in Windows(hours), d \in Durations :
          \A slot \in ComputeAvailableSlotsWithBoxes(w, MaxBoxes, d, busy) :
              slot.start \in ComputeAvailableSlots(w, MaxBoxes, d, busy)
=============================================================================
