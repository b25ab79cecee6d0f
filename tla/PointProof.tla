----------------------------- MODULE PointProof -----------------------------
(***************************************************************************)
(* What the staff of a point set up.  Its day (PointDay), for any          *)
(* schedules, boxes, durations and requests: the slots clients see are the *)
(* slots booking accepts, bookings of a box stay apart, and the windows    *)
(* are the opening hours less the break.  Its lists (Catalog), for any     *)
(* number of rows and overlapping requests: one mark, and no lost file.    *)
(***************************************************************************)
EXTENDS PointDay, Catalog, TLAPS, FiniteSetTheorems, WellFoundedInduction, NaturalsInduction

(* Windows are proper parts of the opening hours. *)
LEMMA WindowShape ==
    ASSUME NEW d \in Schedule, NEW w \in Windows(d)
    PROVE  /\ w[1] \in Nat /\ w[2] \in Nat
           /\ d.is_open /\ d.open <= w[1] /\ w[1] < w[2] /\ w[2] <= d.close
<1>d. d.open \in Nat /\ d.close \in Nat /\ d.brk \in SUBSET (Nat \X Nat)
  BY DayAssumption DEF Schedule
<1>1. d.is_open /\ d.open < d.close
  BY <1>d DEF Windows
<1> DEFINE clipped == {<<Later(b[1], d.open), Earlier(b[2], d.close)>> : b \in d.brk}
           breaks  == {b \in clipped : b[1] < b[2]}
<1>2. ASSUME NEW b \in breaks PROVE b[1] \in Nat /\ b[2] \in Nat /\ d.open <= b[1] /\ b[2] <= d.close
  <2>1. PICK c \in d.brk : b = <<Later(c[1], d.open), Earlier(c[2], d.close)>>
    OBVIOUS
  <2>2. c[1] \in Nat /\ c[2] \in Nat
    BY <1>d
  <2>. QED
    BY <1>d, <2>1, <2>2 DEF Later, Earlier
<1>3. CASE breaks = {}
  <2>1. w = <<d.open, d.close>>
    BY <1>1, <1>d, <1>3 DEF Windows
  <2>. QED
    BY <1>1, <1>d, <2>1
<1>4. CASE breaks # {}
  <2>1. PICK b \in breaks : w \in {<<d.open, b[1]>>, <<b[2], d.close>>} /\ w[1] < w[2]
    BY <1>1, <1>d, <1>4 DEF Windows
  <2>. QED
    BY <1>1, <1>d, <1>2, <2>1
<1>. QED
  BY <1>3, <1>4

(* The day's row is a schedule, closed or not. *)
LEMMA HoursShape ==
    ASSUME TypeOK
    PROVE  hours \in Schedule
<1>1. 0 \in 0..Horizon
  BY DayAssumption
<1>2. ClosedDay \in Schedule
  BY <1>1 DEF ClosedDay, Schedule
<1>. QED
  BY <1>2, DayAssumption DEF TypeOK

(* A listed slot is a candidate with all its free boxes, and has one. *)
LEMMA SlotsOfWindow ==
    ASSUME NEW w, NEW count, NEW d, NEW rows,
           NEW slot \in ComputeAvailableSlotsWithBoxes(w, count, d, rows)
    PROVE  /\ slot.start \in Starts(w, d)
           /\ slot.boxes = freeBoxes(slot.start, slot.start + d, count, rows)
           /\ slot.boxes # {}
<1>1. PICK t \in Starts(w, d) : /\ freeBoxes(t, t + d, count, rows) # {}
                                /\ slot = [start |-> t, boxes |-> freeBoxes(t, t + d, count, rows)]
  BY DEF ComputeAvailableSlotsWithBoxes
<1>. QED
  BY <1>1

(* What the listing shows, spelled out. *)
LEMMA OfferedShape ==
    ASSUME NEW rows, NEW count, NEW d, NEW s
    PROVE  /\ (\E slot \in ComputeAvailableSlotsForDay(hours, count, d, rows) : slot.start = s)
              <=> OnGrid(s, d) /\ freeBoxes(s, s + d, count, rows) # {}
           /\ \A n : (\E slot \in ComputeAvailableSlotsForDay(hours, count, d, rows) :
                         slot.start = s /\ n \in slot.boxes)
                    <=> OnGrid(s, d) /\ n \in freeBoxes(s, s + d, count, rows)
<1>1. ASSUME NEW slot \in ComputeAvailableSlotsForDay(hours, count, d, rows), slot.start = s
      PROVE  OnGrid(s, d) /\ slot.boxes = freeBoxes(s, s + d, count, rows) /\ slot.boxes # {}
  <2>1. PICK w \in Windows(hours) : slot \in ComputeAvailableSlotsWithBoxes(w, count, d, rows)
    BY DEF ComputeAvailableSlotsForDay
  <2>. QED
    BY <1>1, <2>1, SlotsOfWindow DEF OnGrid
<1>2. ASSUME OnGrid(s, d), freeBoxes(s, s + d, count, rows) # {}
      PROVE  \E slot \in ComputeAvailableSlotsForDay(hours, count, d, rows) :
                slot.start = s /\ slot.boxes = freeBoxes(s, s + d, count, rows)
  <2>1. PICK w \in Windows(hours) : s \in Starts(w, d)
    BY <1>2 DEF OnGrid
  <2>2. PICK slot : slot = [start |-> s, boxes |-> freeBoxes(s, s + d, count, rows)]
    OBVIOUS
  <2>3. slot \in ComputeAvailableSlotsWithBoxes(w, count, d, rows)
    BY <1>2, <2>1, <2>2 DEF ComputeAvailableSlotsWithBoxes
  <2>4. slot \in ComputeAvailableSlotsForDay(hours, count, d, rows)
    BY <2>1, <2>3 DEF ComputeAvailableSlotsForDay
  <2>. QED
    BY <2>2, <2>4
<1>. QED
  BY <1>1, <1>2

(* A closed box is busy for every slot of the day. *)
LEMMA ClosedIsBusy ==
    ASSUME TypeOK, NEW d \in Durations, NEW s \in 0..Horizon, NEW n \in Numbers, OnGrid(s, d)
    PROVE  (\E b \in closedBoxes : b.box = n /\ Overlaps(b.start, b.end, s, s + d))
           <=> boxes[n] = "closed"
<1>1. hours \in Schedule
  BY HoursShape
<1>2. PICK w \in Windows(hours) : s \in Starts(w, d)
  BY DEF OnGrid
<1>3. /\ w[1] \in Nat /\ w[2] \in Nat /\ hours.open <= w[1] /\ w[2] <= hours.close
  BY <1>1, WindowShape
<1>4. w[1] <= s /\ s + d <= w[2]
  BY <1>2, <1>3 DEF Starts
<1>5. hours.open \in Nat /\ hours.close \in Nat /\ d \in Nat \ {0} /\ s \in Nat
  BY <1>1, DayAssumption DEF Schedule
<1>6. Overlaps(hours.open, hours.close, s, s + d)
  BY <1>3, <1>4, <1>5 DEF Overlaps
<1>7. ASSUME NEW b \in closedBoxes, b.box = n PROVE boxes[n] = "closed"
  BY <1>7 DEF closedBoxes
<1>8. ASSUME boxes[n] = "closed"
      PROVE  \E b \in closedBoxes : b.box = n /\ Overlaps(b.start, b.end, s, s + d)
  <2>1. [box |-> n, start |-> hours.open, end |-> hours.close] \in closedBoxes
    BY <1>8 DEF closedBoxes
  <2>. QED
    BY <1>6, <2>1
<1>. QED
  BY <1>7, <1>8

(* A candidate start fits the hours. *)
LEMMA GridFits ==
    ASSUME TypeOK, NEW d \in Durations, NEW s \in 0..Horizon, OnGrid(s, d)
    PROVE  FitsHours(s, d)
<1>1. hours \in Schedule
  BY HoursShape
<1>2. PICK w \in Windows(hours) : s \in Starts(w, d)
  BY DEF OnGrid
<1>3. w[1] \in Nat /\ w[2] \in Nat
  BY <1>1, WindowShape
<1>. QED
  BY <1>2, <1>3 DEF FitsHours, Contains, Starts

(* In every state of the right types the offers are the bookable slots. *)
LEMMA OffersStep ==
    ASSUME TypeOK
    PROVE  OfferedIffBookable
<1> SUFFICES ASSUME NEW d \in Durations, NEW s \in 0..Horizon
             PROVE  /\ \A n \in Numbers :
                          (\E slot \in availability(d) : slot.start = s /\ n \in slot.boxes)
                          <=> /\ OnGrid(s, d)
                              /\ planBooking(n, s, d)
                              /\ verifyBoxAvailable(n, s, s + d,
                                    FindActiveBookingsInRange(hours.open, hours.close))
                    /\ (\E slot \in overflowSlots(d) : slot.start = s)
                       <=> OnGrid(s, d) /\ FitsHours(s, d)
  BY DEF OfferedIffBookable
<1> DEFINE rows == FindActiveBookingsInRange(hours.open, hours.close)
<1>1. ASSUME NEW n \in Numbers
      PROVE  (\E slot \in availability(d) : slot.start = s /\ n \in slot.boxes)
             <=> OnGrid(s, d) /\ planBooking(n, s, d) /\ verifyBoxAvailable(n, s, s + d, rows)
  <2>1. (\E slot \in availability(d) : slot.start = s /\ n \in slot.boxes)
        <=> OnGrid(s, d) /\ n \in freeBoxes(s, s + d, boxes_count, rows \cup closedBoxes)
    BY OfferedShape DEF availability
  <2>2. ASSUME OnGrid(s, d)
        PROVE  n \in freeBoxes(s, s + d, boxes_count, rows \cup closedBoxes)
               <=> /\ n \in 1..boxes_count /\ boxes[n] # "closed"
                   /\ verifyBoxAvailable(n, s, s + d, rows)
    <3>1. (\E b \in closedBoxes : b.box = n /\ Overlaps(b.start, b.end, s, s + d))
          <=> boxes[n] = "closed"
      BY <2>2, ClosedIsBusy
    <3>. QED
      BY <3>1 DEF freeBoxes, verifyBoxAvailable
  <2>. QED
    BY <2>1, <2>2, GridFits DEF planBooking
<1>2. (\E slot \in overflowSlots(d) : slot.start = s) <=> OnGrid(s, d) /\ FitsHours(s, d)
  <2>1. freeBoxes(s, s + d, 1, {}) = {1}
    BY DEF freeBoxes
  <2>2. (\E slot \in overflowSlots(d) : slot.start = s) <=> OnGrid(s, d)
    BY <2>1, OfferedShape DEF overflowSlots
  <2>. QED
    BY <2>2, GridFits
<1>. QED
  BY <1>1, <1>2
-----------------------------------------------------------------------------
(* Bookings stay apart *)

(* A plan lies within the opening hours it was made for. *)
PlansOK ==
    \A r \in Reqs : \A p \in plans[r] : /\ p.dayOpen <= p.start /\ p.start < p.end
                                       /\ p.end <= p.dayClose

IInv == TypeOK /\ PlansOK /\ BoxesDisjoint

(* What fits the hours ends within the day. *)
LEMMA FitShape ==
    ASSUME TypeOK, NEW s \in 0..Horizon, NEW d \in Durations, FitsHours(s, d)
    PROVE  /\ hours.open \in 0..Horizon /\ hours.close \in 0..Horizon
           /\ hours.open <= s /\ s < s + d /\ s + d <= hours.close /\ s + d \in 0..Horizon
<1>1. hours \in Schedule
  BY HoursShape
<1>2. PICK w \in Windows(hours) : w[1] <= s /\ s + d <= w[2]
  BY DEF FitsHours, Contains
<1>3. w[1] \in Nat /\ w[2] \in Nat /\ hours.open <= w[1] /\ w[2] <= hours.close
  BY <1>1, WindowShape
<1>4. hours.open \in 0..Horizon /\ hours.close \in 0..Horizon
  BY <1>1 DEF Schedule
<1>. QED
  BY <1>2, <1>3, <1>4, DayAssumption

(* A new point has no plans and no bookings. *)
LEMMA InitIInv == Init => IInv
<1> SUFFICES ASSUME Init PROVE IInv
  OBVIOUS
<1>1. boxes \in [Numbers -> {"open", "closed", "missing"}]
  BY DEF Init
<1>2. validateHours(ClosedDay)
  BY DEF validateHours, ClosedDay
<1>. QED
  BY <1>1, <1>2 DEF Init, IInv, TypeOK, PlansOK, BoxesDisjoint

(* A plan lies in the hours it was made for. *)
LEMMA CreateKeeps ==
    ASSUME IInv, NEW r \in Reqs, NEW n \in Numbers, NEW s \in 0..Horizon, NEW d \in Durations,
           CreateBooking(r, n, s, d)
    PROVE  IInv'
<1>1. PICK p : p = [box |-> n, start |-> s, end |-> s + d, dayOpen |-> hours.open, dayClose |-> hours.close]
  OBVIOUS
<1>2. /\ hours.open \in 0..Horizon /\ hours.close \in 0..Horizon
      /\ hours.open <= s /\ s < s + d /\ s + d <= hours.close /\ s + d \in 0..Horizon
  BY FitShape DEF IInv, CreateBooking, planBooking
<1>3. p \in Plan /\ p.dayOpen <= p.start /\ p.start < p.end /\ p.end <= p.dayClose
  BY <1>1, <1>2 DEF Plan
<1>4. plans' = [plans EXCEPT ![r] = {p}] /\ UNCHANGED <<hours, boxes, boxes_count, busy>>
  BY <1>1 DEF CreateBooking
<1>5. TypeOK'
  BY <1>3, <1>4 DEF IInv, TypeOK, validateHours
<1>6. PlansOK'
  BY <1>3, <1>4 DEF IInv, TypeOK, PlansOK
<1>7. BoxesDisjoint'
  BY <1>4 DEF IInv, BoxesDisjoint
<1>. QED
  BY <1>5, <1>6, <1>7 DEF IInv

(* Conflicts always touch the planned day, so the rows read include them. *)
LEMMA InsertKeeps ==
    ASSUME IInv, NEW r \in Reqs, insertLocked(r)
    PROVE  IInv'
<1>1. PICK p \in plans[r] :
        LET free == verifyBoxAvailable(p.box, p.start, p.end,
                        FindActiveBookingsInRange(p.dayOpen, p.dayClose))
        IN  /\ busy' = IF free THEN busy \cup {[box |-> p.box, start |-> p.start, end |-> p.end]}
                               ELSE busy
            /\ plans' = [plans EXCEPT ![r] = {}]
            /\ UNCHANGED <<hours, boxes, boxes_count>>
  BY DEF insertLocked
<1>2. /\ p \in Plan /\ p.dayOpen <= p.start /\ p.start < p.end /\ p.end <= p.dayClose
  BY DEF IInv, TypeOK, PlansOK
<1>3. PICK q : q = [box |-> p.box, start |-> p.start, end |-> p.end]
  OBVIOUS
<1>4. q \in Interval /\ q.box = p.box /\ q.start = p.start /\ q.end = p.end
  BY <1>2, <1>3 DEF Plan, Interval
<1>5. PlansOK' /\ plans' \in [Reqs -> SUBSET Plan]
  BY <1>1 DEF IInv, TypeOK, PlansOK
<1>6. CASE busy' = busy
  BY <1>1, <1>5, <1>6 DEF IInv, TypeOK, BoxesDisjoint, validateHours
<1>7. CASE /\ busy' = busy \cup {q}
           /\ verifyBoxAvailable(p.box, p.start, p.end, FindActiveBookingsInRange(p.dayOpen, p.dayClose))
  <2>1. ASSUME NEW b \in busy, b.box = q.box PROVE ~Overlaps(b.start, b.end, q.start, q.end)
    <3>1. SUFFICES ASSUME Overlaps(b.start, b.end, p.start, p.end) PROVE FALSE
      BY <1>4
    <3>2. b.start \in Nat /\ b.end \in Nat
      BY DayAssumption DEF IInv, TypeOK, Interval
    <3>3. p.start \in Nat /\ p.end \in Nat /\ p.dayOpen \in Nat /\ p.dayClose \in Nat
      BY <1>2, DayAssumption DEF Plan
    <3>4. Overlaps(b.start, b.end, p.dayOpen, p.dayClose)
      BY <1>2, <3>1, <3>2, <3>3 DEF Overlaps
    <3>. QED
      BY <1>4, <1>7, <2>1, <3>1, <3>4 DEF verifyBoxAvailable, FindActiveBookingsInRange
  <2>2. BoxesDisjoint'
    BY <1>7, <2>1 DEF IInv, BoxesDisjoint, Overlaps
  <2>3. TypeOK'
    BY <1>1, <1>4, <1>5, <1>7 DEF IInv, TypeOK, validateHours
  <2>. QED
    BY <1>5, <2>2, <2>3 DEF IInv
<1>. QED
  BY <1>1, <1>3, <1>6, <1>7

(* The invariant is inductive. *)
LEMMA NextIInv == IInv /\ [Next]_vars => IInv'
<1> SUFFICES ASSUME IInv, [Next]_vars PROVE IInv'
  OBVIOUS
<1>1. ASSUME NEW b \in busy, Release(b) PROVE IInv'
  BY <1>1 DEF Release, IInv, TypeOK, PlansOK, BoxesDisjoint, validateHours
<1>2. ASSUME NEW in \in Inputs, Replace(in) PROVE IInv'
  <2>1. hours' \in Inputs \cup {ClosedDay} /\ validateHours(hours')
    BY <1>2 DEF Replace, validateHours, ClosedDay
  <2>. QED
    BY <1>2, <2>1 DEF Replace, IInv, TypeOK, PlansOK, BoxesDisjoint, validateHours
<1>3. ASSUME boxes' \in [Numbers -> {"open", "closed", "missing"}], UNCHANGED <<hours, boxes_count, busy, plans>>
      PROVE  IInv'
  BY <1>3 DEF IInv, TypeOK, PlansOK, BoxesDisjoint, validateHours
<1>4. CASE BoxCreate
  BY <1>3, <1>4 DEF BoxCreate, IInv, TypeOK
<1>5. ASSUME NEW n \in Numbers, BoxUpdate(n, "open") \/ BoxUpdate(n, "closed") \/ BoxDelete(n)
      PROVE  IInv'
  BY <1>3, <1>5 DEF BoxUpdate, BoxDelete, IInv, TypeOK
<1>6. ASSUME NEW n \in Numbers, SetBoxesCount(n) PROVE IInv'
  BY <1>6 DEF SetBoxesCount, IInv, TypeOK, PlansOK, BoxesDisjoint, validateHours
<1>7. CASE UNCHANGED vars
  BY <1>7 DEF vars, IInv, TypeOK, PlansOK, BoxesDisjoint, validateHours
<1>. QED
  BY <1>1, <1>2, <1>4, <1>5, <1>6, <1>7, CreateKeeps, InsertKeeps DEF Next

(* The types, the plans and the disjoint bookings of every behaviour. *)
THEOREM Invariance == Spec => []IInv
  BY InitIInv, NextIInv, PTL DEF Spec

(* Every variable keeps its type and the stored schedule its validity. *)
THEOREM TypeCorrect == Spec => []TypeOK
  BY Invariance, PTL DEF IInv

(***************************************************************************)
(* verifyBoxAvailable alone keeps bookings of a box apart, though the day  *)
(* it is checked against may have been re-scheduled since the plan.        *)
(***************************************************************************)
THEOREM BoxSafety == Spec => []BoxesDisjoint
  BY Invariance, PTL DEF IInv

(* At all times the listed slots are exactly the bookable ones. *)
THEOREM OffersCorrect == Spec => []OfferedIffBookable
  BY TypeCorrect, OffersStep, PTL

-----------------------------------------------------------------------------
(* Opening hours *)

(* A row staff submit, or the stored one, has natural hours and one break or none. *)
LEMMA InputShape ==
    ASSUME TypeOK, NEW h \in Inputs \cup {hours}
    PROVE  /\ h \in Schedule /\ h.open \in Nat /\ h.close \in Nat
           /\ h.brk = {} \/ \E x, y \in Nat : h.brk = {<<x, y>>}
<1>1. h \in Schedule /\ \A b, c \in h.brk : b = c
  <2>1. CASE h \in Inputs
    BY <2>1, DayAssumption
  <2>2. CASE h = ClosedDay
    BY <2>2, DayAssumption DEF ClosedDay, Schedule
  <2>. QED
    BY <2>1, <2>2 DEF TypeOK
<1>2. h.open \in Nat /\ h.close \in Nat /\ h.brk \in SUBSET (Nat \X Nat)
  BY <1>1, DayAssumption DEF Schedule
<1>3. ASSUME NEW b \in h.brk PROVE \E x, y \in Nat : h.brk = {<<x, y>>}
  <2>1. b[1] \in Nat /\ b[2] \in Nat /\ b = <<b[1], b[2]>>
    BY <1>2
  <2>2. h.brk = {b}
    BY <1>1
  <2>. QED
    BY <2>1, <2>2
<1>. QED
  BY <1>1, <1>2, <1>3

(***************************************************************************)
(* The windows of an open row with hours in order, and when it is open: a  *)
(* break with nothing left of it inside the hours does not count, of any   *)
(* other the part inside the hours is cut out.                             *)
(***************************************************************************)
LEMMA WindowsOfDay ==
    ASSUME TypeOK, NEW h \in Inputs \cup {hours}, h.is_open, h.open < h.close
    PROVE  \/ /\ Windows(h) = {<<h.open, h.close>>}
              /\ \A t \in Nat : OpenAt(h, t) <=> h.open <= t /\ t < h.close
           \/ \E x, y \in Nat :
                 /\ h.open <= x /\ x < y /\ y <= h.close
                 /\ Windows(h) = {w \in {<<h.open, x>>, <<y, h.close>>} : w[1] < w[2]}
                 /\ \A t \in Nat : OpenAt(h, t) <=> /\ h.open <= t /\ t < h.close
                                                    /\ ~(x <= t /\ t < y)
<1>1. h.open \in Nat /\ h.close \in Nat
  BY InputShape
<1> DEFINE clipped == {<<Later(b[1], h.open), Earlier(b[2], h.close)>> : b \in h.brk}
           breaks  == {b \in clipped : b[1] < b[2]}
<1>2. Windows(h) =
        IF breaks = {} THEN {<<h.open, h.close>>}
        ELSE {w \in UNION {{<<h.open, b[1]>>, <<b[2], h.close>>} : b \in breaks} : w[1] < w[2]}
  BY <1>1 DEF Windows
<1>3. CASE h.brk = {}
  <2>1. breaks = {}
    BY <1>3
  <2> HIDE DEF breaks
  <2>. QED
    BY <1>2, <1>3, <2>1 DEF OpenAt
<1>4. CASE \E x, y \in Nat : h.brk = {<<x, y>>}
  <2>1. PICK x, y \in Nat : h.brk = {<<x, y>>}
    BY <1>4
  <2>2. PICK X, Y \in Nat : X = Later(x, h.open) /\ Y = Earlier(y, h.close)
    BY <1>1 DEF Later, Earlier
  <2>3. clipped = {<<X, Y>>}
    BY <2>1, <2>2
  <2>4. \A t \in Nat : OpenAt(h, t) <=> h.open <= t /\ t < h.close /\ ~(X <= t /\ t < Y)
    <3>1. \A t \in Nat : OpenAt(h, t) <=> h.open <= t /\ t < h.close /\ ~(x <= t /\ t < y)
      BY <2>1 DEF OpenAt
    <3>. QED
      BY <1>1, <2>2, <3>1 DEF Later, Earlier
  <2>5. CASE X < Y
    <3>1. breaks = {<<X, Y>>}
      BY <2>3, <2>5
    <3> HIDE DEF breaks
    <3>2. {{<<h.open, b[1]>>, <<b[2], h.close>>} : b \in breaks} = {{<<h.open, X>>, <<Y, h.close>>}}
      BY <3>1
    <3>3. Windows(h) = {w \in {<<h.open, X>>, <<Y, h.close>>} : w[1] < w[2]}
      BY <1>2, <3>1, <3>2
    <3>4. h.open <= X /\ Y <= h.close
      BY <1>1, <2>2 DEF Later, Earlier
    <3>. QED
      BY <2>4, <2>5, <3>3, <3>4
  <2>6. CASE Y <= X
    <3>1. breaks = {}
      BY <2>3, <2>6
    <3> HIDE DEF breaks
    <3>2. Windows(h) = {<<h.open, h.close>>}
      BY <1>2, <3>1
    <3>. QED
      BY <2>4, <2>6, <3>2
  <2>. QED
    BY <2>5, <2>6
<1>. QED
  BY <1>3, <1>4, InputShape

(* Every row's windows are its opening hours. *)
LEMMA HoursStep ==
    ASSUME TypeOK, NEW h \in Inputs \cup {hours}, NEW s \in 0..Horizon
    PROVE  /\ OpenAt(h, s) <=> \E w \in Windows(h) : w[1] <= s /\ s < w[2]
           /\ \A d \in Durations :
                Contains(h, s, s + d) <=> \A t \in s..(s + d - 1) : OpenAt(h, t)
<1>1. /\ s \in Nat /\ h.open \in Nat /\ h.close \in Nat
      /\ \A d \in Durations : d \in Nat \ {0} /\ s..(s + d - 1) \subseteq Nat
  <2>1. s \in Nat /\ h.open \in Nat /\ h.close \in Nat /\ Durations \subseteq Nat \ {0}
    BY DayAssumption, InputShape
  <2>2. \A d \in Durations : d \in Nat \ {0} /\ s..(s + d - 1) \subseteq Nat
    BY <2>1
  <2>. QED
    BY <2>1, <2>2
<1>2. CASE ~h.is_open \/ h.close <= h.open
  <2>1. Windows(h) = {} /\ \A t \in Nat : ~OpenAt(h, t)
    BY <1>1, <1>2 DEF Windows, OpenAt
  <2>2. \A d \in Durations : s \in s..(s + d - 1)
    BY <1>1
  <2> QED
    BY <1>1, <2>1, <2>2 DEF Contains
<1>3. ASSUME h.open < h.close, Windows(h) = {<<h.open, h.close>>},
             \A t \in Nat : OpenAt(h, t) <=> h.open <= t /\ t < h.close
      PROVE  /\ OpenAt(h, s) <=> \E w \in Windows(h) : w[1] <= s /\ s < w[2]
             /\ \A d \in Durations :
                  Contains(h, s, s + d) <=> \A t \in s..(s + d - 1) : OpenAt(h, t)
  <2> DEFINE o == h.open
             c == h.close
  <2>1. o \in Nat /\ c \in Nat /\ o < c /\ Windows(h) = {<<o, c>>}
    BY <1>1, <1>3
  <2>2. \A t \in Nat : OpenAt(h, t) <=> o <= t /\ t < c
    BY <1>3
  <2>3. \A d : Contains(h, s, s + d) <=> o <= s /\ s + d <= c
    BY <2>1 DEF Contains
  <2> HIDE DEF o, c
  <2>4. ASSUME NEW d \in Durations
        PROVE  (o <= s /\ s + d <= c) <=> \A t \in s..(s + d - 1) : o <= t /\ t < c
    <3>1. s \in s..(s + d - 1) /\ s + d - 1 \in s..(s + d - 1)
      BY <1>1
    <3> QED
      BY <1>1, <2>1, <3>1
  <2> QED
    BY <1>1, <2>1, <2>2, <2>3, <2>4
<1>4. ASSUME h.open < h.close, NEW x \in Nat, NEW y \in Nat, h.open <= x, x < y, y <= h.close,
             Windows(h) = {w \in {<<h.open, x>>, <<y, h.close>>} : w[1] < w[2]},
             \A t \in Nat : OpenAt(h, t) <=> h.open <= t /\ t < h.close /\ ~(x <= t /\ t < y)
      PROVE  /\ OpenAt(h, s) <=> \E w \in Windows(h) : w[1] <= s /\ s < w[2]
             /\ \A d \in Durations :
                  Contains(h, s, s + d) <=> \A t \in s..(s + d - 1) : OpenAt(h, t)
  <2> DEFINE o == h.open
             c == h.close
  <2>1. o \in Nat /\ c \in Nat /\ o < c /\ o <= x /\ y <= c
    BY <1>1, <1>4
  <2>2. Windows(h) = {w \in {<<o, x>>, <<y, c>>} : w[1] < w[2]}
    BY <1>4
  <2>3. \A t \in Nat : OpenAt(h, t) <=> (o <= t /\ t < c /\ ~(x <= t /\ t < y))
    BY <1>4
  <2> HIDE DEF o, c
  <2>4. ASSUME NEW u \in Nat, NEW v \in Nat, u < v
        PROVE  (\E w \in Windows(h) : w[1] <= u /\ v <= w[2])
               <=> (o <= u /\ v <= x) \/ (y <= u /\ v <= c)
    <3>1. ASSUME NEW w \in Windows(h), w[1] <= u, v <= w[2]
          PROVE  (o <= u /\ v <= x) \/ (y <= u /\ v <= c)
      <4>1. w = <<o, x>> \/ w = <<y, c>>
        BY <2>2
      <4> QED
        BY <3>1, <4>1
    <3>2. ASSUME o <= u, v <= x PROVE \E w \in Windows(h) : w[1] <= u /\ v <= w[2]
      <4>1. <<o, x>> \in Windows(h)
        BY <2>1, <2>2, <2>4, <3>2
      <4> QED
        BY <3>2, <4>1
    <3>3. ASSUME y <= u, v <= c PROVE \E w \in Windows(h) : w[1] <= u /\ v <= w[2]
      <4>1. <<y, c>> \in Windows(h)
        BY <2>1, <2>2, <2>4, <3>3
      <4> QED
        BY <3>3, <4>1
    <3> QED
      BY <3>1, <3>2, <3>3
  <2>5. OpenAt(h, s) <=> \E w \in Windows(h) : w[1] <= s /\ s < w[2]
    <3>1. (\E w \in Windows(h) : w[1] <= s /\ s + 1 <= w[2])
          <=> (o <= s /\ s + 1 <= x) \/ (y <= s /\ s + 1 <= c)
      BY <1>1, <2>4
    <3>2. \A w \in Windows(h) : w[2] \in Nat
      BY <2>1, <2>2
    <3>3. (\E w \in Windows(h) : w[1] <= s /\ s + 1 <= w[2])
          <=> \E w \in Windows(h) : w[1] <= s /\ s < w[2]
      BY <1>1, <3>2
    <3> QED
      BY <1>1, <1>4, <2>1, <2>3, <3>1, <3>3
  <2>6. ASSUME NEW d \in Durations
        PROVE  Contains(h, s, s + d) <=> \A t \in s..(s + d - 1) : OpenAt(h, t)
    <3>1. Contains(h, s, s + d) <=> (o <= s /\ s + d <= x) \/ (y <= s /\ s + d <= c)
      BY <1>1, <2>4 DEF Contains
    <3>2. ASSUME \A t \in s..(s + d - 1) : OpenAt(h, t)
          PROVE  (o <= s /\ s + d <= x) \/ (y <= s /\ s + d <= c)
      <4>1. s \in s..(s + d - 1) /\ s + d - 1 \in s..(s + d - 1)
        BY <1>1
      <4>2. o <= s /\ s + d <= c /\ ~(x <= s /\ s < y)
        BY <1>1, <2>1, <2>3, <3>2, <4>1
      <4>3. CASE y <= s
        BY <4>2, <4>3
      <4>4. CASE s < x
        <5>1. ~(x \in s..(s + d - 1))
          BY <1>4, <2>3, <3>2
        <5> QED
          BY <1>1, <1>4, <4>2, <4>4, <5>1
      <4> QED
        BY <1>1, <1>4, <4>2, <4>3, <4>4
    <3>3. ASSUME (o <= s /\ s + d <= x) \/ (y <= s /\ s + d <= c), NEW t \in s..(s + d - 1)
          PROVE  OpenAt(h, t)
      BY <1>1, <1>4, <2>1, <2>3, <3>3
    <3> QED
      BY <3>1, <3>2, <3>3
  <2> QED
    BY <2>5, <2>6
<1> QED
  BY <1>1, <1>2, <1>3, <1>4, WindowsOfDay

(***************************************************************************)
(* Windows computes the opening hours without the break, of the row that   *)
(* is stored and of every row staff may submit, valid or not, and what     *)
(* fits a window is open from its start to its end.                        *)
(***************************************************************************)
THEOREM HoursCorrect == Spec => []WindowsAreOpenHours
<1>1. TypeOK => WindowsAreOpenHours
  BY HoursStep DEF WindowsAreOpenHours, InputsMatch, WindowsMatch
<1> QED
  BY <1>1, TypeCorrect, PTL

-----------------------------------------------------------------------------
(***************************************************************************)
(* The sweep over the bookings of a day.  It folds the set of events from  *)
(* the last one back, so what it has counted is told by the sets of events *)
(* that are left: each contains, with an event, all that come before it.   *)
(* A smallest such set for which something fails stands for an induction.  *)
(***************************************************************************)

(* A window, and intervals as bookings are. *)
Sweepable(s, t, B) ==
    /\ s \in Nat /\ t \in Nat /\ s < t
    /\ IsFiniteSet(B)
    /\ \A b \in B : b.start \in Nat /\ b.end \in Nat /\ b.start < b.end

(* The intervals that the sweep looks at, and those of instant i. *)
Hit(s, t, B) == {b \in B : Overlaps(b.start, b.end, s, t)}
AtInstant(B, i) == {b \in B : b.start <= i /\ i < b.end}

(* The intervals that have begun and not ended with the events of S. *)
OpenIn(S, s, t, B) == {b \in Hit(s, t, B) : StartEvent(b, s) \in S /\ EndEvent(b, t) \notin S}

(* With an event, S has all events before it. *)
Prefixes(s, t, B) ==
    {S \in SUBSET Events(s, t, B) :
        \A f \in S : \A g \in Events(s, t, B) : EventBefore(g, f) => g \in S}

(* Of some subsets of a finite set, one contains no other. *)
LEMMA SmallestSet ==
    ASSUME NEW D, IsFiniteSet(D), NEW F \in SUBSET SUBSET D, F # {}
    PROVE  \E T \in F : \A U \in F : U \subseteq T => U = T
<1>1. FiniteSubsetsOf(D) = SUBSET D
  BY FS_FiniteSubsetsOfFinite
<1>2. IsWellFoundedOn(StrictSubsetOrdering(D), FiniteSubsetsOf(D))
  BY FS_StrictSubsetOrderingWellFounded
<1>3. PICK T \in F : \A U \in F : ~(<<U, T>> \in StrictSubsetOrdering(D))
  BY <1>1, <1>2, WFMin
<1> QED
  BY <1>3 DEF StrictSubsetOrdering

(* The two events of an interval lie in the window, the start first. *)
LEMMA EventShape ==
    ASSUME NEW s, NEW t, NEW B, Sweepable(s, t, B)
    PROVE  /\ \A b \in Hit(s, t, B) :
                 LET x == StartEvent(b, s)
                     y == EndEvent(b, t)
                 IN  /\ x \in Events(s, t, B) /\ y \in Events(s, t, B)
                     /\ x[1] \in Nat /\ y[1] \in Nat /\ x[2] = 1 /\ y[2] = -1 /\ x[3] = b /\ y[3] = b
                     /\ s <= x[1] /\ x[1] < y[1] /\ y[1] <= t
                     /\ \A i \in s..(t - 1) : /\ x[1] <= i <=> b.start <= i
                                              /\ i < y[1] <=> i < b.end
           /\ \A e \in Events(s, t, B) :
                 \E b \in Hit(s, t, B) : e = StartEvent(b, s) \/ e = EndEvent(b, t)
<1>1. ASSUME NEW b \in Hit(s, t, B)
      PROVE  LET x == StartEvent(b, s)
                 y == EndEvent(b, t)
             IN  /\ x \in Events(s, t, B) /\ y \in Events(s, t, B)
                 /\ x[1] \in Nat /\ y[1] \in Nat /\ x[2] = 1 /\ y[2] = -1 /\ x[3] = b /\ y[3] = b
                 /\ s <= x[1] /\ x[1] < y[1] /\ y[1] <= t
                 /\ \A i \in s..(t - 1) : /\ x[1] <= i <=> b.start <= i
                                          /\ i < y[1] <=> i < b.end
  <2> DEFINE p == Later(b.start, s)
             q == Earlier(b.end, t)
  <2>1. b.start \in Nat /\ b.end \in Nat /\ b.start < b.end /\ b.start < t /\ s < b.end
    BY DEF Sweepable, Hit, Overlaps
  <2>2. s \in Nat /\ t \in Nat /\ s < t
    BY DEF Sweepable
  <2>3. /\ p \in Nat /\ q \in Nat /\ s <= p /\ p < q /\ q <= t
        /\ \A i \in s..(t - 1) : (p <= i <=> b.start <= i) /\ (i < q <=> i < b.end)
    BY <2>1, <2>2 DEF Later, Earlier
  <2>4. StartEvent(b, s) = <<p, 1, b>> /\ EndEvent(b, t) = <<q, -1, b>>
    BY DEF StartEvent, EndEvent
  <2>5. StartEvent(b, s) \in Events(s, t, B) /\ EndEvent(b, t) \in Events(s, t, B)
    BY DEF Events, Hit
  <2> HIDE DEF p, q
  <2> QED
    BY <2>3, <2>4, <2>5
<1>2. \A e \in Events(s, t, B) :
         \E b \in Hit(s, t, B) : e = StartEvent(b, s) \/ e = EndEvent(b, t)
  BY DEF Events, Hit
<1> QED
  BY <1>1, <1>2

(* The events are finitely many. *)
LEMMA EventsFinite ==
    ASSUME NEW s, NEW t, NEW B, Sweepable(s, t, B)
    PROVE  IsFiniteSet(Events(s, t, B))
<1> DEFINE H == Hit(s, t, B)
           X == {StartEvent(b, s) : b \in H}
           Y == {EndEvent(b, t) : b \in H}
           f == [b \in H |-> StartEvent(b, s)]
           g == [b \in H |-> EndEvent(b, t)]
<1>1. IsFiniteSet(H)
  BY FS_Subset DEF Sweepable, Hit
<1>2. f \in Surjection(H, X) /\ g \in Surjection(H, Y)
  BY DEF Surjection
<1>3. IsFiniteSet(X) /\ IsFiniteSet(Y)
  <2> HIDE DEF f, g, X, Y, H
  <2> QED
    BY <1>1, <1>2, FS_Surjection
<1>4. Events(s, t, B) = X \cup Y
  BY DEF Events, Hit
<1> HIDE DEF X, Y
<1> QED
  BY <1>3, <1>4, FS_Union

(* What comes before: never itself, and in a chain. *)
LEMMA BeforeOrder ==
    ASSUME NEW s, NEW t, NEW B, Sweepable(s, t, B),
           NEW e \in Events(s, t, B), NEW f \in Events(s, t, B), NEW g \in Events(s, t, B)
    PROVE  /\ ~EventBefore(e, e)
           /\ EventBefore(e, f) /\ EventBefore(f, g) => EventBefore(e, g)
<1>1. ASSUME NEW x \in Events(s, t, B) PROVE x[1] \in Int /\ x[2] \in Int
  <2>1. PICK b \in Hit(s, t, B) : x = StartEvent(b, s) \/ x = EndEvent(b, t)
    BY EventShape
  <2> QED
    BY <2>1, EventShape
<1> QED
  BY <1>1 DEF EventBefore

(* The event taken as the last is one that no other comes after. *)
LEMMA LastIsLast ==
    ASSUME NEW s, NEW t, NEW B, Sweepable(s, t, B),
           NEW S \in SUBSET Events(s, t, B), S # {}
    PROVE  lastEvent(S) \in S /\ \A f \in S : ~EventBefore(lastEvent(S), f)
<1> DEFINE after(e) == {f \in S : EventBefore(e, f)}
           F == {after(e) : e \in S}
<1>1. F \in SUBSET SUBSET S /\ F # {}
  OBVIOUS
<1>2. IsFiniteSet(S)
  BY EventsFinite, FS_Subset
<1>3. PICK T \in F : \A U \in F : U \subseteq T => U = T
  <2> HIDE DEF F
  <2> QED
    BY <1>1, <1>2, SmallestSet
<1>4. PICK e \in S : T = after(e)
  OBVIOUS
<1>5. ASSUME NEW f \in S, EventBefore(e, f) PROVE FALSE
  <2>1. after(f) \subseteq after(e)
    BY <1>5, BeforeOrder
  <2>2. f \in after(e) /\ f \notin after(f)
    BY <1>5, BeforeOrder
  <2> QED
    BY <1>3, <1>4, <2>1, <2>2
<1> QED
  BY <1>5 DEF lastEvent

(***************************************************************************)
(* The fold of maxOverlap, as a function on the sets of events left.       *)
(***************************************************************************)
Tally == [occupied : Int, most : Int]
NoTally == [occupied |-> 0, most |-> 0]
Counted(e, acc) == [occupied |-> acc.occupied + e[2], most |-> Later(acc.most, acc.occupied + e[2])]

(* g folds the sets of F, the last event on top. *)
IsFold(g, F) ==
    \A S \in F : g[S] = IF S = {} THEN NoTally
                        ELSE Counted(lastEvent(S), g[S \ {lastEvent(S)}])

(* Sets of events that are small enough. *)
UpTo(D, n) == {S \in SUBSET D : Cardinality(S) <= n}

(* Events of which each nonempty set has a last one. *)
Foldable(D) ==
    /\ IsFiniteSet(D)
    /\ \A e \in D : e[2] \in Int
    /\ \A S \in SUBSET D : S # {} => lastEvent(S) \in S

(* One more event keeps a tally a tally. *)
LEMMA CountedType ==
    ASSUME NEW e, e[2] \in Int, NEW acc \in Tally
    PROVE  Counted(e, acc) \in Tally
  BY DEF Counted, Tally, Later

(* There is such a g for the sets of up to n events. *)
LEMMA FoldUpTo ==
    ASSUME NEW D, Foldable(D), NEW n \in Nat
    PROVE  \E g \in [UpTo(D, n) -> Tally] : IsFold(g, UpTo(D, n))
<1> DEFINE Good(m) == \E g \in [UpTo(D, m) -> Tally] : IsFold(g, UpTo(D, m))
           Bad == {m \in Nat : ~Good(m)}
<1>1. Good(0)
  <2> DEFINE g == [S \in UpTo(D, 0) |-> NoTally]
  <2>1. \A S \in UpTo(D, 0) : S = {}
    BY FS_EmptySet, FS_Subset, FS_CardinalityType DEF UpTo, Foldable
  <2>2. g \in [UpTo(D, 0) -> Tally] /\ IsFold(g, UpTo(D, 0))
    BY <2>1 DEF IsFold, Tally, NoTally
  <2> QED
    BY <2>2
<1>2. ASSUME NEW m \in Nat, Good(m) PROVE Good(m + 1)
  <2>1. PICK g \in [UpTo(D, m) -> Tally] : IsFold(g, UpTo(D, m))
    BY <1>2
  <2>2. ASSUME NEW S \in UpTo(D, m + 1), S # {}
        PROVE  /\ lastEvent(S) \in D /\ S \ {lastEvent(S)} \in UpTo(D, m)
               /\ Counted(lastEvent(S), g[S \ {lastEvent(S)}]) \in Tally
    <3>1. S \in SUBSET D /\ IsFiniteSet(S) /\ Cardinality(S) \in Nat /\ Cardinality(S) <= m + 1
      BY FS_Subset, FS_CardinalityType DEF UpTo, Foldable
    <3>2. lastEvent(S) \in S
      BY <2>2, <3>1 DEF Foldable
    <3>3. Cardinality(S \ {lastEvent(S)}) = Cardinality(S) - 1
      BY <3>1, <3>2, FS_RemoveElement
    <3>4. lastEvent(S) \in D /\ S \ {lastEvent(S)} \in UpTo(D, m)
      BY <3>1, <3>2, <3>3 DEF UpTo
    <3>5. g[S \ {lastEvent(S)}] \in Tally /\ lastEvent(S)[2] \in Int
      BY <2>1, <3>4 DEF Foldable
    <3> QED
      BY <3>4, <3>5, CountedType
  <2> DEFINE h == [S \in UpTo(D, m + 1) |->
                      IF S = {} THEN NoTally ELSE Counted(lastEvent(S), g[S \ {lastEvent(S)}])]
  <2>3. h \in [UpTo(D, m + 1) -> Tally]
    <3>1. NoTally \in Tally
      BY DEF NoTally, Tally
    <3> QED
      BY <2>2, <3>1
  <2>4. UpTo(D, m) \subseteq UpTo(D, m + 1)
    BY FS_Subset, FS_CardinalityType DEF UpTo, Foldable
  <2>5. ASSUME NEW S \in UpTo(D, m) PROVE h[S] = g[S]
    BY <2>1, <2>4 DEF IsFold
  <2>6. IsFold(h, UpTo(D, m + 1))
    BY <2>2, <2>5 DEF IsFold
  <2> QED
    BY <2>3, <2>6
<1> HIDE DEF Good
<1>3. Bad = {}
  <2> SUFFICES ASSUME Bad # {} PROVE FALSE
    OBVIOUS
  <2> DEFINE R == {ss \in Nat \X Nat : ss[1] < ss[2]}
  <2>1. IsWellFoundedOn(R, Nat)
    BY NatLessThanWellFounded DEF OpToRel
  <2>2. PICK m \in Bad : \A k \in Bad : ~(<<k, m>> \in R)
    BY <2>1, WFMin
  <2>3. m # 0
    BY <1>1
  <2>4. m \in Nat /\ m - 1 \in Nat /\ m - 1 < m
    BY <2>3
  <2>5. m - 1 \notin Bad
    <3>1. <<m - 1, m>> \in R
      BY <2>4
    <3> QED
      BY <2>2, <3>1
  <2> QED
    BY <1>2, <2>4, <2>5
<1> QED
  BY <1>3 DEF Good

(***************************************************************************)
(* maxOverlap has one: how many intervals are open after the events of a   *)
(* set, and the most of it so far, both 0 at first and counted event by    *)
(* event; what it returns is the most after all of them.                   *)
(***************************************************************************)
LEMMA SweepFolds ==
    ASSUME NEW s, NEW t, NEW B, Sweepable(s, t, B)
    PROVE  \E g \in [SUBSET Events(s, t, B) -> Tally] :
              /\ IsFold(g, SUBSET Events(s, t, B))
              /\ maxOverlap(s, t, B) = g[Events(s, t, B)].most
<1> DEFINE D == Events(s, t, B)
<1>1. Foldable(D)
  <2>1. ASSUME NEW e \in D PROVE e[2] \in Int
    <3>1. PICK b \in Hit(s, t, B) : e = StartEvent(b, s) \/ e = EndEvent(b, t)
      BY EventShape
    <3> QED
      BY <3>1, EventShape
  <2> QED
    BY <2>1, EventsFinite, LastIsLast DEF Foldable
<1>2. UpTo(D, Cardinality(D)) = SUBSET D /\ Cardinality(D) \in Nat
  <2> HIDE DEF D
  <2> QED
    BY <1>1, FS_Subset, FS_CardinalityType DEF UpTo, Foldable
<1>3. PICK h \in [SUBSET D -> Tally] : IsFold(h, SUBSET D)
  <2>1. \E h \in [UpTo(D, Cardinality(D)) -> Tally] : IsFold(h, UpTo(D, Cardinality(D)))
    BY <1>1, <1>2, FoldUpTo
  <2> QED
    BY ONLY <1>2, <2>1
<1> DEFINE Rec(r) == r = [S \in SUBSET D |-> IF S = {} THEN NoTally
                                            ELSE Counted(lastEvent(S), r[S \ {lastEvent(S)}])]
           g == CHOOSE r : Rec(r)
<1>4. Rec(h)
  BY <1>3 DEF IsFold
<1>5. Rec(g)
  BY <1>4
<1>6. maxOverlap(s, t, B) = g[D].most
  BY DEF maxOverlap, MapThenFoldSet, Counted, NoTally
<1> HIDE DEF g
<1>7. \A S \in SUBSET D : g[S] = IF S = {} THEN NoTally
                                 ELSE Counted(lastEvent(S), g[S \ {lastEvent(S)}])
  BY <1>5
<1> DEFINE Bad == {S \in SUBSET D : g[S] \notin Tally}
<1>8. Bad = {}
  <2> SUFFICES ASSUME Bad # {} PROVE FALSE
    OBVIOUS
  <2>1. PICK S \in Bad : \A U \in Bad : U \subseteq S => U = S
    <3>1. Bad \in SUBSET SUBSET D
      OBVIOUS
    <3>2. IsFiniteSet(D)
      BY <1>1 DEF Foldable
    <3> HIDE DEF Bad, D
    <3> QED
      BY <3>1, <3>2, SmallestSet
  <2>2. S \in SUBSET D /\ g[S] \notin Tally
    OBVIOUS
  <2>3. S # {}
    <3>1. g[{}] = NoTally
      BY <1>7
    <3>2. NoTally \in Tally
      BY DEF NoTally, Tally
    <3> QED
      BY <2>2, <3>1, <3>2
  <2>4. lastEvent(S) \in S /\ lastEvent(S)[2] \in Int
    BY <1>1, <2>2, <2>3 DEF Foldable
  <2>5. g[S \ {lastEvent(S)}] \in Tally
    BY <2>1, <2>4
  <2>6. Counted(lastEvent(S), g[S \ {lastEvent(S)}]) \in Tally
    BY <2>4, <2>5, CountedType
  <2> QED
    BY <1>7, <2>2, <2>3, <2>6
<1>9. g \in [SUBSET D -> Tally]
  BY <1>5, <1>8
<1> QED
  BY <1>6, <1>7, <1>9 DEF IsFold

-----------------------------------------------------------------------------
(* What the sweep has counted *)

(* Without its last event a prefix is one, and so is all. *)
LEMMA PrefixShape ==
    ASSUME NEW s, NEW t, NEW B, Sweepable(s, t, B)
    PROVE  /\ Events(s, t, B) \in Prefixes(s, t, B)
           /\ \A S \in Prefixes(s, t, B) :
                 S # {} => S \ {lastEvent(S)} \in Prefixes(s, t, B)
<1>1. ASSUME NEW S \in Prefixes(s, t, B), S # {}
      PROVE  S \ {lastEvent(S)} \in Prefixes(s, t, B)
  <2> DEFINE x == lastEvent(S)
  <2>1. S \in SUBSET Events(s, t, B)
    BY DEF Prefixes
  <2>2. x \in S /\ \A f \in S : ~EventBefore(x, f)
    BY <1>1, <2>1, LastIsLast
  <2> HIDE DEF x
  <2>3. ASSUME NEW f \in S \ {x}, NEW g \in Events(s, t, B), EventBefore(g, f)
        PROVE  g \in S \ {x}
    BY <2>2, <2>3 DEF Prefixes
  <2> QED
    BY <2>1, <2>3 DEF Prefixes, x
<1> QED
  BY <1>1 DEF Prefixes

(* A start opens its interval, an end closes it. *)
LEMMA OpenStep ==
    ASSUME NEW s, NEW t, NEW B, Sweepable(s, t, B),
           NEW S \in Prefixes(s, t, B), S # {},
           NEW b \in Hit(s, t, B)
    PROVE  LET x == lastEvent(S)
               now == OpenIn(S, s, t, B)
               was == OpenIn(S \ {x}, s, t, B)
           IN  /\ x = StartEvent(b, s) => now = was \cup {b} /\ b \notin was
               /\ x = EndEvent(b, t) => now = was \ {b} /\ b \in was
<1> DEFINE x == lastEvent(S)
           now == OpenIn(S, s, t, B)
           was == OpenIn(S \ {x}, s, t, B)
<1>1. S \in SUBSET Events(s, t, B)
  BY DEF Prefixes
<1>2. x \in S /\ \A f \in S : ~EventBefore(x, f)
  BY <1>1, LastIsLast
<1> HIDE DEF x
<1>3. ASSUME NEW c \in Hit(s, t, B)
      PROVE  /\ StartEvent(c, s) # EndEvent(b, t) /\ EndEvent(c, t) # StartEvent(b, s)
             /\ StartEvent(c, s) = StartEvent(b, s) => c = b
             /\ EndEvent(c, t) = EndEvent(b, t) => c = b
  BY EventShape
<1>4. EventBefore(StartEvent(b, s), EndEvent(b, t))
  BY EventShape DEF EventBefore
<1>5. StartEvent(b, s) \in Events(s, t, B)
  BY EventShape
<1>6. CASE x = StartEvent(b, s)
  <2>1. EndEvent(b, t) \notin S
    BY <1>2, <1>4, <1>6
  <2>2. ASSUME NEW c PROVE c \in now <=> c \in was \cup {b}
    BY <1>2, <1>3, <1>6, <2>1 DEF OpenIn
  <2>3. b \notin was
    BY <1>6 DEF OpenIn
  <2>4. x # EndEvent(b, t)
    BY <1>3, <1>6
  <2> QED
    BY <2>2, <2>3, <2>4 DEF x
<1>7. CASE x = EndEvent(b, t)
  <2>1. StartEvent(b, s) \in S
    BY <1>2, <1>4, <1>5, <1>7 DEF Prefixes
  <2>2. ASSUME NEW c PROVE c \in now <=> c \in was \ {b}
    BY <1>2, <1>3, <1>7, <2>1 DEF OpenIn
  <2>3. b \in was
    BY <1>3, <1>7, <2>1 DEF OpenIn
  <2>4. x # StartEvent(b, s)
    BY <1>3, <1>7
  <2> QED
    BY <2>2, <2>3, <2>4 DEF x
<1> QED
  BY <1>6, <1>7 DEF x

(***************************************************************************)
(* The running sum of the sweep, over the events of a prefix, is the       *)
(* number of intervals that are open after them.                           *)
(***************************************************************************)
LEMMA OccupiedIsOpen ==
    ASSUME NEW s, NEW t, NEW B, Sweepable(s, t, B),
           NEW g \in [SUBSET Events(s, t, B) -> Tally], IsFold(g, SUBSET Events(s, t, B))
    PROVE  \A S \in Prefixes(s, t, B) : g[S].occupied = Cardinality(OpenIn(S, s, t, B))
<1> DEFINE D == Events(s, t, B)
           Bad == {S \in Prefixes(s, t, B) : g[S].occupied # Cardinality(OpenIn(S, s, t, B))}
<1> SUFFICES ASSUME Bad # {} PROVE FALSE
  OBVIOUS
<1>1. PICK S \in Bad : \A U \in Bad : U \subseteq S => U = S
  <2>1. Bad \in SUBSET SUBSET D
    BY DEF Prefixes
  <2>2. IsFiniteSet(D)
    BY EventsFinite
  <2> HIDE DEF Bad, D
  <2> QED
    BY <2>1, <2>2, SmallestSet
<1>2. S \in Prefixes(s, t, B) /\ S \in SUBSET D
  BY DEF Prefixes
<1>3. CASE S = {}
  <2>1. OpenIn(S, s, t, B) = {}
    BY <1>3 DEF OpenIn
  <2>2. g[S] = NoTally
    BY <1>2, <1>3 DEF IsFold
  <2>3. g[S].occupied = 0
    BY <2>2 DEF NoTally
  <2>4. Cardinality({}) = 0
    BY FS_EmptySet
  <2> QED
    BY <2>1, <2>3, <2>4
<1>4. CASE S # {}
  <2> DEFINE x == lastEvent(S)
             now == OpenIn(S, s, t, B)
             was == OpenIn(S \ {x}, s, t, B)
  <2>1. x \in S /\ S \ {x} \in Prefixes(s, t, B)
    BY <1>2, <1>4, LastIsLast, PrefixShape
  <2>2. g[S \ {x}].occupied = Cardinality(was)
    BY <1>1, <2>1
  <2>3. g[S] = Counted(x, g[S \ {x}])
    BY <1>2, <1>4 DEF IsFold
  <2>4. g[S].occupied = Cardinality(was) + x[2]
    BY <2>2, <2>3 DEF Counted
  <2>5. PICK b \in Hit(s, t, B) : x = StartEvent(b, s) \/ x = EndEvent(b, t)
    BY <1>2, <2>1, EventShape
  <2>6. /\ x = StartEvent(b, s) => now = was \cup {b} /\ b \notin was /\ x[2] = 1
        /\ x = EndEvent(b, t) => now = was \ {b} /\ b \in was /\ x[2] = -1
    <3>1. x = StartEvent(b, s) => x[2] = 1
      BY <2>5, EventShape
    <3>2. x = EndEvent(b, t) => x[2] = -1
      BY <2>5, EventShape
    <3>3. /\ x = StartEvent(b, s) => now = was \cup {b} /\ b \notin was
          /\ x = EndEvent(b, t) => now = was \ {b} /\ b \in was
      BY <1>2, <1>4, <2>5, OpenStep
    <3> QED
      BY <3>1, <3>2, <3>3
  <2>7. IsFiniteSet(was)
    BY FS_Subset DEF OpenIn, Hit, Sweepable
  <2> HIDE DEF x, now, was
  <2>8. Cardinality(was) \in Nat
    BY <2>7, FS_CardinalityType
  <2>9. Cardinality(now) = Cardinality(was) + x[2]
    <3>1. CASE x = StartEvent(b, s)
      BY <2>6, <2>7, <2>8, <3>1, FS_AddElement
    <3>2. CASE x = EndEvent(b, t)
      <4>1. Cardinality(now) = Cardinality(was) - 1
        BY <2>6, <2>7, <3>2, FS_RemoveElement
      <4> QED
        BY <2>6, <2>8, <3>2, <4>1
    <3> QED
      BY <2>5, <3>1, <3>2
  <2>10. g[S].occupied = Cardinality(now)
    BY <2>4, <2>9
  <2> QED
    BY <1>1, <2>10 DEF now
<1> QED
  BY <1>3, <1>4

(***************************************************************************)
(* The most of a prefix is never less than what the last event left, nor   *)
(* than the most before it, and is one of the two.                         *)
(***************************************************************************)
LEMMA MostStep ==
    ASSUME NEW s, NEW t, NEW B, Sweepable(s, t, B),
           NEW g \in [SUBSET Events(s, t, B) -> Tally], IsFold(g, SUBSET Events(s, t, B)),
           NEW S \in Prefixes(s, t, B), S # {}
    PROVE  /\ lastEvent(S) \in S /\ S \ {lastEvent(S)} \in Prefixes(s, t, B)
           /\ g[S].most \in Int /\ g[S].occupied \in Int
           /\ g[S \ {lastEvent(S)}].most \in Int
           /\ g[S \ {lastEvent(S)}].most <= g[S].most
           /\ g[S].occupied <= g[S].most
           /\ g[S].most = g[S \ {lastEvent(S)}].most \/ g[S].most = g[S].occupied
<1> DEFINE x == lastEvent(S)
           acc == g[S \ {x}]
<1>1. S \in SUBSET Events(s, t, B)
  BY DEF Prefixes
<1>2. x \in S /\ S \ {x} \in Prefixes(s, t, B)
  BY <1>1, LastIsLast, PrefixShape
<1>3. g[S] = Counted(x, acc)
  BY <1>1 DEF IsFold
<1>4. acc \in Tally /\ g[S] \in Tally
  BY <1>1
<1>5. acc.most \in Int /\ g[S].most \in Int /\ g[S].occupied \in Int
  BY <1>4 DEF Tally
<1>6. g[S].most = Later(acc.most, g[S].occupied)
  BY <1>3 DEF Counted
<1> HIDE DEF acc
<1>7. /\ acc.most <= g[S].most /\ g[S].occupied <= g[S].most
      /\ g[S].most = acc.most \/ g[S].most = g[S].occupied
  BY <1>5, <1>6 DEF Later
<1> QED
  BY <1>2, <1>5, <1>7 DEF acc

(* How many intervals an instant has. *)
CountAt(B, i) == Cardinality(AtInstant(B, i))

(* A number, for every instant. *)
LEMMA CountType ==
    ASSUME NEW s, NEW t, NEW B, Sweepable(s, t, B), NEW i
    PROVE  IsFiniteSet(AtInstant(B, i)) /\ CountAt(B, i) \in Nat
<1>1. IsFiniteSet(AtInstant(B, i))
  BY FS_Subset DEF AtInstant, Sweepable
<1> QED
  BY <1>1, FS_CardinalityType DEF CountAt

(* What is open after a start shares the instant of that start. *)
LEMMA OpenTogether ==
    ASSUME NEW s, NEW t, NEW B, Sweepable(s, t, B),
           NEW S \in Prefixes(s, t, B), S # {},
           NEW b \in Hit(s, t, B), lastEvent(S) = StartEvent(b, s)
    PROVE  \E i \in s..(t - 1) : Cardinality(OpenIn(S, s, t, B)) <= CountAt(B, i)
<1> DEFINE x == StartEvent(b, s)
           i == x[1]
<1>1. S \in SUBSET Events(s, t, B)
  BY DEF Prefixes
<1>2. x \in S /\ \A f \in S : ~EventBefore(x, f)
  BY <1>1, LastIsLast
<1>3. s \in Nat /\ t \in Nat
  BY DEF Sweepable
<1>4. i \in Nat /\ x[2] = 1 /\ s <= i /\ i < EndEvent(b, t)[1] /\ EndEvent(b, t)[1] <= t /\ EndEvent(b, t)[1] \in Nat
  BY EventShape
<1> HIDE DEF x
<1>5. i \in s..(t - 1)
  BY <1>3, <1>4
<1>6. ASSUME NEW c \in OpenIn(S, s, t, B) PROVE c \in AtInstant(B, i)
  <2> DEFINE y == StartEvent(c, s)
             z == EndEvent(c, t)
  <2>1. c \in Hit(s, t, B) /\ c \in B /\ y \in S /\ z \notin S
    BY DEF OpenIn, Hit
  <2>2. y[1] \in Nat /\ y[2] = 1 /\ z[1] \in Nat /\ z[2] = -1 /\ z \in Events(s, t, B)
    BY <2>1, EventShape
  <2>3. (y[1] <= i <=> c.start <= i) /\ (i < z[1] <=> i < c.end)
    BY <1>5, <2>1, EventShape
  <2>4. ~EventBefore(x, y) /\ ~EventBefore(z, x)
    BY <1>2, <2>1, <2>2 DEF Prefixes
  <2> HIDE DEF y, z
  <2>5. y[1] <= i /\ i < z[1]
    BY <1>4, <2>2, <2>4 DEF EventBefore
  <2> QED
    BY <2>1, <2>3, <2>5 DEF AtInstant
<1>7. Cardinality(OpenIn(S, s, t, B)) <= CountAt(B, i)
  <2>1. IsFiniteSet(AtInstant(B, i))
    BY CountType
  <2> HIDE DEF i
  <2> QED
    BY <1>6, <2>1, FS_Subset DEF CountAt
<1> QED
  BY <1>5, <1>7

(***************************************************************************)
(* The most of the sweep is no more than some instant really has: it only  *)
(* grows at a start, and then by an instant where all that is open meets.  *)
(***************************************************************************)
LEMMA SweepAtMost ==
    ASSUME NEW s, NEW t, NEW B, Sweepable(s, t, B),
           NEW g \in [SUBSET Events(s, t, B) -> Tally], IsFold(g, SUBSET Events(s, t, B))
    PROVE  \A S \in Prefixes(s, t, B) : \E i \in s..(t - 1) : g[S].most <= CountAt(B, i)
<1> DEFINE D == Events(s, t, B)
           Some(S) == \E i \in s..(t - 1) : g[S].most <= CountAt(B, i)
           Bad == {S \in Prefixes(s, t, B) : ~Some(S)}
<1> SUFFICES ASSUME Bad # {} PROVE FALSE
  OBVIOUS
<1>1. PICK S \in Bad : \A U \in Bad : U \subseteq S => U = S
  <2>1. Bad \in SUBSET SUBSET D
    BY DEF Prefixes
  <2>2. IsFiniteSet(D)
    BY EventsFinite
  <2> HIDE DEF Bad, D
  <2> QED
    BY <2>1, <2>2, SmallestSet
<1>2. S \in Prefixes(s, t, B) /\ S \in SUBSET D /\ ~Some(S)
  BY DEF Prefixes
<1>3. CASE S = {}
  <2>1. g[S] = NoTally
    BY <1>2, <1>3 DEF IsFold
  <2>2. g[S].most = 0
    BY <2>1 DEF NoTally
  <2>3. s \in s..(t - 1) /\ CountAt(B, s) \in Nat
    BY CountType DEF Sweepable
  <2> QED
    BY <1>2, <2>2, <2>3
<1>4. CASE S # {}
  <2> DEFINE x == lastEvent(S)
             U == S \ {x}
  <2>1. /\ x \in S /\ U \in Prefixes(s, t, B)
        /\ g[S].most \in Int /\ g[S].occupied \in Int /\ g[U].most \in Int
        /\ g[U].most <= g[S].most
    BY <1>2, <1>4, MostStep
  <2>0. g[S].most = g[U].most \/ g[S].most = g[S].occupied
    BY <1>2, <1>4, MostStep
  <2>2. Some(U)
    BY <1>1, <2>1
  <2>3. CASE g[S].most = g[U].most
    BY <1>2, <2>2, <2>3
  <2>4. CASE g[S].most # g[U].most
    <3>1. g[S].most = g[S].occupied /\ g[U].most < g[S].occupied
      BY <2>0, <2>1, <2>4
    <3>2. PICK b \in Hit(s, t, B) : x = StartEvent(b, s) \/ x = EndEvent(b, t)
      BY <1>2, <2>1, EventShape
    <3>3. CASE x = StartEvent(b, s)
      <4>1. \E i \in s..(t - 1) : Cardinality(OpenIn(S, s, t, B)) <= CountAt(B, i)
        BY <1>2, <1>4, <3>3, OpenTogether
      <4>2. g[S].most = Cardinality(OpenIn(S, s, t, B))
        BY <1>2, <3>1, OccupiedIsOpen
      <4> QED
        BY <1>2, <4>1, <4>2
    <3>4. CASE x = EndEvent(b, t)
      <4>1. g[S].occupied = g[U].occupied + x[2]
        <5>1. g[S] = Counted(x, g[U])
          BY <1>2, <1>4 DEF IsFold
        <5> HIDE DEF x, U
        <5> QED
          BY <5>1 DEF Counted
      <4>3. x[2] = -1
        BY <3>4, EventShape
      <4>2. g[U].occupied \in Int /\ g[U].occupied <= g[U].most
        <5>1. CASE U = {}
          <6>1. g[U] = NoTally
            BY <5>1 DEF IsFold
          <6> QED
            BY <6>1 DEF NoTally
        <5>2. CASE U # {}
          BY <2>1, <5>2, MostStep
        <5> QED
          BY <5>1, <5>2
      <4> QED
        BY <2>1, <3>1, <4>1, <4>2, <4>3
    <3> QED
      BY <3>2, <3>3, <3>4
  <2> QED
    BY <2>3, <2>4
<1> QED
  BY <1>3, <1>4

(***************************************************************************)
(* And no less than any instant has: all that is there is open after the   *)
(* events up to the instant, and what comes later takes nothing back.      *)
(***************************************************************************)
LEMMA SweepAtLeast ==
    ASSUME NEW s, NEW t, NEW B, Sweepable(s, t, B),
           NEW g \in [SUBSET Events(s, t, B) -> Tally], IsFold(g, SUBSET Events(s, t, B)),
           NEW i \in s..(t - 1)
    PROVE  CountAt(B, i) <= g[Events(s, t, B)].most
<1> DEFINE D == Events(s, t, B)
           I == {e \in D : e[1] <= i}
           Bad == {S \in Prefixes(s, t, B) : I \subseteq S /\ ~(CountAt(B, i) <= g[S].most)}
<1>1. \A e \in D : e[1] \in Nat /\ e[2] \in Int
  <2> SUFFICES ASSUME NEW e \in D PROVE e[1] \in Nat /\ e[2] \in Int
    OBVIOUS
  <2>1. PICK b \in Hit(s, t, B) : e = StartEvent(b, s) \/ e = EndEvent(b, t)
    BY EventShape
  <2> QED
    BY <2>1, EventShape
<1>2. i \in Nat /\ s <= i /\ i < t
  BY DEF Sweepable
<1>3. I \in Prefixes(s, t, B)
  BY <1>1, <1>2 DEF Prefixes, EventBefore
<1>4. AtInstant(B, i) \subseteq OpenIn(I, s, t, B)
  <2> SUFFICES ASSUME NEW b \in AtInstant(B, i) PROVE b \in OpenIn(I, s, t, B)
    OBVIOUS
  <2>1. b \in B /\ b.start <= i /\ i < b.end /\ b.start \in Nat /\ b.end \in Nat /\ s \in Nat /\ t \in Nat
    BY DEF AtInstant, Sweepable
  <2>2. b \in Hit(s, t, B)
    BY <1>2, <2>1 DEF Hit, Overlaps
  <2>3. /\ StartEvent(b, s) \in D /\ EndEvent(b, t) \in D
        /\ StartEvent(b, s)[1] <= i /\ i < EndEvent(b, t)[1] /\ EndEvent(b, t)[1] \in Nat
    BY <2>1, <2>2, EventShape
  <2>4. StartEvent(b, s) \in I /\ EndEvent(b, t) \notin I
    BY <1>2, <2>3
  <2> QED
    BY <2>2, <2>4 DEF OpenIn
<1>5. CountAt(B, i) <= g[I].occupied /\ CountAt(B, i) \in Nat
  <2>1. IsFiniteSet(OpenIn(I, s, t, B))
    BY FS_Subset DEF OpenIn, Hit, Sweepable
  <2>2. Cardinality(AtInstant(B, i)) <= Cardinality(OpenIn(I, s, t, B))
    BY <1>4, <2>1, FS_Subset
  <2> QED
    BY <1>3, <2>2, OccupiedIsOpen, CountType DEF CountAt
<1>6. g[I].occupied \in Int /\ g[I].most \in Int /\ g[I].occupied <= g[I].most
  <2>1. CASE I = {}
    <3>1. g[I] = NoTally
      BY <2>1 DEF IsFold
    <3> QED
      BY <3>1 DEF NoTally
  <2>2. CASE I # {}
    BY <1>3, <2>2, MostStep
  <2> QED
    BY <2>1, <2>2
<1>7. I \notin Bad
  BY <1>5, <1>6
<1>8. Bad = {}
  <2> SUFFICES ASSUME Bad # {} PROVE FALSE
    OBVIOUS
  <2>1. PICK S \in Bad : \A U \in Bad : U \subseteq S => U = S
    <3>1. Bad \in SUBSET SUBSET D
      BY DEF Prefixes
    <3>2. IsFiniteSet(D)
      BY EventsFinite
    <3> HIDE DEF Bad, D
    <3> QED
      BY <3>1, <3>2, SmallestSet
  <2>2. S \in Prefixes(s, t, B) /\ S \in SUBSET D /\ I \subseteq S /\ S # I
    BY <1>7 DEF Prefixes
  <2>3. PICK f \in S : f[1] \in Nat /\ i < f[1]
    BY <1>1, <1>2, <2>2
  <2> DEFINE x == lastEvent(S)
             U == S \ {x}
  <2>4. /\ x \in S /\ U \in Prefixes(s, t, B)
        /\ g[S].most \in Int /\ g[U].most \in Int /\ g[U].most <= g[S].most
    BY <2>2, <2>3, MostStep
  <2>5. ~EventBefore(x, f)
    BY <2>2, <2>3, LastIsLast
  <2>6. x \notin I
    <3>1. x[1] \in Nat
      BY <1>1, <2>2, <2>4
    <3> HIDE DEF x
    <3> QED
      BY <1>2, <2>3, <2>5, <3>1 DEF EventBefore
  <2>7. I \subseteq U /\ U \notin Bad
    BY <2>1, <2>2, <2>4, <2>6
  <2>8. CountAt(B, i) <= g[U].most
    BY <2>4, <2>7
  <2> HIDE DEF U, x
  <2>9. CountAt(B, i) <= g[S].most
    BY <1>5, <2>4, <2>8
  <2> QED
    BY <2>9
<1> QED
  BY <1>2, <1>8, PrefixShape

(* What maxOverlap returns: the count of the instant that has the most. *)
LEMMA MaxOverlapIsMost ==
    ASSUME NEW s, NEW t, NEW B, Sweepable(s, t, B)
    PROVE  /\ maxOverlap(s, t, B) = MostAtOnce(s, t, B)
           /\ \E i \in s..(t - 1) : maxOverlap(s, t, B) = CountAt(B, i)
<1> DEFINE D == Events(s, t, B)
           C == {CountAt(B, i) : i \in s..(t - 1)}
           m == maxOverlap(s, t, B)
<1>1. PICK g \in [SUBSET D -> Tally] : IsFold(g, SUBSET D) /\ m = g[D].most
  BY SweepFolds
<1>2. D \in Prefixes(s, t, B)
  BY PrefixShape
<1>3. PICK i \in s..(t - 1) : m <= CountAt(B, i)
  BY <1>1, <1>2, SweepAtMost
<1>4. \A j \in s..(t - 1) : CountAt(B, j) <= m
  BY <1>1, SweepAtLeast
<1>5. m \in Int
  BY <1>1 DEF Tally
<1> HIDE DEF m
<1>6. \A j \in s..(t - 1) : CountAt(B, j) \in Nat
  BY CountType
<1>7. m = CountAt(B, i)
  BY <1>3, <1>4, <1>5, <1>6
<1>8. m \in C /\ \A c \in C : c \in Nat /\ m >= c
  BY <1>4, <1>5, <1>6, <1>7
<1>9. MostAtOnce(s, t, B) = Max(C)
  BY DEF MostAtOnce, CountAt, AtInstant
<1>10. Max(C) = m
  <2> HIDE DEF C
  <2>1. \A c \in C : (\A d \in C : c >= d) => c = m
    BY <1>5, <1>8
  <2> QED
    BY <1>8, <2>1 DEF Max
<1> QED
  BY <1>7, <1>9, <1>10 DEF m

(* The bookings of a day are finitely many, and each has a length. *)
HeldOK == IsFiniteSet(busy) /\ \A b \in busy : b.start < b.end

(* A plan has a length, and an insert adds at most one. *)
LEMMA NextHeldOK == IInv /\ HeldOK /\ [Next]_vars => HeldOK'
<1> SUFFICES ASSUME IInv, HeldOK, [Next]_vars PROVE HeldOK'
  OBVIOUS
<1>1. ASSUME NEW r \in Reqs, insertLocked(r) PROVE HeldOK'
  <2>1. PICK p \in plans[r] :
            busy' = busy \/ busy' = busy \cup {[box |-> p.box, start |-> p.start, end |-> p.end]}
    BY <1>1 DEF insertLocked
  <2>2. p.start < p.end
    BY DEF IInv, PlansOK
  <2>3. PICK q : q = [box |-> p.box, start |-> p.start, end |-> p.end]
    OBVIOUS
  <2>4. q.start < q.end
    BY <2>2, <2>3
  <2>5. IsFiniteSet(busy \cup {q})
    BY FS_AddElement DEF HeldOK
  <2> QED
    BY <2>1, <2>3, <2>4, <2>5 DEF HeldOK
<1>2. ASSUME NEW b \in busy, Release(b) PROVE HeldOK'
  <2>1. busy' = busy \ {b}
    BY <1>2 DEF Release
  <2>2. IsFiniteSet(busy \ {b})
    BY FS_Subset DEF HeldOK
  <2> QED
    BY <2>1, <2>2 DEF HeldOK
<1>3. CASE busy' = busy
  BY <1>3 DEF HeldOK
<1>4. CASE UNCHANGED vars
  BY <1>3, <1>4 DEF vars
<1> QED
  BY <1>1, <1>2, <1>3, <1>4 DEF Next, CreateBooking, Replace, BoxCreate, BoxUpdate, BoxDelete, SetBoxesCount

(* A slot with a free box is never full: the bookings of an instant are in boxes of their own. *)
LEMMA NeverHidden ==
    ASSUME IInv, HeldOK, NEW w \in Windows(hours), NEW d \in Durations,
           NEW slot \in ComputeAvailableSlotsWithBoxes(w, MaxBoxes, d, busy)
    PROVE  slot.start \in ComputeAvailableSlots(w, MaxBoxes, d, busy)
<1> DEFINE s == slot.start
           t == slot.start + d
<1>1. s \in Starts(w, d) /\ freeBoxes(s, t, MaxBoxes, busy) # {}
  BY SlotsOfWindow
<1>2. PICK n \in Numbers : ~ \E b \in busy : b.box = n /\ Overlaps(b.start, b.end, s, t)
  BY <1>1 DEF freeBoxes, Numbers
<1>3. w[1] \in Nat /\ w[2] \in Nat
  BY HoursShape, WindowShape DEF IInv
<1>4. d \in Nat /\ d # 0
  BY DayAssumption
<1>5. s \in Nat
  BY <1>1, <1>3 DEF Starts
<1>6. Sweepable(s, t, busy)
  <2>1. s \in Nat /\ t \in Nat /\ s < t
    BY <1>4, <1>5
  <2>2. \A b \in busy : b.start \in Nat /\ b.end \in Nat
    BY DayAssumption DEF IInv, TypeOK, Interval
  <2> QED
    BY <2>1, <2>2 DEF Sweepable, HeldOK
<1>7. PICK i \in s..(t - 1) : maxOverlap(s, t, busy) = CountAt(busy, i)
  BY <1>6, MaxOverlapIsMost
<1> DEFINE A == AtInstant(busy, i)
           rest == Numbers \ {n}
           box == [b \in A |-> b.box]
<1>8. i \in Int /\ s <= i /\ i < t
  BY <1>6, <1>7 DEF Sweepable
<1>9. ASSUME NEW b \in A PROVE b.box \in rest
  <2>1. /\ b \in busy /\ b.start <= i /\ i < b.end
        /\ b.start \in Int /\ b.end \in Int /\ b.box \in Numbers
    BY <1>6 DEF AtInstant, Sweepable, IInv, TypeOK, Interval
  <2>2. Overlaps(b.start, b.end, s, t)
    BY <1>4, <1>5, <1>8, <2>1 DEF Overlaps
  <2> QED
    BY <1>2, <2>1, <2>2
<1>10. ASSUME NEW b \in A, NEW c \in A, b.box = c.box PROVE b = c
  <2>1. /\ b \in busy /\ b.start <= i /\ i < b.end /\ b.start \in Int /\ b.end \in Int
        /\ c \in busy /\ c.start <= i /\ i < c.end /\ c.start \in Int /\ c.end \in Int
    BY <1>6 DEF AtInstant, Sweepable
  <2>2. Overlaps(b.start, b.end, c.start, c.end)
    BY <1>8, <2>1 DEF Overlaps
  <2> QED
    BY <1>10, <2>1, <2>2 DEF IInv, BoxesDisjoint
<1>11. box \in Injection(A, rest)
  BY <1>9, <1>10 DEF Injection, IsInjective
<1>12. IsFiniteSet(rest) /\ Cardinality(rest) = MaxBoxes - 1
  <2>1. IsFiniteSet(Numbers) /\ Cardinality(Numbers) = MaxBoxes
    BY FS_Interval, DayAssumption DEF Numbers
  <2> QED
    BY <2>1, FS_RemoveElement
<1>13. Cardinality(A) <= MaxBoxes - 1 /\ Cardinality(A) \in Nat
  <2>1. IsFiniteSet(A) /\ Cardinality(A) \in Nat
    BY <1>6, CountType DEF CountAt
  <2> HIDE DEF A, rest, box
  <2> QED
    BY <1>11, <1>12, <2>1, FS_Injection
<1>14. maxOverlap(s, t, busy) < MaxBoxes
  <2>1. maxOverlap(s, t, busy) = Cardinality(A)
    BY <1>7 DEF CountAt
  <2> HIDE DEF A, s, t
  <2> QED
    BY <1>13, <2>1, DayAssumption
<1> QED
  BY <1>1, <1>14 DEF ComputeAvailableSlots

(***************************************************************************)
(* The sweep of maxOverlap returns the most bookings that share an instant *)
(* of the slot, whatever the bookings are, and the older list of slots,    *)
(* which is built on it, never hides a slot that has a free box.           *)
(***************************************************************************)
THEOREM SweepCorrect == Spec => []SweepCountsBusyBoxes
<1>1. Init => HeldOK
  BY FS_EmptySet DEF Init, HeldOK
<1>2. IInv /\ HeldOK => SweepCountsBusyBoxes
  <2> SUFFICES ASSUME IInv, HeldOK PROVE SweepCountsBusyBoxes
    OBVIOUS
  <2>1. ASSUME NEW d \in Durations, NEW s \in 0..Horizon
        PROVE  maxOverlap(s, s + d, busy) = MostAtOnce(s, s + d, busy)
    <3>1. s \in Nat /\ s + d \in Nat /\ s < s + d
      BY DayAssumption
    <3>2. \A b \in busy : b.start \in Nat /\ b.end \in Nat
      BY DayAssumption DEF IInv, TypeOK, Interval
    <3>3. Sweepable(s, s + d, busy)
      BY <3>1, <3>2 DEF Sweepable, HeldOK
    <3> QED
      BY <3>3, MaxOverlapIsMost
  <2> QED
    BY <2>1, NeverHidden DEF SweepCountsBusyBoxes
<1> QED
  BY <1>1, <1>2, Invariance, NextHeldOK, PTL DEF Spec

-----------------------------------------------------------------------------
(* The lists of staff (Catalog), for any number of requests and rows.      *)

LEMMA RowBound == MaxRows \in Nat
  BY CatalogAssumption

USE RowBound

Steps == {"idle", "unset", "create", "write", "count", "delete", "put", "unlink", "promote"}

ListsOK ==
    /\ list \in Kind
    /\ row \in [Rows -> {"absent", "marked", "plain"}]
    /\ made \in 0 .. MaxRows
    /\ files \in SUBSET Rows
    /\ pc \in [Edits -> Steps]
    /\ job \in [Edits -> [row : 0 .. MaxRows, mark : BOOLEAN, next : {"idle", "create", "write"}]]
    /\ disturbed \in BOOLEAN

(* What a request is doing where it stands. *)
JobOK(r) ==
    /\ pc[r] = "idle" => job[r] = Idle
    /\ pc[r] = "unset" => job[r].next \in {"create", "write"} /\ job[r].mark
    /\ pc[r] = "write" => job[r].next \in {"idle", "write"} /\ (job[r].next = "write" => job[r].mark)
    /\ pc[r] \in {"create", "put"} => job[r].next = "create"
    /\ pc[r] = "put" => list = "booking" /\ job[r].row = 0
    /\ pc[r] = "count" => job[r].next = IF list = "photos" THEN "create" ELSE "idle"
    /\ pc[r] \in {"delete", "unlink", "promote"} => job[r].next = "idle"
    /\ job[r].next = "write" => list # "booking"

(* Rows and files get numbers in order, and a request knows only numbers given. *)
Numbered ==
    /\ \A n \in Present : n <= made
    /\ \A r \in Edits : job[r].row <= made

(* A request that is to insert the row of a photo it has stored. *)
Uploading(r) == list # "options" /\ job[r].next = "create" /\ job[r].row # 0

(* The photo of an upload under way is nobody else's yet, and has its file; *)
(* a photo that is gone does not come back.                                 *)
UploadsApart ==
    /\ \A r \in Edits : Uploading(r) =>
          /\ job[r].row \in files /\ job[r].row \notin Present
          /\ \A s \in Edits : s # r => job[s].row # job[r].row
    /\ \A r \in Edits : pc[r] \in {"unlink", "promote"} => job[r].row \notin Present

(* Rows and what requests know of them. *)
Structure ==
    ListsOK /\ (\A r \in Edits : JobOK(r)) /\ Numbered /\ UploadsApart

Kept == list = "options" => Present # {}
OneMark == \E n \in Rows : Marked = {n}
Good == Kept /\ (Present # {} => OneMark)

(* The state between the statements of the only request, nothing having failed. *)
Between(r) ==
    /\ pc[r] = "count" => Good /\ (list = "options" => job[r].row \in Present)
    /\ pc[r] = "unset" => Good
    /\ pc[r] = "create" => IF job[r].mark THEN Marked = {} ELSE OneMark
    /\ pc[r] = "write" =>
          IF job[r].mark THEN Marked \subseteq {job[r].row}
          ELSE OneMark /\ job[r].row \notin Marked
    /\ job[r].next = "write" \/ pc[r] = "write" => job[r].row \in Present
    /\ pc[r] = "delete" =>
          /\ Good /\ job[r].row \in Present /\ (job[r].mark <=> job[r].row \in Marked)
          /\ list = "options" => \E n \in Present : n # job[r].row
    /\ pc[r] = "count" /\ list = "options" => (job[r].mark <=> job[r].row \in Marked)
    /\ pc[r] \in {"unlink", "promote"} =>
          Kept /\ (IF job[r].mark THEN Marked = {} ELSE OneMark)

UndisturbedOK ==
    list # "booking" /\ ~disturbed =>
        /\ \A r, s \in Edits : pc[r] # "idle" /\ pc[s] # "idle" => r = s
        /\ Quiet => Good
        /\ \A r \in Edits : pc[r] # "idle" => Between(r)

ListsInv == Structure /\ RowsHaveFiles /\ AtMostOneDefault /\ UndisturbedOK

(* The record of a job written by a request that begins or ends. *)
LEMMA BeginShape ==
    ASSUME ListsOK, NEW r \in Edits, NEW step \in Steps,
           NEW n \in 0 .. MaxRows, NEW m \in BOOLEAN, NEW next \in {"idle", "create", "write"},
           Begin(r, step, n, m, next)
    PROVE  /\ pc[r] = "idle" /\ pc' \in [Edits -> Steps] /\ pc'[r] = step
           /\ job' \in [Edits -> [row : 0 .. MaxRows, mark : BOOLEAN, next : {"idle", "create", "write"}]]
           /\ job'[r].row = n /\ job'[r].mark = m /\ job'[r].next = next
           /\ \A s \in Edits : s # r => pc'[s] = pc[s] /\ job'[s] = job[s]
           /\ disturbed' \in BOOLEAN
           /\ ~disturbed' => ~disturbed /\ Quiet
  BY DEF Begin, ListsOK, Quiet

LEMMA FinishShape ==
    ASSUME ListsOK, NEW r \in Edits, Finish(r)
    PROVE  /\ pc' \in [Edits -> Steps] /\ pc'[r] = "idle"
           /\ job' \in [Edits -> [row : 0 .. MaxRows, mark : BOOLEAN, next : {"idle", "create", "write"}]]
           /\ job'[r] = Idle
           /\ \A s \in Edits : s # r => pc'[s] = pc[s] /\ job'[s] = job[s]
<1>1. Idle \in [row : 0 .. MaxRows, mark : BOOLEAN, next : {"idle", "create", "write"}]
  BY DEF Idle
<1>2. "idle" \in Steps
  BY DEF Steps
<1> QED
  BY <1>1, <1>2 DEF Finish, ListsOK

LEMMA GotoShape ==
    ASSUME ListsOK, NEW r \in Edits, NEW step \in Steps, Goto(r, step)
    PROVE  /\ pc' \in [Edits -> Steps] /\ pc'[r] = step /\ job' = job
           /\ \A s \in Edits : s # r => pc'[s] = pc[s]
  BY DEF Goto, ListsOK

(***************************************************************************)
(* What one request's step leaves of the others.                           *)
(***************************************************************************)
Alone(r) == \A s \in Edits : s # r => pc'[s] = pc[s] /\ job'[s] = job[s]

LEMMA InitStructure == ASSUME ListInit PROVE Structure
<1>1. ListsOK
  <2>1. \A n \in Rows : row[n] \in {"absent", "marked", "plain"}
    BY DEF ListInit, CreateService, Mark
  <2>2. row \in [Rows -> {"absent", "marked", "plain"}] /\ made \in 0 .. MaxRows
    BY DEF ListInit, CreateService, Mark
  <2>3. Idle \in [row : 0 .. MaxRows, mark : BOOLEAN, next : {"idle", "create", "write"}]
    BY DEF Idle
  <2>4. list \in Kind
    BY DEF ListInit, CreateService, Kind
  <2> QED
    BY <2>2, <2>3, <2>4 DEF ListInit, ListsOK, Steps
<1>2. \A r \in Edits : JobOK(r)
  BY DEF ListInit, JobOK, Idle
<1>3. \A n \in Present : n <= made
  BY DEF ListInit, CreateService, Present, Rows
<1>4. Numbered
  BY <1>1, <1>3 DEF ListInit, Idle, Numbered, ListsOK
<1>5. UploadsApart
  BY DEF ListInit, Idle, UploadsApart, Uploading
<1> QED
  BY <1>1, <1>2, <1>4, <1>5 DEF Structure

(***************************************************************************)
(* A step of r that inserts at most the row it owns or the next number,    *)
(* removes no file but one it owns, and turns to no row but such a one or  *)
(* one that is there, keeps the structure.                                 *)
(***************************************************************************)
LEMMA StructureStep ==
    ASSUME Structure, NEW r \in Edits, ListsOK', list' = list, Alone(r), JobOK(r)',
           made <= made',
           \A n \in Present' \ Present :
              IF list = "options" THEN n = made + 1 /\ made' = made + 1
              ELSE Uploading(r) /\ n = job[r].row /\ ~Uploading(r)',
           \A n \in files \ files' : list = "options" \/ (n = job[r].row /\ ~Uploading(r)'),
           \/ job'[r].row = 0 \/ job'[r].row = job[r].row \/ job'[r].row \in Present
           \/ job'[r].row = made + 1 /\ made' = made + 1,
           Uploading(r)' =>
              /\ job'[r].row \in files'
              /\ \/ Uploading(r) /\ job'[r].row = job[r].row
                 \/ job'[r].row = made + 1 /\ made + 1 \notin Present',
           pc'[r] \in {"unlink", "promote"} => job'[r].row \notin Present'
    PROVE  Structure'
<1>0. ListsOK /\ Numbered /\ UploadsApart /\ \A s \in Edits : JobOK(s)
  BY DEF Structure
<1>1. /\ made \in Nat /\ made' \in Nat /\ Present \subseteq Rows /\ Present' \subseteq Rows
      /\ \A s \in Edits : job[s].row \in Nat /\ job'[s].row \in Nat
      /\ \A n \in Rows : n \in Nat
  BY <1>0 DEF ListsOK, Present, Rows
<1>2. ASSUME NEW s \in Edits PROVE JobOK(s)'
  <2>1. CASE s = r
    BY <2>1
  <2>2. CASE s # r
    BY <1>0, <2>2 DEF JobOK, Alone
  <2> QED
    BY <2>1, <2>2
<1>3. Numbered'
  <2>1. \A n \in Present : n <= made'
    BY <1>0, <1>1 DEF Numbered
  <2>2. \A s \in Edits : job[s].row <= made'
    BY <1>0, <1>1 DEF Numbered
  <2>3. ASSUME NEW n \in Present' PROVE n <= made'
    <3>1. n \in Present \/ (n = made + 1 /\ made' = made + 1) \/ n = job[r].row
      BY <2>3
    <3> QED
      BY <1>1, <2>1, <2>2, <3>1
  <2>4. ASSUME NEW s \in Edits PROVE job'[s].row <= made'
    BY <1>1, <2>1, <2>2 DEF Alone
  <2> QED
    BY <2>3, <2>4 DEF Numbered
<1>4. ASSUME NEW s \in Edits, s # r, Uploading(s)
      PROVE  /\ job[s].row \in files' /\ job[s].row \notin Present'
             /\ \A x \in Edits : x # s => job'[x].row # job[s].row
  <2>1. /\ job[s].row \in files /\ job[s].row \notin Present /\ job[s].row # 0
        /\ \A x \in Edits : x # s => job[x].row # job[s].row
        /\ job[s].row <= made /\ list # "options"
    BY <1>0, <1>4 DEF UploadsApart, Uploading, Numbered
  <2>2. job[s].row # job[r].row /\ job[s].row # made + 1
    BY <1>1, <1>4, <2>1
  <2>3. job[s].row \in files'
    BY <2>1, <2>2
  <2>4. job[s].row \notin Present'
    BY <2>1, <2>2
  <2>5. job'[r].row # job[s].row
    BY <2>1, <2>2
  <2> QED
    BY <2>1, <2>3, <2>4, <2>5 DEF Alone
<1>5. ASSUME NEW s \in Edits, Uploading(s)'
      PROVE  /\ job'[s].row \in files' /\ job'[s].row \notin Present'
             /\ \A x \in Edits : x # s => job'[x].row # job'[s].row
  <2>1. CASE s # r
    <3>1. Uploading(s) /\ job'[s] = job[s]
      BY <1>5, <2>1 DEF Uploading, Alone
    <3> QED
      BY <1>4, <2>1, <3>1
  <2>2. CASE s = r /\ Uploading(r) /\ job'[r].row = job[r].row
    <3>1. /\ job[r].row \notin Present
          /\ \A x \in Edits : x # r => job[x].row # job[r].row
      BY <1>0, <2>2 DEF UploadsApart
    <3>2. list # "options"
      BY <2>2 DEF Uploading
    <3>3. job[r].row \notin Present'
      BY <1>5, <2>2, <3>1, <3>2
    <3> QED
      BY <1>5, <2>2, <3>1, <3>3 DEF Alone
  <2>3. CASE s = r /\ job'[r].row = made + 1 /\ made + 1 \notin Present'
    <3>1. \A x \in Edits : x # r => job[x].row # made + 1
      BY <1>0, <1>1 DEF Numbered
    <3> QED
      BY <1>5, <2>3, <3>1 DEF Alone
  <2> QED
    BY <1>5, <2>1, <2>2, <2>3
<1>6. ASSUME NEW s \in Edits, pc'[s] \in {"unlink", "promote"} PROVE job'[s].row \notin Present'
  <2>1. CASE s = r
    BY <1>6, <2>1
  <2>2. CASE s # r
    <3>1. job'[s] = job[s] /\ job[s].row \notin Present /\ job[s].row <= made
      BY <1>0, <1>6, <2>2 DEF Alone, UploadsApart, Numbered
    <3>2. job[s].row # made + 1
      BY <1>1, <3>1
    <3>3. Uploading(r) => job[s].row # job[r].row
      BY <1>0, <2>2 DEF UploadsApart
    <3> QED
      BY <3>1, <3>2, <3>3
  <2> QED
    BY <2>1, <2>2
<1> QED
  BY <1>2, <1>3, <1>5, <1>6 DEF Structure, UploadsApart

(* Of a step that leaves the table of rows and files alone. *)
LEMMA QuietStructure ==
    ASSUME Structure, NEW r \in Edits, ListsOK', UNCHANGED <<list, row, made, files>>,
           Alone(r), JobOK(r)',
           job'[r].row = 0 \/ job'[r].row = job[r].row \/ job'[r].row \in Present,
           Uploading(r)' => Uploading(r) /\ job'[r].row = job[r].row,
           pc'[r] \in {"unlink", "promote"} => pc[r] \in {"unlink", "promote"} /\ job'[r].row = job[r].row
    PROVE  Structure'
<1>0. UploadsApart /\ made \in Nat
  BY DEF Structure, ListsOK
<1>1. Present' = Present
  BY DEF Present
<1>2. Uploading(r)' => job'[r].row \in files' /\ Uploading(r) /\ job'[r].row = job[r].row
  BY <1>0 DEF UploadsApart
<1>3. pc'[r] \in {"unlink", "promote"} => job'[r].row \notin Present'
  BY <1>0, <1>1 DEF UploadsApart
<1> QED
  BY <1>0, <1>1, <1>2, <1>3, StructureStep

(* The requests that arrive. *)
LEMMA ArriveStructure ==
    ASSUME Structure, NEW r \in Edits, Arrive(r)
    PROVE  Structure'
<1>0. /\ ListsOK /\ Numbered /\ UploadsApart /\ Present \subseteq Rows /\ Rows \subseteq 0 .. MaxRows
      /\ made \in Nat /\ pc[r] \in Steps
  BY DEF Structure, ListsOK, Present, Rows
<1>1. ASSUME NEW step \in Steps, NEW n \in {0} \cup Present, NEW m \in BOOLEAN,
             NEW next \in {"idle", "create", "write"}, Begin(r, step, n, m, next),
             UNCHANGED <<list, row, made, files>>,
             JobOK(r)', next = "create" => n = 0, step \notin {"unlink", "promote"}
      PROVE  Structure'
  <2>1. n \in 0 .. MaxRows
    BY <1>0, <1>1
  <2>2. /\ pc[r] = "idle" /\ pc' \in [Edits -> Steps] /\ pc'[r] = step
        /\ job' \in [Edits -> [row : 0 .. MaxRows, mark : BOOLEAN, next : {"idle", "create", "write"}]]
        /\ job'[r].row = n /\ job'[r].next = next /\ disturbed' \in BOOLEAN
        /\ Alone(r)
    BY <1>0, <1>1, <2>1, BeginShape DEF Alone
  <2>3. ListsOK'
    BY <1>0, <1>1, <2>2 DEF ListsOK
  <2>4. ~Uploading(r)'
    BY <1>1, <2>2 DEF Uploading
  <2> QED
    BY <1>1, <2>2, <2>3, <2>4, QuietStructure
<1>2. ASSUME NEW m \in BOOLEAN, AddPriceOption(r, m) PROVE Structure'
  <2> DEFINE step == IF m THEN "unset" ELSE "create"
  <2>1. /\ step \in Steps /\ Begin(r, step, 0, m, "create") /\ list = "options"
        /\ UNCHANGED <<list, row, made, files>>
    BY <1>2 DEF AddPriceOption, Steps
  <2>2. pc'[r] = step /\ job'[r].row = 0 /\ job'[r].mark = m /\ job'[r].next = "create"
    BY <1>0, <2>1, BeginShape
  <2>3. JobOK(r)'
    BY <2>1, <2>2 DEF JobOK
  <2>4. step \notin {"unlink", "promote"}
    OBVIOUS
  <2> HIDE DEF step
  <2> QED
    BY <1>1, <2>1, <2>3, <2>4
<1>3. ASSUME NEW n \in Rows, UpdateRow(r, n) PROVE Structure'
  <2>1. PICK step \in {"unset", "write"}, m \in BOOLEAN, next \in {"idle", "write"} :
           /\ Begin(r, step, n, m, next) /\ n \in Present /\ list # "booking"
           /\ UNCHANGED <<list, row, made, files>>
           /\ (step = "unset" => next = "write" /\ m) /\ (step = "write" => next = "idle")
    BY <1>3 DEF UpdateRow
  <2>2. step \in Steps /\ n \in 0 .. MaxRows
    BY <1>0 DEF Steps
  <2>3. pc'[r] = step /\ job'[r].row = n /\ job'[r].mark = m /\ job'[r].next = next
    BY <1>0, <2>1, <2>2, BeginShape
  <2>4. JobOK(r)'
    BY <2>1, <2>3 DEF JobOK
  <2> QED
    BY <1>1, <2>1, <2>2, <2>4
<1>4. ASSUME NEW n \in Rows, DeleteRow(r, n) PROVE Structure'
  <2> DEFINE step == IF list = "options" THEN "count" ELSE "delete"
             m == row[n] = "marked"
  <2>1. /\ step \in Steps /\ Begin(r, step, n, m, "idle") /\ n \in Present
        /\ UNCHANGED <<list, row, made, files>> /\ m \in BOOLEAN /\ n \in 0 .. MaxRows
    BY <1>0, <1>4 DEF DeleteRow, Steps
  <2>2. pc'[r] = step /\ job'[r].row = n /\ job'[r].mark = m /\ job'[r].next = "idle"
    BY <1>0, <2>1, BeginShape
  <2>3. JobOK(r)' /\ step \notin {"unlink", "promote"}
    BY <2>1, <2>2 DEF JobOK
  <2> HIDE DEF step, m
  <2> QED
    BY <1>1, <2>1, <2>3
<1>5. ASSUME UploadBookingPhoto(r) PROVE Structure'
  <2>1. Begin(r, "put", 0, FALSE, "create") /\ list = "booking" /\ UNCHANGED <<list, row, made, files>>
    BY <1>5 DEF UploadBookingPhoto
  <2>0. "put" \in Steps /\ 0 \in 0 .. MaxRows
    BY DEF Steps
  <2>2. pc'[r] = "put" /\ job'[r].row = 0 /\ job'[r].next = "create"
    BY <1>0, <2>0, <2>1, BeginShape
  <2>3. JobOK(r)'
    BY <2>1, <2>2 DEF JobOK
  <2> QED
    BY <1>1, <2>0, <2>1, <2>3
<1>6. ASSUME NEW m \in BOOLEAN, UploadPhoto(r, m) PROVE Structure'
  <2>1. /\ "count" \in Steps /\ made + 1 \in 0 .. MaxRows /\ made + 1 \in Rows
        /\ Begin(r, "count", made + 1, m, "create") /\ list = "photos" /\ list' = list
        /\ made' = made + 1 /\ files' = files \cup {made + 1} /\ row' = row
    BY <1>0, <1>6 DEF UploadPhoto, Steps, ListsOK, Rows
  <2>2. /\ pc[r] = "idle" /\ pc' \in [Edits -> Steps] /\ pc'[r] = "count"
        /\ job' \in [Edits -> [row : 0 .. MaxRows, mark : BOOLEAN, next : {"idle", "create", "write"}]]
        /\ job'[r].row = made + 1 /\ job'[r].next = "create" /\ disturbed' \in BOOLEAN
        /\ Alone(r)
    BY <1>0, <2>1, BeginShape DEF Alone
  <2>3. JobOK(r)'
    BY <2>1, <2>2 DEF JobOK
  <2>4. ListsOK'
    BY <1>0, <2>1, <2>2 DEF ListsOK
  <2>5. Present' = Present /\ made + 1 \notin Present
    BY <1>0, <2>1 DEF Present, Numbered
  <2> QED
    BY <1>0, <2>1, <2>2, <2>3, <2>4, <2>5, StructureStep
<1> QED
  BY <1>2, <1>3, <1>4, <1>5, <1>6 DEF Arrive

(* The steps of a request under way. *)
LEMMA StepStructure ==
    ASSUME Structure, NEW r \in Edits, Step(r)
    PROVE  Structure'
<1>0. /\ ListsOK /\ Numbered /\ UploadsApart /\ Present \subseteq Rows /\ Rows \subseteq 0 .. MaxRows
      /\ made \in Nat /\ pc[r] \in Steps /\ JobOK(r) /\ job[r].row \in Nat /\ job[r].row <= made
      /\ made \in 0 .. MaxRows
  BY DEF Structure, ListsOK, Present, Rows, Numbered
<1>R. \A n \in Nat \ {0} : n <= MaxRows => n \in Rows
  BY DEF Rows
<1>Z. \A n \in Rows : n # 0 /\ n \in Nat
  BY DEF Rows
<1>1. ASSUME Finish(r), UNCHANGED <<list, made>>, row' \in [Rows -> {"absent", "marked", "plain"}],
             files' \subseteq files,
             \A n \in Present' \ Present : list # "options" /\ Uploading(r) /\ n = job[r].row,
             \A n \in files \ files' : list = "options" \/ n = job[r].row,
             disturbed' \in BOOLEAN
      PROVE  Structure'
  <2>1. pc'[r] = "idle" /\ job'[r] = Idle /\ Alone(r)
    BY <1>0, <1>1, FinishShape DEF Alone
  <2>2. ListsOK'
    BY <1>0, <1>1, FinishShape DEF ListsOK
  <2>3. JobOK(r)' /\ ~Uploading(r)' /\ job'[r].row = 0
    BY <2>1 DEF JobOK, Idle, Uploading
  <2> QED
    BY <1>0, <1>1, <2>1, <2>2, <2>3, StructureStep
<1>2. ASSUME CountOptions(r) PROVE Structure'
  <2>0. disturbed' \in BOOLEAN /\ Present' = Present /\ "delete" \in Steps /\ files' = files
        /\ row' \in [Rows -> {"absent", "marked", "plain"}]
    BY <1>0, <1>2 DEF CountOptions, ListsOK, Present, Steps
  <2>1. CASE Finish(r)
    BY <1>1, <1>2, <2>0, <2>1 DEF CountOptions
  <2>2. CASE Goto(r, "delete")
    <3>1. /\ pc' \in [Edits -> Steps] /\ pc'[r] = "delete" /\ job' = job /\ Alone(r)
          /\ UNCHANGED <<list, row, made, files>> /\ list = "options" /\ pc[r] = "count"
      BY <1>0, <1>2, <2>0, <2>2, GotoShape DEF Alone, CountOptions
    <3>2. ListsOK'
      BY <1>0, <2>0, <3>1 DEF ListsOK
    <3>3. JobOK(r)'
      BY <1>0, <3>1 DEF JobOK
    <3>4. ~Uploading(r)'
      BY <3>1 DEF Uploading
    <3> QED
      BY <3>1, <3>2, <3>3, <3>4, QuietStructure
  <2> QED
    BY <1>2, <2>1, <2>2 DEF CountOptions
<1>3. ASSUME CountPhotos(r) PROVE Structure'
  <2>1. PICK m \in BOOLEAN : pc' = [pc EXCEPT ![r] = IF m THEN "unset" ELSE "create"]
                             /\ job' = [job EXCEPT ![r].mark = m]
    BY <1>3, <1>0 DEF CountPhotos, ListsOK
  <2>2. /\ UNCHANGED <<list, row, made, files, disturbed>> /\ list = "photos" /\ pc[r] = "count"
    BY <1>3 DEF CountPhotos
  <2>3. /\ pc' \in [Edits -> Steps] /\ pc'[r] = (IF m THEN "unset" ELSE "create") /\ Alone(r)
        /\ job' \in [Edits -> [row : 0 .. MaxRows, mark : BOOLEAN, next : {"idle", "create", "write"}]]
        /\ job'[r].row = job[r].row /\ job'[r].next = job[r].next /\ job'[r].mark = m
    BY <1>0, <2>1 DEF ListsOK, Steps, Alone
  <2>4. ListsOK'
    BY <1>0, <2>2, <2>3 DEF ListsOK
  <2>5. JobOK(r)'
    BY <1>0, <2>2, <2>3 DEF JobOK
  <2>6. Uploading(r)' => Uploading(r)
    BY <2>2, <2>3 DEF Uploading
  <2>7. pc'[r] \notin {"unlink", "promote"}
    BY <2>3
  <2> QED
    BY <2>2, <2>3, <2>4, <2>5, <2>6, <2>7, QuietStructure
<1>4. ASSUME Put(r) PROVE Structure'
  <2>1. /\ pc[r] = "put" /\ made + 1 \in Rows /\ made + 1 \in 0 .. MaxRows
        /\ made' = made + 1 /\ files' = files \cup {made + 1}
        /\ pc' = [pc EXCEPT ![r] = "create"] /\ job' = [job EXCEPT ![r].row = made + 1]
        /\ UNCHANGED <<list, row, disturbed>>
    BY <1>0, <1>4 DEF Put, Rows
  <2>2. /\ pc' \in [Edits -> Steps] /\ pc'[r] = "create" /\ Alone(r)
        /\ job' \in [Edits -> [row : 0 .. MaxRows, mark : BOOLEAN, next : {"idle", "create", "write"}]]
        /\ job'[r].row = made + 1 /\ job'[r].next = job[r].next /\ job'[r].mark = job[r].mark
    BY <1>0, <2>1 DEF ListsOK, Steps, Alone
  <2>3. ListsOK'
    BY <1>0, <2>1, <2>2 DEF ListsOK
  <2>4. JobOK(r)'
    BY <1>0, <2>1, <2>2 DEF JobOK
  <2>5. Present' = Present /\ made + 1 \notin Present
    BY <1>0, <2>1 DEF Present, Numbered
  <2> QED
    BY <1>0, <2>1, <2>2, <2>3, <2>4, <2>5, StructureStep
<1>5. ASSUME Unset(r) PROVE Structure'
  <2>1. /\ pc[r] = "unset" /\ UNCHANGED <<list, made, files, disturbed>> /\ Goto(r, job[r].next)
        /\ row' = [n \in Rows |-> IF row[n] = "marked" THEN "plain" ELSE row[n]]
    BY <1>5 DEF Unset
  <2>2. job[r].next \in {"create", "write"} /\ job[r].next \in Steps
    BY <1>0, <2>1 DEF JobOK, Steps
  <2>3. pc' \in [Edits -> Steps] /\ pc'[r] = job[r].next /\ job' = job /\ Alone(r)
    BY <1>0, <2>1, <2>2, GotoShape DEF Alone
  <2>4. row' \in [Rows -> {"absent", "marked", "plain"}] /\ Present' = Present
    BY <1>0, <2>1 DEF ListsOK, Present
  <2>5. ListsOK'
    BY <1>0, <2>1, <2>3, <2>4 DEF ListsOK
  <2>6. JobOK(r)'
    BY <1>0, <2>1, <2>2, <2>3 DEF JobOK
  <2>7. Uploading(r)' => Uploading(r) /\ job'[r].row \in files'
    BY <1>0, <2>1, <2>3 DEF Uploading, UploadsApart
  <2>8. pc'[r] \notin {"unlink", "promote"}
    BY <2>2, <2>3
  <2> QED
    BY <1>0, <2>1, <2>3, <2>4, <2>5, <2>6, <2>7, <2>8, StructureStep
<1>6. ASSUME Create(r) \/ LoseAnswer(r) PROVE Structure'
  <2>0. /\ Insert(r) /\ files' \in {files, files \ {InsertedRow(r)}} /\ disturbed' \in BOOLEAN
    BY <1>0, <1>6 DEF Create, LoseAnswer, ListsOK
  <2>1. CASE list = "options"
    <3>1. /\ made + 1 \in Rows /\ row' = [row EXCEPT ![made + 1] = Mark(job[r].mark)]
          /\ made' = made + 1 /\ Finish(r) /\ list' = list /\ files' \subseteq files
      BY <2>0, <2>1 DEF Insert, InsertedRow
    <3>2. made' \in 0 .. MaxRows /\ Mark(job[r].mark) \in {"marked", "plain"}
      BY <1>0, <3>1 DEF Rows, Mark
    <3>3. row' \in [Rows -> {"absent", "marked", "plain"}] /\ Present' = Present \cup {made + 1}
      BY <1>0, <3>1, <3>2 DEF ListsOK, Present
    <3>4. pc'[r] = "idle" /\ job'[r] = Idle /\ Alone(r)
      BY <1>0, <3>1, FinishShape DEF Alone
    <3>5. ListsOK'
      BY <1>0, <2>0, <3>1, <3>2, <3>3, FinishShape DEF ListsOK
    <3>6. JobOK(r)' /\ ~Uploading(r)' /\ job'[r].row = 0
      BY <3>4 DEF JobOK, Idle, Uploading
    <3> QED
      BY <1>0, <2>1, <3>1, <3>3, <3>4, <3>5, <3>6, StructureStep
  <2>2. CASE list # "options"
    <3>1. /\ job[r].row \in Rows /\ row' = [row EXCEPT ![job[r].row] = Mark(job[r].mark)]
          /\ made' = made /\ Finish(r) /\ list' = list /\ pc[r] = "create"
          /\ files' \in {files, files \ {job[r].row}}
      BY <2>0, <2>2 DEF Insert, InsertedRow
    <3>2. row' \in [Rows -> {"absent", "marked", "plain"}] /\ Present' = Present \cup {job[r].row}
      BY <1>0, <3>1 DEF ListsOK, Present, Mark
    <3>3. Uploading(r)
      BY <1>0, <1>Z, <2>2, <3>1 DEF Uploading, JobOK, ListsOK
    <3> QED
      BY <1>1, <2>0, <2>2, <3>1, <3>2, <3>3
  <2> QED
    BY <2>1, <2>2
<1>7. ASSUME Write(r) PROVE Structure'
  <2>1. /\ row' \in [Rows -> {"absent", "marked", "plain"}] /\ Present' = Present
        /\ UNCHANGED <<list, made, files, disturbed>> /\ disturbed' \in BOOLEAN
    BY <1>0, <1>7 DEF Write, ListsOK, Present, Mark
  <2>2. CASE Finish(r)
    BY <1>1, <2>1, <2>2
  <2>3. CASE job[r].next = "write" /\ job' = [job EXCEPT ![r].next = "idle"] /\ UNCHANGED pc
    <3>1. /\ pc' \in [Edits -> Steps] /\ Alone(r) /\ pc'[r] = "write"
          /\ job' \in [Edits -> [row : 0 .. MaxRows, mark : BOOLEAN, next : {"idle", "create", "write"}]]
          /\ job'[r].row = job[r].row /\ job'[r].next = "idle"
      BY <1>0, <1>7, <2>3 DEF ListsOK, Alone, Write
    <3>2. ListsOK'
      BY <1>0, <2>1, <3>1 DEF ListsOK
    <3>3. JobOK(r)' /\ ~Uploading(r)'
      BY <3>1 DEF JobOK, Uploading
    <3> QED
      BY <1>0, <2>1, <3>1, <3>2, <3>3, StructureStep
  <2> QED
    BY <1>7, <2>2, <2>3 DEF Write
<1>8. ASSUME Delete(r) PROVE Structure'
  <2> DEFINE step == IF list = "options" THEN "promote" ELSE "unlink"
  <2>1. /\ pc[r] = "delete" /\ row' = [row EXCEPT ![job[r].row] = "absent"]
        /\ Goto(r, step) /\ UNCHANGED <<list, made, files, disturbed>> /\ step \in Steps
    BY <1>8 DEF Delete, Steps
  <2>2. step # "create" /\ step # "write" /\ step \in {"unlink", "promote"}
    OBVIOUS
  <2> HIDE DEF step
  <2>3. pc' \in [Edits -> Steps] /\ pc'[r] = step /\ job' = job /\ Alone(r)
    BY <1>0, <2>1, GotoShape DEF Alone
  <2>4. row' \in [Rows -> {"absent", "marked", "plain"}] /\ Present' = Present \ {job[r].row}
    BY <1>0, <2>1 DEF ListsOK, Present
  <2>5. ListsOK'
    BY <1>0, <2>1, <2>3, <2>4 DEF ListsOK
  <2>6. job[r].next = "idle"
    BY <1>0, <2>1 DEF JobOK
  <2>7. JobOK(r)' /\ ~Uploading(r)'
    BY <2>2, <2>3, <2>6 DEF JobOK, Uploading
  <2> QED
    BY <1>0, <2>1, <2>3, <2>4, <2>5, <2>7, StructureStep
<1>9. ASSUME Unlink(r) PROVE Structure'
  <2>1. /\ pc[r] = "unlink" /\ files' \in {files, files \ {job[r].row}}
        /\ UNCHANGED <<list, row, made, disturbed>>
    BY <1>9 DEF Unlink
  <2>2. Present' = Present /\ job[r].row \notin Present /\ files' \subseteq files
    BY <1>0, <2>1 DEF Present, UploadsApart
  <2>0. row' \in [Rows -> {"absent", "marked", "plain"}] /\ disturbed' \in BOOLEAN
    BY <1>0, <2>1 DEF ListsOK
  <2>3. CASE Finish(r)
    BY <1>1, <2>0, <2>1, <2>2, <2>3
  <2>4. CASE Goto(r, "promote")
    <3>1. pc' \in [Edits -> Steps] /\ pc'[r] = "promote" /\ job' = job /\ Alone(r)
      BY <1>0, <2>4, GotoShape DEF Alone, Steps
    <3>2. ListsOK'
      BY <1>0, <2>1, <2>2, <3>1 DEF ListsOK
    <3>3. JobOK(r)' /\ ~Uploading(r)'
      BY <1>0, <2>1, <3>1 DEF JobOK, Uploading
    <3> QED
      BY <1>0, <2>1, <2>2, <3>1, <3>2, <3>3, StructureStep
  <2> QED
    BY <1>9, <2>3, <2>4 DEF Unlink
<1>10. ASSUME Promote(r) PROVE Structure'
  <2>1. pc[r] = "promote" /\ UNCHANGED <<list, row, made, files, disturbed>>
    BY <1>10 DEF Promote
  <2>2. Present' = Present /\ row' \in [Rows -> {"absent", "marked", "plain"}] /\ disturbed' \in BOOLEAN
    BY <1>0, <2>1 DEF Present, ListsOK
  <2>3. CASE Finish(r)
    BY <1>1, <2>1, <2>2, <2>3
  <2>4. ASSUME NEW n \in Present, job' = [job EXCEPT ![r].row = n],
               pc' = [pc EXCEPT ![r] = "write"]
        PROVE  Structure'
    <3>1. /\ pc' \in [Edits -> Steps] /\ Alone(r) /\ pc'[r] = "write"
          /\ job' \in [Edits -> [row : 0 .. MaxRows, mark : BOOLEAN, next : {"idle", "create", "write"}]]
          /\ job'[r].row = n /\ job'[r].next = job[r].next
      BY <1>0, <2>4 DEF ListsOK, Alone, Steps
    <3>2. ListsOK'
      BY <1>0, <2>1, <2>2, <3>1 DEF ListsOK
    <3>3. JobOK(r)' /\ ~Uploading(r)'
      BY <1>0, <2>1, <3>1 DEF JobOK, Uploading
    <3> QED
      BY <2>1, <2>4, <3>1, <3>2, <3>3, QuietStructure
  <2> QED
    BY <1>10, <2>3, <2>4 DEF Promote
<1>11. ASSUME Fail(r) PROVE Structure'
  <2>1. /\ pc[r] # "idle" /\ disturbed' = TRUE /\ Finish(r) /\ UNCHANGED <<list, row, made>>
        /\ files' \in {files, files \ {job[r].row}}
    BY <1>11 DEF Fail
  <2>2. Present' = Present /\ row' \in [Rows -> {"absent", "marked", "plain"}]
        /\ files' \subseteq files
    BY <1>0, <2>1 DEF Present, ListsOK
  <2> QED
    BY <1>1, <2>1, <2>2
<1> QED
  BY <1>2, <1>3, <1>4, <1>5, <1>6, <1>7, <1>8, <1>9, <1>10, <1>11 DEF Step

(* No step takes the file of a row whose INSERT was answered.              *)
LEMMA FilesStep ==
    ASSUME Structure, RowsHaveFiles, NEW r \in Edits, Arrive(r) \/ Step(r)
    PROVE  RowsHaveFiles'
<1>0. ListsOK /\ UploadsApart /\ JobOK(r) /\ Present \subseteq Rows
  BY DEF Structure, Present
<1>Z. \A n \in Rows : n # 0
  BY DEF Rows
<1>1. CASE /\ list' = list /\ unheard' = unheard /\ files \subseteq files' /\ Present' \subseteq Present
  BY <1>1 DEF RowsHaveFiles
<1>2. ASSUME Arrive(r)
      PROVE  list' = list /\ unheard' = unheard /\ files \subseteq files' /\ Present' \subseteq Present
  BY <1>2 DEF Arrive, AddPriceOption, UploadPhoto, UploadBookingPhoto, UpdateRow, DeleteRow, Present
<1>3. ASSUME CountOptions(r) \/ CountPhotos(r) \/ Put(r) \/ Promote(r)
      PROVE  list' = list /\ unheard' = unheard /\ files \subseteq files' /\ Present' \subseteq Present
  BY <1>3 DEF CountOptions, CountPhotos, Put, Promote, Present
<1>4. ASSUME Unset(r) \/ Write(r) \/ Delete(r)
      PROVE  list' = list /\ unheard' = unheard /\ files \subseteq files' /\ Present' \subseteq Present
  BY <1>0, <1>4 DEF Unset, Write, Delete, Present, Mark, ListsOK
<1>5. ASSUME Insert(r), list # "options", NEW n \in Present'
      PROVE  n \in Present \/ (n = job[r].row /\ n \in files)
  <2>1. /\ pc[r] = "create" /\ job[r].row \in Rows
        /\ row' = [row EXCEPT ![job[r].row] = Mark(job[r].mark)]
    BY <1>5 DEF Insert, InsertedRow
  <2>2. Uploading(r)
    BY <1>0, <1>Z, <1>5, <2>1 DEF Uploading, JobOK
  <2> QED
    BY <1>0, <1>5, <2>1, <2>2 DEF Present, UploadsApart
<1>6. ASSUME Create(r) PROVE RowsHaveFiles'
  BY <1>5, <1>6 DEF Create, Insert, RowsHaveFiles
<1>7. ASSUME LoseAnswer(r) PROVE RowsHaveFiles'
  <2>1. /\ Insert(r) /\ list' = list /\ unheard' = unheard \cup {InsertedRow(r)}
        /\ files' \in {files, files \ {InsertedRow(r)}}
    BY <1>7 DEF LoseAnswer, Insert
  <2> SUFFICES ASSUME list # "options", NEW n \in Present' \ unheard' PROVE n \in files'
    BY <2>1 DEF RowsHaveFiles
  <2>2. n # job[r].row /\ n \notin unheard /\ (n \in files => n \in files')
    BY <2>1 DEF InsertedRow
  <2>3. n \in Present
    BY <1>5, <2>1, <2>2
  <2> QED
    BY <2>2, <2>3 DEF RowsHaveFiles
<1>8. ASSUME Unlink(r) PROVE RowsHaveFiles'
  <2>1. /\ pc[r] = "unlink" /\ files' \in {files, files \ {job[r].row}}
        /\ UNCHANGED <<list, row, unheard>>
    BY <1>8 DEF Unlink
  <2>2. Present' = Present /\ job[r].row \notin Present
    BY <1>0, <2>1 DEF Present, UploadsApart
  <2> QED
    BY <2>1, <2>2 DEF RowsHaveFiles
<1>9. ASSUME Fail(r) PROVE RowsHaveFiles'
  <2>1. /\ UNCHANGED <<list, row, unheard>>
        /\ files' = files \/ (job[r].next = "create" /\ files' = files \ {job[r].row})
    BY <1>9 DEF Fail
  <2>2. Present' = Present
    BY <2>1 DEF Present
  <2>3. list # "options" /\ job[r].next = "create" => job[r].row \notin Present
    BY <1>0, <1>Z DEF UploadsApart, Uploading
  <2> QED
    BY <2>1, <2>2, <2>3 DEF RowsHaveFiles
<1> QED
  BY <1>1, <1>2, <1>3, <1>4, <1>6, <1>7, <1>8, <1>9 DEF Step

(* Two marks never stand beside each other in an indexed list. *)
LEMMA DefaultStep ==
    ASSUME ListsOK, AtMostOneDefault, NEW r \in Edits, Arrive(r) \/ Step(r)
    PROVE  AtMostOneDefault'
<1>1. CASE list' = list /\ Marked' \subseteq Marked
  BY <1>1 DEF AtMostOneDefault
<1>2. ASSUME Insert(r) PROVE AtMostOneDefault'
  <2> SUFFICES ASSUME list = "options" PROVE \A m, n \in Marked' : m = n
    BY <1>2 DEF AtMostOneDefault, Insert
  <2>1. /\ made + 1 \in Rows /\ row' = [row EXCEPT ![made + 1] = Mark(job[r].mark)]
        /\ ~(job[r].mark /\ Marked \ {made + 1} # {})
    BY <1>2 DEF Insert, InsertedRow, IndexRefuses
  <2>2. Marked' \subseteq IF job[r].mark THEN {made + 1} ELSE Marked
    BY <2>1 DEF Marked, ListsOK, Mark
  <2> QED
    BY <2>2 DEF AtMostOneDefault
<1>3. ASSUME Write(r) PROVE AtMostOneDefault'
  <2> SUFFICES ASSUME list = "options" PROVE \A m, n \in Marked' : m = n
    BY <1>3 DEF AtMostOneDefault, Write
  <2> DEFINE x == job[r].row
  <2>1. CASE x \in Present
    <3>1. row' = [row EXCEPT ![x] = Mark(job[r].mark)] /\ ~(job[r].mark /\ Marked \ {x} # {})
      BY <1>3, <2>1 DEF Write, IndexRefuses
    <3>2. Marked' \subseteq IF job[r].mark THEN {x} ELSE Marked
      BY <3>1 DEF Marked, ListsOK, Mark
    <3> QED
      BY <3>2 DEF AtMostOneDefault
  <2>2. CASE x \notin Present
    BY <1>3, <2>2 DEF Write, Marked, AtMostOneDefault
  <2> QED
    BY <2>1, <2>2
<1>4. ASSUME Unset(r) \/ Delete(r) PROVE list' = list /\ Marked' \subseteq Marked
  BY <1>4 DEF Unset, Delete, Marked, ListsOK
<1>5. ASSUME UNCHANGED <<list, row>> PROVE list' = list /\ Marked' \subseteq Marked
  BY <1>5 DEF Marked
<1>6. ASSUME Arrive(r) PROVE UNCHANGED <<list, row>>
  BY <1>6 DEF Arrive, AddPriceOption, UploadPhoto, UploadBookingPhoto, UpdateRow, DeleteRow
<1>7. ASSUME CountOptions(r) \/ CountPhotos(r) \/ Put(r) \/ Unlink(r) \/ Promote(r) \/ Fail(r)
      PROVE  UNCHANGED <<list, row>>
  BY <1>7 DEF CountOptions, CountPhotos, Put, Unlink, Promote, Fail
<1> QED
  BY <1>1, <1>2, <1>3, <1>4, <1>5, <1>6, <1>7 DEF Step, Create, LoseAnswer

(* A request arrives where all is quiet, or disturbs. *)
LEMMA UndisturbedArrival ==
    ASSUME ListsOK, UndisturbedOK, NEW r \in Edits, NEW step \in Steps \ {"idle"},
           NEW n \in 0 .. MaxRows, NEW m \in BOOLEAN, NEW next \in {"idle", "create", "write"},
           Begin(r, step, n, m, next), list' = list, row' = row,
           Good => Between(r)'
    PROVE  UndisturbedOK'
<1>1. /\ pc'[r] = step /\ \A s \in Edits : s # r => pc'[s] = pc[s]
      /\ ~disturbed' => ~disturbed /\ Quiet
  BY BeginShape
<1> SUFFICES ASSUME list # "booking", ~disturbed' PROVE
        /\ \A s, t \in Edits : pc'[s] # "idle" /\ pc'[t] # "idle" => s = t
        /\ Quiet' => Good'
        /\ \A s \in Edits : pc'[s] # "idle" => Between(s)'
  BY DEF UndisturbedOK
<1>2. Good /\ \A s \in Edits : s # r => pc'[s] = "idle"
  BY <1>1 DEF UndisturbedOK, Quiet
<1>3. ~Quiet'
  BY <1>1 DEF Quiet
<1> QED
  BY <1>1, <1>2, <1>3

(* The only request goes on or ends. *)
LEMMA UndisturbedStep ==
    ASSUME UndisturbedOK, NEW r \in Edits, pc[r] # "idle", Alone(r),
           list' = list, disturbed' = disturbed,
           list # "booking" /\ Between(r) => IF pc'[r] = "idle" THEN Good' ELSE Between(r)'
    PROVE  UndisturbedOK'
<1> SUFFICES ASSUME list # "booking", ~disturbed PROVE
        /\ \A s, t \in Edits : pc'[s] # "idle" /\ pc'[t] # "idle" => s = t
        /\ Quiet' => Good'
        /\ \A s \in Edits : pc'[s] # "idle" => Between(s)'
  BY DEF UndisturbedOK
<1>1. Between(r) /\ \A s \in Edits : s # r => pc'[s] = "idle"
  BY DEF UndisturbedOK, Alone
<1> QED
  BY <1>1 DEF Quiet

LEMMA ArriveUndisturbed ==
    ASSUME Structure, UndisturbedOK, NEW r \in Edits, Arrive(r)
    PROVE  UndisturbedOK'
<1>0. /\ ListsOK /\ Present \subseteq Rows /\ Rows \subseteq 0 .. MaxRows /\ Marked \subseteq Present
      /\ made \in Nat
  BY DEF Structure, ListsOK, Present, Rows, Marked
<1>S. row' = row => Present' = Present /\ Marked' = Marked /\ OneMark' = OneMark
  BY DEF Present, Marked, OneMark
<1>B. ASSUME NEW step \in Steps \ {"idle"}, NEW n \in 0 .. MaxRows, NEW m \in BOOLEAN,
             NEW next \in {"idle", "create", "write"}, Begin(r, step, n, m, next)
      PROVE  pc'[r] = step /\ job'[r].row = n /\ job'[r].mark = m /\ job'[r].next = next
  BY <1>0, <1>B, BeginShape
<1>1. ASSUME NEW m \in BOOLEAN, AddPriceOption(r, m) PROVE UndisturbedOK'
  <2> DEFINE step == IF m THEN "unset" ELSE "create"
  <2>1. step \in Steps \ {"idle"} /\ Begin(r, step, 0, m, "create") /\ list = "options"
        /\ UNCHANGED <<list, row>>
    BY <1>1 DEF AddPriceOption, Steps
  <2>2. step = "unset" \/ (step = "create" /\ ~m)
    OBVIOUS
  <2> HIDE DEF step
  <2>0. 0 \in 0 .. MaxRows
    OBVIOUS
  <2>3. pc'[r] = step /\ job'[r].row = 0 /\ job'[r].mark = m /\ job'[r].next = "create"
    BY <1>B, <2>0, <2>1
  <2>4. ASSUME Good PROVE Between(r)'
    BY <1>S, <2>1, <2>2, <2>3, <2>4 DEF Good, Kept, Between
  <2> QED
    BY <1>0, <2>0, <2>1, <2>4, UndisturbedArrival
<1>2. ASSUME NEW n \in Rows, UpdateRow(r, n) PROVE UndisturbedOK'
  <2>1. PICK step \in {"unset", "write"}, m \in BOOLEAN, next \in {"idle", "write"} :
           /\ Begin(r, step, n, m, next) /\ n \in Present /\ list # "booking"
           /\ UNCHANGED <<list, row>>
           /\ step = "write" => (m <=> row[n] = "marked")
    BY <1>2 DEF UpdateRow
  <2>2. step \in Steps \ {"idle"} /\ n \in 0 .. MaxRows
    BY <1>0 DEF Steps
  <2>3. pc'[r] = step /\ job'[r].row = n /\ job'[r].mark = m /\ job'[r].next = next
    BY <1>B, <2>1, <2>2
  <2>4. ASSUME Good PROVE Between(r)'
    <3>1. OneMark /\ (row[n] = "marked" <=> n \in Marked)
      BY <2>1, <2>4 DEF Good, Marked
    <3>2. n \in Marked => Marked \subseteq {n}
      BY <3>1 DEF OneMark
    <3>3. Good' = Good
      BY <1>S, <2>1 DEF Good, Kept
    <3> QED
      BY <1>S, <2>1, <2>3, <2>4, <3>1, <3>2, <3>3 DEF Between
  <2> QED
    BY <1>0, <2>1, <2>2, <2>4, UndisturbedArrival
<1>3. ASSUME NEW n \in Rows, DeleteRow(r, n) PROVE UndisturbedOK'
  <2> DEFINE step == IF list = "options" THEN "count" ELSE "delete"
             m == row[n] = "marked"
  <2>1. step \in Steps \ {"idle"} /\ Begin(r, step, n, m, "idle") /\ n \in Present
        /\ UNCHANGED <<list, row>> /\ m \in BOOLEAN /\ n \in 0 .. MaxRows
        /\ (m <=> n \in Marked)
    BY <1>0, <1>3 DEF DeleteRow, Steps, Marked
  <2>2. IF list = "options" THEN step = "count" ELSE step = "delete"
    OBVIOUS
  <2> HIDE DEF step, m
  <2>3. pc'[r] = step /\ job'[r].row = n /\ job'[r].mark = m /\ job'[r].next = "idle"
    BY <1>B, <2>1
  <2>4. ASSUME Good PROVE Between(r)'
    <3>1. Good' = Good
      BY <1>S, <2>1 DEF Good, Kept
    <3> QED
      BY <1>S, <2>1, <2>2, <2>3, <2>4, <3>1 DEF Between
  <2> QED
    BY <1>0, <2>1, <2>4, UndisturbedArrival
<1>4. ASSUME UploadBookingPhoto(r) PROVE UndisturbedOK'
  BY <1>4 DEF UploadBookingPhoto, UndisturbedOK
<1>5. ASSUME NEW m \in BOOLEAN, UploadPhoto(r, m) PROVE UndisturbedOK'
  <2>1. Begin(r, "count", made + 1, m, "create") /\ UNCHANGED <<list, row>> /\ list = "photos"
        /\ made < MaxRows
    BY <1>5 DEF UploadPhoto
  <2>2. "count" \in Steps \ {"idle"} /\ made + 1 \in 0 .. MaxRows
    BY <1>0, <2>1 DEF Steps
  <2>3. pc'[r] = "count" /\ job'[r].next = "create"
    BY <1>B, <2>1, <2>2
  <2>4. ASSUME Good PROVE Between(r)'
    <3>1. Good' = Good
      BY <1>S, <2>1 DEF Good, Kept
    <3> QED
      BY <2>1, <2>3, <2>4, <3>1 DEF Between
  <2> QED
    BY <1>0, <2>1, <2>2, <2>4, UndisturbedArrival
<1> QED
  BY <1>1, <1>2, <1>3, <1>4, <1>5 DEF Arrive

LEMMA StepUndisturbed ==
    ASSUME Structure, UndisturbedOK, NEW r \in Edits, Step(r)
    PROVE  UndisturbedOK'
<1>0. /\ ListsOK /\ Present \subseteq Rows /\ Marked \subseteq Present /\ JobOK(r)
      /\ made \in Nat /\ job[r].mark \in BOOLEAN /\ \A n \in Present : n <= made
  BY DEF Structure, ListsOK, Present, Rows, Marked, Numbered
<1>S. row' = row => Present' = Present /\ Marked' = Marked /\ OneMark' = OneMark
  BY DEF Present, Marked, OneMark
<1>K. row' = row /\ list' = list => Good' = Good /\ Kept' = Kept
  BY <1>S DEF Good, Kept
<1>F. ASSUME Finish(r) PROVE Alone(r) /\ pc'[r] = "idle"
  BY <1>0, <1>F, FinishShape DEF Alone
<1>G. ASSUME NEW step \in Steps, Goto(r, step) PROVE Alone(r) /\ pc'[r] = step /\ job' = job
  BY <1>0, <1>G, GotoShape DEF Alone
<1>M. ASSUME NEW n \in Rows, NEW m \in BOOLEAN, row' = [row EXCEPT ![n] = Mark(m)]
      PROVE  /\ Present' = Present \cup {n}
             /\ Marked' = IF m THEN Marked \cup {n} ELSE Marked \ {n}
  BY <1>0, <1>M DEF Present, Marked, Mark, ListsOK
<1>1. ASSUME CountOptions(r) PROVE UndisturbedOK'
  <2>1. /\ pc[r] = "count" /\ list = "options" /\ UNCHANGED <<list, row, disturbed>>
        /\ (Cardinality(Present) > 1 /\ Goto(r, "delete")) \/ Finish(r)
    BY <1>1 DEF CountOptions
  <2>2. CASE Finish(r)
    <3>1. Between(r) => Good'
      BY <1>K, <2>1 DEF Between
    <3> QED
      BY <1>F, <2>1, <2>2, <3>1, UndisturbedStep
  <2>3. CASE Cardinality(Present) > 1 /\ Goto(r, "delete")
    <3>1. Alone(r) /\ pc'[r] = "delete" /\ job' = job
      BY <1>G, <2>3 DEF Steps
    <3>2. \E n \in Present : n # job[r].row
      <4> SUFFICES ASSUME \A n \in Present : n = job[r].row PROVE FALSE
        OBVIOUS
      <4>1. Present = {} \/ Present = {job[r].row}
        OBVIOUS
      <4>2. Cardinality({}) = 0 /\ Cardinality({job[r].row}) = 1
        BY FS_EmptySet, FS_Singleton
      <4> QED
        BY <2>3, <4>1, <4>2
    <3>3. Between(r) => Between(r)'
      BY <1>S, <1>K, <2>1, <3>1, <3>2, <1>0 DEF Between, JobOK
    <3> QED
      BY <2>1, <3>1, <3>3, UndisturbedStep
  <2> QED
    BY <2>1, <2>2, <2>3
<1>2. ASSUME CountPhotos(r) PROVE UndisturbedOK'
  <2> DEFINE m == job[r].mark \/ Present = {}
             step == IF m THEN "unset" ELSE "create"
  <2>1. /\ pc[r] = "count" /\ list = "photos" /\ UNCHANGED <<list, row, disturbed>>
        /\ pc' = [pc EXCEPT ![r] = step] /\ job' = [job EXCEPT ![r].mark = m]
    BY <1>2 DEF CountPhotos
  <2>2. step \in {"unset", "create"} /\ (step = "create" => ~m /\ Present # {})
    OBVIOUS
  <2> HIDE DEF m, step
  <2>3. Alone(r) /\ pc'[r] = step /\ job'[r].mark = m /\ job'[r].next = job[r].next
    BY <1>0, <2>1 DEF ListsOK, Alone
  <2>4. job[r].next = "create"
    BY <1>0, <2>1 DEF JobOK
  <2>5. Between(r) => Between(r)'
    BY <1>S, <1>K, <2>1, <2>2, <2>3, <2>4 DEF Between, Good
  <2> QED
    BY <2>1, <2>2, <2>3, <2>5, UndisturbedStep
<1>3. ASSUME Put(r) PROVE UndisturbedOK'
  BY <1>0, <1>3 DEF Put, UndisturbedOK, JobOK
<1>4. ASSUME Unset(r) PROVE UndisturbedOK'
  <2>1. /\ pc[r] = "unset" /\ UNCHANGED <<list, disturbed>> /\ Goto(r, job[r].next)
        /\ row' = [n \in Rows |-> IF row[n] = "marked" THEN "plain" ELSE row[n]]
    BY <1>4 DEF Unset
  <2>2. job[r].next \in {"create", "write"} /\ job[r].mark /\ job[r].next \in Steps
    BY <1>0, <2>1 DEF JobOK, Steps
  <2>3. Alone(r) /\ pc'[r] = job[r].next /\ job' = job
    BY <1>G, <2>1, <2>2
  <2>4. Present' = Present /\ Marked' = {}
    BY <1>0, <2>1 DEF Present, Marked, ListsOK
  <2>5. Between(r) => Between(r)'
    BY <2>1, <2>2, <2>3, <2>4 DEF Between
  <2> QED
    BY <2>1, <2>2, <2>3, <2>5, UndisturbedStep
<1>5. ASSUME Create(r) PROVE UndisturbedOK'
  <2> DEFINE n == IF list = "options" THEN made + 1 ELSE job[r].row
  <2>1. /\ pc[r] = "create" /\ n \in Rows /\ row' = [row EXCEPT ![n] = Mark(job[r].mark)]
        /\ Finish(r) /\ UNCHANGED <<list, disturbed>>
    BY <1>5 DEF Create, Insert, InsertedRow
  <2>2. n \notin Present
    <3>1. CASE list = "options"
      BY <1>0, <3>1
    <3>2. CASE list # "options"
      <4>1. Uploading(r)
        BY <1>0, <2>1, <3>2 DEF Uploading, JobOK, Rows
      <4> QED
        BY <3>2, <4>1 DEF Structure, UploadsApart
    <3> QED
      BY <3>1, <3>2
  <2> HIDE DEF n
  <2>3. /\ Present' = Present \cup {n}
        /\ Marked' = IF job[r].mark THEN Marked \cup {n} ELSE Marked \ {n}
    BY <1>0, <1>M, <2>1
  <2>4. ASSUME Between(r) PROVE OneMark'
    <3>1. CASE job[r].mark
      <4>1. Marked' = {n}
        BY <2>1, <2>3, <2>4, <3>1 DEF Between
      <4> QED
        BY <2>1, <4>1 DEF OneMark, Rows
    <3>2. CASE ~job[r].mark
      <4>1. Marked' = Marked /\ OneMark
        BY <1>0, <2>1, <2>2, <2>3, <2>4, <3>2 DEF Between
      <4> QED
        BY <4>1 DEF OneMark, Rows
    <3> QED
      BY <3>1, <3>2
  <2>5. Between(r) => Good'
    BY <2>3, <2>4 DEF Good, Kept
  <2> QED
    BY <1>F, <2>1, <2>5, UndisturbedStep
<1>6. ASSUME Write(r) PROVE UndisturbedOK'
  <2> DEFINE n == job[r].row
  <2>1. /\ pc[r] = "write" /\ UNCHANGED <<list, disturbed>>
        /\ n \in Present => row' = [row EXCEPT ![n] = Mark(job[r].mark)]
    BY <1>6 DEF Write
  <2>2. ASSUME Between(r)
        PROVE  /\ n \in Present /\ Present' = Present /\ OneMark'
               /\ job[r].mark => Marked' = {n}
    <3>1. n \in Present /\ n \in Rows
      BY <1>0, <2>1, <2>2 DEF Between
    <3>2. /\ Present' = Present
          /\ Marked' = IF job[r].mark THEN Marked \cup {n} ELSE Marked \ {n}
      BY <1>0, <1>M, <2>1, <3>1
    <3>3. CASE job[r].mark
      <4>1. Marked' = {n}
        BY <2>1, <2>2, <3>2, <3>3 DEF Between
      <4> QED
        BY <3>1, <3>2, <4>1 DEF OneMark, Rows
    <3>4. CASE ~job[r].mark
      <4>1. Marked' = Marked /\ OneMark
        BY <2>1, <2>2, <3>2, <3>4 DEF Between
      <4> QED
        BY <3>1, <3>2, <3>4, <4>1 DEF OneMark, Rows
    <3> QED
      BY <3>3, <3>4
  <2>3. CASE Finish(r)
    <3>1. Between(r) => Good'
      BY <2>1, <2>2 DEF Good, Kept
    <3> QED
      BY <1>F, <2>1, <2>3, <3>1, UndisturbedStep
  <2>4. CASE job[r].next = "write" /\ job' = [job EXCEPT ![r].next = "idle"] /\ UNCHANGED pc
    <3>1. /\ Alone(r) /\ pc'[r] = "write" /\ job'[r].row = n /\ job'[r].mark = job[r].mark
          /\ job[r].mark /\ job'[r].next = "idle"
      BY <1>0, <2>1, <2>4 DEF ListsOK, Alone, JobOK
    <3>2. Between(r) => Between(r)'
      BY <2>1, <2>2, <3>1 DEF Between
    <3> QED
      BY <2>1, <3>1, <3>2, UndisturbedStep
  <2> QED
    BY <1>6, <2>3, <2>4 DEF Write
<1>7. ASSUME Delete(r) PROVE UndisturbedOK'
  <2> DEFINE step == IF list = "options" THEN "promote" ELSE "unlink"
             n == job[r].row
  <2>1. /\ pc[r] = "delete" /\ row' = [row EXCEPT ![n] = "absent"]
        /\ Goto(r, step) /\ UNCHANGED <<list, disturbed>> /\ step \in Steps
        /\ step \in {"promote", "unlink"}
    BY <1>7 DEF Delete, Steps
  <2> HIDE DEF step
  <2>2. Alone(r) /\ pc'[r] = step /\ job' = job /\ job[r].next = "idle"
    BY <1>0, <1>G, <2>1 DEF JobOK
  <2>3. Present' = Present \ {n} /\ Marked' = Marked \ {n}
    BY <1>0, <2>1 DEF Present, Marked, ListsOK
  <2>4. ASSUME Between(r) PROVE Between(r)'
    <3>1. /\ n \in Present /\ OneMark /\ (job[r].mark <=> n \in Marked)
          /\ list = "options" => \E x \in Present : x # n
      BY <2>1, <2>4 DEF Between, Good
    <3>2. Kept'
      BY <2>1, <2>3, <3>1 DEF Kept
    <3>3. IF job[r].mark THEN Marked' = {} ELSE OneMark'
      <4>1. CASE job[r].mark
        BY <2>3, <3>1, <4>1 DEF OneMark
      <4>2. CASE ~job[r].mark
        <5>1. Marked' = Marked
          BY <2>3, <3>1, <4>2
        <5> QED
          BY <3>1, <4>2, <5>1 DEF OneMark, Rows
      <4> QED
        BY <4>1, <4>2
    <3> QED
      BY <2>1, <2>2, <3>2, <3>3 DEF Between
  <2> QED
    BY <2>1, <2>2, <2>4, UndisturbedStep
<1>8. ASSUME Unlink(r) PROVE UndisturbedOK'
  <2> SUFFICES ASSUME list # "booking" PROVE UndisturbedOK'
    BY <1>8 DEF Unlink, UndisturbedOK
  <2>1. pc[r] = "unlink" /\ Goto(r, "promote") /\ UNCHANGED <<list, row, disturbed>>
    BY <1>8 DEF Unlink
  <2>2. Alone(r) /\ pc'[r] = "promote" /\ job' = job /\ job[r].next = "idle"
    BY <1>0, <1>G, <2>1 DEF JobOK, Steps
  <2>3. Between(r) => Between(r)'
    BY <1>S, <1>K, <2>1, <2>2 DEF Between
  <2> QED
    BY <2>1, <2>2, <2>3, UndisturbedStep
<1>9. ASSUME Promote(r) PROVE UndisturbedOK'
  <2>1. pc[r] = "promote" /\ UNCHANGED <<list, row, disturbed>>
    BY <1>9 DEF Promote
  <2>2. job[r].row \notin Present /\ job[r].next = "idle"
    BY <1>0, <2>1 DEF Structure, UploadsApart, JobOK
  <2>3. CASE Finish(r) /\ (~job[r].mark \/ Present \subseteq {job[r].row})
    <3>1. Between(r) => Good
      BY <2>1, <2>2, <2>3 DEF Between, Good, Kept
    <3> QED
      BY <1>F, <1>K, <2>1, <2>3, <3>1, UndisturbedStep
  <2>4. ASSUME NEW n \in Present, job' = [job EXCEPT ![r].row = n], job[r].mark,
               pc' = [pc EXCEPT ![r] = "write"]
        PROVE  UndisturbedOK'
    <3>1. /\ Alone(r) /\ pc'[r] = "write" /\ job'[r].row = n
          /\ job'[r].mark = job[r].mark /\ job'[r].next = job[r].next
      BY <1>0, <2>4 DEF ListsOK, Alone
    <3>2. Between(r) => Between(r)'
      BY <1>S, <2>1, <2>2, <2>4, <3>1 DEF Between
    <3> QED
      BY <2>1, <3>1, <3>2, UndisturbedStep
  <2> QED
    BY <1>9, <2>3, <2>4 DEF Promote
<1>10. ASSUME Fail(r) \/ LoseAnswer(r) PROVE UndisturbedOK'
  BY <1>10 DEF Fail, LoseAnswer, UndisturbedOK
<1> QED
  BY <1>1, <1>2, <1>3, <1>4, <1>5, <1>6, <1>7, <1>8, <1>9, <1>10 DEF Step

LEMMA InitLists == ASSUME ListInit PROVE ListsInv
<1>1. Structure
  BY InitStructure
<1>2. ASSUME list = "options" PROVE \E d \in Rows : Marked = {d}
  <2>1. made \in 1 .. MaxRows /\ row \in [Rows -> {"absent", "marked", "plain"}]
    BY <1>1, <1>2 DEF ListInit, CreateService, Structure, ListsOK
  <2>2. PICK d \in 1 .. made : row = [n \in Rows |-> IF n <= made THEN Mark(n = d) ELSE "absent"]
    BY <1>2 DEF ListInit, CreateService
  <2>3. d \in Rows /\ d <= made
    BY <2>1, <2>2 DEF Rows
  <2>4. \A n \in Rows : row[n] = "marked" <=> n = d
    BY <2>2, <2>3 DEF Mark
  <2>5. Marked = {d}
    BY <2>3, <2>4 DEF Marked
  <2> QED
    BY <2>3, <2>5
<1>3. list # "options" => Present = {}
  BY DEF ListInit, CreateService, Present
<1>4. AtMostOneDefault
  BY <1>2 DEF AtMostOneDefault
<1>5. Marked \subseteq Present
  BY DEF Marked, Present
<1>6. Good
  BY <1>2, <1>3, <1>5 DEF Good, Kept, OneMark
<1>7. UndisturbedOK
  BY <1>6 DEF UndisturbedOK, ListInit
<1>8. RowsHaveFiles
  BY <1>3 DEF RowsHaveFiles
<1> QED
  BY <1>1, <1>4, <1>7, <1>8 DEF ListsInv

LEMMA NextLists == ASSUME ListsInv, [ListNext]_listVars PROVE ListsInv'
<1>1. ASSUME NEW r \in Edits, Arrive(r) \/ Step(r) PROVE ListsInv'
  BY <1>1, ArriveStructure, StepStructure, FilesStep, DefaultStep, ArriveUndisturbed, StepUndisturbed
  DEF ListsInv, Structure
<1>2. CASE UNCHANGED listVars
  BY <1>2 DEF listVars, ListsInv, Structure, ListsOK, JobOK, Numbered, UploadsApart, Uploading,
     RowsHaveFiles, AtMostOneDefault, UndisturbedOK, Good, Kept, OneMark, Between, Quiet,
     Present, Marked
<1> QED
  BY <1>1, <1>2 DEF ListNext

(* The inductive invariant of the lists holds throughout. *)
THEOREM ListsInvariance == ListSpec => []ListsInv
<1>1. ListInit => ListsInv
  BY InitLists
<1>2. ListsInv /\ [ListNext]_listVars => ListsInv'
  BY NextLists
<1> QED
  BY <1>1, <1>2, PTL DEF ListSpec

(* A service never has two default options, whatever stale reads are       *)
(* written back and however the two statements that move the mark overlap. *)
THEOREM OneDefault == ListSpec => []AtMostOneDefault
<1>1. ListsInv => AtMostOneDefault
  BY DEF ListsInv
<1> QED
  BY <1>1, ListsInvariance, PTL

(* The photos of a point or a booking have their files, whatever overlaps  *)
(* and fails, unless the answer of their INSERT was lost.                  *)
THEOREM FilesStay == ListSpec => []RowsHaveFiles
<1>1. ListsInv => RowsHaveFiles
  BY DEF ListsInv
<1> QED
  BY <1>1, ListsInvariance, PTL

(* A list changed by one request at a time keeps exactly one mark, and a   *)
(* service keeps an option.                                                *)
THEOREM MarkKept == ListSpec => []OneMarkWhenUndisturbed
<1>1. ASSUME ListsInv PROVE OneMarkWhenUndisturbed
  <2>1. ASSUME Quiet, ~disturbed, list # "booking" PROVE Kept /\ (Present # {} => OneMark)
    BY <1>1, <2>1 DEF ListsInv, UndisturbedOK, Good
  <2>2. list = "options" => list # "booking"
    OBVIOUS
  <2> QED
    BY <2>1, <2>2 DEF OneMarkWhenUndisturbed, Kept, OneMark
<1> QED
  BY <1>1, ListsInvariance, PTL
=============================================================================
