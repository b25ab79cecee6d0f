---------------------------- MODULE Availability ----------------------------
(***************************************************************************)
(* The slot arithmetic of internal/queue/availability.go, as operators.    *)
(* Times are natural numbers, intervals half-open.  A day schedule has its *)
(* break as a set of at most one interval <<start, end>>.                  *)
(***************************************************************************)
EXTENDS Integers, FiniteSets, FiniteSetsExt

CONSTANT AvailabilitySlotStep    \* distance of the candidate start times

ASSUME StepAssumption == AvailabilitySlotStep \in Nat \ {0}

Overlaps(s1, e1, s2, e2) == s1 < e2 /\ s2 < e1

Later(x, y) == IF x < y THEN y ELSE x
Earlier(x, y) == IF x < y THEN x ELSE y

-----------------------------------------------------------------------------
(* Opening hours *)

(* Windows: the open parts of the day, the break cut out of the hours. *)
MutUnclipped(d) ==
    IF ~d.is_open \/ d.close <= d.open THEN {}
    ELSE LET breaks == {b \in d.brk : b[1] < b[2]}
         IN  IF breaks = {} THEN {<<d.open, d.close>>}
             ELSE {w \in UNION {{<<d.open, b[1]>>, <<b[2], d.close>>} : b \in breaks} : w[1] < w[2]}

Windows(d) ==
    IF ~d.is_open \/ d.close <= d.open THEN {}
    ELSE LET clipped == {<<Later(b[1], d.open), Earlier(b[2], d.close)>> : b \in d.brk}
             breaks  == {b \in clipped : b[1] < b[2]}
         IN  IF breaks = {} THEN {<<d.open, d.close>>}
             ELSE {w \in UNION {{<<d.open, b[1]>>, <<b[2], d.close>>} : b \in breaks} : w[1] < w[2]}

Contains(d, start, end) == \E w \in Windows(d) : w[1] <= start /\ end <= w[2]

-----------------------------------------------------------------------------
(* Slots with the boxes that are free for them *)

(* Candidate starts in the window w for a booking of the given length. *)
Starts(w, duration) ==
    {s \in w[1]..w[2] : /\ (s - w[1]) % AvailabilitySlotStep = 0
                        /\ s + duration <= w[2]}

freeBoxes(start, end, boxesCount, busy) ==
    {n \in 1..boxesCount :
        ~ \E b \in busy : b.box = n /\ Overlaps(b.start, b.end, start, end)}

ComputeAvailableSlotsWithBoxes(w, boxesCount, duration, busy) ==
    {[start |-> s, boxes |-> freeBoxes(s, s + duration, boxesCount, busy)] :
        s \in {t \in Starts(w, duration) : freeBoxes(t, t + duration, boxesCount, busy) # {}}}

ComputeAvailableSlotsForDay(d, boxesCount, duration, busy) ==
    UNION {ComputeAvailableSlotsWithBoxes(w, boxesCount, duration, busy) : w \in Windows(d)}

-----------------------------------------------------------------------------
(* The older count of busy boxes *)

(* The events of a busy interval, clipped to [start, end): when, which way, whose. *)
StartEvent(b, start) == <<Later(b.start, start), 1, b>>
EndEvent(b, end) == <<Earlier(b.end, end), -1, b>>

Events(start, end, busy) ==
    LET hit == {b \in busy : Overlaps(b.start, b.end, start, end)}
    IN  {StartEvent(b, start) : b \in hit} \cup {EndEvent(b, end) : b \in hit}

(* Is event e processed before f?  Ends come before starts of the same time. *)
MutStartsFirst(e, f) == e[1] < f[1] \/ (e[1] = f[1] /\ e[2] > f[2])

EventBefore(e, f) == e[1] < f[1] \/ (e[1] = f[1] /\ e[2] < f[2])

(* The event that sorting puts last; which of equal ones, it leaves open. *)
lastEvent(events) == CHOOSE e \in events : \A f \in events : ~EventBefore(e, f)

(* maxOverlap: the running sum over the sorted events, and its maximum. *)
maxOverlap(start, end, busy) ==
    LET add(e, acc) == [occupied |-> acc.occupied + e[2],
                        most     |-> Later(acc.most, acc.occupied + e[2])]
    IN  MapThenFoldSet(add, [occupied |-> 0, most |-> 0], LAMBDA e : e, lastEvent,
                       Events(start, end, busy)).most

(* The most intervals of busy that share an instant of [start, end). *)
MostAtOnce(start, end, busy) ==
    Max({Cardinality({b \in busy : b.start <= t /\ t < b.end}) : t \in start..(end - 1)})

ComputeAvailableSlots(w, boxesCount, duration, busy) ==
    {s \in Starts(w, duration) : maxOverlap(s, s + duration, busy) < boxesCount}
=============================================================================
