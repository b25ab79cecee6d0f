----------------------------- MODULE MCPointDay -----------------------------
(***************************************************************************)
(* A day of three ticks with candidate starts every two, so that bookings  *)
(* end between candidates; schedules with no break, with one between the   *)
(* hours and with one that touches the closing time, and rows that         *)
(* validateHours refuses: hours the wrong way round and breaks that exceed *)
(* the hours, swallow them, miss them or are inverted.  Two requests: one  *)
(* books, and staff change the schedule and the boxes, between the plan    *)
(* and the insert of the other.                                            *)
(***************************************************************************)
EXTENDS PointDay, TLC

CONSTANTS r1, r2

Day(open, close, brk) == [is_open |-> TRUE, open |-> open, close |-> close, brk |-> brk]

Accepted == {Day(0, 3, {}), Day(0, 3, {<<1, 2>>}), Day(1, 3, {<<2, 3>>}), ClosedDay}
Refused ==
    {Day(2, 1, {}), Day(0, 2, {<<1, 3>>}), Day(1, 3, {<<0, 2>>}), Day(1, 2, {<<0, 3>>}),
     Day(2, 3, {<<0, 1>>}), Day(0, 3, {<<2, 1>>})}

MCInputs == Accepted \cup Refused
MCReqs == {r1, r2}
Symmetry == Permutations(Reqs)
=============================================================================
