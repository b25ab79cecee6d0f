------------------------------ MODULE MCViews -------------------------------
(***************************************************************************)
(* Instance of Views: two days of two hours; box 1 in both hours of the    *)
(* first day and all of the second, an out-of-queue booking, and box 1 of  *)
(* another point; a service with two options, of which one is deleted and  *)
(* so priced at nothing.                                                   *)
(***************************************************************************)
EXTENDS Views, TLC

CONSTANTS u1, u2, u3, p1, p2

MCUsers == {u1, u2, u3}
MCPoints == {p1, p2}

Ask(u, overflow, p, start, minutes) ==
    [source |-> "manual", overflow |-> overflow, user |-> u, point |-> p, box |-> 1,
     start |-> start, minutes |-> minutes]

MCAsks ==
    {Ask(u1, FALSE, p1, 1, 1), Ask(u2, FALSE, p1, 0, 1), Ask(u2, FALSE, p1, 2, 2),
     Ask(u3, TRUE, p1, 0, 1), Ask(u3, FALSE, p2, 1, 1)}

Item(s, o) == [service |-> s, option |-> o]

MCBaskets == {{Item("wash", "small")}, {Item("wash", "large"), Item("wax", "wax")}}

MCPrices == {[small |-> 1, large |-> 0, wax |-> 4]}

(***************************************************************************)
(* The statistics of a code read neither what was ordered nor what became  *)
(* of it, and nothing else reads the scans: with scans, only histories in  *)
(* which the bookings are small washes that have not begun are followed.   *)
(***************************************************************************)
ScansApart ==
    scans # <<>> => \A o \in Booked : /\ items[o] = {Item("wash", "small")}
                                      /\ queue[o].status = "queue"

Symmetry == Permutations(Ids)
=============================================================================
