----------------------------- MODULE MCBooking -----------------------------
(***************************************************************************)
(* A small instance of Booking.  A customer's booking in the app and staff *)
(* booking a walk-in compete for box 1 of point p1 with overlapping times; *)
(* staff also enter the customer out of queue at p2, under another row     *)
(* lock and for the same time.                                             *)
(***************************************************************************)
EXTENDS Booking

CONSTANTS u1, u2, p1, p2

MCUsers == {u1, u2}
MCPoints == {p1, p2}

App(u, p, s) ==
    [source |-> "app", overflow |-> FALSE, user |-> u, point |-> p,
     box |-> 1, start |-> s, minutes |-> 2]

Manual(u, p, s, o) ==
    [source |-> "manual", overflow |-> o, user |-> u, point |-> p,
     box |-> 1, start |-> s, minutes |-> 2]

MCAsks == {App(u1, p1, 0), Manual(u2, p1, 1, FALSE), Manual(u1, p2, 0, TRUE)}

MCWindows == {<<0, 3>>}
=============================================================================
