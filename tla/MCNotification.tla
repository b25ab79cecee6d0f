--------------------------- MODULE MCNotification ---------------------------
(***************************************************************************)
(* push_once: two schedulers, the goroutines of status changes and two     *)
(* phones of one customer meet in one moment of time, where a booking for  *)
(* tick 1 has its reminder due.                                            *)
(*                                                                         *)
(* push_due: two customers with a phone each, and with the start at tick 2 *)
(* and a lead of 2 a booking made at tick 1 is made at short notice; the   *)
(* late stage is due at tick 3 and capped at 4.  The second booking may be *)
(* out of queue: FindDue selects it at every tick of the scheduler, and    *)
(* NotifyStage skips it without a record.                                  *)
(***************************************************************************)
EXTENDS Notification, FiniteSets, TLC

CONSTANTS u1, u2, p1, b1, b2, t1, t2

AskAt(u, start) ==
    [source |-> "app", overflow |-> FALSE, user |-> u, point |-> p1,
     box |-> 1, start |-> start, minutes |-> 1]

OutOfQueue(a) == [a EXCEPT !.source = "manual", !.overflow = TRUE]

DueAsks == {AskAt(u1, 2), AskAt(u2, 2), OutOfQueue(AskAt(u2, 2))}
SoonAsks == {AskAt(u1, 1)}

(* Rows of different stages have no statement in common: one at a time. *)
OneStage == Cardinality({n \in Ids \X Kind : notifications[n] # "none"}) <= 1

(***************************************************************************)
(* Only customers, staff and phones are held back, never a scheduler or a  *)
(* call: each booking and each phone has its customer, bookings are made   *)
(* by tick 1, and only the second one is canceled and restored.            *)
(***************************************************************************)
QuietWorld ==
    /\ queue[b1].status \in {"none", "queue"} /\ queue[b2].status \in {"none", "queue", "canceled"}
    /\ queue[b1] # NoRow => queue[b1].user = u1
    /\ queue[b2] # NoRow => queue[b2].user = u2
    /\ device[t1] # u2 /\ device[t2] # u1
    /\ \A id \in Ids : created_at[id] <= 1

Symmetry == Permutations(Instances) \cup Permutations(Tokens)
=============================================================================
