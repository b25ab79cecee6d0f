---------------------------- MODULE BookingLedger ----------------------------
(***************************************************************************)
(* What the booking API promises about the queue table, without requests,  *)
(* locks or stale reads: each change happens at one instant, and only when *)
(* it is legal at that instant.                                            *)
(***************************************************************************)
EXTENDS QueueTable

Init == queue = [id \in Ids |-> NoRow]

(* A booking appears only where its box and its client are free. *)
Book(id, a) ==
    /\ queue[id] = NoRow
    /\ ~CreateRefused(a)
    /\ queue' = [queue EXCEPT ![id] = NewRow(a)]

(* A booking moves along the staff transitions; a restore needs its place. *)
Move(id, to) ==
    /\ to \in staffStatusTransitions(queue[id].status)
    /\ to = "queue" => ~UpdateRefused(id, to)
    /\ queue' = [queue EXCEPT ![id] = WithStatus(queue[id], to)]

(* A booking is canceled before its wash starts, never later. *)
Cancel(id) ==
    /\ queue[id].status \in {"queue", "waiting"}
    /\ queue' = [queue EXCEPT ![id] = WithStatus(queue[id], "canceled")]

(* Only a wash in progress is paused or resumed. *)
Pause(id, paused) ==
    /\ queue[id].status = "washing"
    /\ queue' = [queue EXCEPT ![id].paused_at = paused]

Next ==
    \E id \in Ids :
        \/ \E a \in Asks : Book(id, a)
        \/ \E to \in Status : Move(id, to)
        \/ Cancel(id)
        \/ \E paused \in BOOLEAN : Pause(id, paused)

Spec == Init /\ [][Next]_queue
=============================================================================
