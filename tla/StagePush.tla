----------------------------- MODULE StagePush ------------------------------
(***************************************************************************)
(* What a customer is promised about one stage of a booking, without       *)
(* schedulers, calls or statements: it is taken up once, reaches a phone   *)
(* once at most and only while it is under way, and is over for good when  *)
(* it is recorded, by what is known of the phones it reached, or lost with *)
(* whoever took it up or meant to.                                         *)
(***************************************************************************)
EXTENDS Naturals

CONSTANT Phones

VARIABLES
    state,      \* "none", "under way", "sent", "failed" or "lost"
    received,   \* phone -> how often it got the stage
    known       \* phones whose receipt has been acknowledged

vars == <<state, received, known>>

Init == state = "none" /\ received = [p \in Phones |-> 0] /\ known = {}

TakeUp ==
    /\ state = "none"
    /\ state' = "under way"
    /\ UNCHANGED <<received, known>>

(* The acknowledgement of a receipt may get lost. *)
Reach(p) ==
    /\ state = "under way" /\ received[p] = 0
    /\ received' = [received EXCEPT ![p] = 1]
    /\ known' \in {known, known \cup {p}}
    /\ UNCHANGED state

Record ==
    /\ state = "under way"
    /\ state' = IF known # {} THEN "sent" ELSE "failed"
    /\ UNCHANGED <<received, known>>

Lose ==
    /\ state \in {"none", "under way"}
    /\ state' = "lost"
    /\ UNCHANGED <<received, known>>

Next == TakeUp \/ Record \/ Lose \/ \E p \in Phones : Reach(p)

Spec == Init /\ [][Next]_vars
=============================================================================
