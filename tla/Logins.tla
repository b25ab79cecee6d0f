------------------------------- MODULE Logins -------------------------------
(***************************************************************************)
(* What a signed-in person is promised, without tokens, requests or        *)
(* statements: a login is opened once, stays open through any number of    *)
(* refreshes, and once it is over it can never be used again.              *)
(***************************************************************************)
CONSTANT Names      \* names a login may get

VARIABLE state      \* of each login

Init == state = [l \in Names |-> "none"]

SignIn(l) ==
    /\ state[l] = "none"
    /\ state' = [state EXCEPT ![l] = "open"]

(* A logout, a lapse or a failure ends one login, a change of password all *)
(* the logins of an account.                                               *)
End(S) ==
    /\ \A l \in S : state[l] = "open"
    /\ state' = [l \in Names |-> IF l \in S THEN "over" ELSE state[l]]

Next ==
    \/ \E l \in Names : SignIn(l)
    \/ \E S \in SUBSET Names : End(S)

Spec == Init /\ [][Next]_state
=============================================================================
