--------------------------- MODULE MCPhoneSignIn ----------------------------
(* Instance of PhoneSignIn: the requests in progress are interchangeable. *)
EXTENDS PhoneSignIn, TLC

Symmetry == Permutations(Reqs)
=============================================================================
