------------------------------ MODULE MCQRPool ------------------------------
(* The instance of QRPool that TLC checks. *)
EXTENDS QRPool, TLC

(* Codes, points and requests are told apart only by their state. *)
Symmetry == Permutations(Codes) \cup Permutations(Points) \cup Permutations(Reqs)
=============================================================================
