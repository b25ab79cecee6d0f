----------------------------- MODULE MCSessions -----------------------------
(* The instance of Sessions that TLC checks. *)
EXTENDS Sessions, TLC

(* Neither tokens nor requests are told apart by anything but their state. *)
Symmetry == Permutations(Tokens) \cup Permutations(Reqs)
=============================================================================
