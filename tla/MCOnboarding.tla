---------------------------- MODULE MCOnboarding ----------------------------
(***************************************************************************)
(* Onboarding for TLC: points and requests are interchangeable.            *)
(***************************************************************************)
EXTENDS Onboarding, TLC

Symmetry == Permutations(Points) \cup Permutations(Reqs)
=============================================================================
