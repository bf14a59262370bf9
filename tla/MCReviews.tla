----------------------------- MODULE MCReviews -----------------------------
(***************************************************************************)
(* Small instances of what admins decide about a user.                     *)
(***************************************************************************)
EXTENDS Reviews, TLC

Symmetric == Permutations(Handlers) \cup Permutations(Docs) \cup Permutations(Admins)
=============================================================================
