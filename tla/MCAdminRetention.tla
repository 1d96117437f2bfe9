-------------------------- MODULE MCAdminRetention --------------------------
(***************************************************************************)
(* Administrator retention on small instances.                             *)
(***************************************************************************)
EXTENDS AdminRetention, TLC

Symmetry == Permutations(User) \cup Permutations(Assignment) \cup Permutations(Transaction)
=============================================================================
