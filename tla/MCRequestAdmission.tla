------------------------- MODULE MCRequestAdmission -------------------------
(***************************************************************************)
(* The admission of requests on small instances.                           *)
(***************************************************************************)
EXTENDS RequestAdmission, TLC

Symmetry == Permutations(Request)
=============================================================================
