-------------------------- MODULE MCDivisionLeads --------------------------
(***************************************************************************)
(* Division leadership on small instances.                                 *)
(***************************************************************************)
EXTENDS DivisionLeads, TLC

Symmetry ==
    Permutations(Division) \cup Permutations(User)
        \cup Permutations(Row) \cup Permutations(Request)
=============================================================================
