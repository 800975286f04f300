---------------------------- MODULE MCStoreAudit ----------------------------
(***************************************************************************)
(* Instances of StoreAudit for TLC: two cells of one model.                *)
(***************************************************************************)
EXTENDS StoreAudit, TLC

CONSTANT m1

MCModelOf == <<m1, m1>>

MCInitial == <<"ready", "ready">>

MCEstimate == <<1, 2>>

MCFilters == {{1, 2}}

Symmetry == Permutations(Tokens)

=============================================================================
