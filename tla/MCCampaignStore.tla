--------------------------- MODULE MCCampaignStore ---------------------------
(***************************************************************************)
(* Instances of CampaignStore for TLC.  Cells 1 and 2 belong to model m1,  *)
(* cell 3 to model m2.                                                     *)
(***************************************************************************)
EXTENDS CampaignStore, TLC

CONSTANTS m1, m2

MCModelOf == <<m1, m1, m2>>

MCInitial == <<"ready", "ready", "ready">>

MCEstimate == <<2, 1, 1>>

MCOneModel == <<m1>>

MCOneInitial == <<"ready">>

MCOneEstimate == <<1>>

MCOneFilters == {{1}}

MCFilters == {{1, 2, 3}, {3}}

Symmetry == Permutations(Workers) \cup Permutations(Tokens)

=============================================================================
