--------------------------- MODULE MCRatingLedger ---------------------------
(***************************************************************************)
(* Instances of RatingLedger for TLC.                                      *)
(***************************************************************************)
EXTENDS RatingLedger, TLC

Symmetry == Permutations(Ratings) \cup Permutations(Tabs)

=============================================================================
