-------------------------- MODULE MCCampaignWorker --------------------------
(***************************************************************************)
(* Instances of CampaignWorker for TLC: two cells of one model.            *)
(***************************************************************************)
EXTENDS CampaignWorker

CONSTANT m1

MCOneModel == <<m1, m1>>

MCInitial == <<"ready", "ready">>

MCEstimate == <<1, 1>>

MCBoth == {{1, 2}}

=============================================================================
