---------------------------- MODULE MCBenchmark ----------------------------
(***************************************************************************)
(* An instance of TrialRunner, Completion, Judging and CampaignLedger for  *)
(* TLC: a behaviour is of runs, whose calls and scores are one step each,  *)
(* of one call, of the scoring of one output, or of a campaign from its    *)
(* qualification to its end.                                               *)
(*                                                                         *)
(* One task that is twice in the list, and two seeds that give one trial   *)
(* of each the same identity.  The judges' weights make some means meet    *)
(* the thresholds exactly.  The campaign has two models, both in the first *)
(* stage and one in the second, of one task each, and an outcome that was  *)
(* not retained.                                                           *)
(***************************************************************************)
EXTENDS TrialRunner, Completion, Judging, CampaignLedger

MCTaskList == <<1, 1>>

MCAnimalFeatures == <<"bill">>
MCObjectFeatures == <<>>
MCRelations == <<[predicate |-> "rides", required |-> TRUE]>>

MCJudges == <<"j1", "j2">>
MCWeight == [j1 |-> 3, j2 |-> 1]

V1Policy == [allow_visible_text |-> FALSE, max_visible_text_characters |-> 0,
             quarantine_instruction_like_text |-> TRUE,
             require_safe_source |-> TRUE, require_nonblank_render |-> TRUE]

\* The V1 policy, one that permits a little text, and one that requires nothing.
MCFirewallPolicies ==
    {V1Policy,
     [V1Policy EXCEPT !.allow_visible_text = TRUE, !.max_visible_text_characters = 1],
     [V1Policy EXCEPT !.require_safe_source = FALSE, !.require_nonblank_render = FALSE]}

MCStages == <<[models |-> {1, 2}, tasks |-> {1}], [models |-> {1}, tasks |-> {1}]>>

Unretained == [retained |-> FALSE, success |-> TRUE, valid |-> TRUE, secure |-> TRUE,
               first |-> TRUE]

MCDelivered == {Unretained}

MCGates == [success |-> 80, secure |-> 80, first |-> 50, unretained |-> 0]

MCPolicies ==
    {[budget |-> 3, reserve |-> 0, cap |-> 1, shard |-> 1,
      requirePrice |-> TRUE, requireBudget |-> TRUE],
     [budget |-> 5, reserve |-> 50, cap |-> 1, shard |-> 1,
      requirePrice |-> TRUE, requireBudget |-> TRUE],
     [budget |-> 3, reserve |-> 50, cap |-> 2, shard |-> 2,
      requirePrice |-> FALSE, requireBudget |-> TRUE],
     [budget |-> Absent, reserve |-> 0, cap |-> 2, shard |-> 2,
      requirePrice |-> TRUE, requireBudget |-> FALSE]}

MCPrices == {<<1, 1>>, <<1, Absent>>}

VARIABLE scope    \* "runs", "call", "score" or "campaign"

RunsNext ==
    scope = "runs" /\ Next /\ UNCHANGED <<completionVars, judgingVars, campaignVars, scope>>

CallNext ==
    scope = "call" /\ CompletionNext /\ UNCHANGED <<vars, judgingVars, campaignVars, scope>>

ScoreNext ==
    scope = "score" /\ JudgingNext /\ UNCHANGED <<vars, completionVars, campaignVars, scope>>

CellsNext ==
    scope = "campaign" /\ CampaignNext /\ UNCHANGED <<vars, completionVars, judgingVars, scope>>

\* What a behaviour is not about starts in one way.
BenchmarkStart ==
    /\ Init /\ CompletionInit /\ JudgingInit /\ CampaignInit
    /\ scope \in {"runs", "call", "score", "campaign"}
    /\ scope # "call" => text = <<>> /\ streamed
    /\ scope # "score" =>
          /\ document = [safe |-> TRUE, text |-> 0, marked |-> FALSE, picture |-> "drawn"]
          /\ policy = V1Policy /\ assessor = "none"

BenchmarkSpec ==
    /\ BenchmarkStart
    /\ [][RunsNext \/ CallNext \/ ScoreNext \/ CellsNext]_
          <<vars, completionVars, judgingVars, campaignVars, scope>>
    /\ Fairness /\ CampaignFairness

=============================================================================
