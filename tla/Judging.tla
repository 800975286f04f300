------------------------------ MODULE Judging ------------------------------
(***************************************************************************)
(* run_benchmark between the output of one trial and its score: the        *)
(* document is inspected and rendered, a semantic assessor has the picture *)
(* judged question by question, the assessment is matched and scored, and  *)
(* the firewall decides what the judges may see (runner.py, semantic.py,   *)
(* scoring.py, judge_firewall.py).                                         *)
(*                                                                         *)
(* Of a document there is what the decisions depend on; probabilities are  *)
(* in percent.  An exception of an assessor leaves the run.                *)
(***************************************************************************)
EXTENDS Integers, Sequences, SequencesExt

CONSTANTS
    AnimalFeatures, ObjectFeatures,   \* the required features of the task's entities
    Relations,      \* the task's relations: a predicate, and whether it is required
    Judges,         \* the judges of the ensemble, in order
    Weight,         \* family_weights
    Calibration,    \* calibration_version of the ensemble, or NoVersion
    NoVersion,
    Percentages,    \* probabilities that judges answer
    FirewallPolicies, \* those that a run may have
    NoAssessment, NoScore,
    MaxCharacters   \* bound: characters of visible text

Policy == [allow_visible_text : BOOLEAN, max_visible_text_characters : Nat,
           quarantine_instruction_like_text : BOOLEAN,
           require_safe_source : BOOLEAN, require_nonblank_render : BOOLEAN]

ASSUME JudgingAssumption ==
    /\ FirewallPolicies \subseteq Policy
    /\ AnimalFeatures \in Seq(STRING) /\ ObjectFeatures \in Seq(STRING)
    /\ Relations \in Seq([predicate : STRING, required : BOOLEAN])
    /\ Judges \in Seq(Range(Judges)) /\ Len(Judges) > 0 /\ IsInjective(Judges)
    /\ Weight \in [Range(Judges) -> Int]
    /\ Percentages \subseteq 0 .. 100
    /\ MaxCharacters \in Nat

VARIABLES
    document,     \* what inspection and rendering make of the output
    policy,       \* judge_policy
    assessor,     \* the semantic assessor of the run
    stage,        \* how far the trial has come
    heard,        \* raw_answers of the judges, in the order they were asked
    assessment,   \* the assessment, and its file
    scorecard     \* the score, and its file

judgingVars == <<document, policy, assessor, stage, heard, assessment, scorecard>>

----------------------------------------------------------------------------
(* The questions about a task                                              *)

Question(kind, name, critical) == [id |-> <<kind, name>>, critical |-> critical]

AnimalPresent == <<"animal", "present">>
ObjectPresent == <<"object", "present">>
SceneCoherent == <<"scene", "coherent">>

Feature(kind, features) == [i \in DOMAIN features |-> <<kind, features[i]>>]
AnimalIds == Feature("animal feature", AnimalFeatures)
ObjectIds == Feature("object feature", ObjectFeatures)

Questions ==
    <<Question("animal", "present", TRUE), Question("object", "present", TRUE)>>
    \o [i \in DOMAIN AnimalIds |-> [id |-> AnimalIds[i], critical |-> FALSE]]
    \o [i \in DOMAIN ObjectIds |-> [id |-> ObjectIds[i], critical |-> FALSE]]
    \o [i \in DOMAIN Relations |->
          Question("relation", Relations[i].predicate, Relations[i].required)]
    \o <<Question("scene", "coherent", FALSE)>>

Ids == [i \in DOMAIN Questions |-> Questions[i].id]
Critical == {Questions[i].id : i \in {j \in DOMAIN Questions : Questions[j].critical}}

----------------------------------------------------------------------------
(* inspect_svg, render_svg and the firewall                                *)

\* An unsafe document is not rendered, and rendering may fail.
Documents ==
    {d \in [safe : BOOLEAN, text : 0 .. MaxCharacters, marked : BOOLEAN,
            picture : {"missing", "blank", "drawn"}] :
        ~d.safe => d.picture = "missing"}

\* Instruction-like words are looked for in the source, comments included, but
\* only when there is visible text.
Marked == document.text > 0 /\ document.marked

Rejected ==
    \/ policy.require_safe_source /\ ~document.safe
    \/ policy.require_nonblank_render /\ document.picture # "drawn"

Quarantined ==
    \/ ~policy.allow_visible_text /\ document.text > 0
    \/ document.text > policy.max_visible_text_characters
    \/ policy.quarantine_instruction_like_text /\ Marked

Decision ==
    IF Rejected THEN "rejected" ELSE IF Quarantined THEN "quarantined" ELSE "eligible"

----------------------------------------------------------------------------
(* The assessors                                                           *)

\* Judge j's answer to question i: each question is put to all judges.
Place(i, j) == (i - 1) * Len(Judges) + j

Weights == [j \in DOMAIN Judges |-> Weight[Judges[j]]]

\* aggregate_judges: the weighted mean of the answers to a question.
Aggregated(i) ==
    SumFunction([j \in DOMAIN Judges |-> Weights[j] * heard[Place(i, j)]])
      \div SumFunction(Weights)

\* Whether judges agree with themselves: the weights have a positive sum, their
\* means are probabilities, and no question was asked twice.
CanAggregate ==
    /\ SumFunction(Weights) > 0
    /\ \A i \in DOMAIN Questions : Aggregated(i) \in 0 .. 100
    /\ IsInjective(Ids)

Assessment(probability, version) ==
    [task |-> "this", picture |-> "this", independent |-> TRUE,
     probability |-> probability, version |-> version]

\* What any SemanticAssessor may return: also about another task or picture, or
\* with questions left out.
Returned ==
    [task : {"this", "other"}, picture : {"this", "other"}, independent : BOOLEAN,
     probability : UNION {[S -> Percentages] : S \in SUBSET Range(Ids)},
     version : {NoVersion}]

----------------------------------------------------------------------------
(* score_svg                                                               *)

\* Fault: the assessment is not bound to the picture.
MatchesTask(a) ==
    /\ a.task = "this" /\ a.independent
    /\ Critical \subseteq DOMAIN a.probability

Matches(a) ==
    /\ a.task = "this" /\ a.picture = "this" /\ a.independent
    /\ Critical \subseteq DOMAIN a.probability

Accepted == assessment # NoAssessment /\ Matches(assessment)

\* No assessment that matches means no semantic credit.
Probability(id) ==
    IF Accepted /\ id \in DOMAIN assessment.probability
    THEN assessment.probability[id] ELSE 0

MeanOf(ids) ==
    IF DOMAIN ids = {} THEN 0
    ELSE SumFunction([i \in DOMAIN ids |-> Probability(ids[i])]) \div Cardinality(DOMAIN ids)

\* Parts do not make up for an entity that is absent.
EntityScore(present, features) ==
    LET parts == IF features = <<>> THEN 100 ELSE MeanOf(features)
    IN  (Probability(present) * (100 + parts)) \div 200

RelationIds ==
    [i \in {j \in DOMAIN Relations : Relations[j].required} |->
        <<"relation", Relations[i].predicate>>]

Interaction ==
    LET animal == Probability(AnimalPresent)
        vehicle == Probability(ObjectPresent)
    IN  (MeanOf(RelationIds) * (IF animal < vehicle THEN animal ELSE vehicle)) \div 100

Gates ==
    [safe_and_parseable           |-> document.safe,
     nonblank_render              |-> document.picture = "drawn",
     source_independent_semantics |-> Accepted,
     semantic_assessment_complete |-> Accepted,
     animal_minimum               |-> EntityScore(AnimalPresent, AnimalIds) >= 25,
     vehicle_minimum              |-> EntityScore(ObjectPresent, ObjectIds) >= 25,
     interaction_minimum          |-> Interaction >= 25,
     judge_input_safe             |-> Decision = "eligible"]

EvidenceLevel ==
    IF Accepted /\ assessment.version \notin {NoVersion, "fixture-only"} THEN "E3" ELSE "E2"

Scored ==
    [gates |-> Gates, valid |-> \A g \in DOMAIN Gates : Gates[g], evidence |-> EvidenceLevel,
     assessed |-> Accepted, interaction |-> Interaction]

----------------------------------------------------------------------------
(* run_benchmark                                                           *)

JudgingInit ==
    /\ document \in Documents
    /\ policy \in FirewallPolicies
    /\ assessor \in {"none", "static", "ensemble", "other"}
    /\ stage = "written"
    /\ heard = <<>>
    /\ assessment = NoAssessment
    /\ scorecard = NoScore

\* The assessor is called whenever there is a picture.
Render ==
    /\ stage = "written"
    /\ stage' = IF assessor # "none" /\ document.picture # "missing" THEN "assess" ELSE "score"
    /\ UNCHANGED <<document, policy, assessor, heard, assessment, scorecard>>

AllHeard == Len(heard) = Len(Questions) * Len(Judges)

JudgeAnswers ==
    /\ stage = "assess" /\ assessor = "ensemble" /\ ~AllHeard
    /\ \E p \in Percentages : heard' = Append(heard, p)
    /\ UNCHANGED <<document, policy, assessor, stage, assessment, scorecard>>

Raise ==
    /\ stage' = "raised"
    /\ UNCHANGED <<document, policy, assessor, heard, assessment, scorecard>>

\* A judge fails, answers another question, or under another identity.
JudgeFails == stage = "assess" /\ assessor = "ensemble" /\ ~AllHeard /\ Raise

AssessorFails == stage = "assess" /\ assessor = "other" /\ Raise

\* The assessment is written to its file.
Assess(a) ==
    /\ stage = "assess"
    /\ assessment' = a
    /\ stage' = "score"
    /\ UNCHANGED <<document, policy, assessor, heard, scorecard>>

EndEnsemble ==
    /\ assessor = "ensemble" /\ stage = "assess" /\ AllHeard
    /\ IF CanAggregate
       THEN Assess(Assessment([id \in Range(Ids) |->
                        Aggregated(CHOOSE i \in DOMAIN Ids : Ids[i] = id)], Calibration))
       ELSE Raise

\* The fixture answers yes to everything.
AssessStatically ==
    /\ assessor = "static"
    /\ Assess(Assessment([id \in Range(Ids) |-> 100], "fixture-only"))

AssessOtherwise == assessor = "other" /\ \E a \in Returned : Assess(a)

\* Only now the firewall is asked.
Score ==
    /\ stage = "score"
    /\ scorecard' = Scored
    /\ stage' = "done"
    /\ UNCHANGED <<document, policy, assessor, heard, assessment>>

JudgingNext ==
    \/ Render \/ JudgeAnswers \/ JudgeFails \/ AssessorFails
    \/ EndEnsemble \/ AssessStatically \/ AssessOtherwise \/ Score

JudgingSpec == JudgingInit /\ [][JudgingNext]_judgingVars

----------------------------------------------------------------------------
(* Properties                                                              *)

IndexOf(id) == CHOOSE i \in DOMAIN Ids : Ids[i] = id

\* Judges with at least a quarter of the ensemble's weight have not ruled out
\* what is asked; a judge whose weight is negative supports nothing.
Supported(id) ==
    LET support == [j \in DOMAIN Judges |->
                       IF heard[Place(IndexOf(id), j)] > 0 /\ Weights[j] > 0
                       THEN Weights[j] ELSE 0]
    IN  4 * SumFunction(support) >= SumFunction(Weights)

\* A valid score is earned: of a safe document whose picture is drawn and whose
\* text the policy permits, by an assessment of this picture and task that
\* answers the critical questions, in which every judge was heard and both
\* entities and a required relation found support, whatever other questions
\* were answered and in whatever order evidence came; and only an assessment
\* with a calibration makes it E3.
CreditIsEarned ==
    (scorecard # NoScore /\ scorecard.valid) =>
        /\ document.safe /\ document.picture = "drawn"
        /\ document.text = 0 \/ (policy.allow_visible_text /\ ~Quarantined)
        /\ assessment.task = "this" /\ assessment.picture = "this"
        /\ Critical \subseteq DOMAIN assessment.probability
        /\ assessor = "ensemble" =>
              /\ AllHeard
              /\ Supported(AnimalPresent) /\ Supported(ObjectPresent)
              /\ \E i \in DOMAIN RelationIds : Supported(RelationIds[i])
        /\ scorecard.evidence = "E3" => assessor = "ensemble" /\ Calibration # NoVersion

\* The documentation's: what is quarantined is not judged automatically.  The
\* code asks the judges before it asks the firewall.
QuarantinedUnjudged ==
    heard # <<>> \/ assessment # NoAssessment => Decision # "quarantined"

=============================================================================
