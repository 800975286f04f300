-------------------------- MODULE HumanCalibration --------------------------
(***************************************************************************)
(* Human calibration (calibration.py, human_study.py, calibration_ops.py): *)
(* the sample of artifacts, the raters' sessions, the analysis of their    *)
(* responses, the stopping rule and the adjudication queue.                *)
(*                                                                         *)
(* The three open-text fields are treated alike and are one label here,    *)
(* the criteria one rating.  The commands read the responses and the       *)
(* analysis from files, while the raters go on.                            *)
(***************************************************************************)
EXTENDS Integers, Sequences, FiniteSets, SequencesExt, FiniteSetsExt

CONSTANTS
    Rows,            \* the shuffled candidates of each sampling cell
    TaskOf,          \* the task of each artifact, whose prompt it shows
    Target,          \* number of artifacts asked for
    Panel,           \* the permitted stages of each rater
    Repeated,        \* the pairs of rater and artifact that are repeated
    Norm,            \* the normalised label of each spelling
    Expected,        \* the expected label of each artifact, or Absent
    Readings,        \* bound: pairs of spelling and confidence that raters give
    CriteriaRatings, \* bound: the ratings they give
    Policy,          \* operations-policy.json
    MaxSpoiled,      \* bound: invalid rows in the responses
    FirstAnalysis,   \* bound: locked responses before the first analysis
    Absent

Cells == DOMAIN Rows
Raters == DOMAIN Panel
Artifacts == UNION {Range(Rows[c]) : c \in Cells}

ASSUME CalibrationAssumption ==
    /\ IsFiniteSet(Raters) /\ IsFiniteSet(Artifacts)
    /\ Cardinality(Artifacts) = MapThenSumSet(LAMBDA c : Len(Rows[c]), Cells)
    /\ DOMAIN TaskOf = Artifacts
    /\ Target \in Nat \ {0}
    /\ \A r \in Raters : Range(Panel[r]) \subseteq {"blind", "criteria"}
    /\ Repeated \subseteq Raters \X Artifacts
    /\ \A s \in Readings : s[1] \in DOMAIN Norm /\ s[2] \in 0 .. 100
    /\ CriteriaRatings \subseteq 1 .. 5
    /\ MaxSpoiled \in Nat /\ FirstAnalysis \in Nat

VARIABLES
    sample,     \* the selected artifacts
    answers,    \* the locked responses of each assignment's session, by stage
    seen,       \* history: pairs of a rater and a task whose prompt was disclosed
    spoiled,    \* number of invalid rows among the responses
    analysis,   \* calibration-analysis.json
    report      \* calibration-stopping.json

calibrationVars == <<sample, answers, seen, spoiled, analysis, report>>

----------------------------------------------------------------------------
(* The sample                                                              *)

\* select_calibration_sample: in every round the n-th candidate of each cell.
Sample(order) ==
    LET round(n) == LET cs == SelectSeq(order, LAMBDA c : Len(Rows[c]) >= n)
                    IN  [i \in DOMAIN cs |-> Rows[cs[i]][n]]
        all == FlattenSeq([n \in 1 .. Max({Len(Rows[c]) : c \in Cells}) |-> round(n)])
    IN  SubSeq(all, 1, Min({Target, Len(all)}))

\* Every rater is assigned each artifact, and the repeated ones twice.
StudyAssignments ==
    {a \in [rater : Raters, artifact : Artifacts, turn : {1, 2}] :
        a.turn = 2 => <<a.rater, a.artifact>> \in Repeated}

\* Cells are shuffled by the seed.
CalibrationInit ==
    /\ \E order \in SetToSeqs(Cells) : sample = Range(Sample(order))
    /\ answers = [a \in StudyAssignments |-> <<>>]
    /\ seen = {}
    /\ spoiled = 0
    /\ analysis = Absent /\ report = Absent

----------------------------------------------------------------------------
(* CalibrationSession                                                      *)

Completed(a) == DOMAIN answers[a]

\* The first permitted stage that has no response.
IsNext(a, stage) ==
    \E i \in DOMAIN Panel[a.rater] :
        /\ Panel[a.rater][i] = stage /\ stage \notin Completed(a)
        /\ \A j \in 1 .. (i - 1) : Panel[a.rater][j] \in Completed(a)

Response(a, stage) == answers[a][stage]

Locked(a, stage, response) ==
    [s \in Completed(a) \cup {stage} |-> IF s = stage THEN response ELSE Response(a, s)]

\* Fault: the prompt is shown from the beginning.
DisclosedAtOnce(a) == TRUE

DisclosurePermitted(a) == "blind" \in Completed(a)

\* Who is told the prompt, and of which task: of every artifact of the task.
Prompt(a) == <<a.rater, TaskOf[a.artifact]>>

\* The gate is that of one assignment's session, of the one artifact.
Disclose(a) ==
    /\ a.artifact \in sample
    /\ DisclosurePermitted(a)
    /\ seen' = seen \cup {Prompt(a)}
    /\ UNCHANGED <<sample, answers, spoiled, analysis, report>>

\* The response is locked; "informed" is whether its rater knows the prompt.
SubmitBlind(a, reading) ==
    /\ a.artifact \in sample
    /\ IsNext(a, "blind")
    /\ answers' = [answers EXCEPT ![a] =
          Locked(a, "blind", [label |-> Norm[reading[1]], confidence |-> reading[2],
                              informed |-> Prompt(a) \in seen])]
    /\ UNCHANGED <<sample, seen, spoiled, analysis, report>>

SubmitCriteria(a, rating) ==
    /\ a.artifact \in sample
    /\ IsNext(a, "criteria")
    /\ answers' = [answers EXCEPT ![a] = Locked(a, "criteria", [rating |-> rating])]
    /\ UNCHANGED <<sample, seen, spoiled, analysis, report>>

\* A survey platform exports a row that validate_calibration_response rejects.
Spoil ==
    /\ spoiled < MaxSpoiled
    /\ spoiled' = spoiled + 1
    /\ UNCHANGED <<sample, answers, seen, analysis, report>>

----------------------------------------------------------------------------
(* analyse_calibration_responses                                           *)

Answered(stage) == {a \in StudyAssignments : stage \in Completed(a)}

Label(a) == Response(a, "blind").label

\* The blind responses to an artifact, if there are two to compare.
Units ==
    {u \in {{a \in Answered("blind") : a.artifact = x} : x \in Artifacts} : Cardinality(u) >= 2}

PairsOf(S) == {p \in SUBSET S : Cardinality(p) = 2}

Differ(p) == \E a, b \in p : Label(a) # Label(b)

CountOf(S, label) == Cardinality({a \in S : Label(a) = label})

Disagreements(pairs) == Cardinality({p \in pairs : Differ(p)})

\* Fault: labels of artifacts with one response count as expected, too.
AlphaOverAll ==
    LET compared == UNION {PairsOf(u) : u \in Units}
        possible == PairsOf(Answered("blind"))
    IN  IF Units = {} THEN Absent
        ELSE [disagreements |-> Disagreements(compared), pairs |-> Cardinality(compared),
              expected |-> Disagreements(possible), possible |-> Cardinality(possible)]

\* _nominal_alpha, by its numerators and denominators: the disagreements observed
\* within artifacts, and those expected among all the labels compared.
Alpha ==
    LET compared == UNION {PairsOf(u) : u \in Units}
        possible == PairsOf(UNION Units)
    IN  IF Units = {} THEN Absent
        ELSE [disagreements |-> Disagreements(compared), pairs |-> Cardinality(compared),
              expected |-> Disagreements(possible), possible |-> Cardinality(possible)]

\* A repeated assignment and the first one are a duplicate group.
Duplicates ==
    {p \in PairsOf(Answered("blind")) :
        \A a, b \in p : a.rater = b.rater /\ a.artifact = b.artifact}

DuplicateConsistency ==
    IF Duplicates = {} THEN Absent
    ELSE [agreeing |-> Cardinality(Duplicates) - Disagreements(Duplicates),
          pairs |-> Cardinality(Duplicates)]

\* The squared error of the confidences, in 1/10000; 0 when nothing is comparable.
Brier ==
    LET comparable == {a \in Answered("blind") : Expected[a.artifact] # Absent}
        off(a) == Response(a, "blind").confidence
                    - (IF Label(a) = Expected[a.artifact] THEN 100 ELSE 0)
    IN  [sum |-> MapThenSumSet(LAMBDA a : off(a) * off(a), comparable),
         rows |-> Cardinality(comparable)]

Analyse ==
    /\ MapThenSumSet(LAMBDA a : Cardinality(Completed(a)), StudyAssignments) >= FirstAnalysis
    /\ analysis' = [blind |-> Cardinality(Answered("blind")),
                    criteria |-> Cardinality(Answered("criteria")),
                    invalid |-> spoiled,
                    alpha |-> Alpha, duplicate |-> DuplicateConsistency, brier |-> Brier]
    /\ UNCHANGED <<sample, answers, seen, spoiled, report>>

----------------------------------------------------------------------------
(* evaluate_calibration_stopping                                           *)

\* 1 - observed / expected, which is 1 if all labels are one.
AlphaPasses(alpha) ==
    /\ alpha # Absent
    /\ \/ alpha.expected = 0
       \/ 100 * alpha.disagreements * alpha.possible
             <= (100 - Policy.minAlpha) * alpha.pairs * alpha.expected

DuplicatePasses(d) == d # Absent /\ 100 * d.agreeing >= Policy.minDuplicate * d.pairs

BrierPasses(b) == b.sum <= 100 * Policy.maxBrier * b.rows

Gates(a) ==
    LET received == a.blind + a.criteria + a.invalid
    IN  [blind     |-> a.blind >= Policy.minBlind,
         criteria  |-> a.criteria >= Policy.minCriteria,
         invalid   |-> received > 0 /\ 100 * a.invalid <= Policy.maxInvalid * received,
         brier     |-> BrierPasses(a.brier),
         alpha     |-> AlphaPasses(a.alpha),
         duplicate |-> DuplicatePasses(a.duplicate)]

Evaluate ==
    /\ analysis # Absent
    /\ report' = [ready |-> Range(Gates(analysis)) = {TRUE}]
    /\ UNCHANGED <<sample, answers, seen, spoiled, analysis>>

----------------------------------------------------------------------------
(* build_adjudication_queue                                                *)

Readers(x) == {a \in Answered("blind") : a.artifact = x}

Modal(S) == Max({CountOf(S, l) : l \in Range(Norm)})

\* Less than two thirds agree; the command leaves the policy's share out.
Split(x) == Cardinality(Readers(x)) >= 2 /\ 3 * Modal(Readers(x)) < 2 * Cardinality(Readers(x))

RangeOf(x) ==
    LET given == {Response(a, "criteria").rating :
                     a \in {b \in Answered("criteria") : b.artifact = x}}
    IN  IF given = {} THEN 0 ELSE Max(given) - Min(given)

Unsure(x) ==
    /\ Readers(x) # {}
    /\ MapThenSumSet(LAMBDA a : Response(a, "blind").confidence, Readers(x))
          < 50 * Cardinality(Readers(x))

Queue ==
    {<<x, "label-disagreement">> : x \in {y \in Artifacts : Split(y)}}
      \cup {<<x, "rating-range">> : x \in {y \in Artifacts : RangeOf(y) >= 2}}
      \cup {<<x, "low-confidence">> : x \in {y \in Artifacts : Unsure(y)}}

----------------------------------------------------------------------------
CalibrationNext ==
    \/ \E a \in StudyAssignments :
          \/ Disclose(a)
          \/ \E reading \in Readings : SubmitBlind(a, reading)
          \/ \E rating \in CriteriaRatings : SubmitCriteria(a, rating)
    \/ Spoil
    \/ Analyse
    \/ Evaluate

CalibrationSpec == CalibrationInit /\ [][CalibrationNext]_calibrationVars

----------------------------------------------------------------------------
(* Properties                                                              *)

\* Of every task of which a rater has answered a blind stage, one of the answers
\* was given without knowing the prompt.  The gates are those of the assignments,
\* so the others may be informed: those to a repeated artifact, and those to the
\* artifacts of other models for the task.
OneAnswerIsBlind ==
    \A a \in Answered("blind") : Response(a, "blind").informed =>
        \E b \in Answered("blind") :
            Prompt(b) = Prompt(a) /\ ~Response(b, "blind").informed

\* What the protocol says of the blind stage: the prompt remains hidden.
PromptStaysHidden == \A a \in Answered("blind") : ~Response(a, "blind").informed

\* The agreement is Krippendorff's nominal alpha, 1 - Do / De over the coincidences
\* of pairable labels, as long as all artifacts compared have the same number of
\* responses.
AlphaIsKrippendorff ==
    LET units == Units
        sizes == {Cardinality(u) : u \in units}
    IN  Cardinality(sizes) = 1 =>
        LET m == CHOOSE m \in sizes : TRUE
            all == UNION units
            n == Cardinality(all)
            within == {p \in all \X all : /\ p[1].artifact = p[2].artifact
                                        /\ Label(p[1]) # Label(p[2])}
            chance == SumFunction([l \in {Label(a) : a \in all} |->
                                      CountOf(all, l) * (n - CountOf(all, l))])
            alpha == Alpha
        IN  \* Do = |within| / ((m - 1) * n)  and  De = chance / (n * (n - 1))
            /\ alpha.disagreements * (m - 1) * n = Cardinality(within) * alpha.pairs
            /\ alpha.expected * n * (n - 1) = chance * alpha.possible

=============================================================================
