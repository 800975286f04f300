---------------------------- MODULE MCHumanStudy ----------------------------
(***************************************************************************)
(* An instance of the modules of the human study for TLC.  A behaviour is  *)
(* of one of them, chosen at the start; RatingLedger and RatingSession are *)
(* of the same server, one with every step of a post and its crashes, the  *)
(* other from the custody files to the response with a post as one step.   *)
(* The fairness is that of RatingLedger: the other behaviours are looked   *)
(* at for what may not happen in them.                                     *)
(*                                                                         *)
(* HumanCalibration: two of three artifacts, two raters, one repeated      *)
(* assignment.  Blinding: three models whose digests under the first key   *)
(* begin alike, two of them in two parts; under the second key one digest  *)
(* begins like another's under the first.  StudyFreeze: a lock takes the   *)
(* analysis plan, a data freeze the ledger and the plan, or by mistake the *)
(* plan alone.  RatingSession: two episodes, one of them rated twice; the  *)
(* second secret selects the other episode and gives the reverse order.    *)
(***************************************************************************)
EXTENDS Blinding, HumanCalibration, StudyFreeze, RatingLedger, RatingSession

CONSTANTS r1, r2, x1, x2, x3, t1, t2

MCRows == [boundary |-> <<x1, x3>>, high |-> <<x2>>]

MCTaskOf == x1 :> t1 @@ x2 :> t1 @@ x3 :> t2

MCPanel == r1 :> <<"blind", "criteria">> @@ r2 :> <<"blind">>

MCRepeated == {<<r2, x1>>}

MCNorm == [Pelican |-> "pelican", pelican |-> "pelican", heron |-> "heron"]

MCExpected == x1 :> "pelican" @@ x2 :> Absent @@ x3 :> Absent

MCReadings == {<<"Pelican", 90>>, <<"heron", 90>>}

MCPolicy == [minBlind |-> 3, minCriteria |-> 1, maxInvalid |-> 20, maxBrier |-> 25,
             minAlpha |-> 67, minDuplicate |-> 80]

MCDigest ==
    << << <<1, 1, 1>>, <<1, 1, 2>>, <<1, 1, 3>> >>,
       << <<2, 1, 1>>, <<3, 1, 1>>, <<1, 2, 1>> >> >>

MCInputSets == {{4}, {1, 3, 4}}

MCEpisodeDigest == [s \in {1, 2} |-> [e \in Episodes |-> 10 * s + e]]
MCSelectionKey == [s \in {1, 2} |-> [e \in Episodes |-> IF s = 1 THEN e ELSE 10 - e]]
Occurrence(d) == IF d[2] = "primary" THEN 0 ELSE 1
MCDutyDigest == [s \in {1, 2} |-> [d \in Duties |-> 100 * s + 10 * d[1] + Occurrence(d)]]
MCOrderKey ==
    [s \in {1, 2} |-> [d \in Duties |->
        IF s = 1 THEN d[1] + 3 * Occurrence(d) ELSE 10 - d[1] - 3 * Occurrence(d)]]

VARIABLE part    \* the part of the study that a behaviour is about

RatersNext ==
    /\ part = "raters" /\ CalibrationNext
    /\ UNCHANGED <<blindingVars, freezeVars, vars, sessionVars, part>>

ModelsNext ==
    /\ part = "models" /\ BlindingNext
    /\ UNCHANGED <<calibrationVars, freezeVars, vars, sessionVars, part>>

FilesNext ==
    /\ part = "files" /\ FreezeNext
    /\ UNCHANGED <<blindingVars, calibrationVars, vars, sessionVars, part>>

LinesNext ==
    /\ part = "lines" /\ Next
    /\ UNCHANGED <<blindingVars, calibrationVars, freezeVars, sessionVars, part>>

FoldersNext ==
    /\ part = "folders" /\ SessionNext
    /\ UNCHANGED <<blindingVars, calibrationVars, freezeVars, vars, part>>

\* What a behaviour is not about starts in one way.
StudyStart ==
    /\ BlindingInit /\ CalibrationInit /\ FreezeInit /\ Init /\ SessionInit
    /\ part \in {"raters", "models", "files", "lines", "folders"}
    /\ part # "raters" => sample = Range(Sample(<<"boundary", "high">>))
    /\ part # "models" => panel = Models

StudySpec ==
    /\ StudyStart
    /\ [][RatersNext \/ ModelsNext \/ FilesNext \/ LinesNext \/ FoldersNext]_
          <<blindingVars, calibrationVars, freezeVars, vars, sessionVars, part>>
    /\ Fairness

=============================================================================
