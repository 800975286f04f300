----------------------------- MODULE StudyProofs ----------------------------
(***************************************************************************)
(* Theorems about the human study, for any raters, artifacts, models,      *)
(* files, keys and digests and any number of edits: a rater's answers to a *)
(* task include one given without its prompt, the agreement computed is    *)
(* Krippendorff's alpha, an approved restoration undoes the blinding it    *)
(* was approved for, and a freeze or an authorisation stands for one tree  *)
(* that existed.                                                           *)
(***************************************************************************)
EXTENDS Blinding, HumanCalibration, StudyFreeze, Sums, FiniteSetTheorems,
        WellFoundedInduction, NaturalsInduction, TLAPS

-----------------------------------------------------------------------------
(* Blinding and unblinding.                                                *)

----------------------------------------------------------------------------
(* The inductive invariant                                                 *)

\* A map as build-model-blinding makes it.
Formed(map) ==
    /\ IsMap(map) /\ map.alias = [m \in DOMAIN map.alias |-> map.alias[m]]
    /\ \A m \in DOMAIN map.alias : map.alias[m] \in AliasPrefixes(Digest[map.key][m])

MapsInv ==
    /\ panel \in Panels
    /\ public # None => Formed(public)
    /\ private # None => Formed(private)
    /\ blinder # None => Formed(blinder)
    /\ steward # None => steward.op \in {"build", "unblind"} /\ Formed(steward.map)
    /\ receipt # None => Formed(receipt.mapping) /\ receipt.mac = receipt.mapping.key

\* The blinded records show the aliases of the map they went through.
RecordsInv ==
    records # None =>
        /\ Formed(records.by)
        /\ Produced \subseteq DOMAIN records.by.alias
        /\ \A m \in Produced : records.alias[m] = records.by.alias[m]

\* The restored ones went back through the map that was approved.
RevealedInv ==
    revealed # None =>
        /\ Formed(basis.blinded) /\ Formed(basis.restored)
        /\ basis.approved = basis.restored
        /\ OneToOne(basis.restored)
        /\ Produced \subseteq DOMAIN basis.blinded.alias
        /\ \A m \in Produced : basis.blinded.alias[m] \in AliasesOf(basis.restored)
        /\ revealed = [m \in Produced |->
                          ModelOf(basis.restored, basis.blinded.alias[m])]

BlindingInv == MapsInv /\ RecordsInv /\ RevealedInv

LEMMA MappingFormed ==
    ASSUME NEW key \in Keys, NEW models \in Panels, NEW alias \in Aliases(key, models)
    PROVE  Formed([key |-> key, alias |-> alias])
BY DEF Formed, IsMap, Aliases, FreeAliases

LEMMA InitBlindingInv == BlindingInit => BlindingInv
BY DEF BlindingInit, BlindingInv, MapsInv, RecordsInv, RevealedInv

----------------------------------------------------------------------------
(* The steps                                                               *)

LEMMA WriteUnblindedStep ==
    ASSUME BlindingInv, NEW key \in Keys, WriteUnblinded(key) PROVE BlindingInv'
<1>1. MapsInv' /\ RecordsInv'
  BY DEF BlindingInv, MapsInv, RecordsInv, WriteUnblinded
<1>2. CASE UNCHANGED <<revealed, basis>>
  BY <1>1, <1>2 DEF BlindingInv, RevealedInv
<1>3. CASE ~UNCHANGED <<revealed, basis>>
  <2>1. /\ records # None
        /\ Approved(steward.map, key)
        /\ OneToOne(steward.map)
        /\ \A m \in Produced : records.alias[m] \in AliasesOf(steward.map)
        /\ revealed' = [m \in Produced |-> ModelOf(steward.map, records.alias[m])]
        /\ basis' = [blinded |-> records.by, restored |-> steward.map,
                     approved |-> receipt.mapping]
    BY <1>3 DEF WriteUnblinded
  <2>2. Formed(steward.map) /\ receipt.mapping = steward.map
    BY <2>1 DEF BlindingInv, MapsInv, WriteUnblinded, Approved
  <2>3. /\ Formed(records.by)
        /\ Produced \subseteq DOMAIN records.by.alias
        /\ \A m \in Produced : records.alias[m] = records.by.alias[m]
    BY <2>1 DEF BlindingInv, RecordsInv
  <2>4. /\ basis'.blinded = records.by
        /\ basis'.restored = steward.map
        /\ basis'.approved = steward.map
    BY <2>1, <2>2
  <2>5. RevealedInv'
    BY <2>1, <2>2, <2>3, <2>4 DEF RevealedInv
  <2> QED  BY <1>1, <2>5 DEF BlindingInv
<1> QED  BY <1>2, <1>3

LEMMA WriteBlindedStep == ASSUME BlindingInv, WriteBlinded PROVE BlindingInv'
<1>1. MapsInv' /\ RevealedInv'
  BY DEF BlindingInv, MapsInv, RevealedInv, WriteBlinded
<1>2. CASE ~(Produced \subseteq DOMAIN blinder.alias)
  BY <1>1, <1>2 DEF BlindingInv, RecordsInv, WriteBlinded
<1>3. CASE Produced \subseteq DOMAIN blinder.alias
  <2>1. records' = [by |-> blinder, alias |-> [m \in Produced |-> blinder.alias[m]]]
    BY <1>3 DEF WriteBlinded
  <2>2. Formed(blinder)
    BY DEF BlindingInv, MapsInv, WriteBlinded
  <2>3. RecordsInv'
    BY <1>3, <2>1, <2>2 DEF RecordsInv
  <2> QED  BY <1>1, <2>3 DEF BlindingInv
<1> QED  BY <1>2, <1>3

LEMMA NextBlindingInv == BlindingInv /\ [BlindingNext]_blindingVars => BlindingInv'
<1> SUFFICES ASSUME BlindingInv, [BlindingNext]_blindingVars PROVE BlindingInv'
  OBVIOUS
<1> USE DEF BlindingInv, MapsInv, RecordsInv, RevealedInv
<1>1. ASSUME NEW key \in Keys, WritePublic(key) PROVE BlindingInv'
  <2>1. PICK alias \in Aliases(key, panel) :
           /\ public' = [key |-> key, alias |-> alias]
           /\ steward' = [op |-> "build", map |-> [key |-> key, alias |-> alias]]
    BY <1>1 DEF WritePublic
  <2>2. Formed([key |-> key, alias |-> alias])
    BY MappingFormed
  <2> QED  BY <1>1, <2>1, <2>2 DEF WritePublic
<1>2. ASSUME NEW key \in Keys, AuthoriseUnblinding(key) PROVE BlindingInv'
  BY <1>2 DEF AuthoriseUnblinding
<1>3. CASE WritePrivate
  BY <1>3 DEF WritePrivate
<1>4. CASE LoadToUnblind
  BY <1>4 DEF LoadToUnblind, disk
<1>5. CASE CommandEnds
  BY <1>5 DEF CommandEnds, disk
<1>6. CASE LoadToBlind
  BY <1>6 DEF LoadToBlind, disk
<1>7. CASE ChangePanel
  BY <1>7 DEF ChangePanel, disk
<1>8. CASE UNCHANGED blindingVars
  BY <1>8 DEF blindingVars, disk
<1> QED
  BY <1>1, <1>2, <1>3, <1>4, <1>5, <1>6, <1>7, <1>8,
     WriteUnblindedStep, WriteBlindedStep DEF BlindingNext

\* The inductive invariant of maps, records and receipts holds throughout.
THEOREM BlindingInductive == BlindingSpec => []BlindingInv
BY InitBlindingInv, NextBlindingInv, PTL DEF BlindingSpec

----------------------------------------------------------------------------
(* A map that passes the one-to-one check is injective.                    *)

LEMMA Injective ==
    ASSUME NEW map, Formed(map), OneToOne(map)
    PROVE  \A m, n \in DOMAIN map.alias : map.alias[m] = map.alias[n] => m = n
<1> DEFINE D == DOMAIN map.alias
<1>1. D \subseteq Models /\ IsFiniteSet(Models)
  BY ModelsAssumption DEF Formed, IsMap
<1>2. IsFiniteSet(D)
  BY <1>1, FS_Subset
<1>3. map.alias \in Surjection(D, AliasesOf(map))
  BY DEF Formed, AliasesOf, Surjection
<1>4. map.alias \in Injection(D, AliasesOf(map))
  BY <1>2, <1>3, FS_Surjection DEF OneToOne
<1> QED  BY <1>4 DEF Injection, IsInjective

LEMMA ReverseFound ==
    ASSUME NEW map, NEW alias \in AliasesOf(map)
    PROVE  /\ ModelOf(map, alias) \in DOMAIN map.alias
           /\ map.alias[ModelOf(map, alias)] = alias
BY DEF ModelOf, AliasesOf

(* Every map on disk or in a command is of one of the panels and one key,  *)
(* and records are restored to models that exist (build_blinding_manifests *)
(* and unblind_records).                                                   *)
THEOREM BlindingTyped == BlindingSpec => []TypeOK
<1>1. BlindingInv => TypeOK
  <2> SUFFICES ASSUME BlindingInv PROVE TypeOK
    OBVIOUS
  <2>1. \A map \in {public, private, blinder} \ {None} : IsMap(map)
    BY DEF BlindingInv, MapsInv, Formed
  <2>2. receipt # None => IsMap(receipt.mapping) /\ receipt.mac = receipt.mapping.key
    BY DEF BlindingInv, MapsInv, Formed
  <2>3. ASSUME revealed # None PROVE revealed \in [Produced -> Models]
    <3>1. \A m \in Produced :
             ModelOf(basis.restored, basis.blinded.alias[m]) \in DOMAIN basis.restored.alias
      BY <2>3, ReverseFound DEF BlindingInv, RevealedInv
    <3>2. DOMAIN basis.restored.alias \subseteq Models
      BY <2>3, ModelsAssumption DEF BlindingInv, RevealedInv, Formed, IsMap
    <3> QED  BY <2>3, <3>1, <3>2 DEF BlindingInv, RevealedInv
  <2> QED  BY <2>1, <2>2, <2>3 DEF TypeOK
<1> QED  BY <1>1, BlindingInductive, PTL

(* Records blinded with the approved mapping come back under the models    *)
(* that produced them, whatever was rebuilt or authorised in between       *)
(* (unblind_records behind verify_unblinding_authorization).               *)
THEOREM ApprovedRestoresOriginal == BlindingSpec => []RestoredAreOriginal
<1>1. BlindingInv => RestoredAreOriginal
  <2> SUFFICES ASSUME BlindingInv, revealed # None, basis.blinded = basis.approved,
                      NEW m \in Produced
               PROVE  revealed[m] = m
    BY DEF RestoredAreOriginal
  <2> DEFINE map == basis.restored
             n   == ModelOf(map, map.alias[m])
  <2>1. /\ Formed(map) /\ OneToOne(map) /\ basis.blinded = map
        /\ m \in DOMAIN map.alias
        /\ map.alias[m] \in AliasesOf(map)
        /\ revealed[m] = n
    BY DEF BlindingInv, RevealedInv
  <2>2. n \in DOMAIN map.alias /\ map.alias[n] = map.alias[m]
    BY <2>1, ReverseFound
  <2>3. n = m
    BY <2>1, <2>2, Injective
  <2> QED  BY <2>1, <2>3
<1> QED  BY <1>1, BlindingInductive, PTL

LEMMA PrefixBegins ==
    ASSUME NEW key \in Keys, NEW m \in Models, NEW alias \in AliasPrefixes(Digest[key][m])
    PROVE  alias[1] = Digest[key][m][1]
BY ModelsAssumption DEF AliasPrefixes

(* Even after a change of the panel or the key, a record is restored to a  *)
(* wrong model only if two digests begin alike (build_blinding_manifests   *)
(* and unblind_records).                                                   *)
THEOREM CollisionsAlone == BlindingSpec => []WrongOnlyByCollision
<1>1. BlindingInv => WrongOnlyByCollision
  <2> SUFFICES ASSUME BlindingInv, revealed # None, NEW m \in Produced
               PROVE  Digest[basis.blinded.key][m][1]
                         = Digest[basis.restored.key][revealed[m]][1]
    BY DEF WrongOnlyByCollision
  <2> DEFINE alias == basis.blinded.alias[m]
             n     == ModelOf(basis.restored, alias)
  <2>1. /\ Formed(basis.blinded) /\ Formed(basis.restored)
        /\ m \in DOMAIN basis.blinded.alias
        /\ alias \in AliasesOf(basis.restored)
        /\ revealed[m] = n
    BY DEF BlindingInv, RevealedInv
  <2>2. n \in DOMAIN basis.restored.alias /\ basis.restored.alias[n] = alias
    BY <2>1, ReverseFound
  <2>3. m \in Models /\ n \in Models
    BY <2>1, <2>2, ModelsAssumption DEF Formed, IsMap
  <2>4. /\ alias \in AliasPrefixes(Digest[basis.blinded.key][m])
        /\ alias \in AliasPrefixes(Digest[basis.restored.key][n])
    BY <2>1, <2>2 DEF Formed
  <2>5. basis.blinded.key \in Keys /\ basis.restored.key \in Keys
    BY <2>1 DEF Formed, IsMap
  <2> QED  BY <2>1, <2>3, <2>4, <2>5, PrefixBegins
<1> QED  BY <1>1, BlindingInductive, PTL

-----------------------------------------------------------------------------
(* The calibration sessions.                                               *)

Informed(a) == Response(a, "blind").informed

\* Who knows a prompt has given an uninformed answer to an artifact of the task.
DisclosureInv ==
    /\ DOMAIN answers = StudyAssignments
    /\ \A a \in Answered("blind") : Informed(a) => Prompt(a) \in seen
    /\ \A pair \in seen : \E b \in Answered("blind") :
          pair = Prompt(b) /\ ~Informed(b)

\* A response that is locked in one session changes no other response.
LEMMA LockingKeeps ==
    ASSUME NEW a \in StudyAssignments, NEW stage, NEW response, DOMAIN answers = StudyAssignments,
           IsNext(a, stage),
           answers' = [answers EXCEPT ![a] = Locked(a, stage, response)]
    PROVE  /\ DOMAIN answers' = StudyAssignments
           /\ stage \notin Completed(a) /\ Completed(a)' = Completed(a) \cup {stage}
           /\ Response(a, stage)' = response
           /\ \A b \in StudyAssignments : Completed(b) \subseteq Completed(b)'
           /\ \A b \in StudyAssignments \ {a} : Completed(b)' = Completed(b)
           /\ \A b \in StudyAssignments : \A s \in Completed(b) : Response(b, s)' = Response(b, s)
  <1>1. stage \notin Completed(a)
    BY DEF IsNext
  <1>2. answers'[a] = Locked(a, stage, response) /\ \A b \in StudyAssignments \ {a} : answers'[b] = answers[b]
    OBVIOUS
  <1>3. /\ DOMAIN Locked(a, stage, response) = Completed(a) \cup {stage}
        /\ Locked(a, stage, response)[stage] = response
        /\ \A s \in Completed(a) : Locked(a, stage, response)[s] = Response(a, s)
    BY <1>1 DEF Locked
  <1> QED
    BY <1>1, <1>2, <1>3 DEF Completed, Response

LEMMA BlindKeeps ==
    ASSUME DisclosureInv, NEW a \in StudyAssignments, NEW reading, SubmitBlind(a, reading)
    PROVE  DisclosureInv'
  <1> DEFINE response == [label |-> Norm[reading[1]], confidence |-> reading[2],
                          informed |-> Prompt(a) \in seen]
  <1>1. /\ IsNext(a, "blind") /\ seen' = seen
        /\ answers' = [answers EXCEPT ![a] = Locked(a, "blind", response)]
    BY DEF SubmitBlind
  <1>2. response.informed <=> Prompt(a) \in seen
    OBVIOUS
  <1> HIDE DEF response
  <1>3. /\ DOMAIN answers' = StudyAssignments
        /\ "blind" \notin Completed(a) /\ Completed(a)' = Completed(a) \cup {"blind"}
        /\ Response(a, "blind")' = response
        /\ \A b \in StudyAssignments \ {a} : Completed(b)' = Completed(b)
        /\ \A b \in StudyAssignments : \A s \in Completed(b) : Response(b, s)' = Response(b, s)
    BY <1>1, LockingKeeps DEF DisclosureInv
  <1>4. /\ Answered("blind")' = Answered("blind") \cup {a} /\ a \notin Answered("blind")
        /\ \A b \in Answered("blind") : Response(b, "blind")' = Response(b, "blind")
    BY <1>3 DEF Answered
  <1>5. \A b \in Answered("blind") : Informed(b)' = Informed(b)
    BY <1>4 DEF Informed
  <1>6. Informed(a)' <=> Prompt(a) \in seen
    BY <1>2, <1>3 DEF Informed
  <1> QED
    BY <1>1, <1>3, <1>4, <1>5, <1>6 DEF DisclosureInv

LEMMA CriteriaKeeps ==
    ASSUME DisclosureInv, NEW a \in StudyAssignments, NEW rating, SubmitCriteria(a, rating)
    PROVE  DisclosureInv'
  <1>1. /\ IsNext(a, "criteria") /\ seen' = seen
        /\ answers' = [answers EXCEPT ![a] = Locked(a, "criteria", [rating |-> rating])]
    BY DEF SubmitCriteria
  <1>2. /\ DOMAIN answers' = StudyAssignments
        /\ Completed(a)' = Completed(a) \cup {"criteria"}
        /\ \A b \in StudyAssignments \ {a} : Completed(b)' = Completed(b)
        /\ \A b \in StudyAssignments : \A s \in Completed(b) : Response(b, s)' = Response(b, s)
    BY <1>1, LockingKeeps DEF DisclosureInv
  <1>3. /\ Answered("blind")' = Answered("blind")
        /\ \A b \in Answered("blind") : Informed(b)' = Informed(b)
    BY <1>2 DEF Answered, Informed
  <1> QED
    BY <1>1, <1>2, <1>3 DEF DisclosureInv

\* A prompt is disclosed after the blind answer of its session.
LEMMA DisclosureKeeps ==
    ASSUME DisclosureInv, NEW a \in StudyAssignments, Disclose(a)
    PROVE  DisclosureInv'
  <1>1. a \in Answered("blind") /\ seen' = seen \cup {Prompt(a)} /\ answers' = answers
    BY DEF Disclose, DisclosurePermitted, Answered
  <1>2. /\ Answered("blind")' = Answered("blind")
        /\ \A b \in Answered("blind") : Informed(b)' = Informed(b)
    BY <1>1 DEF Answered, Informed, Completed, Response
  <1>3. ASSUME NEW pair \in seen'
        PROVE  \E b \in Answered("blind") : pair = Prompt(b) /\ ~Informed(b)
    BY <1>1, <1>3 DEF DisclosureInv
  <1> QED
    BY <1>1, <1>2, <1>3 DEF DisclosureInv

LEMMA DisclosureInvStep ==
    ASSUME DisclosureInv, [CalibrationNext]_calibrationVars
    PROVE  DisclosureInv'
  <1>1. CASE UNCHANGED <<answers, seen>>
    BY <1>1 DEF DisclosureInv, Answered, Informed, Completed, Response
  <1> QED
    BY <1>1, BlindKeeps, CriteriaKeeps, DisclosureKeeps
       DEF CalibrationNext, calibrationVars, Spoil, Analyse, Evaluate

\* Whatever stages the assignments have, whichever artifacts share a task and
\* whatever is repeated, a rater who has answered blind stages of a task's
\* artifacts has answered one of them without knowing the prompt: it is disclosed
\* only behind such an answer (human_study.py:97-146).
THEOREM TasksAreAnsweredBlind == CalibrationSpec => []OneAnswerIsBlind
  <1>1. CalibrationInit => DisclosureInv
    BY DEF CalibrationInit, DisclosureInv, Answered, Completed
  <1>2. DisclosureInv => OneAnswerIsBlind
    <2> SUFFICES ASSUME DisclosureInv, NEW a \in Answered("blind"), Informed(a)
                 PROVE  \E b \in Answered("blind") : Prompt(b) = Prompt(a) /\ ~Informed(b)
      BY DEF OneAnswerIsBlind, Informed
    <2> QED
      BY DEF DisclosureInv
  <1> QED
    BY <1>1, <1>2, DisclosureInvStep, PTL DEF CalibrationSpec

-----------------------------------------------------------------------------
(* The agreement of the raters.                                            *)

(* The unordered pairs of a set are the pairs of different elements.       *)
LEMMA PairsAre ==
    ASSUME NEW S, IsFiniteSet(S)
    PROVE  PairsOf(S) = {{p[1], p[2]} : p \in {q \in S \X S : q[1] # q[2]}}
<1> DEFINE D == {q \in S \X S : q[1] # q[2]}
<1>1. ASSUME NEW p \in PairsOf(S) PROVE \E q \in D : p = {q[1], q[2]}
  <2>1. p \in SUBSET S /\ Cardinality(p) = 2 BY DEF PairsOf
  <2>2. IsFiniteSet(p) BY <2>1, FS_Subset
  <2>3. p # {} BY <2>1, <2>2, FS_EmptySet
  <2>4. PICK a \in p : TRUE BY <2>3
  <2>5. Cardinality(p \ {a}) = 1 /\ IsFiniteSet(p \ {a})
    <3>1. Cardinality(p \ {a}) = 2 - 1 BY <2>1, <2>2, <2>4, FS_RemoveElement
    <3> QED BY <2>2, <3>1, FS_RemoveElement
  <2>6. PICK b : p \ {a} = {b} BY <2>5, FS_Singleton
  <2>7. a # b /\ a \in S /\ b \in S /\ p = {a, b} BY <2>1, <2>4, <2>6
  <2>8. <<a, b>> \in D BY <2>7
  <2> QED BY <2>7, <2>8
<1>2. ASSUME NEW q \in D PROVE {q[1], q[2]} \in PairsOf(S)
  <2> DEFINE a == q[1]
             b == q[2]
  <2>1. a \in S /\ b \in S /\ a # b OBVIOUS
  <2> HIDE DEF a, b
  <2>2. IsFiniteSet({a}) /\ Cardinality({a}) = 1 BY FS_Singleton
  <2>3. Cardinality({a} \cup {b}) = 1 + 1 BY <2>1, <2>2, FS_AddElement
  <2>4. {a} \cup {b} = {a, b} OBVIOUS
  <2>5. {a, b} \in SUBSET S /\ Cardinality({a, b}) = 2 BY <2>1, <2>3, <2>4
  <2>6. {a, b} \in PairsOf(S) BY <2>5 DEF PairsOf
  <2> QED BY <2>6 DEF a, b
<1> HIDE DEF D
<1>3. PairsOf(S) = {{q[1], q[2]} : q \in D} BY <1>1, <1>2
<1> QED BY <1>3 DEF D

(* Twice as many ordered pairs disagree as unordered ones.                 *)
LEMMA DisagreeingPairs ==
    ASSUME NEW S, IsFiniteSet(S), NEW R \in SUBSET (S \X S),
           \A p \in R : p[1] # p[2] /\ <<p[2], p[1]>> \in R
    PROVE  LET pairs == {{p[1], p[2]} : p \in R}
           IN  /\ IsFiniteSet(R) /\ IsFiniteSet(pairs)
               /\ Cardinality(R) = 2 * Cardinality(pairs)
               /\ Cardinality({p \in R : Label(p[1]) # Label(p[2])}) = 2 * Disagreements(pairs)
<1> DEFINE pairs == {{p[1], p[2]} : p \in R}
           D == {p \in R : Label(p[1]) # Label(p[2])}
<1>1. IsFiniteSet(R) /\ IsFiniteSet(pairs) /\ Cardinality(R) = 2 * Cardinality(pairs)
  BY OrderedPairs
<1>2. D \in SUBSET (S \X S) /\ \A p \in D : p[1] # p[2] /\ <<p[2], p[1]>> \in D
  OBVIOUS
<1>3. {p \in pairs : Differ(p)} = {{p[1], p[2]} : p \in D}
  <2>1. ASSUME NEW q \in R
        PROVE  Differ({q[1], q[2]}) <=> Label(q[1]) # Label(q[2])
    BY DEF Differ
  <2> QED BY <2>1
<1> HIDE DEF D
<1>4. Cardinality(D) = 2 * Cardinality({{p[1], p[2]} : p \in D}) BY <1>2, OrderedPairs
<1>5. Cardinality(D) = 2 * Disagreements(pairs) BY <1>3, <1>4 DEF Disagreements
<1> QED BY <1>1, <1>5 DEF D

(* A rater rates an artifact at most twice.                                *)
LEMMA AssignmentsFinite == IsFiniteSet(StudyAssignments)
<1> DEFINE given == [p \in (Raters \X Artifacts) \X {1, 2} |->
                       [rater |-> p[1][1], artifact |-> p[1][2], turn |-> p[2]]]
           A == [rater : Raters, artifact : Artifacts, turn : {1, 2}]
<1>1. IsFiniteSet({1, 2})
  <2>1. 1 \in Int /\ 2 \in Int /\ 1 .. 2 = {1, 2} OBVIOUS
  <2> QED BY <2>1, FS_Interval
<1>2. IsFiniteSet((Raters \X Artifacts) \X {1, 2})
  BY <1>1, CalibrationAssumption, FS_Product
<1>3. given \in Surjection((Raters \X Artifacts) \X {1, 2}, A)
  <2>1. given \in [(Raters \X Artifacts) \X {1, 2} -> A] OBVIOUS
  <2>2. ASSUME NEW a \in A PROVE \E p \in (Raters \X Artifacts) \X {1, 2} : given[p] = a
    <3>1. <<<<a.rater, a.artifact>>, a.turn>> \in (Raters \X Artifacts) \X {1, 2} OBVIOUS
    <3>2. given[<<<<a.rater, a.artifact>>, a.turn>>] = a BY <3>1
    <3> QED BY <3>1, <3>2
  <2> HIDE DEF given, A
  <2> QED BY <2>1, <2>2 DEF Surjection
<1>4. IsFiniteSet(A) BY <1>2, <1>3, FS_Surjection
<1>5. StudyAssignments \in SUBSET A BY DEF StudyAssignments
<1> QED BY <1>4, <1>5, FS_Subset

\* The compared responses, and the pairs of them that are of one artifact.
Compared == UNION Units

OfOneArtifact ==
    {p \in Compared \X Compared : p[1] # p[2] /\ p[1].artifact = p[2].artifact}

(* A unit has all responses that its artifact has.                         *)
LEMMA UnitsAre ==
    /\ IsFiniteSet(Compared)
    /\ \A u \in Units : IsFiniteSet(u) /\ Cardinality(u) >= 2
    /\ \A a \in Compared :
          /\ {b \in Compared : b.artifact = a.artifact} \in Units
          /\ \A u \in Units : a \in u => u = {b \in Compared : b.artifact = a.artifact}
<1> DEFINE Unit(x) == {a \in Answered("blind") : a.artifact = x}
<1>1. IsFiniteSet(Answered("blind"))
  <2>1. Answered("blind") \in SUBSET StudyAssignments BY DEF Answered
  <2> QED BY <2>1, AssignmentsFinite, FS_Subset
<1>2. Units = {u \in {Unit(x) : x \in Artifacts} : Cardinality(u) >= 2} BY DEF Units
<1>3. \A x : Unit(x) \in SUBSET Answered("blind") OBVIOUS
<1>4. Compared \in SUBSET Answered("blind") BY <1>2, <1>3 DEF Compared
<1>5. IsFiniteSet(Compared) BY <1>1, <1>4, FS_Subset
<1>6. \A u \in Units : IsFiniteSet(u) /\ Cardinality(u) >= 2
  BY <1>1, <1>2, <1>3, FS_Subset
<1>7. ASSUME NEW u \in Units, NEW a \in u
      PROVE  u = {b \in Compared : b.artifact = a.artifact}
  <2>1. PICK x \in Artifacts : u = Unit(x) BY <1>2
  <2>2. a.artifact = x BY <2>1
  <2>3. \A b \in u : b \in Compared /\ b.artifact = x BY <2>1 DEF Compared
  <2>4. \A b \in Compared : b.artifact = x => b \in u BY <1>4, <2>1
  <2> QED BY <2>2, <2>3, <2>4
<1>8. ASSUME NEW a \in Compared PROVE {b \in Compared : b.artifact = a.artifact} \in Units
  <2>1. PICK u \in Units : a \in u BY DEF Compared
  <2> QED BY <1>7, <2>1
<1> QED BY <1>5, <1>6, <1>7, <1>8

(* The pairs compared are those within an artifact.                        *)
LEMMA ComparedPairs ==
    UNION {PairsOf(u) : u \in Units} = {{p[1], p[2]} : p \in OfOneArtifact}
<1> DEFINE Ordered(u) == {q \in u \X u : q[1] # q[2]}
<1>1. \A u \in Units : PairsOf(u) = {{p[1], p[2]} : p \in Ordered(u)} BY UnitsAre, PairsAre
<1>2. ASSUME NEW u \in Units, NEW p \in Ordered(u) PROVE p \in OfOneArtifact
  <2>1. p[1] \in u /\ p[2] \in u /\ p[1] # p[2] /\ p = <<p[1], p[2]>> OBVIOUS
  <2>2. p[1] \in Compared /\ p[2] \in Compared BY <2>1 DEF Compared
  <2>3. \A a, b \in u : a.artifact = b.artifact BY DEF Units
  <2>4. p[2].artifact = p[1].artifact BY <2>1, <2>3
  <2> QED BY <2>1, <2>2, <2>4 DEF OfOneArtifact
<1>3. ASSUME NEW p \in OfOneArtifact PROVE \E u \in Units : p \in Ordered(u)
  <2> DEFINE u == {b \in Compared : b.artifact = p[1].artifact}
  <2>1. /\ p[1] \in Compared /\ p[2] \in Compared /\ p[1] # p[2] /\ p = <<p[1], p[2]>>
        /\ p[1].artifact = p[2].artifact
    BY DEF OfOneArtifact
  <2>2. u \in Units BY <2>1, UnitsAre
  <2>3. p[1] \in u /\ p[2] \in u BY <2>1
  <2> HIDE DEF u
  <2>4. p \in Ordered(u) BY <2>1, <2>3
  <2> QED BY <2>2, <2>4
<1> HIDE DEF Ordered
<1> QED BY <1>1, <1>2, <1>3

(* Within artifacts with m responses each, everyone is paired with m - 1.  *)
LEMMA PairsWithin ==
    ASSUME NEW m \in Nat, \A u \in Units : Cardinality(u) = m
    PROVE  Cardinality(OfOneArtifact) = (m - 1) * Cardinality(Compared)
<1>1. IsFiniteSet(Compared) BY UnitsAre
<1>2. ASSUME NEW a \in Compared
      PROVE  Cardinality(Partners(OfOneArtifact, Compared, a)) = m - 1
  <2> DEFINE u == {b \in Compared : b.artifact = a.artifact}
  <2>1. u \in Units BY UnitsAre
  <2>2. Partners(OfOneArtifact, Compared, a) = u \ {a} BY DEF Partners, OfOneArtifact
  <2>3. a \in u OBVIOUS
  <2> HIDE DEF u
  <2>4. IsFiniteSet(u) /\ Cardinality(u) = m BY <2>1, UnitsAre
  <2>5. Cardinality(u \ {a}) = Cardinality(u) - 1 BY <2>3, <2>4, FS_RemoveElement
  <2> QED BY <2>2, <2>4, <2>5
<1>3. OfOneArtifact \in SUBSET (Compared \X Compared) BY DEF OfOneArtifact
<1> QED BY <1>1, <1>2, <1>3, PairsByPartners

(* Among n responses everyone is paired with the n - 1 others.             *)
LEMMA PairsAmong ==
    ASSUME NEW S, IsFiniteSet(S)
    PROVE  LET R == {q \in S \X S : q[1] # q[2]}
           IN  Cardinality(R) = (Cardinality(S) - 1) * Cardinality(S)
<1> DEFINE R == {q \in S \X S : q[1] # q[2]}
<1>1. Cardinality(S) \in Nat BY FS_CardinalityType
<1>2. ASSUME NEW a \in S PROVE Cardinality(Partners(R, S, a)) = Cardinality(S) - 1
  <2>1. Partners(R, S, a) = S \ {a} BY DEF Partners
  <2>2. Cardinality(S \ {a}) = Cardinality(S) - 1 BY FS_RemoveElement
  <2> QED BY <2>1, <2>2
<1>3. R \in SUBSET (S \X S) OBVIOUS
<1> HIDE DEF R
<1>4. Cardinality(R) = (Cardinality(S) - 1) * Cardinality(S)
  BY <1>1, <1>2, <1>3, PairsByPartners
<1> QED BY <1>4 DEF R

(* The pairs that disagree, counted by the first one's label.              *)
LEMMA PairsByLabel ==
    ASSUME NEW S, IsFiniteSet(S)
    PROVE  LET R == {q \in S \X S : Label(q[1]) # Label(q[2])}
               n == [l \in {Label(a) : a \in S} |-> CountOf(S, l) * (Cardinality(S) - CountOf(S, l))]
           IN  Cardinality(R) = SumFunction(n)
<1> DEFINE R == {q \in S \X S : Label(q[1]) # Label(q[2])}
           L == {Label(a) : a \in S}
           n == [l \in L |-> CountOf(S, l) * (Cardinality(S) - CountOf(S, l))]
           label == [a \in S |-> Label(a)]
           first == [q \in R |-> Label(q[1])]
<1>1. IsFiniteSet(R) BY FS_Product, FS_Subset
<1>2. IsFiniteSet(L)
  <2>1. label \in Surjection(S, L) BY DEF Surjection
  <2> HIDE DEF label, L
  <2> QED BY <2>1, FS_Surjection
<1>3. ASSUME NEW l \in L PROVE n[l] = Cardinality({q \in R : first[q] = l})
  <2> DEFINE A == {a \in S : Label(a) = l}
             Rl == {q \in R : first[q] = l}
  <2>1. Rl = A \X (S \ A)
    <3>1. ASSUME NEW q \in S \X S
          PROVE  q \in Rl <=> q[1] \in A /\ q[2] \in S \ A
      OBVIOUS
    <3>2. Rl \subseteq S \X S /\ A \subseteq S OBVIOUS
    <3> HIDE DEF Rl, A
    <3> QED BY <3>1, <3>2
  <2>2. IsFiniteSet(A) /\ IsFiniteSet(S \ A) BY FS_Subset
  <2>3. S \cap A = A OBVIOUS
  <2>4. n[l] = Cardinality(A) * (Cardinality(S) - Cardinality(A)) BY DEF CountOf
  <2> HIDE DEF A, Rl, n
  <2>5. Cardinality(S \ A) = Cardinality(S) - Cardinality(A) BY <2>3, FS_Difference
  <2>6. Cardinality(Rl) = Cardinality(A) * Cardinality(S \ A) BY <2>1, <2>2, FS_Product
  <2>7. n[l] = Cardinality(Rl) BY <2>4, <2>5, <2>6
  <2> QED BY <2>7 DEF Rl
<1>4. {q \in R : first[q] \in L} = R OBVIOUS
<1>5. SumFunction(n) = SumFunctionOnSet(n, L) BY SumOfFunction
<1>6. \A l \in L : n[l] = Cardinality({q \in R : first[q] = l}) BY <1>3
<1> HIDE DEF R, L, n, first
<1>7. /\ SumFunctionOnSet(n, L) = Cardinality({q \in R : first[q] \in L})
      /\ SumFunctionOnSet(n, L) = Cardinality(R) => \A q \in R : first[q] \in L
  BY <1>1, <1>2, <1>6, SumOfCounts, Zenon
<1>8. Cardinality(R) = SumFunction(n) BY <1>4, <1>5, <1>7
<1> QED BY <1>8 DEF R, L, n

(* Halves of the pairs cancel.                                             *)
LEMMA Products ==
    ASSUME NEW d \in Int, NEW k \in Int, NEW n \in Int, NEW q \in Int, NEW w \in Int,
           2 * q = k * n, w = 2 * d
    PROVE  d * k * n = w * q
<1>1. d * k * n = d * (k * n) OBVIOUS
<1>2. d * (2 * q) = (2 * d) * q OBVIOUS
<1> QED BY <1>1, <1>2

\* analyse_calibration_responses computes Krippendorff's alpha for any raters,
\* artifacts and labels, whenever the artifacts compared have the same number of
\* responses, although it counts unordered pairs and not coincidences.
THEOREM AlphaAgrees == CalibrationSpec => []AlphaIsKrippendorff
<1>1. AlphaIsKrippendorff
  <2> DEFINE sizes == {Cardinality(u) : u \in Units}
             m == CHOOSE m \in sizes : TRUE
             all == Compared
             n == Cardinality(all)
             within == {p \in all \X all : /\ p[1].artifact = p[2].artifact
                                           /\ Label(p[1]) # Label(p[2])}
             chance == SumFunction([l \in {Label(a) : a \in all} |->
                                      CountOf(all, l) * (n - CountOf(all, l))])
             among == {q \in all \X all : q[1] # q[2]}
             compared == UNION {PairsOf(u) : u \in Units}
             possible == PairsOf(all)
  <2> SUFFICES ASSUME Cardinality(sizes) = 1
               PROVE  /\ Alpha.disagreements * (m - 1) * n = Cardinality(within) * Alpha.pairs
                      /\ Alpha.expected * n * (n - 1) = chance * Alpha.possible
    BY DEF AlphaIsKrippendorff, Compared
  <2>1. Units # {} /\ m \in Nat /\ \A u \in Units : Cardinality(u) = m
    <3>1. sizes # {} BY FS_EmptySet
    <3>2. PICK k : sizes = {k}
      <4>1. IsFiniteSet(sizes)
        <5> DEFINE size == [u \in Units |-> Cardinality(u)]
        <5>1. IsFiniteSet(Units)
          <6>1. Units \in SUBSET (SUBSET Compared) BY DEF Compared
          <6>2. IsFiniteSet(SUBSET Compared) BY UnitsAre, FS_SUBSET
          <6> QED BY <6>1, <6>2, FS_Subset
        <5>2. size \in Surjection(Units, sizes) BY DEF Surjection
        <5> HIDE DEF size, sizes
        <5> QED BY <5>1, <5>2, FS_Surjection
      <4> HIDE DEF sizes
      <4> QED BY <4>1, FS_Singleton
    <3>3. m \in sizes BY <3>1
    <3>4. \A u \in Units : Cardinality(u) = m BY <3>2, <3>3
    <3>5. Units # {} BY <3>1
    <3> HIDE DEF m
    <3>6. m \in Nat BY <3>4, <3>5, UnitsAre, FS_CardinalityType
    <3> QED BY <3>4, <3>5, <3>6
  <2>2. IsFiniteSet(all) /\ n \in Nat BY UnitsAre, FS_CardinalityType
  <2>3. /\ compared = {{p[1], p[2]} : p \in OfOneArtifact}
        /\ possible = {{p[1], p[2]} : p \in among}
    BY <2>2, ComparedPairs, PairsAre
  <2>4. Alpha = [disagreements |-> Disagreements(compared), pairs |-> Cardinality(compared),
                 expected |-> Disagreements(possible), possible |-> Cardinality(possible)]
    BY <2>1 DEF Alpha, Compared
  <2>5. /\ Cardinality(OfOneArtifact) = 2 * Cardinality(compared)
        /\ Cardinality({p \in OfOneArtifact : Label(p[1]) # Label(p[2])})
             = 2 * Disagreements(compared)
        /\ IsFiniteSet(compared)
    <3>1. OfOneArtifact \in SUBSET (all \X all) BY DEF OfOneArtifact
    <3>2. \A p \in OfOneArtifact : p[1] # p[2] /\ <<p[2], p[1]>> \in OfOneArtifact
      BY DEF OfOneArtifact
    <3> HIDE DEF all
    <3> QED BY <2>2, <2>3, <3>1, <3>2, DisagreeingPairs
  <2>6. {p \in OfOneArtifact : Label(p[1]) # Label(p[2])} = within BY DEF OfOneArtifact
  <2>7. /\ Cardinality(among) = 2 * Cardinality(possible)
        /\ Cardinality({p \in among : Label(p[1]) # Label(p[2])}) = 2 * Disagreements(possible)
        /\ IsFiniteSet(possible)
    <3>1. among \in SUBSET (all \X all) OBVIOUS
    <3>2. \A p \in among : p[1] # p[2] /\ <<p[2], p[1]>> \in among OBVIOUS
    <3> HIDE DEF all, among
    <3> QED BY <2>2, <2>3, <3>1, <3>2, DisagreeingPairs
  <2>8. {p \in among : Label(p[1]) # Label(p[2])}
          = {p \in all \X all : Label(p[1]) # Label(p[2])}
    OBVIOUS
  <2>9. Cardinality(OfOneArtifact) = (m - 1) * n BY <2>1, PairsWithin
  <2>10. Cardinality(among) = (n - 1) * n BY <2>2, PairsAmong
  <2>11. Cardinality({p \in all \X all : Label(p[1]) # Label(p[2])}) = chance
    BY <2>2, PairsByLabel
  <2> DEFINE d == Disagreements(compared)
             q == Cardinality(compared)
             e == Disagreements(possible)
             r == Cardinality(possible)
             w == Cardinality(within)
  <2>12. d \in Nat /\ q \in Nat /\ e \in Nat /\ r \in Nat
    <3>1. IsFiniteSet({p \in compared : Differ(p)}) /\ IsFiniteSet({p \in possible : Differ(p)})
      BY <2>5, <2>7, FS_Subset
    <3> QED BY <2>5, <2>7, <3>1, FS_CardinalityType DEF Disagreements
  <2>13. 2 * q = (m - 1) * n /\ w = 2 * d /\ 2 * r = (n - 1) * n /\ chance = 2 * e
    BY <2>5, <2>6, <2>7, <2>8, <2>9, <2>10, <2>11
  <2>14. /\ Alpha.disagreements = d /\ Alpha.pairs = q
         /\ Alpha.expected = e /\ Alpha.possible = r
    BY <2>4
  <2> HIDE DEF m, n, w, d, q, e, r, chance
  <2>15. d * (m - 1) * n = w * q
    <3>1. d \in Int /\ m - 1 \in Int /\ n \in Int /\ q \in Int /\ w \in Int
      BY <2>1, <2>2, <2>12, <2>13
    <3> QED BY <2>13, <3>1, Products
  <2>16. e * n * (n - 1) = chance * r
    <3>1. e * (n - 1) * n = chance * r BY <2>2, <2>12, <2>13, Products
    <3>2. e * (n - 1) * n = e * n * (n - 1) BY <2>2, <2>12
    <3> QED BY <3>1, <3>2
  <2> QED BY <2>14, <2>15, <2>16 DEF w
<1> QED BY <1>1, PTL

-----------------------------------------------------------------------------
(* The freeze and its authorisation.                                       *)

USE DEF Files, NoFile, Types, tree

----------------------------------------------------------------------------
(* The inductive invariant                                                 *)

Draft(m) ==
    /\ m = [type |-> m.type, task |-> m.task, head |-> m.head, files |-> m.files,
            protocol |-> m.protocol]
    /\ m.type \in Types /\ m.head \in Nat \cup {NotMade}
    /\ m.files \in [DOMAIN m.files -> Nat] /\ DOMAIN m.files \subseteq Files

Frozen(m) == DOMAIN m.files \cup {Protocol}

\* The committed ledger is one of the frozen files.
HeadAmong(m) == m.head # NotMade => \E f \in DOMAIN m.files : m.files[f] = m.head

Sound(m) == Draft(m) /\ IsManifest(m) /\ HeadAmong(m)

\* What a file has now and a manifest commits to, it had before, because no
\* content returns.
Kept(m, before) ==
    \A f \in Frozen(m) : content[f] = Committed(m, f) => before[f] = Committed(m, f)

TreeInv == made \in Nat /\ content \in [Files -> 0 .. made]

DiskInv ==
    /\ head \in 1 .. made \cup {NotMade}
    /\ freezes = [type \in Types |-> freezes[type]]
    /\ \A type \in Types :
          freezes[type] # NotMade => Sound(freezes[type]) /\ freezes[type].type = type
    /\ authorisation # NotMade => /\ Sound(authorisation.lock) /\ authorisation.lock.type = "analysis-lock"
                         /\ Sound(authorisation.data) /\ authorisation.data.type = "data-freeze"

Hashing ==
    /\ job = [op |-> "hash", todo |-> job.todo, m |-> job.m]
    /\ Draft(job.m)
    /\ job.todo \subseteq DOMAIN job.m.files
    /\ job.m.type = "data-freeze" <=> job.m.head # NotMade
    /\ DOMAIN job.m.files \subseteq Files \ {Protocol} /\ DOMAIN job.m.files # {}
    /\ \A f \in DOMAIN job.m.files \ job.todo : job.m.files[f] \in 1 .. made
    /\ job.m.task \in 1 .. made

Sealing ==
    /\ job = [op |-> "seal", m |-> job.m]
    /\ Draft(job.m)
    /\ job.m.type = "data-freeze" <=> job.m.head # NotMade
    /\ DOMAIN job.m.files \subseteq Files \ {Protocol} /\ DOMAIN job.m.files # {}
    /\ \A f \in DOMAIN job.m.files : job.m.files[f] \in 1 .. made
    /\ job.m.task \in 1 .. made
    /\ HeadAmong(job.m)

Writing == job = [op |-> "write", m |-> job.m] /\ Sound(job.m)

\* What a verification leads to: the end of a build, the issue after the data
\* freeze, or the data freeze after the lock.
Built == [op |-> "built", m |-> job.m, before |-> job.before]

IssueOf(lock, data, before) ==
    [op |-> "issue", lock |-> lock, data |-> data, before |-> before]

Leads ==
    \/ job.next = Built
    \/ \E lock : /\ Sound(lock) /\ Agrees(lock, job.before)
                 /\ job.next = IssueOf(lock, job.m, job.before)
    \/ \E data : /\ Sound(data) /\ Kept(data, job.before)
                 /\ job.next = Verify(data, IssueOf(job.m, data, job.before), job.before)

Verifying ==
    /\ job = [op |-> "verify", m |-> job.m, next |-> job.next, before |-> job.before,
              todo |-> job.todo, ok |-> job.ok]
    /\ Sound(job.m) /\ Kept(job.m, job.before)
    /\ job.todo \subseteq Frozen(job.m) /\ job.ok \in BOOLEAN
    /\ job.ok => \A f \in Frozen(job.m) \ job.todo : job.before[f] = Committed(job.m, f)
    /\ Leads

BuiltInv == job = Built /\ Agrees(job.m, job.before)

Issuing ==
    /\ job = IssueOf(job.lock, job.data, job.before)
    /\ Sound(job.lock) /\ Agrees(job.lock, job.before)
    /\ Sound(job.data) /\ Agrees(job.data, job.before)

JobInv == job = Idle \/ Hashing \/ Sealing \/ Writing \/ Verifying \/ BuiltInv \/ Issuing

FreezeInv == TreeInv /\ DiskInv /\ JobInv

----------------------------------------------------------------------------
(* Lemmas                                                                  *)

\* A nonempty set of numbers has a smallest one.
LEMMA SmallestInNat ==
    ASSUME NEW S \in SUBSET Nat, S # {}
    PROVE  \E x \in S : \A y \in S : x <= y
<1> SUFFICES ASSUME \A x \in S : \E y \in S : y < x
             PROVE  FALSE
  OBVIOUS
<1> DEFINE R == OpToRel(<, Nat)
<1>1. PICK x \in S : \A y \in S : <<y, x>> \notin R
  BY WFMin, NatLessThanWellFounded
<1> QED
  BY <1>1 DEF OpToRel

\* A manifest all of whose files were as committed agrees with the tree: its
\* ledger is one of the files.
LEMMA SeenAgrees ==
    ASSUME NEW m, NEW before, Sound(m),
           \A f \in Frozen(m) : before[f] = Committed(m, f)
    PROVE  Agrees(m, before)
<1>1. Protocol \notin DOMAIN m.files
  BY DEF Sound, IsManifest
<1>2. \A f \in DOMAIN m.files : before[f] = m.files[f]
  BY <1>1 DEF Frozen, Committed
<1>3. before[Protocol] = m.protocol
  BY DEF Frozen, Committed
<1> QED
  BY <1>2, <1>3 DEF Agrees, Sound, HeadAmong

\* What a sound manifest commits to has been made, and was never nothing.
LEMMA CommittedMade ==
    ASSUME NEW m, Sound(m), NEW f \in Frozen(m), made \in Nat
    PROVE  Committed(m, f) \in 1 .. made
BY DEF Sound, IsManifest, Frozen, Committed

\* A step of everybody else on the files.
TreeStep ==
    /\ made' = made + 1
    /\ \E f \in Files, c \in {NoFile, made + 1} : content' = [content EXCEPT ![f] = c]

LEMMA TreeStepTree ==
    ASSUME TreeInv, TreeStep
    PROVE  TreeInv'
BY DEF TreeInv, TreeStep

\* Manifests stay sound, and what they say of an earlier tree stays true.
LEMMA TreeStepSound ==
    ASSUME TreeInv, TreeStep, NEW m, Sound(m)
    PROVE  Sound(m)'
<1>1. 1 .. made \subseteq 1 .. made'
  BY DEF TreeInv, TreeStep
<1>2. IsManifest(m)'
  BY <1>1 DEF Sound, IsManifest
<1> QED
  BY <1>2 DEF Sound, HeadAmong, Draft

LEMMA TreeStepKept ==
    ASSUME TreeInv, TreeStep, FilesAssumption,
           NEW m, NEW before, Sound(m), Kept(m, before)
    PROVE  Kept(m, before)'
<1> SUFFICES ASSUME NEW f \in Frozen(m), content'[f] = Committed(m, f)
             PROVE  before[f] = Committed(m, f)
  BY DEF Kept, Frozen, Committed
<1>1. Committed(m, f) \in 1 .. made
  BY CommittedMade DEF TreeInv
<1>2. f \in Files
  BY FilesAssumption DEF Frozen, Sound, IsManifest, FilesAssumption
<1>3. content'[f] = content[f] \/ content'[f] \in {0, made + 1}
  BY <1>2 DEF TreeInv, TreeStep
<1>4. content'[f] = content[f]
  BY <1>1, <1>3 DEF TreeInv
<1> QED
  BY <1>4 DEF Kept

LEMMA TreeStepDisk ==
    ASSUME TreeInv, DiskInv, TreeStep, UNCHANGED <<head, freezes, authorisation>>
    PROVE  DiskInv'
<1>1. 1 .. made \subseteq 1 .. made'
  BY DEF TreeInv, TreeStep
<1>2. \A m : Sound(m) => Sound(m)'
  BY TreeStepSound
<1>3. (\A type \in Types :
          freezes[type] # NotMade => Sound(freezes[type]) /\ freezes[type].type = type)'
  BY <1>2 DEF DiskInv, Sound, Draft, IsManifest, HeadAmong
<1>4. (authorisation # NotMade => /\ Sound(authorisation.lock) /\ authorisation.lock.type = "analysis-lock"
                         /\ Sound(authorisation.data) /\ authorisation.data.type = "data-freeze")'
  BY <1>2 DEF DiskInv, Sound, Draft, IsManifest, HeadAmong
<1>5. head' \in 1 .. made' \cup {NotMade}
  BY <1>1 DEF DiskInv
<1>6. freezes' = [type \in Types |-> freezes'[type]]
  BY DEF DiskInv, Draft
<1> QED
  BY <1>3, <1>4, <1>5, <1>6 DEF DiskInv

LEMMA TreeStepLeads ==
    ASSUME TreeInv, TreeStep, FilesAssumption, UNCHANGED job, Leads
    PROVE  Leads'
<1>1. \A m : Sound(m) => Sound(m)'
  BY TreeStepSound
<1>2. \A m, before : Sound(m) /\ Kept(m, before) => Kept(m, before)'
  BY TreeStepKept
<1>3. CASE job.next = Built
  BY <1>3 DEF Leads, Built
<1>4. ASSUME NEW lock, Sound(lock), Agrees(lock, job.before),
             job.next = IssueOf(lock, job.m, job.before)
      PROVE  Leads'
  BY <1>1, <1>4 DEF Leads, Agrees, IssueOf
<1>5. ASSUME NEW data, Sound(data), Kept(data, job.before),
             job.next = Verify(data, IssueOf(job.m, data, job.before), job.before)
      PROVE  Leads'
  BY <1>1, <1>2, <1>5 DEF Leads, Verify, IssueOf
<1> QED
  BY <1>3, <1>4, <1>5 DEF Leads

LEMMA TreeStepJob ==
    ASSUME TreeInv, JobInv, TreeStep, FilesAssumption, UNCHANGED job
    PROVE  JobInv'
<1>0. 1 .. made \subseteq 1 .. made'
  BY DEF TreeInv, TreeStep
<1>1. \A m : Sound(m) => Sound(m)'
  BY TreeStepSound
<1>2. CASE job = Idle
  BY <1>2 DEF JobInv, Idle
<1>3. CASE Hashing
  BY <1>0, <1>3 DEF JobInv, Hashing, Draft
<1>4. CASE Sealing
  BY <1>0, <1>4 DEF JobInv, Sealing, Draft, HeadAmong
<1>5. CASE Writing
  BY <1>1, <1>5 DEF JobInv, Writing
<1>6. CASE Verifying
  <2>1. Leads'
    BY <1>6, TreeStepLeads DEF Verifying
  <2>2. Kept(job.m, job.before)'
    BY <1>6, TreeStepKept DEF Verifying
  <2>3. Sound(job.m)'
    BY <1>1, <1>6 DEF Verifying
  <2> QED
    BY <1>6, <2>1, <2>2, <2>3 DEF JobInv, Verifying, Frozen, Committed
<1>7. CASE BuiltInv
  BY <1>7 DEF JobInv, BuiltInv, Built, Agrees
<1>8. CASE Issuing
  BY <1>1, <1>8 DEF JobInv, Issuing, IssueOf, Agrees
<1> QED
  BY <1>2, <1>3, <1>4, <1>5, <1>6, <1>7, <1>8 DEF JobInv

----------------------------------------------------------------------------
(* Every step keeps the invariant                                          *)

LEMMA InitFreezeInv ==
    ASSUME FreezeInit, FilesAssumption
    PROVE  FreezeInv
<1>1. TreeInv
  BY DEF FreezeInit, TreeInv, FilesAssumption
<1>2. DiskInv
  BY DEF FreezeInit, DiskInv
<1> QED
  BY <1>1, <1>2 DEF FreezeInit, FreezeInv, JobInv

LEMMA EditStep ==
    ASSUME FreezeInv, FilesAssumption, NEW f \in Files, Edit(f) \/ RemoveFile(f)
    PROVE  FreezeInv'
<1>1. TreeStep /\ UNCHANGED <<head, freezes, authorisation, job>>
  BY DEF TreeStep, Edit, RemoveFile
<1> QED
  BY <1>1, TreeStepTree, TreeStepDisk, TreeStepJob DEF FreezeInv

\* The files and the manifests do not change: what is left is the job.
LEMMA JobStep ==
    ASSUME FreezeInv, UNCHANGED <<tree, head, freezes, authorisation>>, JobInv'
    PROVE  FreezeInv'
<1>1. TreeInv'
  BY DEF FreezeInv, TreeInv
<1>2. DiskInv'
  BY DEF FreezeInv, DiskInv, Sound, Draft, IsManifest, HeadAmong
<1> QED
  BY <1>1, <1>2 DEF FreezeInv

LEMMA ReportHeadStep ==
    ASSUME FreezeInv, FilesAssumption, ReportHead
    PROVE  FreezeInv'
<1>1. head' \in 1 .. made
  BY DEF FreezeInv, TreeInv, ReportHead, FilesAssumption
<1>2. TreeInv'
  BY DEF FreezeInv, TreeInv, ReportHead
<1>3. DiskInv'
  BY <1>1 DEF FreezeInv, DiskInv, ReportHead, Sound, Draft, IsManifest, HeadAmong
<1>4. JobInv'
  <2>1. UNCHANGED <<content, made, job>> /\ JobInv
    BY DEF FreezeInv, ReportHead
  <2>2. CASE job = Idle
    BY <2>1, <2>2 DEF JobInv, Idle
  <2>3. CASE Hashing \/ Sealing \/ Writing
    BY <2>1, <2>3 DEF JobInv, Hashing, Sealing, Writing, Sound, Draft, IsManifest, HeadAmong
  <2>4. CASE Verifying
    <3>1. Leads'
      BY <2>1, <2>4 DEF Verifying, Leads, Built, IssueOf, Verify, Sound, Draft, IsManifest,
                        HeadAmong, Kept, Frozen, Committed, Agrees
    <3> QED
      BY <2>1, <2>4, <3>1 DEF JobInv, Verifying, Sound, Draft, IsManifest, HeadAmong, Kept,
                              Frozen, Committed
  <2>5. CASE BuiltInv \/ Issuing
    BY <2>1, <2>5 DEF JobInv, BuiltInv, Built, Issuing, IssueOf, Agrees, Sound, Draft,
                      IsManifest, HeadAmong
  <2> QED
    BY <2>1, <2>2, <2>3, <2>4, <2>5 DEF JobInv
<1> QED
  BY <1>2, <1>3, <1>4 DEF FreezeInv

LEMMA BeginBuildStep ==
    ASSUME FreezeInv, FilesAssumption, NEW type \in Types, NEW inputs \in InputSets,
           BeginBuild(type, inputs)
    PROVE  FreezeInv'
<1> DEFINE files == [f \in inputs \ {Protocol} |-> NoFile]
           m == [type |-> type, task |-> content[TaskFile], head |-> HeadFor(type),
                 files |-> files, protocol |-> NoFile]
<1>1. job' = [op |-> "hash", todo |-> inputs \ {Protocol}, m |-> m]
  BY DEF BeginBuild
<1>2. content[TaskFile] \in 1 .. made
  BY DEF FreezeInv, TreeInv, BeginBuild, FilesAssumption
<1>3. HeadFor(type) \in Nat \cup {NotMade} /\ (type = "data-freeze" <=> HeadFor(type) # NotMade)
  BY NoneAssumption DEF FreezeInv, DiskInv, TreeInv, HeadFor, BeginBuild
<1>4. inputs \ {Protocol} \subseteq Files
  BY DEF FilesAssumption
<1>5. files \in [DOMAIN files -> Nat] /\ DOMAIN files \subseteq Files
  BY <1>4
<1>6. Draft(m)
  BY <1>2, <1>3, <1>5 DEF Draft, FreezeInv, TreeInv
<1>7. DOMAIN m.files = inputs \ {Protocol}
  OBVIOUS
<1> HIDE DEF files, m
<1>8. Hashing'
  <2>1. job'.m = m /\ job'.todo = inputs \ {Protocol} /\ made' = made
    BY <1>1 DEF BeginBuild
  <2>2. m.type = type /\ m.task = content[TaskFile] /\ m.head = HeadFor(type)
    BY DEF m
  <2> QED
    BY <1>1, <1>2, <1>3, <1>4, <1>6, <1>7, <2>1, <2>2 DEF Hashing, BeginBuild, Draft
<1> QED
  BY <1>8, JobStep DEF JobInv, BeginBuild

LEMMA HashInputStep ==
    ASSUME FreezeInv, FilesAssumption, HashInput
    PROVE  FreezeInv'
<1>0. Hashing
  BY DEF FreezeInv, JobInv, HashInput, Idle, Sealing, Writing, Verifying, BuiltInv, Built,
         Issuing, IssueOf
<1>1. PICK f \in job.todo :
         job' = IF content[f] = NoFile
                THEN Idle
                ELSE [op |-> "hash", todo |-> job.todo \ {f},
                      m |-> [job.m EXCEPT !.files[f] = content[f]]]
  BY DEF HashInput
<1>2. CASE content[f] = NoFile
  BY <1>1, <1>2, JobStep DEF JobInv, HashInput
<1>3. CASE content[f] # NoFile
  <2> DEFINE files == [job.m.files EXCEPT ![f] = content[f]]
             m == [job.m EXCEPT !.files = files]
  <2>1. job' = [op |-> "hash", todo |-> job.todo \ {f}, m |-> m]
    BY <1>0, <1>1, <1>3 DEF Hashing, Draft
  <2>2. content[f] \in 1 .. made
    BY <1>0, <1>3 DEF FreezeInv, TreeInv, Hashing
  <2>3. /\ files \in [DOMAIN job.m.files -> Nat]
        /\ \A g \in DOMAIN job.m.files : g # f => files[g] = job.m.files[g]
        /\ files[f] = content[f]
    <3>1. job.m.files \in [DOMAIN job.m.files -> Nat]
      BY <1>0 DEF Hashing, Draft
    <3>2. f \in DOMAIN job.m.files
      BY <1>0 DEF Hashing
    <3>3. content[f] \in Nat
      BY <2>2 DEF FreezeInv, TreeInv
    <3> QED
      BY <3>1, <3>2, <3>3
  <2> HIDE DEF files
  <2>4. Draft(m) /\ m.files = files
    BY <1>0, <2>3 DEF Hashing, Draft
  <2>5. m.type = job.m.type /\ m.head = job.m.head /\ m.task = job.m.task
    BY <1>0 DEF Hashing, Draft
  <2>6. DOMAIN files = DOMAIN job.m.files
    BY <2>3
  <2> HIDE DEF m
  <2>7. job'.m = m /\ job'.todo = job.todo \ {f} /\ made' = made
    BY <2>1 DEF HashInput
  <2>8. Hashing'
    BY <1>0, <2>1, <2>2, <2>3, <2>4, <2>5, <2>6, <2>7 DEF Hashing, Draft
  <2> QED
    BY <2>8, JobStep DEF JobInv, HashInput
<1> QED
  BY <1>2, <1>3

LEMMA CompareLedgerStep ==
    ASSUME FreezeInv, CompareLedger
    PROVE  FreezeInv'
<1>1. Hashing
  BY DEF FreezeInv, JobInv, CompareLedger, Idle, Sealing, Writing, Verifying, BuiltInv, Built,
         Issuing, IssueOf
<1>2. CASE ~HeadCovered(job.m)
  BY <1>2, JobStep DEF JobInv, CompareLedger
<1>3. CASE HeadCovered(job.m)
  <2>1. HeadAmong(job.m)
    BY <1>3 DEF HeadCovered, HeadInFiles, HeadAmong
  <2>2. job' = [op |-> "seal", m |-> job.m] /\ made' = made /\ job.todo = {}
    BY <1>3 DEF CompareLedger
  <2>3. Sealing'
    <3>1. job'.m = job.m
      BY <2>2
    <3> QED
      BY <1>1, <2>1, <2>2, <3>1 DEF Hashing, Sealing, Draft, HeadAmong
  <2> QED
    BY <2>3, JobStep DEF JobInv, CompareLedger
<1> QED
  BY <1>2, <1>3

LEMMA HashProtocolStep ==
    ASSUME FreezeInv, FilesAssumption, HashProtocol
    PROVE  FreezeInv'
<1>1. Sealing
  BY DEF FreezeInv, JobInv, HashProtocol, Idle, Hashing, Writing, Verifying, BuiltInv, Built,
         Issuing, IssueOf
<1>2. CASE content[Protocol] = NoFile
  BY <1>2, JobStep DEF JobInv, HashProtocol
<1>3. CASE content[Protocol] # NoFile
  <2> DEFINE m == [job.m EXCEPT !.protocol = content[Protocol]]
  <2>1. job' = [op |-> "write", m |-> m] /\ made' = made
    BY <1>3 DEF HashProtocol
  <2>2. content[Protocol] \in 1 .. made
    BY <1>3 DEF FreezeInv, TreeInv, FilesAssumption
  <2>3. /\ m = [type |-> job.m.type, task |-> job.m.task, head |-> job.m.head,
               files |-> job.m.files, protocol |-> content[Protocol]]
    BY <1>1 DEF Sealing, Draft
  <2> HIDE DEF m
  <2>4. /\ m.type = job.m.type /\ m.task = job.m.task /\ m.head = job.m.head
        /\ m.files = job.m.files /\ m.protocol = content[Protocol]
    BY <2>3
  <2>5. Draft(m) /\ HeadAmong(m)
    BY <1>1, <2>3, <2>4 DEF Sealing, Draft, HeadAmong
  <2>6. IsManifest(m)
    BY <1>1, <2>2, <2>4 DEF Sealing, IsManifest, Draft
  <2>7. Writing'
    <3>1. job'.m = m
      BY <2>1
    <3> QED
      BY <2>1, <2>5, <2>6, <3>1 DEF Writing, Sound, Draft, IsManifest, HeadAmong
  <2> QED
    BY <2>7, JobStep DEF JobInv, HashProtocol
<1> QED
  BY <1>2, <1>3

\* The tree of the moment keeps what it holds.
LEMMA KeptNow == ASSUME NEW m PROVE Kept(m, content)
BY DEF Kept

LEMMA WriteFreezeStep ==
    ASSUME FreezeInv, WriteFreeze
    PROVE  FreezeInv'
<1>1. Writing
  BY DEF FreezeInv, JobInv, WriteFreeze, Idle, Hashing, Sealing, Verifying, BuiltInv, Built,
         Issuing, IssueOf
<1>2. TreeInv' /\ made' = made /\ content' = content
  BY DEF FreezeInv, TreeInv, WriteFreeze
<1>3. DiskInv'
  <2>1. Sound(job.m) /\ job.m.type \in Types
    BY <1>1 DEF Writing, Sound, Draft
  <2>2. freezes' = [freezes EXCEPT ![job.m.type] = job.m] /\ head' = head
        /\ authorisation' = authorisation
    BY DEF WriteFreeze
  <2>3. (\A type \in Types :
            freezes[type] # NotMade => Sound(freezes[type]) /\ freezes[type].type = type)'
    <3> SUFFICES ASSUME NEW type \in Types, freezes'[type] # NotMade
                 PROVE  (Sound(freezes[type]) /\ freezes[type].type = type)'
      OBVIOUS
    <3>1. CASE type = job.m.type
      <4>1. freezes'[type] = job.m
        BY <2>1, <2>2, <3>1 DEF FreezeInv, DiskInv
      <4> QED
        BY <1>2, <2>1, <3>1, <4>1 DEF Sound, Draft, IsManifest, HeadAmong
    <3>2. CASE type # job.m.type
      <4>1. freezes'[type] = freezes[type]
        BY <2>1, <2>2, <3>2 DEF FreezeInv, DiskInv
      <4> QED
        BY <1>2, <4>1 DEF FreezeInv, DiskInv, Sound, Draft, IsManifest, HeadAmong
    <3> QED
      BY <3>1, <3>2
  <2>5. (authorisation # NotMade => /\ Sound(authorisation.lock) /\ authorisation.lock.type = "analysis-lock"
                          /\ Sound(authorisation.data) /\ authorisation.data.type = "data-freeze")'
    BY <1>2, <2>2 DEF FreezeInv, DiskInv, Sound, Draft, IsManifest, HeadAmong
  <2>4. freezes' = [type \in Types |-> freezes'[type]]
    BY <2>2 DEF FreezeInv, DiskInv
  <2> QED
    BY <1>2, <2>2, <2>3, <2>4, <2>5 DEF FreezeInv, DiskInv
<1>4. Verifying'
  <2> DEFINE m == job.m
             todo == m.files
  <2>1. job' = Verify(m, [op |-> "built", m |-> m, before |-> content], content)
    BY DEF WriteFreeze
  <2>2. /\ job'.op = "verify" /\ job'.m = m /\ job'.before = content
        /\ job'.next = [op |-> "built", m |-> m, before |-> content]
        /\ job'.todo = Frozen(m) /\ job'.ok = TRUE
    BY <2>1 DEF Verify, Frozen
  <2>3. job' = [op |-> "verify", m |-> job'.m, next |-> job'.next, before |-> job'.before,
               todo |-> job'.todo, ok |-> job'.ok]
    BY <2>1 DEF Verify
  <2>4. Sound(m)
    BY <1>1 DEF Writing
  <2>5. Sound(job.m)'
    BY <1>2, <2>2, <2>4 DEF Sound, Draft, IsManifest, HeadAmong
  <2>6. Kept(job.m, job.before)'
    BY <1>2, <2>2 DEF Kept
  <2>7. Leads'
    BY <2>2 DEF Leads, Built
  <2> QED
    BY <2>2, <2>3, <2>5, <2>6, <2>7 DEF Verifying, Frozen
<1> QED
  BY <1>2, <1>3, <1>4 DEF FreezeInv, JobInv

LEMMA ExitBuiltStep ==
    ASSUME FreezeInv, ExitBuilt \/ FreezeCrash
    PROVE  FreezeInv'
BY JobStep DEF JobInv, ExitBuilt, FreezeCrash

LEMMA IsVerifying ==
    ASSUME FreezeInv, job.op = "verify"
    PROVE  Verifying
BY DEF FreezeInv, JobInv, Idle, Hashing, Sealing, Writing, BuiltInv, Built, Issuing, IssueOf

LEMMA CheckFileStep ==
    ASSUME FreezeInv, CheckFile
    PROVE  FreezeInv'
<1>1. Verifying
  BY IsVerifying DEF CheckFile
<1>2. PICK f \in job.todo :
         job' = [job EXCEPT !.todo = @ \ {f},
                            !.ok = @ /\ content[f] = Committed(job.m, f)]
  <2> DEFINE rest == job.todo \ {Protocol}
             first == IF rest = {} THEN Protocol
                      ELSE CHOOSE g \in rest : \A h \in rest : g <= h
  <2>1. job' = [job EXCEPT !.todo = @ \ {first},
                          !.ok = @ /\ content[first] = Committed(job.m, first)]
    BY DEF CheckFile
  <2>2. first \in job.todo
    <3>1. CASE rest = {}
      BY <3>1 DEF CheckFile
    <3>2. CASE rest # {}
      <4>1. rest \subseteq Nat
        BY <1>1 DEF Verifying, Frozen, Sound, Draft
      <4>2. PICK g \in rest : \A h \in rest : g <= h
        BY <3>2, <4>1, SmallestInNat
      <4> QED
        BY <3>2, <4>2
    <3> QED
      BY <3>1, <3>2
  <2> HIDE DEF first
  <2> QED
    BY <2>1, <2>2
<1> DEFINE ok == job.ok /\ content[f] = Committed(job.m, f)
<1>3. job' = [op |-> "verify", m |-> job.m, next |-> job.next, before |-> job.before,
             todo |-> job.todo \ {f}, ok |-> ok]
  <2>1. job = [op |-> "verify", m |-> job.m, next |-> job.next, before |-> job.before,
               todo |-> job.todo, ok |-> job.ok]
    BY <1>1 DEF Verifying
  <2>2. job' = [job EXCEPT !.todo = job.todo \ {f}, !.ok = ok]
    BY <1>2
  <2> HIDE DEF ok
  <2> DEFINE rest == job.todo \ {f}
             k == [job EXCEPT !.todo = rest]
  <2> HIDE DEF rest
  <2>3. k = [op |-> "verify", m |-> job.m, next |-> job.next, before |-> job.before,
             todo |-> rest, ok |-> job.ok]
    BY <2>1
  <2>4. job' = [k EXCEPT !.ok = ok]
    BY <2>2 DEF rest
  <2> HIDE DEF k
  <2>5. job' = [op |-> "verify", m |-> job.m, next |-> job.next, before |-> job.before,
               todo |-> rest, ok |-> ok]
    BY <2>3, <2>4
  <2> QED
    BY <2>5 DEF rest
<1>4. /\ job'.m = job.m /\ job'.next = job.next /\ job'.before = job.before
      /\ job'.todo = job.todo \ {f} /\ job'.ok = ok
  BY <1>3
<1>5. ok \in BOOLEAN /\ (ok => job.ok /\ job.before[f] = Committed(job.m, f))
  BY <1>1 DEF Verifying, Kept
<1> HIDE DEF ok
<1>6. UNCHANGED <<tree, head, freezes, authorisation>> /\ content' = content /\ made' = made
  BY DEF CheckFile
<1>7. Sound(job.m)' /\ Kept(job.m, job.before)'
  BY <1>1, <1>4, <1>6 DEF Verifying, Sound, Draft, IsManifest, HeadAmong, Kept, Frozen, Committed
<1>8. Leads'
  BY <1>1, <1>4, <1>6 DEF Verifying, Leads, Built, IssueOf, Verify, Sound, Draft, IsManifest,
                          HeadAmong, Kept, Frozen, Committed, Agrees
<1>9. (job.ok => \A g \in Frozen(job.m) \ job.todo : job.before[g] = Committed(job.m, g))'
  BY <1>1, <1>4, <1>5 DEF Verifying, Frozen, Committed
<1>10. job' = [op |-> "verify", m |-> job'.m, next |-> job'.next, before |-> job'.before,
              todo |-> job'.todo, ok |-> job'.ok]
  BY <1>3, <1>4
<1>11. (job.todo \subseteq Frozen(job.m) /\ job.ok \in BOOLEAN)'
  BY <1>1, <1>4, <1>5 DEF Verifying, Frozen
<1>12. Verifying'
  BY <1>7, <1>8, <1>9, <1>10, <1>11 DEF Verifying
<1> QED
  BY <1>6, <1>12, JobStep DEF JobInv

\* The end of a verification: a manifest whose files were all as committed
\* agrees with the tree of before.
LEMMA CheckLedgerStep ==
    ASSUME FreezeInv, CheckLedger
    PROVE  FreezeInv'
<1>1. Verifying
  BY IsVerifying DEF CheckLedger
<1>2. UNCHANGED <<tree, head, freezes, authorisation>> /\ content' = content /\ made' = made
  BY DEF CheckLedger
<1>3. CASE ~(job.ok /\ HeadCovered(job.m))
  BY <1>3, JobStep DEF JobInv, CheckLedger
<1>4. CASE job.ok /\ HeadCovered(job.m)
  <2>1. job' = job.next
    BY <1>4 DEF CheckLedger
  <2>2. Agrees(job.m, job.before)
    BY <1>1, <1>4, SeenAgrees DEF Verifying, CheckLedger
  <2>3. CASE job.next = Built
    <3>1. BuiltInv'
      BY <2>1, <2>2, <2>3 DEF BuiltInv, Built, Agrees
    <3> QED
      BY <1>2, <3>1, JobStep DEF JobInv
  <2>4. ASSUME NEW lock, Sound(lock), Agrees(lock, job.before),
               job.next = IssueOf(lock, job.m, job.before)
        PROVE  FreezeInv'
    <3>1. job'.lock = lock /\ job'.data = job.m /\ job'.before = job.before
      BY <2>1, <2>4 DEF IssueOf
    <3>2. Issuing'
      BY <1>1, <1>2, <2>1, <2>2, <2>4, <3>1
         DEF Verifying, Issuing, IssueOf, Sound, Draft, IsManifest, HeadAmong, Agrees
    <3> QED
      BY <1>2, <3>2, JobStep DEF JobInv
  <2>5. ASSUME NEW data, Sound(data), Kept(data, job.before),
               job.next = Verify(data, IssueOf(job.m, data, job.before), job.before)
        PROVE  FreezeInv'
    <3> DEFINE issue == IssueOf(job.m, data, job.before)
    <3>1. /\ job'.m = data /\ job'.next = issue /\ job'.before = job.before
          /\ job'.todo = Frozen(data) /\ job'.ok = TRUE
      BY <2>1, <2>5 DEF Verify, Frozen
    <3>2. job' = [op |-> "verify", m |-> job'.m, next |-> job'.next, before |-> job'.before,
                 todo |-> job'.todo, ok |-> job'.ok]
      BY <2>1, <2>5 DEF Verify
    <3>3. (Sound(job.m) /\ Kept(job.m, job.before))'
      BY <1>2, <2>5, <3>1 DEF Sound, Draft, IsManifest, HeadAmong, Kept, Frozen, Committed
    <3>4. Leads'
      <4>1. Sound(job.m) /\ Agrees(job.m, job.before)
        BY <1>1, <2>2 DEF Verifying
      <4>2. job'.next = IssueOf(job.m, job'.m, job'.before)
        BY <3>1
      <4>3. PICK lock : lock = job.m
        OBVIOUS
      <4>4. Sound(lock)' /\ Agrees(lock, job.before)'
        BY <1>2, <3>1, <4>1, <4>3 DEF Sound, Draft, IsManifest, HeadAmong, Agrees
      <4>5. job'.next = IssueOf(lock, job.m, job.before)'
        BY <4>2, <4>3 DEF IssueOf
      <4> QED
        BY <4>4, <4>5 DEF Leads
    <3>5. Verifying'
      BY <3>1, <3>2, <3>3, <3>4 DEF Verifying, Frozen
    <3> QED
      BY <1>2, <3>5, JobStep DEF JobInv
  <2> QED
    BY <1>1, <2>3, <2>4, <2>5 DEF Verifying, Leads
<1> QED
  BY <1>3, <1>4

LEMMA BeginAuthoriseStep ==
    ASSUME FreezeInv, BeginAuthorise
    PROVE  FreezeInv'
<1>1. PICK lock, data \in {freezes[type] : type \in Types} \ {NotMade} :
         job' = Verify(lock, Verify(data, IssueOf(lock, data, content), content), content)
  BY DEF BeginAuthorise, IssueOf
<1>2. Sound(lock) /\ Sound(data)
  BY <1>1 DEF FreezeInv, DiskInv
<1>3. UNCHANGED <<tree, head, freezes, authorisation>> /\ content' = content /\ made' = made
  BY DEF BeginAuthorise
<1> DEFINE then == Verify(data, IssueOf(lock, data, content), content)
<1>4. /\ job'.m = lock /\ job'.next = then /\ job'.before = content
      /\ job'.todo = Frozen(lock) /\ job'.ok = TRUE
  BY <1>1 DEF Verify, Frozen
<1>5. job' = [op |-> "verify", m |-> job'.m, next |-> job'.next, before |-> job'.before,
             todo |-> job'.todo, ok |-> job'.ok]
  BY <1>1 DEF Verify
<1>6. (Sound(job.m) /\ Kept(job.m, job.before))'
  BY <1>2, <1>3, <1>4 DEF Sound, Draft, IsManifest, HeadAmong, Kept
<1>7. Leads'
  <2>1. Sound(data) /\ Kept(data, content)
    BY <1>2, KeptNow
  <2>2. job'.next = Verify(data, IssueOf(job'.m, data, job'.before), job'.before)
    BY <1>4
  <2> QED
    BY <1>3, <1>4, <2>1, <2>2 DEF Leads, Sound, Draft, IsManifest, HeadAmong, Kept, Frozen,
                                  Committed, Verify, IssueOf
<1>8. Verifying'
  BY <1>4, <1>5, <1>6, <1>7 DEF Verifying, Frozen
<1> QED
  BY <1>3, <1>8, JobStep DEF JobInv

LEMMA IsIssuing ==
    ASSUME FreezeInv, job.op = "issue"
    PROVE  Issuing
BY DEF FreezeInv, JobInv, Idle, Hashing, Sealing, Writing, Verifying, BuiltInv, Built

LEMMA IssueStep ==
    ASSUME FreezeInv, Issue
    PROVE  FreezeInv'
<1>1. Issuing
  BY IsIssuing DEF Issue
<1>2. content' = content /\ made' = made /\ head' = head /\ freezes' = freezes
  BY DEF Issue
<1>3. (head \in 1 .. made \cup {NotMade} /\ freezes = [type \in Types |-> freezes[type]])'
  BY <1>2 DEF FreezeInv, DiskInv
<1>4. (\A type \in Types :
          freezes[type] # NotMade => Sound(freezes[type]) /\ freezes[type].type = type)'
  BY <1>2 DEF FreezeInv, DiskInv, Sound, Draft, IsManifest, HeadAmong
<1>5. (authorisation # NotMade => /\ Sound(authorisation.lock) /\ authorisation.lock.type = "analysis-lock"
                        /\ Sound(authorisation.data) /\ authorisation.data.type = "data-freeze")'
  <2>1. CASE Compatible(job.lock, job.data)
    <3>1. authorisation'.lock = job.lock /\ authorisation'.data = job.data
      BY <2>1 DEF Issue
    <3> QED
      BY <1>1, <1>2, <2>1, <3>1 DEF Issuing, Compatible, Sound, Draft, IsManifest, HeadAmong
  <2>2. CASE ~Compatible(job.lock, job.data)
    BY <1>2, <2>2 DEF Issue, FreezeInv, DiskInv, Sound, Draft, IsManifest, HeadAmong
  <2> QED
    BY <2>1, <2>2
<1>6. TreeInv' /\ JobInv'
  BY <1>2 DEF Issue, FreezeInv, TreeInv, JobInv
<1> QED
  BY <1>3, <1>4, <1>5, <1>6 DEF FreezeInv, DiskInv

----------------------------------------------------------------------------
(* Theorems                                                                *)

\* The manifests on disk are complete and every running command's view of
\* them holds, in every reachable state.
THEOREM FreezeInductive == FreezeSpec => []FreezeInv
<1>1. FreezeInit => FreezeInv
  BY InitFreezeInv, FilesAssumption
<1>2. FreezeInv /\ [FreezeNext]_freezeVars => FreezeInv'
  <2> SUFFICES ASSUME FreezeInv, [FreezeNext]_freezeVars
               PROVE  FreezeInv'
    OBVIOUS
  <2>1. CASE UNCHANGED freezeVars
    <3>1. UNCHANGED <<tree, head, freezes, authorisation>> /\ UNCHANGED <<content, made, job>>
      BY <2>1 DEF freezeVars
    <3>2. JobInv'
      <4>1. CASE Hashing \/ Sealing \/ Writing \/ job = Idle
        BY <3>1, <4>1 DEF JobInv, Idle, Hashing, Sealing, Writing, Sound, Draft, IsManifest,
                          HeadAmong
      <4>2. CASE Verifying
        <5>1. Leads'
          BY <3>1, <4>2 DEF Verifying, Leads, Built, IssueOf, Verify, Sound, Draft,
                            IsManifest, HeadAmong, Kept, Frozen, Committed, Agrees
        <5> QED
          BY <3>1, <4>2, <5>1 DEF JobInv, Verifying, Sound, Draft, IsManifest, HeadAmong,
                                  Kept, Frozen, Committed
      <4>3. CASE BuiltInv \/ Issuing
        BY <3>1, <4>3 DEF JobInv, BuiltInv, Built, Issuing, IssueOf, Agrees, Sound, Draft,
                          IsManifest, HeadAmong
      <4> QED
        BY <4>1, <4>2, <4>3 DEF FreezeInv, JobInv
    <3> QED
      BY <3>1, <3>2, JobStep
  <2>2. CASE \E type \in Types, inputs \in InputSets : BeginBuild(type, inputs)
    BY <2>2, BeginBuildStep, FilesAssumption
  <2>3. CASE HashInput
    BY <2>3, HashInputStep, FilesAssumption
  <2>4. CASE CompareLedger
    BY <2>4, CompareLedgerStep
  <2>5. CASE HashProtocol
    BY <2>5, HashProtocolStep, FilesAssumption
  <2>6. CASE WriteFreeze
    BY <2>6, WriteFreezeStep
  <2>7. CASE ExitBuilt \/ FreezeCrash
    BY <2>7, ExitBuiltStep
  <2>8. CASE CheckFile
    BY <2>8, CheckFileStep
  <2>9. CASE CheckLedger
    BY <2>9, CheckLedgerStep
  <2>10. CASE BeginAuthorise
    BY <2>10, BeginAuthoriseStep
  <2>11. CASE Issue
    BY <2>11, IssueStep
  <2>12. CASE ReportHead
    BY <2>12, ReportHeadStep, FilesAssumption
  <2>13. CASE \E f \in Files : Edit(f) \/ RemoveFile(f)
    BY <2>13, EditStep, FilesAssumption
  <2> QED
    BY <2>1, <2>2, <2>3, <2>4, <2>5, <2>6, <2>7, <2>8, <2>9, <2>10, <2>11, <2>12, <2>13
       DEF FreezeNext, Steward
<1> QED
  BY <1>1, <1>2, PTL DEF FreezeSpec

\* Type correctness, for any files and any number of edits.
THEOREM FreezeTyped == FreezeSpec => []FreezeTypeOK
<1>1. FreezeInv => FreezeTypeOK
  BY DEF FreezeInv, TreeInv, DiskInv, FreezeTypeOK, Sound
<1> QED
  BY <1>1, FreezeInductive, PTL

\* A freeze whose command exits with 0 is of one tree.
THEOREM BuiltFromOneTree == FreezeSpec => []FreezeIsOneTree
<1>1. FreezeInv => FreezeIsOneTree
  BY DEF FreezeInv, JobInv, FreezeIsOneTree, Idle, Hashing, Sealing, Writing, Verifying, BuiltInv,
         Built, Issuing, IssueOf
<1> QED
  BY <1>1, FreezeInductive, PTL

\* A authorisation stands for one tree of one study.
THEOREM ReceiptOfOneTree == FreezeSpec => AuthorisedTreeExisted
<1>1. FreezeInv /\ [FreezeNext]_freezeVars =>
        [authorisation' # authorisation =>
           /\ Agrees(authorisation'.lock, job.before) /\ Agrees(authorisation'.data, job.before)
           /\ authorisation'.lock.task = authorisation'.data.task]_freezeVars
  <2> SUFFICES ASSUME FreezeInv, [FreezeNext]_freezeVars, authorisation' # authorisation
               PROVE  /\ Agrees(authorisation'.lock, job.before) /\ Agrees(authorisation'.data, job.before)
                      /\ authorisation'.lock.task = authorisation'.data.task
    OBVIOUS
  <2>1. Issue
    BY DEF FreezeNext, Steward, freezeVars, BeginBuild, HashInput, CompareLedger, HashProtocol,
           WriteFreeze, ExitBuilt, CheckFile, CheckLedger, BeginAuthorise, FreezeCrash, ReportHead,
           Edit, RemoveFile
  <2>2. Issuing
    BY <2>1, IsIssuing DEF Issue
  <2>3. authorisation' = [lock |-> job.lock, data |-> job.data] /\ Compatible(job.lock, job.data)
    BY <2>1 DEF Issue
  <2> QED
    BY <2>2, <2>3 DEF Issuing, Compatible
<1> QED
  BY <1>1, FreezeInductive, PTL DEF FreezeSpec, AuthorisedTreeExisted

=============================================================================
