------------------------------ MODULE Governance ------------------------------
(***************************************************************************)
(* The governance records of the project and the repository contract: the  *)
(* records under conductor/ and the assurance case, the pages and the      *)
(* issue manifest that scripts generate from them, release readiness, and  *)
(* validate_repository, which reads all of them and many other files, one  *)
(* after the other, while people go on editing.                            *)
(*                                                                         *)
(* Other files have a version: the versions of files that refer to each    *)
(* other agree or not, one version is well formed but wrong, and one does  *)
(* not parse.  Work packages are left to IssueSync.                        *)
(***************************************************************************)
EXTENDS Naturals, FiniteSets, Sequences

CONSTANTS
    TrackIds, Phases,
    BlockerIds,
    CriteriaOf,     \* the closure criteria of each blocker
    BlocksOf,       \* the profiles that each blocker blocks
    ClaimIds,
    AlphaProfiles,  \* profiles that the contract wants to be ready
    RequiredOf,     \* the claims each profile requires
    MinimumOf,      \* and the evidence level it asks of them
    EvidenceFiles,  \* paths that the records may cite
    Marks,          \* the statuses that people write
    Grades,         \* the evidence levels that people write
    Touched,        \* the other files that people edit
    MaxRevisions    \* bound: edits

Criteria == UNION {CriteriaOf[b] : b \in BlockerIds}
Subjects == BlockerIds \cup Criteria \cup ClaimIds
ProfileIds == DOMAIN RequiredOf
Graded == TrackIds \cup BlockerIds \cup ClaimIds
Citing == TrackIds \cup Subjects

ASSUME GovernanceAssumption ==
    /\ CriteriaOf \in [BlockerIds -> SUBSET Criteria] /\ IsFiniteSet(Criteria)
    /\ BlocksOf \in [BlockerIds -> SUBSET ProfileIds]
    /\ AlphaProfiles \subseteq ProfileIds
    /\ RequiredOf \in [ProfileIds -> SUBSET ClaimIds]
    /\ MinimumOf \in [ProfileIds -> 0 .. 5]
    /\ MaxRevisions \in Nat

\* ALLOWED_PHASE_STATUS, EVIDENCE_ORDER, and OPEN_BLOCKER_STATES.
KnownStatuses == {"complete", "partial", "blocked", "planned", "reopened"}
Levels == 0 .. 5
OpenStates == KnownStatuses \ {"complete"}

----------------------------------------------------------------------------
(* The files                                                               *)

Lost == 0
Wrong == 3
Broken == 4

\* What is read with json.loads, and what REQUIRED_PATHS names of the rest.
Json == {"grammar", "ontology", "schema", "commitment", "competency", "exploits", "ecosystem",
         "eligibility", "runtime", "standards", "profile", "context", "renovate",
         "metadata", "blockers", "assurance"}
Required == {"grammar", "pilot", "anchor", "commitment", "candidate", "competency", "exploits",
             "ecosystem", "runtime", "standards", "profile", "blockers", "assurance",
             "pyproject", "codecov", "renovate", "quality-workflow"}
PathNames == Json \cup Required \cup EvidenceFiles
         \cup {"fixture", "regression-test", "workflow", "shapes", "surface", "integration",
                 "harness", "Dockerfile", "sources"}

VARIABLES
    records,      \* the tracks, blockers and criteria, claims and profiles
    files,        \* the version of every other path, and of the records' files
    pages,        \* conductor/tracks.md and conductor/status.md
    board,        \* .github/issues/manifest.json
    gate,         \* a run of validate_repository
    revisions

governanceVars == <<records, files, pages, board, gate, revisions>>

Exists(p) == files[p] # Lost
Sound(p) == files[p] \notin {Lost, Wrong, Broken}
Agree(p, q) == files[p] = files[q]

Cited(S) == UNION {records.cites[x] : x \in S}
Missing(S) == {p \in S : files[p] = Lost}

----------------------------------------------------------------------------
(* What is generated from the records                                      *)

\* A criterion that is not an object is passed over.
Readable(b) == CriteriaOf[b] \ records.malformed

OpenCriteria(b) == {c \in Readable(b) : records.status[c] # "complete"}

Registry == [phase |-> records.phase,
             level |-> [x \in TrackIds \cup BlockerIds |-> records.level[x]],
             status |-> [b \in BlockerIds |-> records.status[b]]]

StatusPage == [phase |-> records.phase, constraint |-> records.constraint,
               status |-> [b \in BlockerIds |-> records.status[b]],
               open |-> [b \in BlockerIds |-> Cardinality(OpenCriteria(b))]]

\* generated_documents
Documents == [registry |-> Registry, status |-> StatusPage]

\* build_issue_manifest: bodies show the criteria with a box each.
IssueManifest ==
    [phase |-> records.phase, constraint |-> records.constraint,
     level |-> [x \in TrackIds \cup BlockerIds |-> records.level[x]],
     status |-> [b \in BlockerIds |-> records.status[b]],
     boxes |-> [c \in Criteria |->
                  IF c \in records.malformed THEN "planned" ELSE records.status[c]],
     cites |-> [x \in BlockerIds \cup Criteria |-> records.cites[x]]]

\* A track without an overview in its spec.md, without a phase or an identifier,
\* or a record that does not parse raises before anything is written.
Malformed(S) == S \cap records.malformed # {}
Renderable ==
    /\ Sound("metadata") /\ Sound("blockers")
    /\ records.overview = TrackIds
    /\ ~Malformed(TrackIds)

----------------------------------------------------------------------------
(* Release readiness                                                       *)

\* A level that is unknown is an error of the report.
SatisfiedClaim(c, p) ==
    /\ records.level[c] \in Levels
    /\ records.level[c] >= MinimumOf[p]
    /\ Missing(records.cites[c]) = {}
    /\ records.status[c] \notin {"planned", "blocked", "reopened"}

\* Fault: the state of the blocker is taken for that of its criteria.
BlocksByState(b, p) == p \in BlocksOf[b] /\ records.status[b] \in OpenStates

Blocks(b, p) ==
    /\ p \in BlocksOf[b]
    /\ records.status[b] \in OpenStates \/ OpenCriteria(b) # {}

\* A profile that names an unknown claim is not ready either.
ProfileReady(p) ==
    /\ p \notin records.dangling
    /\ \A c \in RequiredOf[p] : SatisfiedClaim(c, p)
    /\ \A b \in BlockerIds :
          /\ ~Blocks(b, p)
          /\ Missing(Cited({b} \cup Readable(b))) = {}

----------------------------------------------------------------------------
(* The checks.  One tells that it found an error, or ends with an exception *)
(* and with it the validation.                                             *)

Finds(condition) == IF condition THEN {"finding"} ELSE {}
Stops(condition) == IF condition THEN {"exception"} ELSE {}

RequiredPaths == Finds(\E p \in Required : ~Exists(p))

JsonFiles == Finds(\E p \in Json : files[p] = Broken)

\* Grammar and ontologies, whose errors are all caught.
TaskLanguage == Finds(\E p \in {"grammar", "ontology"} : Exists(p) /\ ~Sound(p))

SchemaSnapshots == Stops(files["schema"] = Broken) \cup Finds(~Sound("schema"))

TaskFiles ==
    LET parsed == Sound("pilot")
    IN  Finds(\E p \in {"pilot", "anchor"} : Exists(p) /\ ~Sound(p))
          \cup Stops(parsed /\ files["commitment"] = Broken)
          \cup Finds(parsed /\ Exists("commitment") /\ ~Agree("commitment", "pilot"))

CandidateTasks == Finds(Exists("candidate") /\ ~Sound("candidate"))

TrackRecords ==
    Stops(files["metadata"] = Broken)
      \cup Finds(\/ Malformed(TrackIds)
                 \/ \E t \in TrackIds : \/ records.level[t] \notin Levels
                                        \/ \E p \in Phases : records.phase[t][p] \notin KnownStatuses
                 \/ Missing(Cited(TrackIds)) # {})

\* The manifest is built again; what is caught is an error of the records.
TrackGraph ==
    TrackRecords
      \cup Stops(~Exists("blockers") /\ records.overview = TrackIds /\ ~Malformed(TrackIds))
      \cup Finds(~Renderable \/ board # IssueManifest)

ConductorViews == Stops(~Exists("blockers")) \cup Finds(~Renderable \/ pages # Documents)

\* Fault: a blocker is not compared with its criteria.
LooseBlocker(b) ==
    \/ b \in records.malformed \cup records.dangling
    \/ records.level[b] \notin Levels \/ records.status[b] \notin KnownStatuses
    \/ Missing(records.cites[b]) # {}

FaultyBlocker(b) ==
    LET statuses == {records.status[c] : c \in Readable(b)}
    IN  \/ b \in records.malformed \cup records.dangling \/ CriteriaOf[b] = {}
        \/ records.level[b] \notin Levels \/ records.status[b] \notin KnownStatuses
        \/ Missing(records.cites[b]) # {}
        \/ (records.status[b] = "complete") # (statuses = {"complete"})
        \/ records.status[b] = "planned" /\ statuses \cap {"complete", "partial"} # {}

FaultyCriterion(c) ==
    \/ c \in records.malformed
    \/ records.status[c] \notin KnownStatuses
    \/ Missing(records.cites[c]) # {}

FaultyClaim(c) ==
    \/ c \in records.malformed \cup records.dangling
    \/ records.level[c] \notin Levels
    \/ Missing(records.cites[c]) # {}

AlphaReadiness == Finds(\E p \in AlphaProfiles : ~ProfileReady(p))

AssuranceCase ==
    IF ~Exists("blockers") \/ ~Exists("assurance") THEN {}
    ELSE Stops(\E p \in {"blockers", "assurance", "metadata"} : files[p] = Broken)
           \cup Finds(\/ \E b \in BlockerIds : FaultyBlocker(b)
                      \/ \E c \in Criteria : FaultyCriterion(c)
                      \/ \E c \in ClaimIds : FaultyClaim(c))
           \cup AlphaReadiness

\* An ontology that is missing is not caught.
CompetencyCases ==
    Finds(Exists("competency") /\ ~(Sound("competency") /\ Sound("ontology")))
      \cup Stops(files["competency"] \notin {Lost, Broken} /\ ~Exists("ontology"))

\* The fixture and the regression test of a known exploit: the test's file has to
\* define the function.
KnownExploits ==
    Finds(/\ Exists("exploits")
          /\ ~Sound("exploits") \/ ~Exists("fixture") \/ ~Sound("regression-test"))

ActionPins == Finds(files["workflow"] = Wrong)

EcosystemContract == Finds(Exists("ecosystem") /\ ~(Sound("ecosystem") /\ Exists("integration")))

\* The models of one registry name the profiles of the other one.
RuntimeRegistry ==
    Finds(/\ Exists("eligibility") /\ Exists("runtime")
          /\ ~(Sound("eligibility") /\ Sound("runtime") /\ Agree("eligibility", "runtime")))

\* default_publication_plan: what each action does, and which ones write outside.
PlannedModes ==
    [sourceright |-> "local-check", authentext |-> "agent-review", integrity |-> "agent-review",
     substack_preflight |-> "local-check", substack_draft |-> "dry-run",
     postiz_social_draft |-> "manual-write", osf_validate |-> "local-check",
     osf_upload |-> "manual-write", arxiv_quality |-> "local-check"]
WritesExternal == {"postiz_social_draft", "osf_upload"}
ApprovalRequired == WritesExternal

PublicationContract ==
    Finds(\E a \in WritesExternal : PlannedModes[a] # "manual-write" \/ a \notin ApprovalRequired)

StandardsSchema == Stops(files["standards"] = Broken) \cup Finds(files["standards"] = Wrong)

\* The namespace of the profile is that of the context and of the shapes; a profile
\* that does not load is the one finding.
Interoperability ==
    IF ~Exists("profile") THEN {}
    ELSE IF ~Sound("profile") THEN Finds(TRUE)
    ELSE Finds(\/ ~Exists("surface") \/ ~Exists("competency")
               \/ \E p \in {"context", "shapes"} : Exists(p) /\ ~Agree(p, "profile"))
           \cup Stops(files["context"] = Broken)

\* A renovate.json that does not parse has been found before.
QualityConfiguration ==
    Finds(\/ \E p \in {"pyproject", "quality-workflow", "codecov"} : Exists(p) /\ ~Sound(p)
          \/ files["renovate"] = Wrong)

\* The paths on the status page, which ends with the name of the harness.
StatusEvidence ==
    Finds(Missing({"harness"} \cup UNION {pages.status.constraint[t] : t \in TrackIds}) # {})

Placeholders == Finds(files["Dockerfile"] = Wrong \/ files["sources"] = Wrong)

----------------------------------------------------------------------------
\* The check a validation is at; 0 before it and Accepted after its exit code 0.
Idle == [at |-> 0, told |-> {}, revised |-> FALSE]

GovernanceInit ==
    /\ records =
         [phase |-> [t \in TrackIds |-> [p \in Phases |-> "complete"]],
          status |-> [x \in Subjects |-> IF x \in ClaimIds THEN "partial" ELSE "complete"],
          level |-> [x \in Graded |-> 2],
          cites |-> [x \in Citing |-> {}],
          constraint |-> [t \in TrackIds |-> {}],
          overview |-> TrackIds, malformed |-> {}, dangling |-> {}]
    /\ files = [p \in PathNames |-> 1]
    /\ pages = Documents
    /\ board = IssueManifest
    /\ gate = Idle
    /\ revisions = 0

----------------------------------------------------------------------------
(* People                                                                  *)

Revise ==
    /\ revisions < MaxRevisions
    /\ revisions' = revisions + 1
    /\ gate' = [gate EXCEPT !.revised = gate # Idle]
    /\ UNCHANGED <<pages, board>>

Toggle(S, x) == IF x \in S THEN S \ {x} ELSE S \cup {x}

\* What one edit makes of the records.
Revised ==
    LET r == records IN
    {[r EXCEPT !.phase[t][p] = m] : t \in TrackIds, p \in Phases, m \in Marks}
      \cup {[r EXCEPT !.status[x] = m] : x \in Subjects, m \in Marks}
      \cup {[r EXCEPT !.level[x] = g] : x \in Graded, g \in Grades}
      \cup {[r EXCEPT !.cites[x] = Toggle(@, e)] : x \in Citing, e \in EvidenceFiles}
      \cup {[r EXCEPT !.constraint[t] = Toggle(@, e)] : t \in TrackIds, e \in EvidenceFiles}
      \cup {[r EXCEPT !.overview = Toggle(@, t)] : t \in TrackIds}
      \cup {[r EXCEPT !.malformed = Toggle(@, x)] : x \in TrackIds \cup Subjects}
      \cup {[r EXCEPT !.dangling = Toggle(@, x)] :
                x \in BlockerIds \cup ClaimIds \cup ProfileIds}

EditRecords ==
    /\ Revise
    /\ records' \in Revised \ {records}
    /\ UNCHANGED files

\* The metadata of a track and the files of the records do not parse or are lost,
\* the evidence is lost or there again, other files change as well.
Versions(p) ==
    IF p = "metadata" THEN {1, Broken}
    ELSE IF p \in {"blockers", "assurance"} THEN {Lost, 1, Broken}
    ELSE IF p \in EvidenceFiles THEN {Lost, 1}
    ELSE IF p \in Json THEN {Lost, 1, 2, Wrong, Broken}
    ELSE {Lost, 1, 2, Wrong}

EditFile(p) ==
    /\ Revise
    /\ \E v \in Versions(p) \ {files[p]} : files' = [files EXCEPT ![p] = v]
    /\ UNCHANGED records

----------------------------------------------------------------------------
(* The generators                                                          *)

\* generate_conductor_docs.py writes the registry first and may break off then.
GenerateDocuments ==
    /\ Renderable
    /\ pages' \in {Documents, [pages EXCEPT !.registry = Registry]} \ {pages}
    /\ UNCHANGED <<records, files, board, gate, revisions>>

GenerateIssueManifest ==
    /\ Renderable
    /\ board # IssueManifest
    /\ board' = IssueManifest
    /\ UNCHANGED <<records, files, pages, gate, revisions>>

----------------------------------------------------------------------------
(* validate_repository: the checks in their order, some that read what     *)
(* hardly changes in one step                                              *)

CheckOrder == <<"files", "graph", "views", "assurance", "registries", "texts">>
Accepted == Len(CheckOrder) + 1

Told(stage) ==
    CASE stage = "files" -> RequiredPaths \cup JsonFiles \cup TaskLanguage \cup SchemaSnapshots
                              \cup TaskFiles \cup CandidateTasks
      [] stage = "graph" -> TrackGraph
      [] stage = "views" -> ConductorViews
      [] stage = "assurance" -> AssuranceCase
      [] stage = "registries" -> CompetencyCases \cup KnownExploits \cup ActionPins
                                   \cup EcosystemContract \cup RuntimeRegistry \cup PublicationContract
                                   \cup StandardsSchema \cup Interoperability
                                   \cup QualityConfiguration
      [] stage = "texts" -> StatusEvidence \cup Placeholders

BeginValidation ==
    /\ gate.at \notin DOMAIN CheckOrder
    /\ gate' = [at |-> 1, told |-> {}, revised |-> FALSE]
    /\ UNCHANGED <<records, files, pages, board, revisions>>

\* Nothing is refused before the end, unless an exception ends it all; the exit
\* code is 0 if there was no finding.
Validate ==
    /\ gate.at \in DOMAIN CheckOrder
    /\ LET told == gate.told \cup Told(CheckOrder[gate.at])
       IN  gate' = IF "exception" \in told THEN Idle
                   ELSE IF gate.at < Len(CheckOrder) \/ told = {}
                   THEN [gate EXCEPT !.at = @ + 1, !.told = told] ELSE Idle
    /\ UNCHANGED <<records, files, pages, board, revisions>>

GovernanceNext ==
    \/ EditRecords
    \/ \E p \in Touched : EditFile(p)
    \/ GenerateDocuments \/ GenerateIssueManifest
    \/ BeginValidation \/ Validate

GovernanceSpec == GovernanceInit /\ [][GovernanceNext]_governanceVars

----------------------------------------------------------------------------
(* Properties                                                              *)

\* What an accepted repository shows agrees, page with page and with readiness,
\* unless somebody has edited since the validation began: a blocker is shown as
\* complete on both pages and in the issues, or on none, and then no criterion
\* is counted as open and every box is ticked; a profile that is ready is blocked
\* by nothing that a page shows as open; and the evidence is there.
AcceptedIsTruthful ==
    gate.at = Accepted /\ ~gate.revised =>
        /\ \A b \in BlockerIds :
              LET closed == pages.registry.status[b] = "complete"
              IN  /\ closed = (pages.status.status[b] = "complete")
                  /\ closed = (board.status[b] = "complete")
                  /\ closed = (pages.status.open[b] = 0)
                  /\ closed = (\A c \in CriteriaOf[b] : board.boxes[c] = "complete")
                  /\ \A p \in BlocksOf[b] : ProfileReady(p) => closed
        /\ \A x \in BlockerIds \cup Criteria : Missing(board.cites[x]) = {}
        /\ \A p \in AlphaProfiles : ProfileReady(p)

=============================================================================
