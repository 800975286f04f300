------------------------------ MODULE Release ------------------------------
(***************************************************************************)
(* Packaging a release: build_release_package of release_packaging.py with *)
(* the publication bundle, the release manifest and the verification       *)
(* receipt it builds on the way.                                           *)
(*                                                                         *)
(* The packager asks git once whether the working tree is clean and then   *)
(* reads the tree file by file, several times over, while people go on     *)
(* editing, committing, tagging and switching to other commits, and the    *)
(* harness goes on writing its reports.  A file's content is a number that *)
(* stands for its bytes, and hence for its hash; a commit is the number of *)
(* a snapshot.  The files that are left out (the git bundle, the SBOM, the *)
(* texts the bundle makes up) are read from nothing that is modelled.      *)
(***************************************************************************)
EXTENDS Naturals, Sequences, FiniteSets

CONSTANTS
    TrackedCount, \* tracked files are numbered in the order of their paths
    Assurance,    \* benchmark/assurance-case.json
    Candidate,    \* benchmark/tasks/v1-candidate.jsonl
    Snapshots,    \* tracked files that are copied as evidence
    Published,    \* tracked files of the bundle that no evidence replaces there
    Reports,      \* reports of the harness, ignored by git, copied as evidence
    Checked,      \* those of them the verification receipt judges
    Coverage,     \* the one of those that it hashes too
    Archives,     \* the archives in the order they are made
    Histories,    \* those of them that hold .git too
    Past,         \* the snapshots that are committed; HEAD is at the last one
    Bad,          \* contents that fail the checks of their file
    Nothing,      \* a report that is not there
    MaxChanges,   \* bound: what everybody else does
    MaxPackages,  \* bound: packagings
    MaxGone       \* bound: files an interrupted deletion has removed

Tracked == 1 .. TrackedCount
Gone == 0
Git == 0

\* What else the package holds.
PartNames == {"plan", "reports", "snapshots", "clone", "publication", "manifest",
          "verification", "receipt", "sums"}

ASSUME ReleaseFilesAssumption ==
    /\ TrackedCount \in Nat
    /\ {Assurance, Candidate} \cup Snapshots \cup Published \subseteq Tracked
    /\ Published # {}
    /\ Checked \subseteq Reports /\ Coverage \in Checked
    /\ Archives \in Seq({Archives[i] : i \in DOMAIN Archives}) /\ Archives # <<>>
    /\ Histories \subseteq {Archives[i] : i \in DOMAIN Archives}
    /\ {Archives[i] : i \in DOMAIN Archives} \cap PartNames = {}
    /\ Bad \subseteq Nat /\ Nothing \notin [id : Nat, passed : BOOLEAN]

ASSUME ReleasePastAssumption ==
    Past \in Seq([Tracked -> 1 .. TrackedCount]) /\ Past # <<>>

ASSUME ReleaseBoundAssumption == {MaxChanges, MaxPackages, MaxGone} \subseteq Nat

VARIABLES
    worktree,     \* the tracked files as they are in the working tree
    commits,      \* the snapshots, by the numbers of their commits
    head,         \* the commit HEAD is at
    tag,          \* the commit the release's tag points at
    reports,      \* the reports as they are in artifacts/
    clone,        \* the commit of the clean-clone receipt in artifacts/
    out,          \* the output directory: what it has, and the bytes of it
    packing,      \* the packaging that is running
    changes, packages,
    undone,       \* history: what was changed back while it was packaged
    rerun         \* history: reports rewritten meanwhile

checkout == <<worktree, commits, head, tag, reports, clone, changes>>
history == <<undone, rerun>>
releaseVars == <<checkout, out, packing, packages, history>>

----------------------------------------------------------------------------
\* git status --porcelain has nothing to say.
Clean == worktree = commits[head]

Put(f, x, v) == [y \in DOMAIN f \cup {x} |-> IF y = x THEN v ELSE f[y]]
Without(f, S) == [y \in DOMAIN f \ S |-> f[y]]
Least(S) == CHOOSE x \in S : \A y \in S : x <= y
Empty == [x \in {} |-> Nothing]

\* evaluate_release_readiness: the claims are satisfied and their evidence is
\* there; the assurance case itself has to be there to be read.
Ready == /\ worktree[Assurance] \notin Bad
         /\ \A f \in Tracked : worktree[f] # Gone

\* audit_ecosystem: every file the registry names as evidence exists.
Audited == \A f \in Tracked : worktree[f] # Gone

\* validate_repository: every required file exists and none has a finding.
Contract == \A f \in Tracked : worktree[f] \notin Bad \cup {Gone}

----------------------------------------------------------------------------
Resting == [op |-> "idle"]

ReleaseInit ==
    /\ commits = Past /\ head = Len(Past)
    /\ worktree = Past[head] /\ tag = head
    /\ reports = [r \in Reports |-> [id |-> 0, passed |-> TRUE]]
    /\ clone = head
    /\ out = Empty
    /\ packing = Resting
    /\ changes = 0 /\ packages = 0
    /\ undone = {} /\ rerun = {}

----------------------------------------------------------------------------
(* Everybody else                                                          *)

Change ==
    /\ changes < MaxChanges
    /\ changes' = changes + 1
    /\ UNCHANGED <<out, packing, packages>>

\* The packager knows the commit that it packages.
Packaging == packing # Resting /\ packing.commit # 0

\* The history remembers the files that get the bytes of the packaged commit
\* again; HEAD, as Git, when it gets back to that commit; and, when HEAD moves
\* on between the manifest's question for it and its question for the status,
\* what was not committed then.
NoteReturns ==
    undone' = IF ~Packaging THEN undone
              ELSE undone
                   \cup {f \in Tracked : /\ worktree'[f] # worktree[f]
                                        /\ worktree'[f] = commits[packing.commit][f]}
                   \cup {g \in {Git} : head' # head /\ head' = packing.commit}
                   \cup {f \in Tracked : /\ packing.op = "manifest-status"
                                        /\ head' # head /\ head = packing.commit
                                        /\ worktree[f] # commits[head][f]}

EditTracked(f) ==
    /\ Change
    /\ worktree' = [worktree EXCEPT ![f] = TrackedCount + changes + 1]
    /\ UNCHANGED <<commits, head, tag, reports, clone, history>>

RemoveTracked(f) ==
    /\ Change
    /\ worktree[f] # Gone
    /\ worktree' = [worktree EXCEPT ![f] = Gone]
    /\ UNCHANGED <<commits, head, tag, reports, clone, history>>

\* git checkout c -- f, or an editor's undo: bytes that were committed once.
RestoreTracked(f, c) ==
    /\ Change
    /\ worktree[f] # commits[c][f]
    /\ worktree' = [worktree EXCEPT ![f] = commits[c][f]]
    /\ UNCHANGED <<commits, head, tag, reports, clone, rerun>>
    /\ NoteReturns

\* git commit, also with --amend.  No file leaves the index.
Commit ==
    /\ Change
    /\ ~Clean /\ \A f \in Tracked : worktree[f] # Gone
    /\ commits' = Append(commits, worktree)
    /\ head' = Len(commits) + 1
    /\ UNCHANGED <<worktree, tag, reports, clone, rerun>>
    /\ NoteReturns

\* git switch, checkout or reset --hard, which take the files along, and reset,
\* which does not.
MoveHead(c) ==
    /\ Change
    /\ c # head
    /\ head' = c
    /\ worktree' \in {worktree, commits[c]}
    /\ UNCHANGED <<commits, tag, reports, clone, rerun>>
    /\ NoteReturns

MoveTag ==
    /\ Change
    /\ tag # head
    /\ tag' = head
    /\ UNCHANGED <<worktree, commits, head, reports, clone, history>>

\* The harness writes a report again, or the file is removed.
WriteReport(r) ==
    /\ Change
    /\ \E v \in {Nothing} \cup [id : {changes + 1}, passed : BOOLEAN] :
          /\ v # reports[r]
          /\ reports' = [reports EXCEPT ![r] = v]
    /\ rerun' = IF packing = Resting THEN rerun ELSE rerun \cup {r}
    /\ UNCHANGED <<worktree, commits, head, tag, clone, undone>>

\* verify_clean_clone.sh checks out a commit into a clone of its own and
\* writes a receipt if the harness succeeds there.
VerifyClone(c) ==
    /\ Change
    /\ clone # c
    /\ clone' = c
    /\ UNCHANGED <<worktree, commits, head, tag, reports, history>>

----------------------------------------------------------------------------
(* The packager                                                            *)

Started == [op |-> "status", commit |-> 0, tree |-> 0, audited |-> FALSE,
            a |-> 1, todo |-> {}, copied |-> {}, draft |-> Empty]

Goes(op) == packing' = [packing EXCEPT !.op = op]
Raises == packing' = Resting
Writes(name, v) == out' = Put(out, name, v)
Written(name) == IF name \in DOMAIN out THEN out[name] ELSE Empty

\* What an archive takes in, in the order of the paths.
Paths(a) == IF Archives[a] \in Histories THEN Tracked \cup {Git} ELSE Tracked

\* .git holds the commit HEAD is at.
Bytes(a, p) == IF p = Git /\ p \in Paths(a) THEN head ELSE worktree[p]

\* Fault: an old package is written over.
BeginOver(overwrite) ==
    /\ packing = Resting
    /\ packages < MaxPackages
    /\ DOMAIN out = {} \/ overwrite
    /\ packages' = packages + 1
    /\ packing' = Started
    /\ UNCHANGED <<checkout, out, history>>

\* A destination that is not empty is refused, or deleted before anything is
\* checked.
BeginPackage(overwrite) ==
    /\ packing = Resting
    /\ packages < MaxPackages
    /\ DOMAIN out = {} \/ overwrite
    /\ out' = Empty
    /\ packages' = packages + 1
    /\ packing' = Started
    /\ UNCHANGED <<checkout, history>>

\* The deletion is interrupted: a part of the old package stays.
BreakDeletion ==
    /\ packing = Resting
    /\ packages < MaxPackages
    /\ \E S \in SUBSET DOMAIN out :
          /\ Cardinality(S) \in 1 .. MaxGone
          /\ out' = Without(out, S)
    /\ packages' = packages + 1
    /\ UNCHANGED <<checkout, packing, history>>

CheckStatus ==
    /\ packing.op = "status"
    /\ IF Clean THEN Goes("head") ELSE Raises
    /\ undone' = {} /\ rerun' = {}
    /\ UNCHANGED <<checkout, packages, out>>

\* Three questions to git, one after the other: HEAD, its tree, and the tag.
AskHead ==
    /\ packing.op = "head"
    /\ packing' = [packing EXCEPT !.op = "tree", !.commit = head]
    /\ UNCHANGED <<checkout, packages, out, history>>

AskTree ==
    /\ packing.op = "tree"
    /\ packing' = [packing EXCEPT !.op = "tag", !.tree = head]
    /\ UNCHANGED <<checkout, packages, out, history>>

AskTag ==
    /\ packing.op = "tag"
    /\ IF tag = packing.commit THEN Goes("ready") ELSE Raises
    /\ UNCHANGED <<checkout, packages, out, history>>

AssessReadiness ==
    /\ packing.op = "ready"
    /\ packing' = IF Ready THEN [packing EXCEPT !.op = "archive", !.todo = Paths(1)]
                           ELSE Resting
    /\ UNCHANGED <<checkout, packages, out, history>>

\* create_deterministic_zip and create_deterministic_tar_gz: one file of one
\* archive.  A file that is gone raises and leaves the archive as it is.
ArchiveFile ==
    /\ packing.op = "archive"
    /\ LET p == Least(packing.todo)
           name == Archives[packing.a]
           bytes == Bytes(packing.a, p)
           rest == packing.todo \ {p}
       IN  IF bytes = Gone
           THEN Raises /\ Writes(name, Written(name))
           ELSE /\ Writes(name, Put(Written(name), p, bytes))
                /\ IF rest # {}
                   THEN packing' = [packing EXCEPT !.todo = rest]
                   ELSE IF packing.a < Len(Archives)
                   THEN packing' = [packing EXCEPT !.a = @ + 1,
                                                   !.todo = Paths(packing.a + 1)]
                   ELSE packing' = [packing EXCEPT !.op = "audit", !.todo = {}]
    /\ UNCHANGED <<checkout, packages, history>>

\* The ecosystem audit is recorded and refuses nothing.
AuditEcosystem ==
    /\ packing.op = "audit"
    /\ packing' = [packing EXCEPT !.op = "plan", !.audited = Audited]
    /\ UNCHANGED <<checkout, packages, out, history>>

\* The pilot plan is made from the candidate tasks,
PlanPilot ==
    /\ packing.op = "plan"
    /\ IF worktree[Candidate] = Gone
       THEN Raises /\ UNCHANGED out
       ELSE Goes("candidate") /\ Writes("plan", worktree[Candidate])
    /\ UNCHANGED <<checkout, packages, history>>

\* which are validated after that, from the file again.
ValidateCandidate ==
    /\ packing.op = "candidate"
    /\ packing' = IF worktree[Candidate] \in Bad \cup {Gone}
                  THEN Resting
                  ELSE [packing EXCEPT !.op = "reports", !.todo = Reports]
    /\ UNCHANGED <<checkout, packages, out, history>>

\* _copy_evidence: the reports that are there; the other ones are skipped.
CopyReport ==
    /\ packing.op = "reports"
    /\ IF packing.todo = {}
       THEN /\ packing' = [packing EXCEPT !.op = "snapshots", !.todo = Snapshots]
            /\ Writes("reports", Written("reports"))
       ELSE \E r \in packing.todo :
               IF reports[r] = Nothing
               THEN packing' = [packing EXCEPT !.todo = @ \ {r}] /\ UNCHANGED out
               ELSE /\ packing' = [packing EXCEPT !.todo = @ \ {r}, !.copied = @ \cup {r}]
                    /\ Writes("reports", Put(Written("reports"), r, reports[r]))
    /\ UNCHANGED <<checkout, packages, history>>

CopySnapshot ==
    /\ packing.op = "snapshots"
    /\ IF packing.todo = {}
       THEN Goes("clone") /\ Writes("snapshots", Written("snapshots"))
       ELSE LET f == Least(packing.todo) IN
            /\ packing' = [packing EXCEPT !.todo = @ \ {f}]
            /\ IF worktree[f] = Gone THEN UNCHANGED out
               ELSE Writes("snapshots", Put(Written("snapshots"), f, worktree[f]))
    /\ UNCHANGED <<checkout, packages, history>>

\* The clean-clone receipt is copied, whatever commit it is of.
CopyClone ==
    /\ packing.op = "clone"
    /\ packing' = [packing EXCEPT !.op = "publish", !.todo = Published]
    /\ Writes("clone", clone)
    /\ UNCHANGED <<checkout, packages, history>>

\* build_publication_bundle: a directory that is not empty is refused; the
\* required files are copied, and one that is gone raises.
PublishFile ==
    /\ packing.op = "publish" /\ packing.todo # {}
    /\ LET f == Least(packing.todo) IN
       IF \/ worktree[f] = Gone
          \/ packing.todo = Published /\ "publication" \in DOMAIN out
       THEN Raises /\ UNCHANGED out
       ELSE /\ packing' = [packing EXCEPT !.todo = @ \ {f}]
            /\ Writes("publication",
                      [docs |-> Put(IF "publication" \in DOMAIN out
                                    THEN out["publication"].docs ELSE Empty, f, worktree[f]),
                       reports |-> Empty, snapshots |-> Empty, clone |-> 0])
    /\ UNCHANGED <<checkout, packages, history>>

\* The evidence is attached as it was copied into the package; the bundle is
\* listed, summed and archived.  The SBOM follows.
AttachEvidence ==
    /\ packing.op = "publish" /\ packing.todo = {}
    /\ Goes("manifest")
    /\ Writes("publication",
              [out["publication"] EXCEPT
                  !.reports = [r \in packing.copied |-> out["reports"][r]],
                  !.snapshots = out["snapshots"], !.clone = out["clone"]])
    /\ UNCHANGED <<checkout, packages, history>>

Part(names) == [name \in names |-> out[name]]

\* build_release_manifest: readiness once more, the key files and what the
\* package has of evidence; then HEAD, and last the status.
OpenManifest ==
    /\ packing.op = "manifest"
    /\ packing' = IF worktree[Assurance] = Gone
                  THEN Resting
                  ELSE [packing EXCEPT !.op = "manifest-head",
                           !.draft = [ready |-> Ready, key |-> worktree[Assurance],
                                      artifacts |-> Part({"plan", "publication", "clone",
                                                          "reports", "snapshots"})]]
    /\ UNCHANGED <<checkout, packages, out, history>>

ManifestHead ==
    /\ packing.op = "manifest-head"
    /\ packing' = [packing EXCEPT !.op = "manifest-status",
                      !.draft = [commit |-> head, ready |-> @.ready, key |-> @.key,
                                 artifacts |-> @.artifacts]]
    /\ UNCHANGED <<checkout, packages, out, history>>

\* Fault: the manifest repeats what the packager found at the start.
RepeatStatus ==
    /\ packing.op = "manifest-status"
    /\ packing' = [packing EXCEPT !.op = "contract", !.draft = Empty]
    /\ Writes("manifest", [clean |-> TRUE, commit |-> packing.draft.commit,
                           ready |-> packing.draft.ready, key |-> packing.draft.key,
                           artifacts |-> packing.draft.artifacts])
    /\ UNCHANGED <<checkout, packages, history>>

ManifestStatus ==
    /\ packing.op = "manifest-status"
    /\ packing' = [packing EXCEPT !.op = "contract", !.draft = Empty]
    /\ Writes("manifest", [clean |-> Clean, commit |-> packing.draft.commit,
                           ready |-> packing.draft.ready, key |-> packing.draft.key,
                           artifacts |-> packing.draft.artifacts])
    /\ UNCHANGED <<checkout, packages, history>>

\* build_repository_verification_receipt: the repository's contract, its
\* readiness and its integrations,
VerifyContract ==
    /\ packing.op = "contract"
    /\ packing' = IF worktree[Assurance] = Gone
                  THEN Resting
                  ELSE [packing EXCEPT !.op = "checks", !.todo = Checked,
                           !.draft = [sound |-> Contract /\ Ready /\ Audited,
                                      checks |-> Empty]]
    /\ UNCHANGED <<checkout, packages, out, history>>

\* Fault: what has no report has not failed.
LenientVerdict(report) == IF report = Nothing \/ report.passed THEN "pass" ELSE "fail"

\* _json_boolean_check
Verdict(report) ==
    IF report = Nothing THEN "skip" ELSE IF report.passed THEN "pass" ELSE "fail"

Overall(draft) ==
    LET results == {draft.checks[r] : r \in DOMAIN draft.checks} IN
    IF "fail" \in results \/ ~draft.sound THEN "fail"
    ELSE IF "skip" \in results THEN "partial" ELSE "pass"

\* and what each report says that is there now, not the copy of it.
JudgeReport(r) ==
    /\ packing.op = "checks" /\ r \in packing.todo
    /\ packing' = [packing EXCEPT !.todo = @ \ {r},
                      !.draft = [sound |-> @.sound,
                                 checks |-> Put(@.checks, r, Verdict(reports[r]))]]
    /\ UNCHANGED <<checkout, packages, out, history>>

\* The receipt lists what the package has, and the coverage report as it is in
\* the project by now, beside the copy of it.  Its result refuses nothing either.
HashArtifacts ==
    /\ packing.op = "checks" /\ packing.todo = {}
    /\ Writes("verification",
              [revision |-> packing.commit, checks |-> packing.draft.checks,
               result |-> Overall(packing.draft), coverage |-> reports[Coverage],
               artifacts |-> Part({"manifest", "publication", "clone", "reports",
                                   "snapshots"})])
    /\ packing' = [packing EXCEPT !.op = "receipt", !.draft = Empty]
    /\ UNCHANGED <<checkout, packages, history>>

\* What the receipt records of a package: the evidence this run has copied.
Recorded(name) ==
    IF name = "reports" THEN [r \in packing.copied |-> out["reports"][r]] ELSE out[name]

WriteReceipt ==
    /\ packing.op = "receipt"
    /\ Goes("sums")
    /\ LET names == {Archives[a] : a \in DOMAIN Archives}
                    \cup {"publication", "manifest", "verification", "plan", "clone",
                          "reports", "snapshots"}
       IN  Writes("receipt",
                  [commit |-> packing.commit, tree |-> packing.tree, git_clean |-> TRUE,
                   audited |-> packing.audited,
                   verification_result |-> out["verification"].result,
                   clean_clone |-> out["clone"],
                   artifacts |-> [name \in names |-> Recorded(name)]])
    /\ UNCHANGED <<checkout, packages, history>>

\* SHA256SUMS, of everything there is in the directory, is written last.
WriteSums ==
    /\ packing.op = "sums"
    /\ Raises
    /\ Writes("sums", Without(out, {"sums"}))
    /\ UNCHANGED <<checkout, packages, history>>

BreakOff ==
    /\ packing # Resting
    /\ Raises
    /\ UNCHANGED <<checkout, packages, out, history>>

Packager ==
    \/ \E overwrite \in BOOLEAN : BeginPackage(overwrite)
    \/ BreakDeletion
    \/ CheckStatus \/ AskHead \/ AskTree \/ AskTag \/ AssessReadiness
    \/ ArchiveFile \/ AuditEcosystem \/ PlanPilot \/ ValidateCandidate
    \/ CopyReport \/ CopySnapshot \/ CopyClone
    \/ PublishFile \/ AttachEvidence
    \/ OpenManifest \/ ManifestHead \/ ManifestStatus
    \/ VerifyContract \/ (\E r \in Reports : JudgeReport(r)) \/ HashArtifacts
    \/ WriteReceipt \/ WriteSums
    \/ BreakOff

Others ==
    \/ \E f \in Tracked : EditTracked(f) \/ RemoveTracked(f)
    \/ \E f \in Tracked, c \in DOMAIN commits : RestoreTracked(f, c)
    \/ Commit \/ MoveTag
    \/ \E c \in DOMAIN commits : MoveHead(c)
    \/ \E r \in Reports : WriteReport(r)
    \/ \E c \in DOMAIN commits : VerifyClone(c)

ReleaseNext == Packager \/ Others

ReleaseSpec == ReleaseInit /\ [][ReleaseNext]_releaseVars

----------------------------------------------------------------------------
(* Properties                                                              *)

\* sha256sum -c SHA256SUMS has nothing to say.
Passes ==
    /\ "sums" \in DOMAIN out
    /\ \A name \in DOMAIN out["sums"] :
          name \in DOMAIN out /\ out[name] = out["sums"][name]

\* Every copy of a tracked file in the package: the file and the bytes.
Copies(f) ==
    {out[name][f] : name \in {Archives[a] : a \in DOMAIN Archives}}
    \cup {out["publication"].docs[g] : g \in Published \cap {f}}
    \cup {out["snapshots"][g] : g \in DOMAIN out["snapshots"] \cap {f}}
    \cup {out["plan"] : g \in {Candidate} \cap {f}}
    \cup {out["manifest"].key : g \in {Assurance} \cap {f}}

\* A package whose checksums hold and whose manifest was taken of a clean tree
\* at the receipt's commit is of that commit, although everything was read one
\* by one after the only check that refuses anything: the tree it names and the
\* history archives, unless HEAD left the commit and got back to it while the
\* packager ran, and every copy of a tracked file, unless the file did, or HEAD
\* moved to where it is committed between the manifest's two questions to git.
PackageIsOfCommit ==
    Passes /\ out["manifest"].clean /\ out["manifest"].commit = out["receipt"].commit =>
        /\ Git \notin undone =>
              /\ out["receipt"].tree = out["receipt"].commit
              /\ \A name \in Histories : out[name][Git] = out["receipt"].commit
        /\ \A f \in Tracked \ undone :
              Copies(f) = {commits[out["receipt"].commit][f]}

\* A package whose checksums hold is of one run: the receipt accounts for every
\* file of it, and what the receipt, the manifest, the verification receipt and
\* the bundle commit to of it are the bytes that are shipped, also after
\* packagings and deletions of old packages that broke off.  The coverage report
\* the verification receipt commits to lies outside: it is the shipped one, and
\* shipped at all, unless it was written again while the packager ran.
PackageIsOneRun ==
    Passes =>
        /\ DOMAIN out["receipt"].artifacts = DOMAIN out \ {"receipt", "sums"}
        /\ \A doc \in {"receipt", "manifest", "verification"} :
              \A name \in DOMAIN out[doc].artifacts :
                 out[doc].artifacts[name] = out[name]
        /\ Coverage \notin rerun =>
              out["verification"].coverage =
                  IF Coverage \in DOMAIN out["reports"]
                  THEN out["reports"][Coverage] ELSE Nothing
        /\ out["publication"].reports = out["reports"]
        /\ out["publication"].snapshots = out["snapshots"]
        /\ out["publication"].clone = out["clone"]
        /\ out["verification"].revision = out["receipt"].commit

\* A check the verification receipt says was passed was passed in the report
\* that is shipped, although the verdict is not taken from the shipped copy,
\* unless the harness wrote the report again while the packager ran.
VerdictIsShipped ==
    Passes =>
        \A r \in Checked \ rerun :
           out["verification"].checks[r] = "pass" =>
               r \in DOMAIN out["reports"] /\ out["reports"][r].passed

=============================================================================
