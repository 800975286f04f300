------------------------------ MODULE Harness -------------------------------
(***************************************************************************)
(* scripts/harness.sh, in the working tree and in the clean clone of       *)
(* scripts/verify_clean_clone.sh.                                          *)
(*                                                                         *)
(* The harness runs one stage after the other on the files as they are at  *)
(* that moment, and leaves reports under artifacts/ that later stages      *)
(* judge.  People go on editing and committing, start single scripts that  *)
(* write the same reports, and interrupt the harness.                      *)
(*                                                                         *)
(* A tree is the set of checks that it fails.                              *)
(***************************************************************************)
EXTENDS Naturals, Sequences, FiniteSets, SequencesExt

CONSTANTS
    Tools,        \* the executables of the optional lanes, in order
    Available,    \* the executables that are installed
    Defects,      \* the checks that an edit may break or mend
    MaxTouches,   \* bound: what everybody else does
    MaxStarts     \* bound: runs of the harness

ASSUME HarnessAssumption ==
    /\ Tools \in Seq(Range(Tools)) /\ "python" \in Available
    /\ {MaxTouches, MaxStarts} \subseteq Nat

Places == {"worktree", "clone"}

VARIABLES
    failing,      \* the tree of each place
    artifacts,    \* the reports of each place, by name
    lane,         \* the harness of each place: the stage it is at, and its run
    snapshots,    \* the commits
    cloned,       \* the commit that is checked out in the clone
    cleanReceipt, \* the commit of artifacts/clean-clone-receipt.json
    touches, starts,
    edited, rewritten   \* history: what others did while the harness ran

harnessVars == <<failing, artifacts, lane, snapshots, cloned, cleanReceipt,
                 touches, starts, edited, rewritten>>

----------------------------------------------------------------------------
(* The stages.  Consecutive commands that leave no report are one stage.   *)

Plain(check) ==
    [check |-> check, writes |-> {}, judges |-> {}, needs |-> {}, tool |-> "python"]
Leaves(check, report) == [Plain(check) EXCEPT !.writes = {report}]
\* Reports that have to be good if they are there, or have to be there too.
Judges(check, report, judged, needed) ==
    [Leaves(check, report) EXCEPT !.judges = judged, !.needs = needed]
Lane(tool) == [Plain(tool) EXCEPT !.tool = tool]

\* Tests with their coverage, then contracts, registries and work graph, then the
\* plans that are computed again and compared with their snapshots.
Contracts == <<Leaves("tests", "coverage"), Plain("contracts"), Plain("commitments")>>

\* Challenges, fuzzing, replays and bundles, and the receipt over the reports.
Challenges ==
    <<Leaves("challenges", "scorer-challenge"), Leaves("fuzzing", "svg-fuzz"), Plain("replay"),
      Judges("receipt", "verification-receipt",
             {"coverage", "scorer-challenge", "svg-fuzz"}, {})>>

\* What the quality gate needs; the preflight only tells which tools there are,
\* so it has to be there but has no verdict to judge.
GateEvidence == {"static-audit", "prose-audit", "toolchain-preflight", "mutation-smoke",
                 "test-taxonomy"}
GateVerdicts == GateEvidence \ {"toolchain-preflight"}

\* The audits, and the quality gate over them.
Audits ==
    <<Leaves("statics", "static-audit"), Leaves("prose", "prose-audit"),
      Leaves("toolchain", "toolchain-preflight"),
      Leaves("mutations", "mutation-smoke"), Leaves("matrix", "test-taxonomy"),
      Judges("gate", "quality-gate", GateVerdicts \cup {"coverage"},
             GateEvidence \cup {"coverage"})>>

\* What is skipped where its executable is missing.
OptionalLanes == [i \in DOMAIN Tools |-> Lane(Tools[i])]

Stages == Contracts \o Challenges \o Audits \o OptionalLanes

RunHere == {s.check : s \in {s \in Range(Stages) : s.tool \in Available}}

Judged == UNION {s.judges : s \in Range(Stages)}

CheckOf(report) == (CHOOSE s \in Range(Stages) : report \in s.writes).check

\* What a script makes of the tree; the test matrix may be run for one category.
ReportOf(place, check, whole) == [passed |-> check \notin failing[place], whole |-> whole,
                                  run |-> lane[place].run]

----------------------------------------------------------------------------
Off == 0
Done == Len(Stages) + 1

NoReports == [r \in {} |-> r]

HarnessInit ==
    /\ failing = [p \in Places |-> {}]
    /\ artifacts = [p \in Places |-> NoReports]
    /\ lane = [p \in Places |-> [at |-> Off, run |-> 0]]
    /\ snapshots = <<{}>>
    /\ cloned = 0 /\ cleanReceipt = 0
    /\ touches = 0
    /\ starts = 0
    /\ edited = FALSE /\ rewritten = {}

Filed(reports, written) ==
    [r \in DOMAIN reports \cup DOMAIN written |->
        IF r \in DOMAIN written THEN written[r] ELSE reports[r]]

----------------------------------------------------------------------------
(* The harness                                                             *)

BeginLane(p) ==
    /\ starts < MaxStarts
    /\ starts' = starts + 1
    /\ lane' = [lane EXCEPT ![p] = [at |-> 1, run |-> @.run + 1]]

Start ==
    /\ lane["worktree"].at \in {Off, Done}
    /\ BeginLane("worktree")
    /\ edited' = FALSE /\ rewritten' = {}
    /\ UNCHANGED <<failing, artifacts, snapshots, cloned, cleanReceipt, touches>>

Good(p, report) == artifacts[p][report].passed

StagePasses(p, s) ==
    /\ s.check \notin failing[p]
    /\ s.needs \subseteq DOMAIN artifacts[p]
    /\ \A r \in s.judges \cap DOMAIN artifacts[p] : Good(p, r)

\* Fault: without set -e the harness goes on after a stage that failed.
StageUnchecked(p) ==
    LET s == Stages[lane[p].at]
    IN  /\ lane[p].at \in DOMAIN Stages
        /\ lane' = [lane EXCEPT ![p].at = @ + 1]
        /\ artifacts' = [artifacts EXCEPT
              ![p] = Filed(@, [r \in s.writes |-> ReportOf(p, s.check, TRUE)])]
        /\ UNCHANGED <<failing, snapshots, cloned, cleanReceipt, touches, starts, edited, rewritten>>

\* A stage that fails ends the harness, with its report written or not.
Stage(p) ==
    /\ lane[p].at \in DOMAIN Stages
    /\ LET s == Stages[lane[p].at]
           written == [r \in s.writes |-> ReportOf(p, s.check, TRUE)]
       IN  \/ /\ s.tool \notin Available
              /\ lane' = [lane EXCEPT ![p].at = @ + 1]
              /\ UNCHANGED artifacts
           \/ /\ s.tool \in Available
              /\ StagePasses(p, s)
              /\ lane' = [lane EXCEPT ![p].at = @ + 1]
              /\ artifacts' = [artifacts EXCEPT ![p] = Filed(@, written)]
           \/ /\ s.tool \in Available
              /\ ~StagePasses(p, s)
              /\ lane' = [lane EXCEPT ![p].at = Off]
              /\ \/ UNCHANGED artifacts
                 \/ artifacts' = [artifacts EXCEPT ![p] =
                        Filed(@, [r \in s.writes |-> [written[r] EXCEPT !.passed = FALSE]])]
    /\ UNCHANGED <<failing, snapshots, cloned, cleanReceipt, touches, starts, edited, rewritten>>

Interrupt(p) ==
    /\ lane[p].at \in DOMAIN Stages
    /\ lane' = [lane EXCEPT ![p].at = Off]
    /\ UNCHANGED <<failing, artifacts, snapshots, cloned, cleanReceipt, touches, starts,
                   edited, rewritten>>

----------------------------------------------------------------------------
(* verify_clean_clone.sh                                                   *)

\* A fresh clone at a commit, in a directory of its own.
CloneCommit(n) ==
    /\ lane["clone"].at = Off
    /\ BeginLane("clone")
    /\ cloned' = n
    /\ failing' = [failing EXCEPT !["clone"] = snapshots[n]]
    /\ artifacts' = [artifacts EXCEPT !["clone"] = NoReports]
    /\ UNCHANGED <<snapshots, cleanReceipt, touches, edited, rewritten>>

\* Written when the harness has passed and the clone is still clean.
WriteCleanReceipt ==
    /\ lane["clone"].at = Done
    /\ lane' = [lane EXCEPT !["clone"].at = Off]
    /\ cleanReceipt' = cloned
    /\ UNCHANGED <<failing, artifacts, snapshots, cloned, touches, starts, edited, rewritten>>

----------------------------------------------------------------------------
(* Everybody else, in the working tree                                     *)

Touch ==
    /\ touches < MaxTouches
    /\ touches' = touches + 1
    /\ UNCHANGED <<lane, cloned, cleanReceipt, starts>>

EditTree(check) ==
    /\ Touch
    /\ failing' = [failing EXCEPT !["worktree"] =
          IF check \in @ THEN @ \ {check} ELSE @ \cup {check}]
    /\ edited' = TRUE
    /\ UNCHANGED <<artifacts, snapshots, rewritten>>

CommitTree ==
    /\ Touch
    /\ snapshots' = Append(snapshots, failing["worktree"])
    /\ UNCHANGED <<failing, artifacts, edited, rewritten>>

\* One script alone, with the default output: the matrix may be cut to a category.
RunScript(report, whole) ==
    /\ Touch
    /\ whole \/ report = "test-taxonomy"
    /\ artifacts' = [artifacts EXCEPT !["worktree"] =
          Filed(@, [r \in {report} |->
              ReportOf("worktree", CheckOf(report), whole)])]
    /\ rewritten' = rewritten \cup {report}
    /\ UNCHANGED <<failing, snapshots, edited>>

----------------------------------------------------------------------------
HarnessNext ==
    \/ Start
    \/ \E p \in Places : Stage(p) \/ Interrupt(p)
    \/ \E n \in DOMAIN snapshots : CloneCommit(n)
    \/ WriteCleanReceipt
    \/ \E check \in Defects : EditTree(check)
    \/ CommitTree
    \/ \E report \in GateEvidence, whole \in BOOLEAN : RunScript(report, whole)

HarnessSpec == HarnessInit /\ [][HarnessNext]_harnessVars

----------------------------------------------------------------------------
(* Properties                                                              *)

\* HARNESS_OK demonstrates the checks that ran: if nobody edited a file since
\* the harness began, the tree passes every check whose executable is there.
\* The reports that were judged passed and are of this run and whole, except
\* those that somebody's script wrote in between, and not those of earlier
\* runs or other trees that artifacts/ still holds.  And a clean-clone
\* receipt names a commit that passes, whatever happens to the working tree.
HarnessOkIsEarned ==
    /\ lane["worktree"].at = Done =>
          /\ ~edited => failing["worktree"] \cap RunHere = {}
          /\ \A r \in Judged \ rewritten :
                /\ artifacts["worktree"][r].run = lane["worktree"].run
                /\ artifacts["worktree"][r].passed
                /\ artifacts["worktree"][r].whole
    /\ cleanReceipt # 0 => snapshots[cleanReceipt] \cap RunHere = {}

=============================================================================
