-------------------------- MODULE RepositoryProofs --------------------------
(***************************************************************************)
(* What the repository's own checks are worth, whatever others edit        *)
(* meanwhile: HARNESS_OK and a clean-clone receipt were earned, an         *)
(* accepted repository contract was true of the documents that were        *)
(* checked, a release package whose checksums hold is of one run and of    *)
(* one commit, with a verdict taken on the files that are shipped, and an  *)
(* item that was not renamed too early, and that no two syncs found        *)
(* missing at once, has at most one issue.                                 *)
(***************************************************************************)
EXTENDS Harness, Governance, Release, IssueSync, FiniteSetTheorems, SequenceTheorems, TLAPS

-----------------------------------------------------------------------------
(* HARNESS_OK and the clean clone.                                         *)

AnyStage ==
    {Contracts[i] : i \in 1 .. 3} \cup {Challenges[i] : i \in 1 .. 4}
      \cup {Audits[i] : i \in 1 .. 6} \cup {Lane(tool) : tool \in Range(Tools)}

\* The stages before the optional lanes, and these, which judge nothing.
LEMMA StagesBeforeLanes ==
    /\ Contracts \in Seq(AnyStage) /\ Len(Contracts) = 3
    /\ Challenges \in Seq(AnyStage) /\ Len(Challenges) = 4
    /\ Audits \in Seq(AnyStage) /\ Len(Audits) = 6
    /\ OptionalLanes \in Seq(AnyStage)
    /\ \A i \in DOMAIN OptionalLanes : OptionalLanes[i].judges = {}
  <1>1. /\ \A i \in 1 .. 3 : Contracts[i] \in AnyStage
        /\ \A i \in 1 .. 4 : Challenges[i] \in AnyStage
        /\ \A i \in 1 .. 6 : Audits[i] \in AnyStage
        /\ \A tool \in Range(Tools) : Lane(tool) \in AnyStage
    BY DEF AnyStage
  <1>2. Contracts \in Seq(AnyStage) /\ Len(Contracts) = 3
    BY <1>1 DEF Contracts
  <1>3. Challenges \in Seq(AnyStage) /\ Len(Challenges) = 4
    BY <1>1 DEF Challenges
  <1>4. Audits \in Seq(AnyStage) /\ Len(Audits) = 6
    BY <1>1 DEF Audits
  <1>5. OptionalLanes \in Seq(AnyStage)
    <2>1. \A tool \in Range(Tools) : Lane(tool) \in AnyStage BY <1>1
    <2>2. Tools \in Seq(Range(Tools)) BY HarnessAssumption
    <2>3. Len(Tools) \in Nat /\ DOMAIN Tools = 1 .. Len(Tools) BY <2>2
    <2>4. \A i \in 1 .. Len(Tools) : Tools[i] \in Range(Tools) BY <2>3 DEF Range
    <2>5. \A i \in 1 .. Len(Tools) : Lane(Tools[i]) \in AnyStage BY <2>1, <2>4
    <2>6. OptionalLanes = [i \in 1 .. Len(Tools) |-> Lane(Tools[i])] BY <2>3 DEF OptionalLanes
    <2> QED BY <2>3, <2>5, <2>6
  <1>6. \A i \in DOMAIN OptionalLanes : OptionalLanes[i].judges = {}
    BY DEF OptionalLanes, Lane, Plain
  <1> QED
    BY <1>2, <1>3, <1>4, <1>5, <1>6

\* The stages are these, in some order.
LEMMA StagesAreThese ==
    /\ Stages \in Seq(AnyStage)
    /\ Range(Stages) = Range(Contracts) \cup Range(Challenges) \cup Range(Audits)
                         \cup Range(OptionalLanes)
  <1> DEFINE Early == Contracts \o Challenges
             Fixed == Early \o Audits
  <1>1. Early \in Seq(AnyStage) /\ Range(Early) = Range(Contracts) \cup Range(Challenges)
    BY StagesBeforeLanes, ConcatProperties, RangeConcatenation
  <1> HIDE DEF Early
  <1>2. Fixed \in Seq(AnyStage) /\ Range(Fixed) = Range(Early) \cup Range(Audits)
    BY <1>1, StagesBeforeLanes, ConcatProperties, RangeConcatenation
  <1> HIDE DEF Fixed
  <1>3. /\ Fixed \o OptionalLanes \in Seq(AnyStage)
        /\ Range(Fixed \o OptionalLanes) = Range(Fixed) \cup Range(OptionalLanes)
    BY <1>2, StagesBeforeLanes, ConcatProperties, RangeConcatenation
  <1>4. Stages = Fixed \o OptionalLanes
    BY DEF Stages, Fixed, Early
  <1> QED
    BY <1>1, <1>2, <1>3, <1>4

\* The judged reports are written by stages that always run.
LEMMA JudgedAreWritten ==
    \A r \in Judged : \E i \in DOMAIN Stages :
       r \in Stages[i].writes /\ Stages[i].tool = "python"
  <1>1. /\ Range(Contracts) = {Leaves("tests", "coverage"), Plain("contracts"),
                               Plain("commitments")}
        /\ Range(Challenges) =
              {Leaves("challenges", "scorer-challenge"), Leaves("fuzzing", "svg-fuzz"),
               Plain("replay"),
               Judges("receipt", "verification-receipt",
                      {"coverage", "scorer-challenge", "svg-fuzz"}, {})}
        /\ Range(Audits) =
              {Leaves("statics", "static-audit"), Leaves("prose", "prose-audit"),
               Leaves("toolchain", "toolchain-preflight"),
               Leaves("mutations", "mutation-smoke"), Leaves("matrix", "test-taxonomy"),
               Judges("gate", "quality-gate", GateVerdicts \cup {"coverage"},
                      GateEvidence \cup {"coverage"})}
    <2>1. /\ DOMAIN Contracts = 1 .. 3 /\ DOMAIN Challenges = 1 .. 4
          /\ DOMAIN Audits = {1, 2, 3, 4, 5, 6}
      BY StagesBeforeLanes
    <2>2. Range(Audits) = {Audits[1], Audits[2], Audits[3], Audits[4], Audits[5], Audits[6]}
      BY <2>1 DEF Range
    <2>3. /\ Range(Contracts) = {Contracts[1], Contracts[2], Contracts[3]}
          /\ Range(Challenges) = {Challenges[1], Challenges[2], Challenges[3], Challenges[4]}
      BY <2>1 DEF Range
    <2> QED BY <2>2, <2>3 DEF Contracts, Challenges, Audits
  <1>2. \A s \in Range(OptionalLanes) : s.judges = {}
    BY StagesBeforeLanes DEF Range
  <1>3. \A check, report :
            /\ Plain(check).judges = {}
            /\ Leaves(check, report).judges = {}
            /\ Leaves(check, report).writes = {report}
            /\ Leaves(check, report).tool = "python"
    BY DEF Leaves, Plain
  <1>4. \A check, report : \A J, N : Judges(check, report, J, N).judges = J
    BY DEF Judges, Leaves, Plain
  <1>5. \A s \in Range(Stages) : s.judges \subseteq
            {"coverage", "scorer-challenge", "svg-fuzz"} \cup GateVerdicts
    <2> SUFFICES ASSUME NEW s \in Range(Stages)
                 PROVE  s.judges \subseteq
                            {"coverage", "scorer-challenge", "svg-fuzz"} \cup GateVerdicts
      OBVIOUS
    <2>1. CASE s \in Range(Contracts)
      BY <2>1, <1>1, <1>3
    <2>2. CASE s \in Range(Challenges)
      BY <2>2, <1>1, <1>3, <1>4
    <2>3. CASE s \in Range(Audits)
      BY <2>3, <1>1, <1>3, <1>4
    <2>4. CASE s \in Range(OptionalLanes)
      BY <2>4, <1>2
    <2> QED
      BY <2>1, <2>2, <2>3, <2>4, StagesAreThese
  <1>6. ASSUME NEW r \in {"coverage", "scorer-challenge", "svg-fuzz"} \cup GateVerdicts
        PROVE  \E s \in Range(Stages) : r \in s.writes /\ s.tool = "python"
    <2>1. PICK check : Leaves(check, r) \in
              Range(Contracts) \cup Range(Challenges) \cup Range(Audits)
      <3>1. CASE r \in {"coverage", "scorer-challenge", "svg-fuzz"}
        BY <1>1, <3>1
      <3>2. CASE r \in GateVerdicts
        BY <1>1, <3>2 DEF GateVerdicts, GateEvidence
      <3> QED
        BY <3>1, <3>2
    <2> QED
      BY <1>3, <2>1, StagesAreThese
  <1> QED
    BY <1>5, <1>6 DEF Judged, Range

----------------------------------------------------------------------------
(* The inductive invariant                                                 *)

Report == [passed : BOOLEAN, whole : BOOLEAN, run : Nat]

HarnessTypeOK ==
    /\ DOMAIN failing = Places
    /\ DOMAIN artifacts = Places
    /\ lane \in [Places -> [at : Nat, run : Nat]]
    /\ Len(snapshots) \in Nat /\ DOMAIN snapshots = 1 .. Len(snapshots)
    /\ cloned \in 0 .. Len(snapshots) /\ cleanReceipt \in 0 .. Len(snapshots)
    /\ edited \in BOOLEAN

\* The stages of the run at p that are over.
Over(p) == {i \in DOMAIN Stages : i < lane[p].at /\ Stages[i].tool \in Available}

\* The clone holds the commit it is of, and nobody edits it.
CloneIsCommit ==
    lane["clone"].at # Off => cloned # 0 /\ failing["clone"] = snapshots[cloned]

\* What has passed still passes.
StillPasses ==
    /\ \A i \in Over("clone") : Stages[i].check \notin failing["clone"]
    /\ ~edited => \A i \in Over("worktree") : Stages[i].check \notin failing["worktree"]

\* The reports of the run are there, good and whole.
ReportsOfRun ==
    \A i \in Over("worktree") : \A r \in Stages[i].writes \ rewritten :
        /\ r \in DOMAIN artifacts["worktree"]
        /\ artifacts["worktree"][r].run = lane["worktree"].run
        /\ artifacts["worktree"][r].passed
        /\ artifacts["worktree"][r].whole

ReceiptIsEarned == cleanReceipt # 0 => snapshots[cleanReceipt] \cap RunHere = {}

HarnessInv ==
    /\ HarnessTypeOK
    /\ CloneIsCommit
    /\ StillPasses
    /\ ReportsOfRun
    /\ ReceiptIsEarned

\* At the end of a run every stage that is run is over.
LEMMA AllOver ==
    ASSUME NEW p \in Places, lane[p].at = Done
    PROVE  /\ \A c \in RunHere : \E i \in Over(p) : c = Stages[i].check
           /\ \A r \in Judged : \E i \in Over(p) : r \in Stages[i].writes
  <1>1. \A i \in DOMAIN Stages : i < Done
    BY StagesAreThese DEF Done
  <1> QED
    BY <1>1, JudgedAreWritten, HarnessAssumption DEF RunHere, Over, Range

LEMMA HarnessInvSuffices == HarnessInv => HarnessOkIsEarned
  <1> SUFFICES ASSUME HarnessInv PROVE HarnessOkIsEarned
    OBVIOUS
  <1>1. ASSUME lane["worktree"].at = Done
        PROVE  /\ ~edited => failing["worktree"] \cap RunHere = {}
               /\ \A r \in Judged \ rewritten :
                     /\ artifacts["worktree"][r].run = lane["worktree"].run
                     /\ artifacts["worktree"][r].passed
                     /\ artifacts["worktree"][r].whole
    BY <1>1, AllOver DEF HarnessInv, StillPasses, ReportsOfRun, Places
  <1> QED
    BY <1>1 DEF HarnessInv, ReceiptIsEarned, HarnessOkIsEarned

LEMMA HarnessInitially == HarnessInit => HarnessInv
  <1> SUFFICES ASSUME HarnessInit PROVE HarnessInv
    OBVIOUS
  <1>1. Len(Stages) \in Nat
    BY StagesAreThese, LenProperties
  <1>2. HarnessTypeOK
    <2>1. /\ Len(<<{}>>) = 1 /\ DOMAIN <<{}>> = 1 .. 1
      OBVIOUS
    <2>2. lane \in [Places -> [at : Nat, run : Nat]]
      BY <1>1 DEF HarnessInit, Done, Off
    <2>3. /\ Len(snapshots) = 1 /\ DOMAIN snapshots = 1 .. Len(snapshots)
          /\ cloned = 0 /\ cleanReceipt = 0
      BY <2>1 DEF HarnessInit
    <2>4. 0 \in 0 .. Len(snapshots) /\ Len(snapshots) \in Nat
      BY <2>3
    <2> QED
      BY <2>2, <2>3, <2>4 DEF HarnessInit, HarnessTypeOK
  <1>3. Over("worktree") = {} /\ Over("clone") = {}
    BY StagesAreThese, LenProperties DEF HarnessInit, Over, Off, Places
  <1> QED
    BY <1>2, <1>3 DEF HarnessInit, HarnessInv, CloneIsCommit, StillPasses, ReportsOfRun,
                      ReceiptIsEarned, Off, Places

LEMMA LaneTyped ==
    ASSUME HarnessTypeOK, NEW p \in Places, NEW l \in [at : Nat, run : Nat],
           lane' = [lane EXCEPT ![p] = l]
    PROVE  lane' \in [Places -> [at : Nat, run : Nat]]
  BY DEF HarnessTypeOK

LEMMA LaneMoves ==
    ASSUME HarnessTypeOK, NEW p \in Places,
           lane' = [lane EXCEPT ![p].at = @ + 1] \/ lane' = [lane EXCEPT ![p].at = Off]
    PROVE  lane' \in [Places -> [at : Nat, run : Nat]]
  <1>1. lane[p] \in [at : Nat, run : Nat]
    BY DEF HarnessTypeOK
  <1>2. /\ [lane[p] EXCEPT !.at = @ + 1] \in [at : Nat, run : Nat]
        /\ [lane[p] EXCEPT !.at = Off] \in [at : Nat, run : Nat]
    BY <1>1 DEF Off
  <1>3. \/ lane' = [lane EXCEPT ![p] = [lane[p] EXCEPT !.at = @ + 1]]
        \/ lane' = [lane EXCEPT ![p] = [lane[p] EXCEPT !.at = Off]]
    OBVIOUS
  <1> QED
    BY <1>2, <1>3, LaneTyped

LEMMA LaneBegins ==
    ASSUME HarnessTypeOK, NEW p \in Places,
           lane' = [lane EXCEPT ![p] = [at |-> 1, run |-> @.run + 1]]
    PROVE  lane' \in [Places -> [at : Nat, run : Nat]]
  <1>1. lane[p] \in [at : Nat, run : Nat]
    BY DEF HarnessTypeOK
  <1>2. [at |-> 1, run |-> lane[p].run + 1] \in [at : Nat, run : Nat]
    BY <1>1
  <1> QED
    BY <1>2, LaneTyped

LEMMA StageKeeps ==
    ASSUME HarnessInv, NEW p \in Places, Stage(p)
    PROVE  HarnessInv'
  <1> DEFINE s == Stages[lane[p].at]
             written == [r \in s.writes |-> ReportOf(p, s.check, TRUE)]
  <1> USE DEF HarnessInv
  <1>1. /\ Len(Stages) \in Nat /\ DOMAIN Stages = 1 .. Len(Stages)
        /\ lane[p].at \in DOMAIN Stages
        /\ UNCHANGED <<failing, snapshots, cloned, cleanReceipt, touches, starts, edited, rewritten>>
    BY StagesAreThese, LenProperties DEF Stage
  <1>2. CASE /\ s.tool \notin Available
             /\ lane' = [lane EXCEPT ![p].at = @ + 1]
             /\ UNCHANGED artifacts
    <2>1. HarnessTypeOK'
      BY <1>1, <1>2, LaneMoves DEF HarnessTypeOK
    <2>2. /\ \A q \in Places : Over(q)' = Over(q)
          /\ lane'["worktree"].run = lane["worktree"].run
          /\ lane["clone"].at = Off => lane'["clone"].at = Off \/ p = "clone"
      BY <1>1, <1>2 DEF HarnessTypeOK, Over, Done, Off
    <2>3. CloneIsCommit'
      BY <1>1, <1>2, <2>2 DEF CloneIsCommit, HarnessTypeOK, Off, Places
    <2> QED
      BY <1>1, <1>2, <2>1, <2>2, <2>3
         DEF StillPasses, ReportsOfRun, ReceiptIsEarned, Places
  <1>3. CASE /\ s.tool \in Available
             /\ StagePasses(p, s)
             /\ lane' = [lane EXCEPT ![p].at = @ + 1]
             /\ artifacts' = [artifacts EXCEPT ![p] = Filed(@, written)]
    <2>1. HarnessTypeOK'
      <3>1. lane' \in [Places -> [at : Nat, run : Nat]]
        BY <1>3, LaneMoves
      <3>2. DOMAIN artifacts' = Places
        BY <1>3 DEF HarnessTypeOK
      <3> QED
        BY <1>1, <3>1, <3>2 DEF HarnessTypeOK, Done
    <2>2. /\ Over(p)' = Over(p) \cup {lane[p].at}
          /\ \A q \in Places \ {p} : Over(q)' = Over(q)
          /\ lane'["worktree"].run = lane["worktree"].run
      BY <1>1, <1>3 DEF HarnessTypeOK, Over, Done, Off
    <2>3. CloneIsCommit'
      BY <1>1, <1>3, <2>2 DEF CloneIsCommit, HarnessTypeOK, Off, Places
    <2>4. StillPasses'
      BY <1>1, <1>3, <2>2 DEF StillPasses, StagePasses, Places
    <2>5. \A r \in s.writes : /\ written[r].run = lane[p].run
                              /\ written[r].passed /\ written[r].whole
      BY <1>3 DEF ReportOf, StagePasses
    <2>6. ReportsOfRun'
      <3>1. CASE p = "worktree"
        <4> SUFFICES ASSUME NEW i \in Over("worktree")', NEW r \in Stages[i].writes \ rewritten
                     PROVE  /\ r \in DOMAIN artifacts'["worktree"]
                            /\ artifacts'["worktree"][r].run = lane'["worktree"].run
                            /\ artifacts'["worktree"][r].passed
                            /\ artifacts'["worktree"][r].whole
          BY <1>1 DEF ReportsOfRun
        <4>1. /\ DOMAIN artifacts'["worktree"] = DOMAIN artifacts["worktree"] \cup s.writes
              /\ \A x \in DOMAIN artifacts'["worktree"] : artifacts'["worktree"][x] =
                    IF x \in s.writes THEN written[x] ELSE artifacts["worktree"][x]
          BY <1>3, <3>1 DEF Filed, HarnessTypeOK
        <4>2. CASE r \in s.writes
          BY <4>1, <4>2, <2>2, <2>5, <3>1
        <4>3. CASE r \notin s.writes
          BY <4>1, <4>3, <2>2, <3>1 DEF ReportsOfRun
        <4> QED
          BY <4>2, <4>3
      <3>2. CASE p # "worktree"
        BY <1>1, <1>3, <2>2, <3>2 DEF ReportsOfRun, Places, HarnessTypeOK
      <3> QED
        BY <3>1, <3>2
    <2> QED
      BY <1>1, <2>1, <2>3, <2>4, <2>6 DEF ReceiptIsEarned
  <1>4. CASE /\ lane' = [lane EXCEPT ![p].at = Off]
             /\ DOMAIN artifacts' = DOMAIN artifacts
             /\ \A q \in Places \ {p} : artifacts'[q] = artifacts[q]
    <2>1. HarnessTypeOK'
      <3>1. lane' \in [Places -> [at : Nat, run : Nat]]
        BY <1>4, LaneMoves
      <3>2. DOMAIN artifacts' = Places
        BY <1>4 DEF HarnessTypeOK
      <3> QED
        BY <1>1, <3>1, <3>2 DEF HarnessTypeOK, Done
    <2>2. /\ Over(p)' = {}
          /\ \A q \in Places \ {p} : Over(q)' = Over(q) /\ lane'[q] = lane[q]
      BY <1>1, <1>4 DEF HarnessTypeOK, Over, Done, Off
    <2>3. CloneIsCommit'
      BY <1>1, <1>4, <2>2 DEF CloneIsCommit, HarnessTypeOK, Off, Places
    <2>4. StillPasses'
      BY <1>1, <1>4, <2>2 DEF StillPasses, Places
    <2>5. ReportsOfRun'
      BY <1>1, <1>4, <2>2 DEF ReportsOfRun, Places
    <2> QED
      BY <1>1, <2>1, <2>3, <2>4, <2>5 DEF ReceiptIsEarned
  <1> QED
    BY <1>2, <1>3, <1>4 DEF Stage, HarnessTypeOK

\* A run starts with nothing over; a clone with the commit it is of.
LEMMA BeginsKeep ==
    ASSUME HarnessInv, Start \/ \E n \in DOMAIN snapshots : CloneCommit(n)
    PROVE  HarnessInv'
  <1> USE DEF HarnessInv
  <1>1. Len(Stages) \in Nat /\ DOMAIN Stages = 1 .. Len(Stages)
    BY StagesAreThese, LenProperties
  <1>2. CASE Start
    <2>1. lane' = [lane EXCEPT !["worktree"] = [at |-> 1, run |-> @.run + 1]]
      BY <1>2 DEF Start, BeginLane
    <2>2. HarnessTypeOK'
      <3>1. lane' \in [Places -> [at : Nat, run : Nat]]
        BY <2>1, LaneBegins DEF Places
      <3> QED
        BY <1>1, <1>2, <3>1 DEF Start, HarnessTypeOK, Done
    <2>3. /\ Over("worktree")' = {} /\ Over("clone")' = Over("clone")
          /\ lane'["clone"] = lane["clone"]
      BY <1>1, <2>1 DEF HarnessTypeOK, Over, Places
    <2> QED
      BY <1>2, <2>2, <2>3
         DEF Start, CloneIsCommit, StillPasses, ReportsOfRun, ReceiptIsEarned
  <1>3. ASSUME NEW n \in DOMAIN snapshots, CloneCommit(n)
        PROVE  HarnessInv'
    <2>1. lane' = [lane EXCEPT !["clone"] = [at |-> 1, run |-> @.run + 1]]
      BY <1>3 DEF CloneCommit, BeginLane
    <2>2. HarnessTypeOK'
      <3>1. lane' \in [Places -> [at : Nat, run : Nat]]
        BY <2>1, LaneBegins DEF Places
      <3> QED
        <4>1. DOMAIN failing' = Places /\ DOMAIN artifacts' = Places
          BY <1>3 DEF CloneCommit, HarnessTypeOK
        <4>2. cloned' \in 0 .. Len(snapshots)
          BY <1>3 DEF CloneCommit, HarnessTypeOK
        <4> QED
          BY <1>3, <3>1, <4>1, <4>2 DEF CloneCommit, HarnessTypeOK
    <2>3. /\ Over("clone")' = {} /\ Over("worktree")' = Over("worktree")
          /\ lane'["worktree"] = lane["worktree"]
      BY <1>1, <2>1 DEF HarnessTypeOK, Over, Places
    <2>4. /\ failing'["clone"] = snapshots'[cloned'] /\ cloned' # 0
          /\ failing'["worktree"] = failing["worktree"]
          /\ artifacts'["worktree"] = artifacts["worktree"]
      BY <1>3 DEF CloneCommit, HarnessTypeOK, Places
    <2> QED
      BY <1>3, <2>2, <2>3, <2>4
         DEF CloneCommit, CloneIsCommit, StillPasses, ReportsOfRun, ReceiptIsEarned
  <1> QED
    BY <1>2, <1>3

LEMMA InterruptKeeps ==
    ASSUME HarnessInv, NEW p \in Places, Interrupt(p)
    PROVE  HarnessInv'
  <1> USE DEF HarnessInv
  <1>1. Len(Stages) \in Nat /\ DOMAIN Stages = 1 .. Len(Stages)
    BY StagesAreThese, LenProperties
  <1>2. HarnessTypeOK'
    <2>1. lane' \in [Places -> [at : Nat, run : Nat]]
      BY LaneMoves DEF Interrupt
    <2> QED
      BY <1>1, <2>1 DEF Interrupt, HarnessTypeOK, Done
  <1>3. /\ Over(p)' = {}
        /\ \A q \in Places \ {p} : Over(q)' = Over(q) /\ lane'[q] = lane[q]
    BY <1>1 DEF Interrupt, HarnessTypeOK, Over, Off
  <1>4. CloneIsCommit'
    BY <1>3 DEF Interrupt, CloneIsCommit, HarnessTypeOK, Off, Places
  <1>5. StillPasses' /\ ReportsOfRun'
    BY <1>3 DEF Interrupt, StillPasses, ReportsOfRun, Places
  <1> QED
    BY <1>2, <1>4, <1>5 DEF Interrupt, ReceiptIsEarned

\* The receipt is of a commit whose every stage has passed.
LEMMA WriteCleanReceiptKeeps ==
    ASSUME HarnessInv, WriteCleanReceipt
    PROVE  HarnessInv'
  <1> USE DEF HarnessInv
  <1>1. Len(Stages) \in Nat /\ DOMAIN Stages = 1 .. Len(Stages)
    BY StagesAreThese, LenProperties
  <1>2. HarnessTypeOK'
    <2>1. lane' \in [Places -> [at : Nat, run : Nat]]
      BY LaneMoves DEF WriteCleanReceipt, Places
    <2> QED
      BY <1>1, <2>1 DEF WriteCleanReceipt, HarnessTypeOK, Done
  <1>3. /\ Over("clone")' = {} /\ Over("worktree")' = Over("worktree")
        /\ lane'["worktree"] = lane["worktree"] /\ lane'["clone"].at = Off
    BY <1>1 DEF WriteCleanReceipt, HarnessTypeOK, Over, Off, Places
  <1>4. CloneIsCommit' /\ StillPasses' /\ ReportsOfRun'
    BY <1>3 DEF WriteCleanReceipt, CloneIsCommit, StillPasses, ReportsOfRun
  <1>5. snapshots[cloned] \cap RunHere = {}
    <2>1. lane["clone"].at # Off
      BY <1>1 DEF WriteCleanReceipt, Done, Off
    <2> QED
      BY <2>1, AllOver DEF WriteCleanReceipt, CloneIsCommit, StillPasses, Places
  <1> QED
    BY <1>2, <1>4, <1>5 DEF WriteCleanReceipt, ReceiptIsEarned

\* Others edit the working tree, commit it, or write reports.
LEMMA OthersKeep ==
    ASSUME HarnessInv,
           \/ \E check \in Defects : EditTree(check)
           \/ CommitTree
           \/ \E report \in GateEvidence, whole \in BOOLEAN : RunScript(report, whole)
    PROVE  HarnessInv'
  <1> USE DEF HarnessInv
  <1>1. UNCHANGED lane /\ \A p \in Places : Over(p)' = Over(p)
    BY DEF EditTree, CommitTree, RunScript, Touch, Over
  <1>2. ASSUME NEW check \in Defects, EditTree(check)
        PROVE  HarnessInv'
    BY <1>1, <1>2 DEF EditTree, Touch, HarnessTypeOK, CloneIsCommit, StillPasses, ReportsOfRun,
                      ReceiptIsEarned, Places
  <1>3. CASE CommitTree
    <2>1. /\ Len(snapshots') = Len(snapshots) + 1 /\ DOMAIN snapshots' = 1 .. Len(snapshots')
          /\ \A n \in 1 .. Len(snapshots) : snapshots'[n] = snapshots[n]
      BY <1>3 DEF CommitTree, HarnessTypeOK
    <2>2. UNCHANGED <<failing, artifacts, cloned, cleanReceipt, edited, rewritten>>
      BY <1>3 DEF CommitTree, Touch
    <2>3. HarnessTypeOK'
      BY <1>1, <2>1, <2>2 DEF HarnessTypeOK
    <2>4. CloneIsCommit' /\ ReceiptIsEarned'
      BY <1>1, <2>1, <2>2 DEF HarnessTypeOK, CloneIsCommit, ReceiptIsEarned
    <2> QED
      BY <1>1, <2>2, <2>3, <2>4 DEF StillPasses, ReportsOfRun, Places
  <1>4. ASSUME NEW report \in GateEvidence, NEW whole \in BOOLEAN, RunScript(report, whole)
        PROVE  HarnessInv'
    <2>1. UNCHANGED <<failing, snapshots, cloned, cleanReceipt, edited>>
      BY <1>4 DEF RunScript, Touch
    <2>2. /\ DOMAIN artifacts' = Places
          /\ rewritten' = rewritten \cup {report}
          /\ DOMAIN artifacts'["worktree"] = DOMAIN artifacts["worktree"] \cup {report}
          /\ \A r \in DOMAIN artifacts["worktree"] \ {report} :
                artifacts'["worktree"][r] = artifacts["worktree"][r]
      BY <1>4 DEF RunScript, Filed, HarnessTypeOK, Places
    <2>3. ReportsOfRun'
      BY <1>1, <2>2 DEF ReportsOfRun, Places
    <2> QED
      BY <1>1, <2>1, <2>2, <2>3
         DEF HarnessTypeOK, CloneIsCommit, StillPasses, ReceiptIsEarned, Places
  <1> QED
    BY <1>2, <1>3, <1>4

LEMMA HarnessStep == HarnessInv /\ [HarnessNext]_harnessVars => HarnessInv'
  <1> SUFFICES ASSUME HarnessInv, [HarnessNext]_harnessVars PROVE HarnessInv'
    OBVIOUS
  <1>1. CASE UNCHANGED harnessVars
    BY <1>1 DEF harnessVars, HarnessInv, HarnessTypeOK, CloneIsCommit, StillPasses, ReportsOfRun,
                ReceiptIsEarned, Over
  <1>2. CASE HarnessNext
    BY <1>2, BeginsKeep, StageKeeps, InterruptKeeps, WriteCleanReceiptKeeps, OthersKeep
       DEF HarnessNext
  <1> QED
    BY <1>1, <1>2

\* HARNESS_OK and clean-clone receipts are earned.
THEOREM HarnessIsHonest == HarnessSpec => []HarnessOkIsEarned
  BY HarnessInitially, HarnessStep, HarnessInvSuffices, PTL DEF HarnessSpec

-----------------------------------------------------------------------------
(* Governance records and the repository contract.                         *)

\* What the checks that are over have found no fault with.
Examined(k) ==
    /\ k > 1 => Exists("blockers") /\ Exists("assurance")
    /\ k > 2 => Renderable /\ board = IssueManifest
    /\ k > 3 => pages = Documents
    /\ k > 4 => /\ \A b \in BlockerIds : ~FaultyBlocker(b)
                /\ \A c \in Criteria : ~FaultyCriterion(c)
                /\ \A p \in AlphaProfiles : ProfileReady(p)

GateInv ==
    /\ DOMAIN gate = {"at", "told", "revised"}
    /\ gate.at \in 0 .. 7
    /\ gate.at = 7 => gate.told = {}
    /\ ~gate.revised /\ gate.told = {} => Examined(gate.at)

LEMMA GateInvInit == GovernanceInit => GateInv
  BY DEF GovernanceInit, GateInv, Idle, Examined

LEMMA Checks == Len(CheckOrder) = 6 /\ DOMAIN CheckOrder = 1 .. 6 /\ Accepted = 7
  BY DEF CheckOrder, Accepted

\* The checks that are over stay as they are while the records and the files do,
\* because a page that is up to date is not generated again.
LEMMA GeneratingKeeps ==
    ASSUME NEW k \in Nat, Examined(k), GenerateDocuments \/ GenerateIssueManifest
    PROVE  Examined(k)'
  <1>1. UNCHANGED <<records, files>>
    BY DEF GenerateDocuments, GenerateIssueManifest
  <1>2. (k > 2 => board = IssueManifest) => (k > 2 => board' = IssueManifest')
    BY <1>1 DEF GenerateDocuments, GenerateIssueManifest, IssueManifest
  <1>3. (k > 3 => pages = Documents) => (k > 3 => pages' = Documents')
    <2>1. Documents' = Documents
      BY <1>1 DEF Documents, Registry, StatusPage, OpenCriteria, Readable
    <2>2. [Documents EXCEPT !.registry = Registry] = Documents
      BY DEF Documents
    <2> QED
      BY <2>1, <2>2 DEF GenerateDocuments, GenerateIssueManifest
  <1> QED
    BY <1>1, <1>2, <1>3
       DEF Examined, Exists, Renderable, Sound, Malformed, FaultyBlocker, FaultyCriterion,
           Readable, Missing, ProfileReady, SatisfiedClaim, Blocks, OpenCriteria, Cited

\* A check that found nothing, and raised nothing, vouches for what it examined.
LEMMA CheckingKeeps ==
    ASSUME NEW k \in 1 .. 6, Examined(k), Told(CheckOrder[k]) = {}
    PROVE  Examined(k + 1)
  <1>1. /\ CheckOrder[1] = "files" /\ CheckOrder[2] = "graph" /\ CheckOrder[3] = "views"
        /\ CheckOrder[4] = "assurance"
    BY DEF CheckOrder
  <1>2. CASE k = 1
    <2>1. RequiredPaths = {}
      BY <1>1, <1>2 DEF Told
    <2> QED
      BY <1>2, <2>1 DEF RequiredPaths, Finds, Required, Examined
  <1>3. CASE k = 2
    <2>1. TrackGraph = {}
      BY <1>1, <1>3 DEF Told
    <2>2. Finds(~Renderable \/ board # IssueManifest) = {}
      BY <2>1 DEF TrackGraph
    <2> QED
      BY <1>3, <2>2 DEF Finds, Examined
  <1>4. CASE k = 3
    <2>1. ConductorViews = {}
      BY <1>1, <1>4 DEF Told
    <2>2. Finds(~Renderable \/ pages # Documents) = {}
      BY <2>1 DEF ConductorViews
    <2> QED
      BY <1>4, <2>2 DEF Finds, Examined
  <1>5. CASE k = 4
    <2>1. AssuranceCase = {}
      BY <1>1, <1>5 DEF Told
    <2>2. Exists("blockers") /\ Exists("assurance")
      BY <1>5 DEF Examined
    <2>3. /\ Finds(\/ \E b \in BlockerIds : FaultyBlocker(b)
                   \/ \E c \in Criteria : FaultyCriterion(c)
                   \/ \E c \in ClaimIds : FaultyClaim(c)) = {}
          /\ AlphaReadiness = {}
      BY <2>1, <2>2 DEF AssuranceCase
    <2>4. /\ \A b \in BlockerIds : ~FaultyBlocker(b)
          /\ \A c \in Criteria : ~FaultyCriterion(c)
          /\ \A p \in AlphaProfiles : ProfileReady(p)
      BY <2>3 DEF AlphaReadiness, Finds
    <2> QED
      BY <1>5, <2>4 DEF Examined
  <1>6. CASE k > 4
    BY <1>6 DEF Examined
  <1> QED
    BY <1>2, <1>3, <1>4, <1>5, <1>6

\* They stay as well where neither is touched.
LEMMA NothingTouched ==
    ASSUME NEW k, UNCHANGED <<records, files, pages, board>>, Examined(k)
    PROVE  Examined(k)'
  <1>1. \A b : Readable(b)' = Readable(b) /\ OpenCriteria(b)' = OpenCriteria(b)
    BY DEF Readable, OpenCriteria
  <1>2. \A S : Missing(S)' = Missing(S) /\ Cited(S)' = Cited(S)
    BY DEF Missing, Cited
  <1>3. \A p : ProfileReady(p)' <=> ProfileReady(p)
    BY <1>1, <1>2 DEF ProfileReady, SatisfiedClaim, Blocks
  <1>4. \A b : FaultyBlocker(b)' <=> FaultyBlocker(b)
    BY <1>1, <1>2 DEF FaultyBlocker
  <1>5. \A c : FaultyCriterion(c)' <=> FaultyCriterion(c)
    BY <1>2 DEF FaultyCriterion
  <1>6. Renderable' <=> Renderable
    BY DEF Renderable, Sound, Malformed
  <1>7. Documents' = Documents
    BY <1>1 DEF Documents, Registry, StatusPage
  <1>8. IssueManifest' = IssueManifest
    BY DEF IssueManifest
  <1> QED
    BY <1>3, <1>4, <1>5, <1>6, <1>7, <1>8 DEF Examined, Exists

LEMMA GateStep == GateInv /\ [GovernanceNext]_governanceVars => GateInv'
  <1> SUFFICES ASSUME GateInv, [GovernanceNext]_governanceVars PROVE GateInv'
    OBVIOUS
  <1> USE Checks
  <1>1. CASE UNCHANGED governanceVars
    BY <1>1, NothingTouched DEF governanceVars, GateInv
  <1>2. ASSUME Revise PROVE GateInv'
    <2>1. gate' = [gate EXCEPT !.revised = gate # Idle]
      BY <1>2 DEF Revise
    <2>2. /\ DOMAIN gate' = {"at", "told", "revised"} /\ gate'.at = gate.at
          /\ gate'.told = gate.told /\ gate'.revised = (gate # Idle)
      BY <2>1 DEF GateInv
    <2>3. CASE gate = Idle
      BY <2>2, <2>3 DEF GateInv, Idle, Examined
    <2>4. CASE gate # Idle
      BY <2>2, <2>4 DEF GateInv
    <2> QED
      BY <2>3, <2>4
  <1>3. CASE GenerateDocuments \/ GenerateIssueManifest
    <2>1. gate' = gate /\ gate.at \in Nat
      BY <1>3 DEF GenerateDocuments, GenerateIssueManifest, GateInv
    <2> QED
      BY <1>3, <2>1, GeneratingKeeps DEF GateInv
  <1>4. CASE BeginValidation
    BY <1>4 DEF BeginValidation, GateInv, Examined
  <1>5. CASE Validate
    <2> DEFINE told == gate.told \cup Told(CheckOrder[gate.at])
    <2>1. /\ gate.at \in 1 .. 6 /\ UNCHANGED <<records, files, pages, board>>
          /\ \/ gate' = Idle
             \/ /\ gate' = [gate EXCEPT !.at = @ + 1, !.told = told]
                /\ gate.at < 6 \/ told = {}
      BY <1>5 DEF Validate
    <2> HIDE DEF told
    <2>2. CASE gate' = Idle
      BY <2>2 DEF GateInv, Idle, Examined
    <2>3. CASE gate' = [gate EXCEPT !.at = @ + 1, !.told = told] /\ (gate.at < 6 \/ told = {})
      <3>1. /\ DOMAIN gate' = {"at", "told", "revised"} /\ gate'.at = gate.at + 1
            /\ gate'.told = told /\ gate'.revised = gate.revised
        BY <2>3 DEF GateInv
      <3>2. ~gate.revised /\ told = {} => Examined(gate.at + 1)
        BY <2>1, CheckingKeeps DEF told, GateInv
      <3>3. \A k : Examined(k) => Examined(k)'
        BY <2>1, NothingTouched
      <3> QED
        BY <2>1, <2>3, <3>1, <3>2, <3>3 DEF GateInv
    <2> QED
      BY <2>1, <2>2, <2>3
  <1> QED
    BY <1>1, <1>2, <1>3, <1>4, <1>5 DEF GovernanceNext, EditRecords, EditFile

LEMMA ExaminedIsTruthful == GateInv => AcceptedIsTruthful
  <1> SUFFICES ASSUME GateInv, gate.at = Accepted, ~gate.revised PROVE AcceptedIsTruthful
    BY DEF AcceptedIsTruthful
  <1>1. Examined(7)
    BY Checks DEF GateInv
  <1>2. /\ board = IssueManifest /\ pages = Documents
        /\ \A b \in BlockerIds : ~FaultyBlocker(b)
        /\ \A c \in Criteria : ~FaultyCriterion(c)
        /\ \A p \in AlphaProfiles : ProfileReady(p)
    BY <1>1 DEF Examined
  <1>3. ASSUME NEW b \in BlockerIds
        PROVE  LET closed == pages.registry.status[b] = "complete"
               IN  /\ closed = (pages.status.status[b] = "complete")
                   /\ closed = (board.status[b] = "complete")
                   /\ closed = (pages.status.open[b] = 0)
                   /\ closed = (\A c \in CriteriaOf[b] : board.boxes[c] = "complete")
                   /\ \A p \in BlocksOf[b] : ProfileReady(p) => closed
    <2> DEFINE done == records.status[b] = "complete"
    <2>1. CriteriaOf[b] \subseteq Criteria /\ IsFiniteSet(CriteriaOf[b])
      BY GovernanceAssumption, FS_Subset DEF Criteria
    <2>2. Readable(b) = CriteriaOf[b]
      BY <1>2, <2>1 DEF Readable, FaultyCriterion
    <2>3. /\ CriteriaOf[b] # {} /\ records.status[b] \in KnownStatuses
          /\ done = ({records.status[c] : c \in CriteriaOf[b]} = {"complete"})
      BY <1>2, <2>2 DEF FaultyBlocker
    <2>s. ({records.status[c] : c \in CriteriaOf[b]} = {"complete"})
            <=> \A c \in CriteriaOf[b] : records.status[c] = "complete"
      BY <2>3
    <2>4. done <=> \A c \in CriteriaOf[b] : records.status[c] = "complete"
      BY <2>3, <2>s
    <2>5. done = (OpenCriteria(b) = {})
      BY <2>2, <2>4 DEF OpenCriteria
    <2>6. (Cardinality(OpenCriteria(b)) = 0) = (OpenCriteria(b) = {})
      <3>1. IsFiniteSet(OpenCriteria(b))
        BY <2>1, <2>2, FS_Subset DEF OpenCriteria
      <3> QED
        BY <3>1, FS_EmptySet
    <2>7. /\ pages.registry.status[b] = records.status[b]
          /\ pages.status.status[b] = records.status[b]
          /\ pages.status.open[b] = Cardinality(OpenCriteria(b))
          /\ board.status[b] = records.status[b]
      BY <1>2 DEF Documents, Registry, StatusPage, IssueManifest
    <2>8. \A c \in CriteriaOf[b] : board.boxes[c] = records.status[c]
      BY <1>2, <2>1 DEF IssueManifest, FaultyCriterion
    <2>9. \A p \in BlocksOf[b] : ProfileReady(p) => done
      BY <2>3, <2>5 DEF ProfileReady, Blocks, OpenStates
    <2> QED
      BY <2>4, <2>5, <2>6, <2>7, <2>8, <2>9
  <1>4. \A x \in BlockerIds \cup Criteria : Missing(board.cites[x]) = {}
    BY <1>2 DEF IssueManifest, FaultyBlocker, FaultyCriterion
  <1> QED
    BY <1>2, <1>3, <1>4 DEF AcceptedIsTruthful

\* What a validation accepts agrees, page with page and with readiness, whatever
\* was generated meanwhile, unless somebody has edited since it began.
THEOREM AcceptanceIsTruthful == GovernanceSpec => []AcceptedIsTruthful
  BY GateInvInit, GateStep, ExaminedIsTruthful, PTL DEF GovernanceSpec

-----------------------------------------------------------------------------
(* The release.                                                            *)

ArchiveNames == {Archives[i] : i \in DOMAIN Archives}

PathsOf(name) == IF name \in Histories THEN Tracked \cup {Git} ELSE Tracked

(* The packager's questions, in order.                                     *)

Asking == {"status", "head", "tree", "tag", "ready"}
Filling == {"archive", "audit", "plan", "candidate", "reports", "snapshots", "clone",
            "publish"}
Describing == {"manifest", "manifest-head", "manifest-status"}
Sealing == {"contract", "checks", "receipt", "sums"}

Ops == Asking \cup Filling \cup Describing \cup Sealing

\* HEAD was asked for, and the manifest has not asked for it.
Reading == {"tree", "tag", "ready"} \cup Filling \cup {"manifest", "manifest-head"}

Fields == {"op", "commit", "tree", "audited", "a", "todo", "copied", "draft"}

\* What is in the directory for sure at an operation, and what may be.
Made(op) ==
    IF op \in Asking \cup {"archive"} THEN {}
    ELSE ArchiveNames \cup
        (IF op \in {"audit", "plan"} THEN {}
         ELSE IF op \in {"candidate", "reports"} THEN {"plan"}
         ELSE IF op = "snapshots" THEN {"plan", "reports"}
         ELSE IF op = "clone" THEN {"plan", "reports", "snapshots"}
         ELSE IF op = "publish" THEN {"plan", "reports", "snapshots", "clone"}
         ELSE {"plan", "reports", "snapshots", "clone", "publication"}
                \cup (IF op \in Sealing THEN {"manifest"} ELSE {})
                \cup (IF op \in {"receipt", "sums"} THEN {"verification"} ELSE {})
                \cup (IF op = "sums" THEN {"receipt"} ELSE {}))

Making(op) ==
    IF op = "archive" THEN ArchiveNames
    ELSE IF op \in {"reports", "snapshots"} THEN {op}
    ELSE IF op = "publish" THEN {"publication"} ELSE {}

ReleaseTypeOK ==
    /\ changes \in Nat
    /\ worktree \in [Tracked -> Nat]
    /\ \A f \in Tracked : worktree[f] <= TrackedCount + changes
    /\ commits \in Seq([Tracked -> Nat]) /\ head \in DOMAIN commits
    /\ \A n \in DOMAIN commits : \A f \in Tracked :
          commits[n][f] # Gone /\ commits[n][f] <= TrackedCount + changes
    /\ reports \in [Reports -> {Nothing} \cup [id : Nat, passed : BOOLEAN]]
    /\ out = [name \in DOMAIN out |-> out[name]]
    /\ packing # Resting => DOMAIN packing = Fields /\ packing.op \in Ops

Directory ==
    packing # Resting =>
        /\ Made(packing.op) \subseteq DOMAIN out
        /\ DOMAIN out \subseteq Made(packing.op) \cup Making(packing.op)

\* The archives are complete up to the one under way.
ArchivesFull ==
    /\ packing.op \in Asking => packing.a = 1
    /\ packing.op = "archive" =>
          /\ packing.a \in DOMAIN Archives
          /\ packing.todo \subseteq Paths(packing.a) /\ packing.todo # {}
          /\ \A j \in 1 .. (packing.a - 1) :
                Archives[j] \in DOMAIN out /\ Paths(j) \subseteq DOMAIN out[Archives[j]]
          /\ Paths(packing.a) \ packing.todo \subseteq DOMAIN Written(Archives[packing.a])
    /\ packing.op \in (Filling \ {"archive"}) \cup Describing \cup Sealing =>
          \A name \in ArchiveNames : PathsOf(name) \subseteq DOMAIN out[name]

\* The evidence that was copied is that in the directory.
EvidenceCopied ==
    /\ packing # Resting =>
          /\ packing.copied \subseteq Reports
          /\ Written("reports") = [r \in packing.copied |-> Written("reports")[r]]
    /\ packing.op = "reports" => packing.todo \subseteq Reports \ packing.copied
    /\ packing.op = "snapshots" => packing.todo \subseteq Snapshots
    /\ packing.op = "publish" =>
          /\ packing.todo \subseteq Published
          /\ "publication" \in DOMAIN out =>
                DOMAIN out["publication"] = {"docs", "reports", "snapshots", "clone"}
          /\ packing.todo # Published =>
                /\ "publication" \in DOMAIN out
                /\ Published \ packing.todo \subseteq DOMAIN out["publication"].docs
    /\ packing.op \in Describing \cup Sealing =>
          Published \subseteq DOMAIN out["publication"].docs

ManifestParts == {"plan", "publication", "clone", "reports", "snapshots"}
VerifiedParts == {"manifest", "publication", "clone", "reports", "snapshots"}

PartOf(dir, names) == [name \in names |-> dir[name]]

\* What the documents of a directory commit to is what is in it.
Bundled(dir) ==
    /\ dir["publication"].reports = dir["reports"]
    /\ dir["publication"].snapshots = dir["snapshots"]
    /\ dir["publication"].clone = dir["clone"]

Described ==
    /\ packing.op \in Describing \cup Sealing => Bundled(out)
    /\ packing.op \in {"manifest-head", "manifest-status"} =>
          packing.draft.artifacts = PartOf(out, ManifestParts)
    /\ packing.op \in Sealing => out["manifest"].artifacts = PartOf(out, ManifestParts)
    /\ packing.op \in {"receipt", "sums"} =>
          /\ out["verification"].artifacts = PartOf(out, VerifiedParts)
          /\ out["verification"].revision = packing.commit
    /\ packing.op = "sums" =>
          /\ out["receipt"].commit = packing.commit
          /\ out["receipt"].tree = packing.tree
          /\ out["receipt"].artifacts = PartOf(out, DOMAIN out \ {"receipt"})

\* Every copy of file f in a directory is of version v.
CopiesAre(dir, f, v) ==
    /\ \A name \in ArchiveNames \cap DOMAIN dir :
          f \in DOMAIN dir[name] => dir[name][f] = v
    /\ "publication" \in DOMAIN dir /\ f \in DOMAIN dir["publication"].docs =>
          dir["publication"].docs[f] = v
    /\ "snapshots" \in DOMAIN dir /\ f \in DOMAIN dir["snapshots"] =>
          dir["snapshots"][f] = v
    /\ "plan" \in DOMAIN dir /\ f = Candidate => dir["plan"] = v

HistoriesAre(dir, commit) ==
    \A name \in Histories \cap DOMAIN dir :
        Git \in DOMAIN dir[name] => dir[name][Git] = commit

\* HEAD at the commit, and a file that is as it was committed, were so when
\* they were read, unless they got back to it.
ReadsTracked ==
    /\ packing.op \in Ops \ {"status", "head"} => packing.commit \in DOMAIN commits
    /\ packing.op \in {"status", "head"} => packing.commit = 0
    /\ /\ \/ packing.op \in Reading /\ head = packing.commit
          \/ packing.op = "manifest-status" /\ packing.draft.commit = packing.commit
       /\ Git \notin undone
       => /\ packing.op # "tree" => packing.tree = packing.commit
          /\ HistoriesAre(out, packing.commit)
    /\ packing.op \in Reading => \A f \in Tracked \ undone :
          worktree[f] = commits[packing.commit][f] =>
             /\ CopiesAre(out, f, commits[packing.commit][f])
             /\ packing.op = "manifest-head" /\ f = Assurance =>
                   packing.draft.key = commits[packing.commit][f]
    /\ packing.op = "manifest-status" /\ packing.draft.commit = packing.commit =>
          \A f \in Tracked \ undone :
             head # packing.commit \/ worktree[f] = commits[packing.commit][f] =>
                /\ CopiesAre(out, f, commits[packing.commit][f])
                /\ f = Assurance => packing.draft.key = commits[packing.commit][f]

OfCommit(dir, commit, tree) ==
    dir["manifest"].clean /\ dir["manifest"].commit = commit =>
        /\ Git \notin undone => tree = commit /\ HistoriesAre(dir, commit)
        /\ \A f \in Tracked \ undone :
              /\ CopiesAre(dir, f, commits[commit][f])
              /\ f = Assurance => dir["manifest"].key = commits[commit][f]

CommitDescribed ==
    packing.op \in Sealing => OfCommit(out, packing.commit, packing.tree)

\* A report that nobody wrote again is still what was copied.
ReportsShipped ==
    packing.op \in {"reports", "snapshots", "clone", "publish"} \cup Describing
                     \cup {"contract", "checks"} =>
        \A r \in Reports \ rerun : (packing.op = "reports" => r \notin packing.todo) =>
            IF reports[r] = Nothing THEN r \notin packing.copied
            ELSE r \in packing.copied /\ out["reports"][r] = reports[r]

PassedInShipped(dir, checks) ==
    \A r \in DOMAIN checks \ rerun : checks[r] = "pass" =>
        r \in DOMAIN dir["reports"] /\ dir["reports"][r].passed

Shipped(dir) ==
    /\ DOMAIN dir["verification"].checks = Checked
    /\ PassedInShipped(dir, dir["verification"].checks)
    /\ Coverage \notin rerun =>
          dir["verification"].coverage =
              IF Coverage \in DOMAIN dir["reports"] THEN dir["reports"][Coverage] ELSE Nothing

VerdictTaken ==
    /\ packing.op = "checks" =>
          /\ packing.todo \subseteq Checked
          /\ DOMAIN packing.draft.checks = Checked \ packing.todo
          /\ PassedInShipped(out, packing.draft.checks)
    /\ packing.op \in {"receipt", "sums"} => Shipped(out)

\* A directory that was finished.
Finished(dir) ==
    /\ DOMAIN dir = Made("sums")
    /\ dir["receipt"].commit \in DOMAIN commits
    /\ \A name \in ArchiveNames : PathsOf(name) \subseteq DOMAIN dir[name]
    /\ Published \subseteq DOMAIN dir["publication"].docs
    /\ Bundled(dir)
    /\ dir["manifest"].artifacts = PartOf(dir, ManifestParts)
    /\ dir["verification"].artifacts = PartOf(dir, VerifiedParts)
    /\ dir["verification"].revision = dir["receipt"].commit
    /\ dir["receipt"].artifacts = PartOf(dir, DOMAIN dir \ {"receipt"})
    /\ OfCommit(dir, dir["receipt"].commit, dir["receipt"].tree)
    /\ Shipped(dir)

\* The checksums are of a directory that was finished, of which some may be gone.
Summed ==
    "sums" \in DOMAIN out =>
        /\ Finished(out["sums"])
        /\ \A name \in DOMAIN out \ {"sums"} :
              name \in DOMAIN out["sums"] /\ out[name] = out["sums"][name]

ReleaseInv ==
    /\ ReleaseTypeOK
    /\ Directory
    /\ ArchivesFull
    /\ EvidenceCopied
    /\ Described
    /\ ReadsTracked
    /\ CommitDescribed
    /\ ReportsShipped
    /\ VerdictTaken
    /\ Summed


----------------------------------------------------------------------------
(* Invariance                                                              *)

LEMMA OpOfResting == packing = Resting => packing.op = "idle"
  BY DEF Resting

\* A packaging that ends without checksums leaves nothing to be believed.
LEMMA RaiseKeeps ==
    ASSUME ReleaseInv, packing # Resting, packing' = Resting,
           UNCHANGED checkout, "sums" \notin DOMAIN out',
           out' = [name \in DOMAIN out' |-> out'[name]]
    PROVE  ReleaseInv'
  <1>1. packing'.op = "idle"
    BY DEF Resting
  <1>2. ReleaseTypeOK'
    BY DEF ReleaseInv, ReleaseTypeOK, checkout
  <1> QED
    BY <1>1, <1>2
       DEF ReleaseInv, Directory, ArchivesFull, EvidenceCopied, Described, ReadsTracked,
           CommitDescribed, ReportsShipped, VerdictTaken, Summed, Ops, Asking, Filling,
           Describing, Sealing, Reading

LEMMA NoSumsYet ==
    ASSUME ReleaseInv, packing # Resting
    PROVE  "sums" \notin DOMAIN out
  <1>1. "sums" \notin ArchiveNames
    BY ReleaseFilesAssumption DEF ArchiveNames, PartNames
  <1> QED
    BY <1>1 DEF ReleaseInv, Directory, Made, Making

\* What got back to the packaged commit is noted.
BackIsNoted ==
    /\ Git \in undone' \/ head' # packing.commit \/ head = packing.commit
    /\ \A f \in Tracked \ undone' :
          /\ worktree'[f] = commits[packing.commit][f] =>
                worktree[f] = commits[packing.commit][f]
          /\ packing.op = "manifest-status" /\ head = packing.commit /\ head' # head =>
                worktree[f] = commits[packing.commit][f]

\* What others do keeps the invariant if the packager's history notes it.
LEMMA NotedKeeps ==
    ASSUME ReleaseInv, ReleaseTypeOK', UNCHANGED <<out, packing>>,
           \A n \in DOMAIN commits : n \in DOMAIN commits' /\ commits'[n] = commits[n],
           undone \subseteq undone', rerun \subseteq rerun',
           packing = Resting => UNCHANGED history,
           packing # Resting => \A r \in Reports \ rerun' : reports'[r] = reports[r],
           packing # Resting /\ packing.commit \in DOMAIN commits => BackIsNoted
    PROVE  ReleaseInv'
  <1> USE DEF ReleaseInv
  <1>1. /\ Directory' /\ ArchivesFull' /\ EvidenceCopied' /\ Described'
    BY DEF Directory, ArchivesFull, EvidenceCopied, Described, Written
  <1>3. ASSUME NEW dir, NEW commit \in DOMAIN commits, NEW tree, OfCommit(dir, commit, tree)
        PROVE  OfCommit(dir, commit, tree)'
    BY <1>3 DEF OfCommit, HistoriesAre, CopiesAre
  <1>4. ReadsTracked'
    <2>1. /\ packing.op \in Reading \cup {"manifest-status"} =>
                packing.op \in Ops \ {"status", "head"} /\ packing # Resting
          /\ packing.op \in Ops \ {"status", "head"} => packing.commit \in DOMAIN commits
      BY OpOfResting DEF ReadsTracked, Reading, Ops, Filling, Asking, Describing
    <2>2. /\ packing.op \in Ops \ {"status", "head"} => packing.commit \in DOMAIN commits'
          /\ packing.op \in {"status", "head"} => packing.commit = 0
      BY <2>1 DEF ReadsTracked
    <2>3. ASSUME \/ packing.op \in Reading /\ head' = packing.commit
                 \/ packing.op = "manifest-status" /\ packing.draft.commit = packing.commit,
                 Git \notin undone'
          PROVE  /\ packing.op # "tree" => packing.tree = packing.commit
                 /\ HistoriesAre(out, packing.commit)
      BY <2>1, <2>3 DEF ReadsTracked, BackIsNoted
    <2>4. ASSUME packing.op \in Reading, NEW f \in Tracked \ undone',
                 worktree'[f] = commits[packing.commit][f]
          PROVE  /\ CopiesAre(out, f, commits[packing.commit][f])
                 /\ packing.op = "manifest-head" /\ f = Assurance =>
                        packing.draft.key = commits[packing.commit][f]
      BY <2>1, <2>4 DEF ReadsTracked, BackIsNoted
    <2>5. ASSUME packing.op = "manifest-status", packing.draft.commit = packing.commit,
                 NEW f \in Tracked \ undone',
                 head' # packing.commit \/ worktree'[f] = commits[packing.commit][f]
          PROVE  /\ CopiesAre(out, f, commits[packing.commit][f])
                 /\ f = Assurance => packing.draft.key = commits[packing.commit][f]
      <3>1. head # packing.commit \/ worktree[f] = commits[packing.commit][f]
        BY <2>1, <2>5 DEF BackIsNoted
      <3> QED
        BY <2>5, <3>1 DEF ReadsTracked
    <2>6. packing.op \in Reading \cup {"manifest-status"} =>
              commits'[packing.commit] = commits[packing.commit]
      BY <2>1
    <2>7. \A f, v : /\ CopiesAre(out, f, v)' <=> CopiesAre(out, f, v)
                    /\ HistoriesAre(out, v)' <=> HistoriesAre(out, v)
      BY DEF CopiesAre, HistoriesAre
    <2> QED
      BY <2>2, <2>3, <2>4, <2>5, <2>6, <2>7 DEF ReadsTracked, CopiesAre, HistoriesAre
  <1>5. CommitDescribed'
    <2>1. packing.op \in Sealing => packing.commit \in DOMAIN commits
      BY DEF ReadsTracked, Ops, Sealing
    <2> QED
      BY <1>3, <2>1 DEF CommitDescribed, OfCommit, HistoriesAre, CopiesAre
  <1>6. ReportsShipped' /\ VerdictTaken'
    <2>1. packing.op \in {"reports", "snapshots", "clone", "publish"} \cup Describing
              \cup {"contract", "checks"} => packing # Resting
      BY OpOfResting DEF Describing
    <2> QED
      BY <2>1 DEF ReportsShipped, VerdictTaken, Shipped, PassedInShipped
  <1>7. Summed'
    <2>1. CASE packing # Resting
      BY <2>1, NoSumsYet DEF Summed
    <2>2. CASE packing = Resting
      <3> SUFFICES ASSUME "sums" \in DOMAIN out PROVE Summed'
        BY DEF Summed
      <3>1. Finished(out["sums"]) /\ out["sums"]["receipt"].commit \in DOMAIN commits
        BY DEF Summed, Finished
      <3>2. OfCommit(out["sums"], out["sums"]["receipt"].commit,
                     out["sums"]["receipt"].tree)'
        BY <1>3, <3>1 DEF Finished, OfCommit, HistoriesAre, CopiesAre
      <3>3. Finished(out["sums"])'
        BY <2>2, <3>1, <3>2
           DEF Finished, Shipped, PassedInShipped, Bundled, history
      <3> QED
        BY <3>3 DEF Summed
    <2> QED
      BY <2>1, <2>2
  <1> QED
    BY <1>1, <1>4, <1>5, <1>6, <1>7

LEMMA ReturnsAreNoted ==
    ASSUME ReleaseInv, NoteReturns, UNCHANGED packing
    PROVE  /\ undone \subseteq undone' /\ (packing = Resting => undone' = undone)
           /\ packing # Resting /\ packing.commit \in DOMAIN commits => BackIsNoted
  <1>1. 0 \notin DOMAIN commits
    BY DEF ReleaseInv, ReleaseTypeOK
  <1>2. packing # Resting /\ packing.commit \in DOMAIN commits => Packaging
    BY <1>1 DEF Packaging
  <1> QED
    BY <1>2 DEF NoteReturns, Packaging, BackIsNoted

LEMMA OthersAreNoted ==
    ASSUME ReleaseInv, Others
    PROVE  ReleaseInv'
  <1> USE DEF ReleaseInv
  <1>1. /\ UNCHANGED <<out, packing>> /\ changes' = changes + 1
        /\ TrackedCount \in Nat /\ changes \in Nat
    BY ReleaseFilesAssumption
       DEF Others, Change, EditTracked, RemoveTracked, RestoreTracked, Commit, MoveHead,
           MoveTag, WriteReport, VerifyClone, ReleaseTypeOK
  <1> DEFINE Most == TrackedCount + changes
             In(tree) == /\ tree \in [Tracked -> Nat]
                         /\ \A x \in Tracked : tree[x] <= Most + 1
  <1>w. /\ In(worktree) /\ \A x \in Tracked : worktree[x] <= Most
        /\ head \in DOMAIN commits /\ commits \in Seq([Tracked -> Nat])
        /\ \A n \in DOMAIN commits : In(commits[n])
        /\ \A n \in DOMAIN commits : \A x \in Tracked :
              commits[n][x] \in Nat \ {0} /\ commits[n][x] <= Most
        /\ Most \in Nat /\ TrackedCount + changes' = Most + 1
    <2>1. \A n \in DOMAIN commits : commits[n] \in [Tracked -> Nat]
      BY DEF ReleaseTypeOK
    <2>2. \A x \in Tracked : worktree[x] \in Nat /\ worktree[x] <= Most
      BY DEF ReleaseTypeOK
    <2>3. \A n \in DOMAIN commits : \A x \in Tracked :
              commits[n][x] \in Nat \ {0} /\ commits[n][x] <= Most
      BY <2>1 DEF ReleaseTypeOK, Gone
    <2>4. Most \in Nat /\ TrackedCount + changes' = Most + 1
      BY <1>1
    <2> HIDE DEF Most
    <2>5. \A n \in Nat : n <= Most => n <= Most + 1
      BY <2>4
    <2> QED
      BY <2>1, <2>2, <2>3, <2>4, <2>5 DEF ReleaseTypeOK
  <1>t. ASSUME In(worktree'), head' \in DOMAIN commits, UNCHANGED <<commits, reports>>
        PROVE  ReleaseTypeOK'
    <2>1. \A n \in DOMAIN commits : \A x \in Tracked :
              commits[n][x] # Gone /\ commits[n][x] <= Most + 1
      BY <1>w DEF Gone
    <2> HIDE DEF Most
    <2>2. \A x \in Tracked : worktree'[x] <= TrackedCount + changes'
      BY <1>w, <1>t
    <2>3. \A n \in DOMAIN commits : \A x \in Tracked :
              commits[n][x] # Gone /\ commits[n][x] <= TrackedCount + changes'
      BY <1>w, <2>1
    <2>4. changes' \in Nat
      BY <1>1
    <2> QED
      BY <1>1, <1>t, <2>2, <2>3, <2>4 DEF ReleaseTypeOK
  <1>2. ASSUME NEW f \in Tracked, EditTracked(f) \/ RemoveTracked(f)
        PROVE  ReleaseInv'
    <2>1. /\ UNCHANGED <<commits, head, reports, history>>
          /\ \E v \in {0, Most + 1} : worktree' = [worktree EXCEPT ![f] = v]
      BY <1>2 DEF EditTracked, RemoveTracked, Gone
    <2> HIDE DEF Most
    <2>2. /\ worktree'[f] \in {0, Most + 1} /\ worktree' \in [Tracked -> Nat]
          /\ \A x \in Tracked \ {f} : worktree'[x] = worktree[x]
      BY <1>w, <2>1
    <2>3. ReleaseTypeOK'
      <3>0. 0 <= Most + 1 /\ Most + 1 <= Most + 1
        BY <1>w
      <3>1. In(worktree')
        BY <1>w, <2>2, <3>0
      <3> QED
        BY <1>w, <1>t, <2>1, <3>1
    <2>4. \A n \in DOMAIN commits : \A x \in Tracked :
              worktree'[x] = commits[n][x] => worktree[x] = commits[n][x]
      <3>1. \A n \in DOMAIN commits : worktree'[f] # commits[n][f]
        BY <1>w, <2>2
      <3> QED
        BY <2>2, <3>1
    <2>5. packing # Resting /\ packing.commit \in DOMAIN commits => BackIsNoted
      BY <2>1, <2>4 DEF BackIsNoted
    <2> QED
      BY <1>1, <2>1, <2>3, <2>5, NotedKeeps DEF history
  <1>3. ASSUME NoteReturns, UNCHANGED <<reports, rerun>>, ReleaseTypeOK',
               \A n \in DOMAIN commits : n \in DOMAIN commits' /\ commits'[n] = commits[n]
        PROVE  ReleaseInv'
    <2>1. /\ undone \subseteq undone' /\ (packing = Resting => undone' = undone)
          /\ packing # Resting /\ packing.commit \in DOMAIN commits => BackIsNoted
      BY <1>1, <1>3, ReturnsAreNoted
    <2> QED
      BY <1>1, <1>3, <2>1, NotedKeeps DEF history
  <1>4. ASSUME NEW f \in Tracked, NEW c \in DOMAIN commits, RestoreTracked(f, c)
        PROVE  ReleaseInv'
    <2>1. /\ worktree' = [worktree EXCEPT ![f] = commits[c][f]] /\ NoteReturns
          /\ UNCHANGED <<commits, head, reports, rerun>>
      BY <1>4 DEF RestoreTracked
    <2>2. In(commits[c]) /\ In(worktree)
      BY <1>w
    <2> HIDE DEF Most
    <2>3. In(worktree')
      BY <2>1, <2>2
    <2>4. ReleaseTypeOK'
      BY <1>w, <1>t, <2>1, <2>3
    <2> QED
      BY <1>3, <2>1, <2>4
  <1>5. CASE Commit
    <2>1. /\ commits' = Append(commits, worktree) /\ head' = Len(commits) + 1
          /\ UNCHANGED <<worktree, reports, rerun>> /\ NoteReturns
          /\ \A x \in Tracked : worktree[x] # Gone
      BY <1>5 DEF Commit
    <2>2. In(worktree)
      BY <1>w
    <2> HIDE DEF Most
    <2>0. worktree \in [Tracked -> Nat] /\ commits \in Seq([Tracked -> Nat])
      BY <1>w, <2>2
    <2>a. /\ DOMAIN commits' = 1 .. Len(commits) + 1 /\ Len(commits) \in Nat
          /\ DOMAIN commits = 1 .. Len(commits)
          /\ commits' \in Seq([Tracked -> Nat])
          /\ commits'[Len(commits) + 1] = worktree
          /\ \A n \in 1 .. Len(commits) : commits'[n] = commits[n]
      <3> HIDE DEF In
      <3> QED
        BY <2>0, <2>1
    <2>3. /\ commits' \in Seq([Tracked -> Nat]) /\ head' \in DOMAIN commits'
          /\ \A n \in DOMAIN commits : n \in DOMAIN commits' /\ commits'[n] = commits[n]
          /\ \A n \in DOMAIN commits' : n \in DOMAIN commits \/ commits'[n] = worktree
      BY <2>1, <2>a
    <2>4. \A n \in DOMAIN commits' : \A x \in Tracked :
              commits'[n][x] # Gone /\ commits'[n][x] <= Most + 1
      <3> SUFFICES ASSUME NEW n \in DOMAIN commits', NEW x \in Tracked
                   PROVE  commits'[n][x] # Gone /\ commits'[n][x] <= Most + 1
        OBVIOUS
      <3>1. CASE commits'[n] = worktree
        BY <2>1, <2>2, <3>1
      <3>2. CASE n \in DOMAIN commits
        <4>1. commits'[n][x] = commits[n][x] /\ In(commits[n])
          BY <1>w, <2>3, <3>2
        <4> QED
          BY <1>w, <3>2, <4>1 DEF Gone
      <3> QED
        BY <2>3, <3>1, <3>2
    <2>5. \A x \in Tracked : worktree'[x] <= TrackedCount + changes'
      BY <1>w, <2>1, <2>2
    <2>6. \A n \in DOMAIN commits' : \A x \in Tracked :
              commits'[n][x] # Gone /\ commits'[n][x] <= TrackedCount + changes'
      BY <1>w, <2>4
    <2>7. changes' \in Nat
      BY <1>1
    <2>8. ReleaseTypeOK'
      BY <1>1, <2>1, <2>3, <2>5, <2>6, <2>7 DEF ReleaseTypeOK
    <2> QED
      BY <1>3, <2>1, <2>3, <2>8
  <1>6. ASSUME NEW c \in DOMAIN commits, MoveHead(c)
        PROVE  ReleaseInv'
    <2>1. /\ head' = c /\ worktree' \in {worktree, commits[c]} /\ NoteReturns
          /\ UNCHANGED <<commits, reports, rerun>>
      BY <1>6 DEF MoveHead
    <2>2. In(worktree')
      BY <1>w, <2>1
    <2> QED
      BY <1>3, <1>t, <2>1, <2>2
  <1>7. CASE MoveTag \/ \E c \in DOMAIN commits : VerifyClone(c)
    <2>1. UNCHANGED <<worktree, commits, head, reports, history>>
      BY <1>7 DEF MoveTag, VerifyClone
    <2>2. ReleaseTypeOK'
      BY <1>w, <1>t, <2>1
    <2> QED
      BY <1>1, <2>1, <2>2, NotedKeeps DEF history, BackIsNoted
  <1>8. ASSUME NEW r \in Reports, WriteReport(r)
        PROVE  ReleaseInv'
    <2>1. /\ UNCHANGED <<worktree, commits, head, undone>>
          /\ rerun \subseteq rerun' /\ (packing = Resting => rerun' = rerun)
          /\ packing # Resting => r \in rerun'
          /\ \E v \in {Nothing} \cup [id : {changes + 1}, passed : BOOLEAN] :
                reports' = [reports EXCEPT ![r] = v]
      BY <1>8 DEF WriteReport, history
    <2>a. \A v \in {Nothing} \cup [id : {changes + 1}, passed : BOOLEAN] :
              v \in {Nothing} \cup [id : Nat, passed : BOOLEAN]
      BY <1>1
    <2>2. /\ reports' \in [Reports -> {Nothing} \cup [id : Nat, passed : BOOLEAN]]
          /\ \A q \in Reports \ {r} : reports'[q] = reports[q]
      BY <2>1, <2>a DEF ReleaseTypeOK
    <2>3. /\ \A x \in Tracked : worktree'[x] <= TrackedCount + changes'
          /\ \A n \in DOMAIN commits : \A x \in Tracked :
                commits[n][x] # Gone /\ commits[n][x] <= TrackedCount + changes'
          /\ changes' \in Nat
      BY <1>1, <1>w, <2>1 DEF Gone
    <2> HIDE DEF Most
    <2>4. ReleaseTypeOK'
      BY <1>1, <2>1, <2>2, <2>3 DEF ReleaseTypeOK
    <2> QED
      BY <1>1, <2>1, <2>2, <2>4, NotedKeeps DEF history, BackIsNoted
  <1> QED
    BY <1>2, <1>4, <1>5, <1>6, <1>7, <1>8 DEF Others

----------------------------------------------------------------------------
(* The packager's steps                                                    *)

\* What a packaging that goes on has to show of every conjunct that speaks of
\* any operation.
LEMMA GoesOnTyped ==
    ASSUME ReleaseInv, UNCHANGED checkout, DOMAIN packing' = Fields, packing'.op \in Ops,
           out' = [name \in DOMAIN out' |-> out'[name]], "sums" \notin DOMAIN out'
    PROVE  ReleaseTypeOK' /\ Summed'
  BY DEF ReleaseInv, ReleaseTypeOK, checkout, Summed

\* A question to git or to the tree comes before anything is written.
LEMMA AskKeeps ==
    ASSUME ReleaseInv, AskHead \/ AskTree \/ (AskTag /\ packing' # Resting)
                       \/ (AssessReadiness /\ packing' # Resting)
                       \/ (CheckStatus /\ packing' # Resting)
    PROVE  ReleaseInv'
  <1>1. /\ packing.op \in Asking /\ packing # Resting
        /\ UNCHANGED <<checkout, out>>
    BY OpOfResting
       DEF AskHead, AskTree, AskTag, AssessReadiness, CheckStatus, Asking, Goes, Raises
  <1>2. DOMAIN packing = Fields /\ head \in DOMAIN commits
    BY <1>1 DEF ReleaseInv, ReleaseTypeOK
  <1>3. DOMAIN out = {}
    BY <1>1 DEF ReleaseInv, Directory, Made, Making, Asking
  <1>4. /\ DOMAIN packing' = Fields
        /\ packing'.op \in {"head", "tree", "tag", "ready", "archive"}
        /\ packing'.a = packing.a /\ packing'.copied = packing.copied
    BY <1>2 DEF AskHead, AskTree, AskTag, AssessReadiness, CheckStatus, Goes, Raises, Fields
  <1>5. packing' # Resting
    BY <1>4 DEF Resting
  <1>6. ReleaseTypeOK' /\ Summed'
    BY <1>1, <1>3, <1>4, GoesOnTyped DEF Ops, Asking, Filling, ReleaseInv, ReleaseTypeOK
  <1>7. Directory'
    BY <1>1, <1>3, <1>4 DEF Directory, Made, Making, Asking
  <1>8. ArchivesFull'
    <2>1. packing.a = 1
      BY <1>1 DEF ReleaseInv, ArchivesFull
    <2>2. packing'.op = "archive" => packing'.todo = Paths(1)
      BY <1>2 DEF AskHead, AskTree, AskTag, AssessReadiness, CheckStatus, Goes, Raises, Fields
    <2>3. 1 \in DOMAIN Archives /\ Paths(1) # {}
      BY ReleaseFilesAssumption DEF Paths
    <2> QED
      BY <1>4, <2>1, <2>2, <2>3
         DEF ArchivesFull, Paths, Asking, Filling, Describing, Sealing
  <1>9. EvidenceCopied'
    BY <1>1, <1>4
       DEF ReleaseInv, EvidenceCopied, Written, Asking, Filling, Describing, Sealing
  <1>10. Described' /\ CommitDescribed' /\ ReportsShipped' /\ VerdictTaken'
    BY <1>4 DEF Described, CommitDescribed, ReportsShipped, VerdictTaken, Describing, Sealing
  <1>11. ReadsTracked'
    <2>1. \A f, v : CopiesAre(out', f, v) /\ HistoriesAre(out', v)
      BY <1>1, <1>3 DEF CopiesAre, HistoriesAre
    <2>2. /\ packing'.op \in {"tree", "tag", "ready", "archive"} =>
                packing'.commit \in DOMAIN commits
          /\ packing'.op = "head" => packing'.commit = 0
          /\ /\ packing'.op \in {"tag", "ready", "archive"}
             /\ head = packing'.commit /\ Git \notin undone'
             => packing'.tree = packing'.commit
      <3>1. CASE AskHead
        BY <1>2, <3>1 DEF AskHead, Fields, history
      <3>2. CASE AskTree
        BY <1>2, <3>2 DEF AskTree, Fields, ReleaseInv, ReadsTracked, Ops, Asking, history
      <3>3. CASE AskTag
        BY <1>2, <1>5, <3>3
           DEF AskTag, Goes, Raises, Fields, ReleaseInv, ReadsTracked, Ops, Asking, Reading,
               history
      <3>4. CASE AssessReadiness
        BY <1>2, <1>5, <3>4
           DEF AssessReadiness, Fields, ReleaseInv, ReadsTracked, Ops, Asking, Reading,
               history
      <3>5. CASE CheckStatus
        BY <1>2, <1>5, <3>5 DEF CheckStatus, Goes, Raises, Fields, ReleaseInv, ReadsTracked
      <3> QED
        BY <1>5, <3>1, <3>2, <3>3, <3>4, <3>5
    <2>3. head' = head /\ commits' = commits
      BY <1>1 DEF checkout
    <2> QED
      BY <1>4, <2>1, <2>2, <2>3
         DEF ReadsTracked, Ops, Asking, Filling, Describing, Sealing, Reading
  <1> QED
    BY <1>6, <1>7, <1>8, <1>9, <1>10, <1>11 DEF ReleaseInv

\* Writing one thing into the directory.
LEMMA WritingOne ==
    ASSUME NEW name, NEW v, Writes(name, v)
    PROVE  /\ DOMAIN out' = DOMAIN out \cup {name} /\ out'[name] = v
           /\ \A n \in DOMAIN out \ {name} : out'[n] = out[n]
           /\ out' = [n \in DOMAIN out' |-> out'[n]]
  BY DEF Writes, Put

LEMMA PuttingOne ==
    ASSUME NEW F, NEW x, NEW v
    PROVE  /\ DOMAIN Put(F, x, v) = DOMAIN F \cup {x} /\ Put(F, x, v)[x] = v
           /\ \A y \in DOMAIN F \ {x} : Put(F, x, v)[y] = F[y]
  BY DEF Put

\* A copy is an old one, or is taken of the working tree.
ReadNow(new, old, f) ==
    f \in DOMAIN new => \/ f \in DOMAIN old /\ new[f] = old[f]
                        \/ new[f] = worktree[f]

LEMMA FillingReads ==
    ASSUME ReleaseInv, UNCHANGED <<checkout, history>>,
           packing.op \in Filling, packing'.op \in Filling \cup {"manifest"},
           packing'.commit = packing.commit, packing'.tree = packing.tree,
           \A name \in ArchiveNames \cap DOMAIN out' : \A f \in Tracked :
               ReadNow(out'[name], Written(name), f),
           \A name \in Histories \cap DOMAIN out' :
               Git \in DOMAIN out'[name] =>
                   \/ Git \in DOMAIN Written(name) /\ out'[name][Git] = Written(name)[Git]
                   \/ out'[name][Git] = head,
           "publication" \in DOMAIN out' => \A f \in Tracked :
               ReadNow(out'["publication"].docs,
                       IF "publication" \in DOMAIN out THEN out["publication"].docs
                       ELSE Empty, f),
           "snapshots" \in DOMAIN out' => \A f \in Tracked :
               ReadNow(out'["snapshots"], Written("snapshots"), f),
           "plan" \in DOMAIN out' =>
               \/ "plan" \in DOMAIN out /\ out'["plan"] = out["plan"]
               \/ out'["plan"] = worktree[Candidate]
    PROVE  ReadsTracked' /\ CommitDescribed' /\ VerdictTaken'
  <1>1. head' = head /\ commits' = commits /\ worktree' = worktree /\ undone' = undone
    BY DEF checkout, history
  <1>2. /\ packing.op \in Reading /\ packing.op \in Ops \ {"status", "head"}
        /\ packing.op # "manifest-status" /\ packing.op # "tree"
        /\ packing'.op \in Reading /\ packing'.op # "manifest-status"
        /\ packing'.op \notin {"manifest-head", "tree", "status", "head", "checks"}
        /\ packing'.op \notin Sealing /\ packing'.op \notin {"receipt", "sums"}
    BY DEF Reading, Filling, Ops, Sealing
  <1>3. packing.commit \in DOMAIN commits
    BY <1>2 DEF ReleaseInv, ReadsTracked
  <1>4. SUFFICES /\ head = packing.commit /\ Git \notin undone =>
                        /\ packing'.tree = packing.commit
                        /\ HistoriesAre(out', packing.commit)
                 /\ \A f \in Tracked \ undone :
                        worktree[f] = commits[packing.commit][f] =>
                            CopiesAre(out', f, commits[packing.commit][f])
    BY <1>1, <1>2, <1>3 DEF ReadsTracked, CommitDescribed, VerdictTaken
  <1>5. /\ head = packing.commit /\ Git \notin undone =>
              packing.tree = packing.commit /\ HistoriesAre(out, packing.commit)
        /\ \A f \in Tracked \ undone : worktree[f] = commits[packing.commit][f] =>
              CopiesAre(out, f, commits[packing.commit][f])
    BY <1>2 DEF ReleaseInv, ReadsTracked
  <1>6. head = packing.commit /\ Git \notin undone => HistoriesAre(out', packing.commit)
    BY <1>5 DEF HistoriesAre, Written, Empty
  <1>7. ASSUME NEW f \in Tracked \ undone, worktree[f] = commits[packing.commit][f]
        PROVE  CopiesAre(out', f, commits[packing.commit][f])
    <2> DEFINE v == commits[packing.commit][f]
    <2>1. worktree[f] = v /\ CopiesAre(out, f, v)
      BY <1>5, <1>7
    <2> HIDE DEF v
    <2>2. ASSUME NEW name \in ArchiveNames \cap DOMAIN out', f \in DOMAIN out'[name]
          PROVE  out'[name][f] = v
      BY <2>1, <2>2 DEF CopiesAre, ReadNow, Written, Empty
    <2>3. "publication" \in DOMAIN out' /\ f \in DOMAIN out'["publication"].docs =>
              out'["publication"].docs[f] = v
      BY <2>1 DEF CopiesAre, ReadNow, Empty
    <2>4. "snapshots" \in DOMAIN out' /\ f \in DOMAIN out'["snapshots"] =>
              out'["snapshots"][f] = v
      BY <2>1 DEF CopiesAre, ReadNow, Written, Empty
    <2>5. "plan" \in DOMAIN out' /\ f = Candidate => out'["plan"] = v
      BY <2>1 DEF CopiesAre
    <2> QED
      BY <2>2, <2>3, <2>4, <2>5 DEF CopiesAre, v
  <1> QED
    BY <1>5, <1>6, <1>7

LEMMA NamesApart ==
    /\ ArchiveNames \cap PartNames = {} /\ Histories \subseteq ArchiveNames
    /\ 1 \in DOMAIN Archives /\ Len(Archives) \in Nat
    /\ DOMAIN Archives = 1 .. Len(Archives)
    /\ Published # {} /\ Git \notin Tracked
    /\ \A a \in DOMAIN Archives : /\ Paths(a) # {} /\ Paths(a) = PathsOf(Archives[a])
                                  /\ Archives[a] \in ArchiveNames
  <1>1. Len(Archives) \in Nat /\ DOMAIN Archives = 1 .. Len(Archives) /\ 1 \in DOMAIN Archives
    BY ReleaseFilesAssumption
  <1>2. Git \notin Tracked /\ Assurance \in Tracked
    BY ReleaseFilesAssumption DEF Git, Tracked
  <1> QED
    BY ReleaseFilesAssumption, <1>1, <1>2 DEF ArchiveNames, Paths, PathsOf



LEMMA ArchiveFileKeeps ==
    ASSUME ReleaseInv, ArchiveFile, packing' # Resting
    PROVE  ReleaseInv'
  <1> DEFINE p == Least(packing.todo)
             name == Archives[packing.a]
             rest == packing.todo \ {p}
             bytes == Bytes(packing.a, p)
  <1>1. /\ packing.op = "archive" /\ packing # Resting
        /\ UNCHANGED <<checkout, history>>
        /\ Writes(name, Put(Written(name), p, bytes))
        /\ \/ rest # {} /\ packing' = [packing EXCEPT !.todo = rest]
           \/ /\ rest = {} /\ packing.a < Len(Archives)
              /\ packing' = [packing EXCEPT !.a = @ + 1, !.todo = Paths(packing.a + 1)]
           \/ /\ rest = {} /\ ~(packing.a < Len(Archives))
              /\ packing' = [packing EXCEPT !.op = "audit", !.todo = {}]
    BY OpOfResting DEF ArchiveFile, Raises
  <1>2. /\ DOMAIN packing = Fields /\ packing.a \in 1 .. Len(Archives)
        /\ packing.todo \subseteq Paths(packing.a) /\ name \in ArchiveNames
        /\ \A j \in 1 .. (packing.a - 1) :
              Archives[j] \in DOMAIN out /\ Paths(j) \subseteq DOMAIN out[Archives[j]]
        /\ Paths(packing.a) \ packing.todo \subseteq DOMAIN Written(name)
        /\ DOMAIN out \subseteq ArchiveNames
    BY <1>1, NamesApart
       DEF ReleaseInv, ReleaseTypeOK, ArchivesFull, Directory, Made, Making, Asking
  <1> HIDE DEF p, name, rest, bytes
  <1>3. /\ DOMAIN out' = DOMAIN out \cup {name}
        /\ out'[name] = Put(Written(name), p, bytes)
        /\ \A n \in DOMAIN out \ {name} : out'[n] = out[n]
        /\ out' = [n \in DOMAIN out' |-> out'[n]]
    BY <1>1, WritingOne
  <1>4. /\ DOMAIN out'[name] = DOMAIN Written(name) \cup {p}
        /\ out'[name][p] = bytes
        /\ \A x \in DOMAIN Written(name) \ {p} : out'[name][x] = Written(name)[x]
    BY <1>3, PuttingOne
  <1>5. /\ DOMAIN packing' = Fields /\ packing'.op \in {"archive", "audit"}
        /\ packing'.copied = packing.copied /\ packing'.commit = packing.commit
        /\ packing'.tree = packing.tree
    BY <1>1, <1>2 DEF Fields
  <1>6. ReleaseTypeOK' /\ Summed'
    BY <1>1, <1>2, <1>3, <1>5, NamesApart, GoesOnTyped DEF Ops, Filling, PartNames
  <1>7. \A j \in 1 .. (packing.a - 1) :
            Archives[j] \in DOMAIN out' /\ Paths(j) \subseteq DOMAIN out'[Archives[j]]
    <2> SUFFICES ASSUME NEW j \in 1 .. (packing.a - 1)
                 PROVE  /\ Archives[j] \in DOMAIN out'
                        /\ Paths(j) \subseteq DOMAIN out'[Archives[j]]
      OBVIOUS
    <2>1. Archives[j] \in DOMAIN out /\ Paths(j) \subseteq DOMAIN out[Archives[j]]
      BY <1>2
    <2>2. CASE Archives[j] = name
      <3>1. Written(name) = out[name]
        BY <2>1, <2>2 DEF Written
      <3> QED
        BY <1>3, <1>4, <2>1, <2>2, <3>1
    <2>3. CASE Archives[j] # name
      BY <1>3, <2>1, <2>3
    <2> QED
      BY <2>2, <2>3
  <1>8. Paths(packing.a) \ rest \subseteq DOMAIN out'[name]
    BY <1>2, <1>4 DEF rest
  <1>9. rest = {} =>
            \A j \in 1 .. packing.a :
                Archives[j] \in DOMAIN out' /\ Paths(j) \subseteq DOMAIN out'[Archives[j]]
    BY <1>2, <1>3, <1>7, <1>8 DEF name
  <1>10. packing'.op = "audit" => \A n \in ArchiveNames :
            n \in DOMAIN out' /\ PathsOf(n) \subseteq DOMAIN out'[n]
    <2> SUFFICES ASSUME packing'.op = "audit", NEW n \in ArchiveNames
                 PROVE  n \in DOMAIN out' /\ PathsOf(n) \subseteq DOMAIN out'[n]
      OBVIOUS
    <2>0. rest = {} /\ ~(packing.a < Len(Archives))
      BY <1>1, <1>2 DEF Fields
    <2>1. rest = {} /\ packing.a = Len(Archives)
      BY <1>2, <2>0, NamesApart
    <2>2. PICK j \in 1 .. Len(Archives) : n = Archives[j]
      BY NamesApart DEF ArchiveNames
    <2> QED
      BY <1>9, <2>1, <2>2, NamesApart
  <1>11. Directory'
    BY <1>2, <1>3, <1>5, <1>10 DEF Directory, Made, Making, Asking
  <1>12. ArchivesFull'
    <2>1. CASE rest # {}
      <3>1. packing'.a = packing.a /\ packing'.todo = rest /\ packing'.op = "archive"
        BY <1>1, <1>2, <2>1 DEF Fields
      <3>2. \A n : n \in DOMAIN out' => Written(n)' = out'[n]
        BY DEF Written
      <3>3. name = Archives[packing.a] /\ rest \subseteq packing.todo /\ name \in DOMAIN out'
        BY <1>3 DEF name, rest
      <3> QED
        BY <1>2, <1>7, <1>8, <2>1, <3>1, <3>2, <3>3, NamesApart
           DEF ArchivesFull, Asking, Filling, Describing, Sealing, Paths
    <2>2. CASE rest = {} /\ packing.a < Len(Archives)
      <3>1. /\ packing'.a = packing.a + 1 /\ packing'.todo = Paths(packing.a + 1)
            /\ packing'.op = "archive"
        BY <1>1, <1>2, <2>2 DEF Fields
      <3>2. packing.a + 1 \in DOMAIN Archives /\ packing'.a - 1 = packing.a
        BY <1>2, <2>2, <3>1, NamesApart
      <3> QED
        BY <1>9, <2>2, <3>1, <3>2, NamesApart
           DEF ArchivesFull, Asking, Filling, Describing, Sealing, Paths
    <2>3. CASE rest = {} /\ ~(packing.a < Len(Archives))
      BY <1>1, <1>2, <1>10, <2>3 DEF ArchivesFull, Asking, Fields
    <2> QED
      BY <2>1, <2>2, <2>3
  <1>13. EvidenceCopied'
    <2>1. Written("reports")' = Written("reports") /\ "reports" \notin DOMAIN out
      BY <1>2, <1>3, NamesApart DEF Written, PartNames
    <2> QED
      BY <1>1, <1>5, <2>1
         DEF ReleaseInv, EvidenceCopied, Filling, Describing, Sealing
  <1>14. Described' /\ ReportsShipped'
    BY <1>5 DEF Described, ReportsShipped, Describing, Sealing
  <1>15. ReadsTracked' /\ CommitDescribed' /\ VerdictTaken'
    <2>1. "publication" \notin DOMAIN out' /\ "snapshots" \notin DOMAIN out'
          /\ "plan" \notin DOMAIN out'
      BY <1>2, <1>3, NamesApart DEF PartNames
    <2>2. ASSUME NEW n \in ArchiveNames \cap DOMAIN out', NEW f \in Tracked
          PROVE  ReadNow(out'[n], Written(n), f)
      <3>1. CASE n # name
        BY <1>3, <2>2, <3>1 DEF ReadNow, Written
      <3>2. CASE n = name /\ f = p
        BY <1>4, <3>2, NamesApart DEF ReadNow, bytes, Bytes
      <3>3. CASE n = name /\ f # p
        BY <1>4, <3>3 DEF ReadNow
      <3> QED
        BY <3>1, <3>2, <3>3
    <2>3. ASSUME NEW n \in Histories \cap DOMAIN out', Git \in DOMAIN out'[n]
          PROVE  \/ Git \in DOMAIN Written(n) /\ out'[n][Git] = Written(n)[Git]
                 \/ out'[n][Git] = head
      <3>1. CASE n # name
        BY <1>3, <2>3, <3>1 DEF Written
      <3>2. CASE n = name /\ Git = p
        <4>1. Git \in Paths(packing.a)
          BY <2>3, <3>2 DEF Paths, name
        <4> QED
          BY <1>4, <3>2, <4>1 DEF bytes, Bytes
      <3>3. CASE n = name /\ Git # p
        BY <1>4, <2>3, <3>3
      <3> QED
        BY <3>1, <3>2, <3>3
    <2>4. packing.op \in Filling /\ packing'.op \in Filling \cup {"manifest"}
      BY <1>1, <1>5 DEF Filling
    <2> QED
      BY <1>1, <1>5, <2>1, <2>2, <2>3, <2>4, FillingReads
  <1> QED
    BY <1>6, <1>11, <1>12, <1>13, <1>14, <1>15 DEF ReleaseInv

\* Once the archives are made, a step that fills in another part leaves them alone.
LEMMA LaterFilling ==
    ASSUME ReleaseInv, UNCHANGED <<checkout, history>>,
           packing.op \in Filling \ {"archive"},
           packing'.op \in (Filling \ {"archive"}) \cup {"manifest"},
           DOMAIN packing' = Fields,
           packing'.commit = packing.commit, packing'.tree = packing.tree,
           NEW name \in PartNames \ {"sums"},
           \A n \in DOMAIN out \ {name} : n \in DOMAIN out' /\ out'[n] = out[n],
           DOMAIN out' \subseteq DOMAIN out \cup {name},
           out' = [n \in DOMAIN out' |-> out'[n]],
           Made(packing'.op) \subseteq DOMAIN out',
           DOMAIN out' \subseteq Made(packing'.op) \cup Making(packing'.op),
           name = "publication" => \A f \in Tracked :
               ReadNow(out'["publication"].docs,
                       IF "publication" \in DOMAIN out THEN out["publication"].docs
                       ELSE Empty, f),
           name = "snapshots" /\ name \in DOMAIN out' => \A f \in Tracked :
               ReadNow(out'["snapshots"], Written("snapshots"), f),
           name = "plan" => out'["plan"] = worktree[Candidate]
    PROVE  /\ ReleaseTypeOK' /\ Summed' /\ Directory' /\ ArchivesFull'
           /\ ReadsTracked' /\ CommitDescribed' /\ VerdictTaken'
  <1>1. packing # Resting /\ packing.op \in Filling /\ packing'.op \in Filling \cup {"manifest"}
    BY OpOfResting DEF Filling
  <1>2. ReleaseTypeOK' /\ Summed'
    BY <1>1, NoSumsYet, GoesOnTyped DEF Ops, Describing
  <1>3. Directory'
    BY DEF Directory
  <1>4. ArchiveNames \subseteq DOMAIN out
    BY <1>1 DEF ReleaseInv, Directory, Made, Filling, Asking
  <1>5. \A n \in ArchiveNames : n \in DOMAIN out' /\ out'[n] = out[n]
    BY <1>4, NamesApart
  <1>6. ArchivesFull'
    BY <1>1, <1>5 DEF ReleaseInv, ArchivesFull, Filling, Asking
  <1>7. \A n \in ArchiveNames \cap DOMAIN out' : \A f \in Tracked :
            ReadNow(out'[n], Written(n), f)
    BY <1>4, <1>5 DEF ReadNow, Written
  <1>8. \A n \in Histories \cap DOMAIN out' : Git \in DOMAIN out'[n] =>
            Git \in DOMAIN Written(n) /\ out'[n][Git] = Written(n)[Git]
    BY <1>4, <1>5, NamesApart DEF Written
  <1>9. "publication" \in DOMAIN out' => \A f \in Tracked :
            ReadNow(out'["publication"].docs,
                    IF "publication" \in DOMAIN out THEN out["publication"].docs
                    ELSE Empty, f)
    BY DEF ReadNow
  <1>10. "snapshots" \in DOMAIN out' => \A f \in Tracked :
            ReadNow(out'["snapshots"], Written("snapshots"), f)
    BY DEF ReadNow, Written
  <1> QED
    BY <1>1, <1>2, <1>3, <1>6, <1>7, <1>8, <1>9, <1>10, FillingReads

LEMMA AuditKeeps ==
    ASSUME ReleaseInv, AuditEcosystem \/ (ValidateCandidate /\ packing' # Resting)
    PROVE  ReleaseInv'
  <1>1. /\ UNCHANGED <<checkout, history, out>> /\ packing.op \in {"audit", "candidate"}
        /\ packing # Resting
    BY OpOfResting DEF AuditEcosystem, ValidateCandidate
  <1>2. DOMAIN packing = Fields
    BY <1>1 DEF ReleaseInv, ReleaseTypeOK
  <1>3. /\ DOMAIN packing' = Fields
        /\ \/ packing.op = "audit" /\ packing'.op = "plan"
           \/ packing.op = "candidate" /\ packing'.op = "reports" /\ packing'.todo = Reports
        /\ packing'.commit = packing.commit /\ packing'.tree = packing.tree
        /\ packing'.copied = packing.copied
    BY <1>2 DEF AuditEcosystem, ValidateCandidate, Fields
  <1>4. /\ Made(packing'.op) = Made(packing.op) /\ Making(packing.op) \subseteq Making(packing'.op)
        /\ packing.op \in Filling \ {"archive"} /\ packing'.op \in Filling \ {"archive"}
    BY <1>3 DEF Made, Making, Filling, Asking
  <1>5. /\ out' = [n \in DOMAIN out' |-> out'[n]]
        /\ Made(packing'.op) \subseteq DOMAIN out'
        /\ DOMAIN out' \subseteq Made(packing'.op) \cup Making(packing'.op)
    BY <1>1, <1>4 DEF ReleaseInv, ReleaseTypeOK, Directory
  <1>6. /\ ReleaseTypeOK' /\ Summed' /\ Directory' /\ ArchivesFull'
        /\ ReadsTracked' /\ CommitDescribed' /\ VerdictTaken'
    BY <1>1, <1>3, <1>4, <1>5, LaterFilling DEF PartNames
  <1>7. "reports" \notin DOMAIN out
    BY <1>1, NamesApart DEF ReleaseInv, Directory, Made, Making, Asking, PartNames
  <1>8. packing.copied = {}
    BY <1>1, <1>7 DEF ReleaseInv, EvidenceCopied, Written, Empty
  <1>9. EvidenceCopied'
    BY <1>1, <1>3, <1>7, <1>8
       DEF EvidenceCopied, Written, Empty, Describing, Sealing
  <1>10. Described' /\ ReportsShipped'
    BY <1>3 DEF Described, ReportsShipped, Describing, Sealing
  <1> QED
    BY <1>6, <1>9, <1>10 DEF ReleaseInv

LEMMA PlanPilotKeeps ==
    ASSUME ReleaseInv, PlanPilot, packing' # Resting
    PROVE  ReleaseInv'
  <1>1. /\ UNCHANGED <<checkout, history>> /\ packing.op = "plan" /\ packing # Resting
        /\ packing' = [packing EXCEPT !.op = "candidate"]
        /\ Writes("plan", worktree[Candidate])
    BY OpOfResting DEF PlanPilot, Raises, Goes
  <1>2. /\ DOMAIN packing = Fields /\ DOMAIN out = ArchiveNames
    BY <1>1 DEF ReleaseInv, ReleaseTypeOK, Directory, Made, Making, Asking
  <1>3. /\ DOMAIN packing' = Fields /\ packing'.op = "candidate"
        /\ packing'.commit = packing.commit /\ packing'.tree = packing.tree
        /\ packing'.copied = packing.copied
    BY <1>1, <1>2 DEF Fields
  <1>4. /\ DOMAIN out' = DOMAIN out \cup {"plan"} /\ out'["plan"] = worktree[Candidate]
        /\ \A n \in DOMAIN out \ {"plan"} : out'[n] = out[n]
        /\ out' = [n \in DOMAIN out' |-> out'[n]]
    BY <1>1, WritingOne
  <1>5. /\ ReleaseTypeOK' /\ Summed' /\ Directory' /\ ArchivesFull'
        /\ ReadsTracked' /\ CommitDescribed' /\ VerdictTaken'
    <2>1. /\ Made("candidate") = ArchiveNames \cup {"plan"} /\ Making("candidate") = {}
          /\ "plan" \in PartNames \ {"sums"}
          /\ packing.op \in Filling \ {"archive"} /\ packing'.op \in Filling \ {"archive"}
      BY <1>1, <1>3 DEF Made, Making, Filling, Asking, PartNames
    <2> QED
      BY <1>1, <1>2, <1>3, <1>4, <2>1, LaterFilling
  <1>6. "reports" \notin DOMAIN out /\ "reports" \notin DOMAIN out'
    BY <1>2, <1>4, NamesApart DEF PartNames
  <1>7. EvidenceCopied'
    BY <1>1, <1>3, <1>6 DEF ReleaseInv, EvidenceCopied, Written, Describing, Sealing
  <1>8. Described' /\ ReportsShipped'
    BY <1>3 DEF Described, ReportsShipped, Describing, Sealing
  <1> QED
    BY <1>5, <1>7, <1>8 DEF ReleaseInv

LEMMA CopyReportKeeps ==
    ASSUME ReleaseInv, CopyReport
    PROVE  ReleaseInv'
  <1>1. /\ UNCHANGED <<checkout, history>> /\ packing.op = "reports" /\ packing # Resting
    BY OpOfResting DEF CopyReport
  <1>2. /\ DOMAIN packing = Fields
        /\ ArchiveNames \cup {"plan"} \subseteq DOMAIN out
        /\ DOMAIN out \subseteq ArchiveNames \cup {"plan", "reports"}
        /\ packing.todo \subseteq Reports \ packing.copied /\ packing.copied \subseteq Reports
        /\ Written("reports") = [r \in packing.copied |-> Written("reports")[r]]
        /\ \A r \in Reports \ rerun : r \notin packing.todo =>
              IF reports[r] = Nothing THEN r \notin packing.copied
              ELSE r \in packing.copied /\ out["reports"][r] = reports[r]
        /\ out = [n \in DOMAIN out |-> out[n]]
    BY <1>1 DEF ReleaseInv, ReleaseTypeOK, Directory, Made, Making, Asking, EvidenceCopied,
                ReportsShipped
  <1>3. reports' = reports /\ rerun' = rerun
    BY <1>1 DEF checkout, history
  <1>4. \A r \in packing.copied : "reports" \in DOMAIN out
    BY <1>2 DEF Written, Empty
  <1>m. /\ Made("reports") = ArchiveNames \cup {"plan"} /\ Making("reports") = {"reports"}
        /\ Made("snapshots") = ArchiveNames \cup {"plan", "reports"}
        /\ "reports" \in PartNames \ {"sums"} /\ packing.op \in Filling \ {"archive"}
        /\ {"reports", "snapshots"} \subseteq Filling \ {"archive"}
    BY <1>1 DEF Made, Making, Filling, Asking, PartNames
  <1>v. ASSUME packing'.op \in {"reports", "snapshots"}
        PROVE  Described'
    BY <1>v DEF Described, Describing, Sealing
  <1>5. CASE packing.todo = {}
    <2>1. /\ packing' = [packing EXCEPT !.op = "snapshots", !.todo = Snapshots]
          /\ Writes("reports", Written("reports"))
      BY <1>5 DEF CopyReport
    <2>2. /\ DOMAIN packing' = Fields /\ packing'.op = "snapshots"
          /\ packing'.commit = packing.commit /\ packing'.tree = packing.tree
          /\ packing'.copied = packing.copied /\ packing'.todo = Snapshots
      BY <1>2, <2>1 DEF Fields
    <2>3. /\ DOMAIN out' = DOMAIN out \cup {"reports"} /\ out'["reports"] = Written("reports")
          /\ \A n \in DOMAIN out \ {"reports"} : out'[n] = out[n]
          /\ out' = [n \in DOMAIN out' |-> out'[n]]
      BY <2>1, WritingOne
    <2>4. /\ ReleaseTypeOK' /\ Summed' /\ Directory' /\ ArchivesFull'
          /\ ReadsTracked' /\ CommitDescribed' /\ VerdictTaken'
      BY <1>1, <1>2, <1>m, <2>2, <2>3, LaterFilling
    <2>5. Written("reports")' = Written("reports")
      BY <2>3 DEF Written
    <2>6. EvidenceCopied'
      BY <1>2, <2>2, <2>5 DEF EvidenceCopied, Describing, Sealing
    <2>7. ReportsShipped'
      BY <1>2, <1>3, <1>4, <1>5, <2>2, <2>3 DEF ReportsShipped, Written
    <2> QED
      BY <1>v, <2>2, <2>4, <2>6, <2>7 DEF ReleaseInv
  <1>6. ASSUME NEW q \in packing.todo, reports[q] = Nothing, UNCHANGED out,
               packing' = [packing EXCEPT !.todo = @ \ {q}]
        PROVE  ReleaseInv'
    <2>2. /\ DOMAIN packing' = Fields /\ packing'.op = "reports"
          /\ packing'.commit = packing.commit /\ packing'.tree = packing.tree
          /\ packing'.copied = packing.copied /\ packing'.todo = packing.todo \ {q}
      BY <1>1, <1>2, <1>6 DEF Fields
    <2>4. /\ ReleaseTypeOK' /\ Summed' /\ Directory' /\ ArchivesFull'
          /\ ReadsTracked' /\ CommitDescribed' /\ VerdictTaken'
      BY <1>1, <1>2, <1>6, <1>m, <2>2, LaterFilling
    <2>6. EvidenceCopied'
      BY <1>2, <1>6, <2>2 DEF EvidenceCopied, Written, Describing, Sealing
    <2>7. ReportsShipped'
      BY <1>2, <1>3, <1>6, <2>2 DEF ReportsShipped
    <2> QED
      BY <1>v, <2>2, <2>4, <2>6, <2>7 DEF ReleaseInv
  <1>7. ASSUME NEW q \in packing.todo, reports[q] # Nothing,
               packing' = [packing EXCEPT !.todo = @ \ {q}, !.copied = @ \cup {q}],
               Writes("reports", Put(Written("reports"), q, reports[q]))
        PROVE  ReleaseInv'
    <2>2. /\ DOMAIN packing' = Fields /\ packing'.op = "reports"
          /\ packing'.commit = packing.commit /\ packing'.tree = packing.tree
          /\ packing'.copied = packing.copied \cup {q} /\ packing'.todo = packing.todo \ {q}
      BY <1>1, <1>2, <1>7 DEF Fields
    <2> DEFINE new == Put(Written("reports"), q, reports[q])
    <2>0. /\ DOMAIN new = DOMAIN Written("reports") \cup {q} /\ new[q] = reports[q]
          /\ \A y \in DOMAIN Written("reports") \ {q} : new[y] = Written("reports")[y]
      BY DEF Put
    <2>1. new = [r \in packing.copied \cup {q} |-> new[r]]
      <3>1. DOMAIN Written("reports") = packing.copied
        BY <1>2
      <3> QED
        BY <3>1 DEF Put
    <2> HIDE DEF new
    <2>3. /\ DOMAIN out' = DOMAIN out \cup {"reports"} /\ out'["reports"] = new
          /\ \A n \in DOMAIN out \ {"reports"} : out'[n] = out[n]
          /\ out' = [n \in DOMAIN out' |-> out'[n]]
      BY <1>7, WritingOne DEF new
    <2>4. /\ ReleaseTypeOK' /\ Summed' /\ Directory' /\ ArchivesFull'
          /\ ReadsTracked' /\ CommitDescribed' /\ VerdictTaken'
      BY <1>1, <1>2, <1>m, <2>2, <2>3, LaterFilling
    <2>5. Written("reports")' = new
      BY <2>3 DEF Written
    <2>6. EvidenceCopied'
      BY <1>2, <1>7, <2>1, <2>2, <2>5 DEF EvidenceCopied, Describing, Sealing
    <2>7. ReportsShipped'
      <3>1. \A r \in packing.copied : r # q =>
                new[r] = out["reports"][r]
        BY <1>2, <1>4, <2>0 DEF Written
      <3> QED
        BY <1>2, <1>3, <1>7, <2>0, <2>2, <2>3, <3>1 DEF ReportsShipped
    <2> QED
      BY <1>v, <2>2, <2>4, <2>6, <2>7 DEF ReleaseInv
  <1> QED
    BY <1>5, <1>6, <1>7 DEF CopyReport

LEMMA CopySnapshotKeeps ==
    ASSUME ReleaseInv, CopySnapshot
    PROVE  ReleaseInv'
  <1>1. /\ UNCHANGED <<checkout, history>> /\ packing.op = "snapshots" /\ packing # Resting
    BY OpOfResting DEF CopySnapshot
  <1>2. /\ DOMAIN packing = Fields
        /\ ArchiveNames \cup {"plan", "reports"} \subseteq DOMAIN out
        /\ DOMAIN out \subseteq ArchiveNames \cup {"plan", "reports", "snapshots"}
        /\ packing.todo \subseteq Snapshots /\ packing.copied \subseteq Reports
        /\ out["reports"] = [r \in packing.copied |-> out["reports"][r]]
        /\ \A r \in Reports \ rerun :
              IF reports[r] = Nothing THEN r \notin packing.copied
              ELSE r \in packing.copied /\ out["reports"][r] = reports[r]
        /\ out = [n \in DOMAIN out |-> out[n]]
    BY <1>1 DEF ReleaseInv, ReleaseTypeOK, Directory, Made, Making, Asking, EvidenceCopied,
                ReportsShipped, Written
  <1>3. reports' = reports /\ rerun' = rerun
    BY <1>1 DEF checkout, history
  <1>m. /\ Made("snapshots") = ArchiveNames \cup {"plan", "reports"}
        /\ Making("snapshots") = {"snapshots"} /\ Making("clone") = {}
        /\ Made("clone") = ArchiveNames \cup {"plan", "reports", "snapshots"}
        /\ "snapshots" \in PartNames \ {"sums"} /\ packing.op \in Filling \ {"archive"}
        /\ {"clone", "snapshots"} \subseteq Filling \ {"archive"}
    BY <1>1 DEF Made, Making, Filling, Asking, PartNames
  <1>5. PICK f : \/ /\ packing' = [packing EXCEPT !.op = "clone"]
                    /\ Writes("snapshots", Written("snapshots"))
                 \/ /\ packing' = [packing EXCEPT !.todo = @ \ {f}]
                    /\ \/ UNCHANGED out
                       \/ Writes("snapshots", Put(Written("snapshots"), f, worktree[f]))
    BY DEF CopySnapshot, Goes
  <1>6. /\ DOMAIN packing' = Fields
        /\ packing'.commit = packing.commit /\ packing'.tree = packing.tree
        /\ packing'.copied = packing.copied
        /\ \/ packing'.op = "clone"
           \/ packing'.op = "snapshots" /\ packing'.todo \subseteq Snapshots
    BY <1>1, <1>2, <1>5 DEF Fields
  <1>7. /\ \A n \in DOMAIN out \ {"snapshots"} : n \in DOMAIN out' /\ out'[n] = out[n]
        /\ DOMAIN out' \subseteq DOMAIN out \cup {"snapshots"}
        /\ out' = [n \in DOMAIN out' |-> out'[n]]
        /\ packing'.op = "clone" => "snapshots" \in DOMAIN out'
    <2>1. CASE UNCHANGED out /\ packing' = [packing EXCEPT !.todo = @ \ {f}]
      BY <1>1, <1>2, <2>1 DEF Fields
    <2>2. CASE \E v : Writes("snapshots", v)
      BY <2>2, WritingOne
    <2> QED
      BY <1>5, <2>1, <2>2
  <1>8. \A x \in Tracked : "snapshots" \in DOMAIN out' =>
            ReadNow(out'["snapshots"], Written("snapshots"), x)
    <2>1. CASE UNCHANGED out
      BY <2>1 DEF ReadNow, Written
    <2>2. CASE Writes("snapshots", Written("snapshots"))
      BY <2>2, WritingOne DEF ReadNow
    <2>3. CASE Writes("snapshots", Put(Written("snapshots"), f, worktree[f]))
      <3> DEFINE new == Put(Written("snapshots"), f, worktree[f])
      <3>1. /\ DOMAIN new = DOMAIN Written("snapshots") \cup {f} /\ new[f] = worktree[f]
            /\ \A y \in DOMAIN Written("snapshots") \ {f} : new[y] = Written("snapshots")[y]
        BY DEF Put
      <3> HIDE DEF new
      <3>2. out'["snapshots"] = new
        BY <2>3, WritingOne DEF new
      <3> QED
        BY <3>1, <3>2 DEF ReadNow
    <2> QED
      BY <1>5, <2>1, <2>2, <2>3
  <1>9. /\ ReleaseTypeOK' /\ Summed' /\ Directory' /\ ArchivesFull'
        /\ ReadsTracked' /\ CommitDescribed' /\ VerdictTaken'
    <2>1. /\ Made(packing'.op) \subseteq DOMAIN out'
          /\ DOMAIN out' \subseteq Made(packing'.op) \cup Making(packing'.op)
          /\ packing'.op \in Filling \ {"archive"}
      BY <1>1, <1>2, <1>6, <1>7, <1>m, NamesApart DEF PartNames
    <2>2. "snapshots" # "publication" /\ "snapshots" # "plan"
      OBVIOUS
    <2> QED
      BY <1>1, <1>2, <1>6, <1>7, <1>8, <1>m, <2>1, <2>2, LaterFilling
  <1>10. EvidenceCopied'
    BY <1>2, <1>6, <1>7 DEF EvidenceCopied, Written, Describing, Sealing
  <1>11. Described' /\ ReportsShipped'
    BY <1>2, <1>3, <1>6, <1>7 DEF Described, ReportsShipped, Describing, Sealing
  <1> QED
    BY <1>9, <1>10, <1>11 DEF ReleaseInv

LEMMA CopyCloneKeeps ==
    ASSUME ReleaseInv, CopyClone
    PROVE  ReleaseInv'
  <1>1. /\ UNCHANGED <<checkout, history>> /\ packing.op = "clone" /\ packing # Resting
        /\ packing' = [packing EXCEPT !.op = "publish", !.todo = Published]
        /\ Writes("clone", clone)
    BY OpOfResting DEF CopyClone
  <1>2. /\ DOMAIN packing = Fields
        /\ DOMAIN out = ArchiveNames \cup {"plan", "reports", "snapshots"}
        /\ packing.copied \subseteq Reports
        /\ out["reports"] = [r \in packing.copied |-> out["reports"][r]]
        /\ \A r \in Reports \ rerun :
              IF reports[r] = Nothing THEN r \notin packing.copied
              ELSE r \in packing.copied /\ out["reports"][r] = reports[r]
    BY <1>1 DEF ReleaseInv, ReleaseTypeOK, Directory, Made, Making, Asking, EvidenceCopied,
                ReportsShipped, Written
  <1>3. reports' = reports /\ rerun' = rerun
    BY <1>1 DEF checkout, history
  <1>4. /\ DOMAIN packing' = Fields
        /\ packing'.commit = packing.commit /\ packing'.tree = packing.tree
        /\ packing'.copied = packing.copied
        /\ packing'.op = "publish" /\ packing'.todo = Published
    BY <1>1, <1>2 DEF Fields
  <1>5. /\ DOMAIN out' = DOMAIN out \cup {"clone"}
        /\ \A n \in DOMAIN out \ {"clone"} : out'[n] = out[n]
        /\ out' = [n \in DOMAIN out' |-> out'[n]]
    BY <1>1, WritingOne
  <1>6. /\ Made("publish") = ArchiveNames \cup {"plan", "reports", "snapshots", "clone"}
        /\ Making("publish") = {"publication"}
        /\ "clone" \in PartNames \ {"sums"} /\ packing.op \in Filling \ {"archive"}
        /\ packing'.op \in Filling \ {"archive"}
    BY <1>1, <1>4 DEF Made, Making, Filling, Asking, PartNames
  <1>9. /\ ReleaseTypeOK' /\ Summed' /\ Directory' /\ ArchivesFull'
        /\ ReadsTracked' /\ CommitDescribed' /\ VerdictTaken'
    BY <1>1, <1>2, <1>4, <1>5, <1>6, LaterFilling
  <1>10. EvidenceCopied'
    <2>1. "publication" \notin DOMAIN out'
      BY <1>2, <1>5, NamesApart DEF PartNames
    <2> QED
      BY <1>2, <1>4, <1>5, <2>1 DEF EvidenceCopied, Written, Describing, Sealing
  <1>11. Described' /\ ReportsShipped'
    BY <1>2, <1>3, <1>4, <1>5 DEF Described, ReportsShipped, Describing, Sealing
  <1> QED
    BY <1>9, <1>10, <1>11 DEF ReleaseInv

LEMMA PublishFileKeeps ==
    ASSUME ReleaseInv, PublishFile, packing' # Resting
    PROVE  ReleaseInv'
  <1> DEFINE f == Least(packing.todo)
             docs == IF "publication" \in DOMAIN out THEN out["publication"].docs ELSE Empty
             new == Put(docs, f, worktree[f])
             bundle == [docs |-> new, reports |-> Empty, snapshots |-> Empty, clone |-> 0]
  <1>1. /\ UNCHANGED <<checkout, history>> /\ packing.op = "publish" /\ packing # Resting
        /\ packing' = [packing EXCEPT !.todo = @ \ {f}]
        /\ Writes("publication", bundle)
    BY OpOfResting DEF PublishFile, Raises
  <1>n. /\ DOMAIN new = DOMAIN docs \cup {f} /\ new[f] = worktree[f]
        /\ \A y \in DOMAIN docs \ {f} : new[y] = docs[y]
    BY DEF Put
  <1>b. /\ bundle.docs = new
        /\ DOMAIN bundle = {"docs", "reports", "snapshots", "clone"}
    OBVIOUS
  <1>d. "publication" \in DOMAIN out => docs = out["publication"].docs
    OBVIOUS
  <1> HIDE DEF f, docs, new, bundle
  <1>2. /\ DOMAIN packing = Fields
        /\ ArchiveNames \cup {"plan", "reports", "snapshots", "clone"} \subseteq DOMAIN out
        /\ DOMAIN out \subseteq ArchiveNames \cup {"plan", "reports", "snapshots", "clone"}
                                \cup {"publication"}
        /\ packing.copied \subseteq Reports /\ packing.todo \subseteq Published
        /\ packing.todo # Published =>
              "publication" \in DOMAIN out /\ Published \ packing.todo \subseteq DOMAIN docs
        /\ out["reports"] = [r \in packing.copied |-> out["reports"][r]]
        /\ \A r \in Reports \ rerun :
              IF reports[r] = Nothing THEN r \notin packing.copied
              ELSE r \in packing.copied /\ out["reports"][r] = reports[r]
    BY <1>1, <1>d DEF ReleaseInv, ReleaseTypeOK, Directory, Made, Making, Asking,
                EvidenceCopied, ReportsShipped, Written
  <1>3. reports' = reports /\ rerun' = rerun
    BY <1>1 DEF checkout, history
  <1>4. /\ DOMAIN packing' = Fields
        /\ packing'.commit = packing.commit /\ packing'.tree = packing.tree
        /\ packing'.copied = packing.copied
        /\ packing'.op = "publish" /\ packing'.todo = packing.todo \ {f}
    BY <1>1, <1>2 DEF Fields
  <1>5. /\ DOMAIN out' = DOMAIN out \cup {"publication"} /\ out'["publication"] = bundle
        /\ \A n \in DOMAIN out \ {"publication"} : out'[n] = out[n]
        /\ out' = [n \in DOMAIN out' |-> out'[n]]
    BY <1>1, WritingOne
  <1>6. /\ Made("publish") = ArchiveNames \cup {"plan", "reports", "snapshots", "clone"}
        /\ Making("publish") = {"publication"}
        /\ "publication" \in PartNames \ {"sums"} /\ packing.op \in Filling \ {"archive"}
        /\ packing'.op \in Filling \ {"archive"}
        /\ "publication" # "snapshots" /\ "publication" # "plan"
    BY <1>1, <1>4 DEF Made, Making, Filling, Asking, PartNames
  <1>7. \A x \in Tracked : ReadNow(out'["publication"].docs, docs, x)
    BY <1>n, <1>b, <1>5 DEF ReadNow
  <1>9. /\ ReleaseTypeOK' /\ Summed' /\ Directory' /\ ArchivesFull'
        /\ ReadsTracked' /\ CommitDescribed' /\ VerdictTaken'
    BY <1>1, <1>2, <1>4, <1>5, <1>6, <1>7, LaterFilling DEF docs
  <1>10. EvidenceCopied'
    <2>1. Published \ packing'.todo \subseteq DOMAIN new
      BY <1>n, <1>2, <1>4
    <2> QED
      BY <1>2, <1>4, <1>5, <1>b, <2>1 DEF EvidenceCopied, Written, Describing, Sealing
  <1>11. Described' /\ ReportsShipped'
    BY <1>2, <1>3, <1>4, <1>5 DEF Described, ReportsShipped, Describing, Sealing
  <1> QED
    BY <1>9, <1>10, <1>11 DEF ReleaseInv

LEMMA AttachEvidenceKeeps ==
    ASSUME ReleaseInv, AttachEvidence
    PROVE  ReleaseInv'
  <1> DEFINE old == out["publication"]
             copies == [r \in packing.copied |-> out["reports"][r]]
             bundle == [old EXCEPT !.reports = copies, !.snapshots = out["snapshots"],
                                   !.clone = out["clone"]]
  <1>1. /\ UNCHANGED <<checkout, history>> /\ packing.op = "publish" /\ packing # Resting
        /\ packing.todo = {} /\ packing' = [packing EXCEPT !.op = "manifest"]
        /\ Writes("publication", bundle)
    BY OpOfResting DEF AttachEvidence, Goes
  <1>2. /\ DOMAIN packing = Fields
        /\ DOMAIN out = ArchiveNames \cup {"plan", "reports", "snapshots", "clone"}
                            \cup {"publication"}
        /\ packing.copied \subseteq Reports
        /\ DOMAIN old = {"docs", "reports", "snapshots", "clone"}
        /\ Published \subseteq DOMAIN old.docs
        /\ out["reports"] = copies
        /\ \A r \in Reports \ rerun :
              IF reports[r] = Nothing THEN r \notin packing.copied
              ELSE r \in packing.copied /\ out["reports"][r] = reports[r]
    <2>1. "publication" \in DOMAIN out
      BY <1>1, NamesApart DEF ReleaseInv, EvidenceCopied
    <2>2. DOMAIN out = ArchiveNames \cup {"plan", "reports", "snapshots", "clone"}
                           \cup {"publication"}
      BY <1>1, <2>1 DEF ReleaseInv, Directory, Made, Making, Asking
    <2>3. /\ DOMAIN old = {"docs", "reports", "snapshots", "clone"}
          /\ Published \subseteq DOMAIN old.docs
      BY <1>1, <2>1, NamesApart DEF ReleaseInv, EvidenceCopied
    <2>4. packing.copied \subseteq Reports /\ out["reports"] = copies
      BY <1>1, <2>2 DEF ReleaseInv, EvidenceCopied, Written
    <2> QED
      BY <1>1, <2>2, <2>3, <2>4 DEF ReleaseInv, ReleaseTypeOK, ReportsShipped
  <1>b. /\ bundle.docs = old.docs /\ bundle.reports = copies
        /\ bundle.snapshots = out["snapshots"] /\ bundle.clone = out["clone"]
    BY <1>2
  <1> HIDE DEF old, copies, bundle
  <1>3. reports' = reports /\ rerun' = rerun
    BY <1>1 DEF checkout, history
  <1>4. /\ DOMAIN packing' = Fields
        /\ packing'.commit = packing.commit /\ packing'.tree = packing.tree
        /\ packing'.copied = packing.copied /\ packing'.op = "manifest"
    BY <1>1, <1>2 DEF Fields
  <1>5. /\ DOMAIN out' = DOMAIN out /\ out'["publication"] = bundle
        /\ \A n \in DOMAIN out \ {"publication"} : out'[n] = out[n]
        /\ out' = [n \in DOMAIN out' |-> out'[n]]
    BY <1>1, <1>2, WritingOne
  <1>6. /\ Made("manifest") = ArchiveNames \cup {"plan", "reports", "snapshots", "clone"}
                                 \cup {"publication"}
        /\ Making("manifest") = {}
        /\ "publication" \in PartNames \ {"sums"} /\ packing.op \in Filling \ {"archive"}
        /\ "publication" # "snapshots" /\ "publication" # "plan"
    BY <1>1 DEF Made, Making, Filling, Asking, PartNames, Sealing
  <1>7. \A x \in Tracked : ReadNow(out'["publication"].docs, out["publication"].docs, x)
    BY <1>b, <1>5 DEF ReadNow, old
  <1>9. /\ ReleaseTypeOK' /\ Summed' /\ Directory' /\ ArchivesFull'
        /\ ReadsTracked' /\ CommitDescribed' /\ VerdictTaken'
    BY <1>1, <1>2, <1>4, <1>5, <1>6, <1>7, LaterFilling
  <1>10. EvidenceCopied'
    <2>1. out'["reports"] = copies
      BY <1>2, <1>5
    <2>2. copies = [r \in packing.copied |-> copies[r]]
      BY DEF copies
    <2> QED
      BY <1>2, <1>4, <1>5, <1>b, <2>1, <2>2 DEF EvidenceCopied, Written
  <1>11. Described'
    BY <1>2, <1>4, <1>5, <1>b DEF Described, Bundled, Sealing
  <1>12. ReportsShipped'
    BY <1>2, <1>3, <1>4, <1>5 DEF ReportsShipped
  <1> QED
    BY <1>9, <1>10, <1>11, <1>12 DEF ReleaseInv

\* Once everything is filled in, a step adds a document and leaves the rest alone.
ReleaseDocuments == {"manifest", "verification", "receipt"}

LEMMA LaterDescribing ==
    ASSUME ReleaseInv, UNCHANGED <<checkout, history>>,
           packing.op \in Describing \cup Sealing, packing'.op \in Describing \cup Sealing,
           packing'.op \notin {"receipt", "sums"} => packing.op \notin {"receipt", "sums"},
           DOMAIN packing' = Fields, packing'.copied = packing.copied,
           NEW name \in ReleaseDocuments, name \notin DOMAIN out,
           \A n \in DOMAIN out : n \in DOMAIN out' /\ out'[n] = out[n],
           DOMAIN out' \subseteq DOMAIN out \cup {name},
           out' = [n \in DOMAIN out' |-> out'[n]],
           Made(packing'.op) = DOMAIN out'
    PROVE  /\ ReleaseTypeOK' /\ Summed' /\ Directory' /\ ArchivesFull'
           /\ EvidenceCopied' /\ ReportsShipped' /\ Bundled(out) /\ Bundled(out')
           /\ \A f, v : CopiesAre(out, f, v) => CopiesAre(out', f, v)
           /\ \A v : HistoriesAre(out, v) => HistoriesAre(out', v)
  <1>1. packing # Resting /\ packing' # Resting
    BY OpOfResting DEF Describing, Sealing, Resting
  <1>2. ReleaseTypeOK' /\ Summed'
    <2>1. "sums" \notin DOMAIN out'
      BY <1>1, NoSumsYet DEF ReleaseDocuments
    <2> QED
      BY <1>1, <2>1, GoesOnTyped DEF Ops
  <1>3. Directory'
    BY DEF Directory
  <1>4. ArchiveNames \cup {"plan", "reports", "snapshots", "clone", "publication"}
            \subseteq DOMAIN out
    BY <1>1 DEF ReleaseInv, Directory, Made, Describing, Sealing, Asking
  <1>5. name \notin ArchiveNames /\ name \notin {"plan", "snapshots", "publication"}
    BY <1>4
  <1>6. ArchivesFull'
    BY <1>4 DEF ReleaseInv, ArchivesFull, Describing, Sealing, Asking, Filling
  <1>7. EvidenceCopied'
    BY <1>1, <1>4 DEF ReleaseInv, EvidenceCopied, Written, Describing, Sealing
  <1>8. ReportsShipped'
    BY <1>4 DEF ReleaseInv, ReportsShipped, Describing, Sealing, checkout, history
  <1>9. Bundled(out) /\ Bundled(out')
    BY <1>4 DEF ReleaseInv, Described, Bundled
  <1>10. \A f, v : CopiesAre(out, f, v) => CopiesAre(out', f, v)
    BY <1>4, <1>5 DEF CopiesAre
  <1>11. \A v : HistoriesAre(out, v) => HistoriesAre(out', v)
    BY <1>4, NamesApart DEF HistoriesAre
  <1> QED
    BY <1>2, <1>3, <1>6, <1>7, <1>8, <1>9, <1>10, <1>11

LEMMA OpenManifestKeeps ==
    ASSUME ReleaseInv, OpenManifest, packing' # Resting
    PROVE  ReleaseInv'
  <1> DEFINE draft == [ready |-> Ready, key |-> worktree[Assurance],
                       artifacts |-> Part({"plan", "publication", "clone",
                                           "reports", "snapshots"})]
  <1>1. /\ UNCHANGED <<checkout, history, out>> /\ packing.op = "manifest"
        /\ packing # Resting
        /\ packing' = [packing EXCEPT !.op = "manifest-head", !.draft = draft]
    BY OpOfResting DEF OpenManifest
  <1>d. draft.key = worktree[Assurance] /\ draft.artifacts = PartOf(out, ManifestParts)
    BY DEF Part, PartOf, ManifestParts
  <1> HIDE DEF draft
  <1>2. DOMAIN packing = Fields /\ DOMAIN out = Made("manifest")
    <2>1. Making("manifest") = {}
      BY DEF Making
    <2> QED
      BY <1>1, <2>1 DEF ReleaseInv, ReleaseTypeOK, Directory
  <1>3. /\ DOMAIN packing' = Fields /\ packing'.op = "manifest-head"
        /\ packing'.commit = packing.commit /\ packing'.tree = packing.tree
        /\ packing'.copied = packing.copied /\ packing'.draft = draft
    BY <1>1, <1>2 DEF Fields
  <1>4. /\ ReleaseTypeOK' /\ Summed' /\ Directory' /\ ArchivesFull'
        /\ EvidenceCopied' /\ ReportsShipped' /\ Bundled(out')
    <2>1. "manifest" \in ReleaseDocuments /\ "manifest" \notin DOMAIN out
      BY <1>2, NamesApart DEF ReleaseDocuments, Made, Asking, PartNames, Sealing
    <2>2. Made("manifest-head") = Made("manifest") /\ packing.op \in Describing
          /\ packing'.op \in Describing
      BY <1>1, <1>3 DEF Made, Asking, Describing, Sealing
    <2>3. out' = [n \in DOMAIN out' |-> out'[n]]
      BY <1>1 DEF ReleaseInv, ReleaseTypeOK
    <2> QED
      BY <1>1, <1>2, <1>3, <2>1, <2>2, <2>3, LaterDescribing
  <1>5. Described' /\ CommitDescribed' /\ VerdictTaken'
    BY <1>1, <1>3, <1>4, <1>d
       DEF Described, CommitDescribed, VerdictTaken, PartOf, Describing, Sealing
  <1>6. ReadsTracked'
    <2>1. head' = head /\ commits' = commits /\ worktree' = worktree /\ undone' = undone
      BY <1>1 DEF checkout, history
    <2>2. /\ packing.op \in Ops \ {"status", "head"} /\ packing.op \in Reading
          /\ packing.op \notin {"tree", "manifest-head", "manifest-status"}
          /\ packing'.op \notin {"tree", "manifest-status", "status", "head"}
      BY <1>1, <1>3 DEF Reading, Ops, Describing
    <2>3. /\ packing.commit \in DOMAIN commits
          /\ head = packing.commit /\ Git \notin undone =>
                packing.tree = packing.commit /\ HistoriesAre(out, packing.commit)
          /\ \A f \in Tracked \ undone : worktree[f] = commits[packing.commit][f] =>
                CopiesAre(out, f, commits[packing.commit][f])
      BY <2>2 DEF ReleaseInv, ReadsTracked
    <2> QED
      BY <1>1, <1>3, <1>d, <2>1, <2>2, <2>3 DEF ReadsTracked
  <1> QED
    BY <1>4, <1>5, <1>6 DEF ReleaseInv

LEMMA ManifestHeadKeeps ==
    ASSUME ReleaseInv, ManifestHead
    PROVE  ReleaseInv'
  <1> DEFINE draft == [commit |-> head, ready |-> packing.draft.ready,
                       key |-> packing.draft.key, artifacts |-> packing.draft.artifacts]
  <1>1. /\ UNCHANGED <<checkout, history, out>> /\ packing.op = "manifest-head"
        /\ packing # Resting
    BY OpOfResting DEF ManifestHead
  <1>2. DOMAIN packing = Fields /\ DOMAIN out = Made("manifest-head")
    <2>1. Making("manifest-head") = {}
      BY DEF Making
    <2> QED
      BY <1>1, <2>1 DEF ReleaseInv, ReleaseTypeOK, Directory
  <1>0. packing' = [packing EXCEPT !.op = "manifest-status", !.draft = draft]
    BY <1>2 DEF ManifestHead, Fields
  <1>d. /\ draft.commit = head /\ draft.key = packing.draft.key
        /\ draft.artifacts = packing.draft.artifacts
    OBVIOUS
  <1> HIDE DEF draft
  <1>3. /\ DOMAIN packing' = Fields /\ packing'.op = "manifest-status"
        /\ packing'.commit = packing.commit /\ packing'.tree = packing.tree
        /\ packing'.copied = packing.copied /\ packing'.draft = draft
    BY <1>0, <1>2 DEF Fields
  <1>4. /\ ReleaseTypeOK' /\ Summed' /\ Directory' /\ ArchivesFull'
        /\ EvidenceCopied' /\ ReportsShipped' /\ Bundled(out')
    <2>1. "manifest" \in ReleaseDocuments /\ "manifest" \notin DOMAIN out
      BY <1>2, NamesApart DEF ReleaseDocuments, Made, Asking, PartNames, Sealing
    <2>2. Made("manifest-head") = Made("manifest-status") /\ packing.op \in Describing
          /\ packing'.op \in Describing
      BY <1>1, <1>3 DEF Made, Asking, Describing, Sealing
    <2>3. out' = [n \in DOMAIN out' |-> out'[n]]
      BY <1>1 DEF ReleaseInv, ReleaseTypeOK
    <2> QED
      BY <1>1, <1>2, <1>3, <2>1, <2>2, <2>3, LaterDescribing
  <1>5. Described' /\ CommitDescribed' /\ VerdictTaken'
    BY <1>1, <1>3, <1>4, <1>d
       DEF ReleaseInv, Described, CommitDescribed, VerdictTaken, PartOf, Describing, Sealing
  <1>6. ReadsTracked'
    <2>1. head' = head /\ commits' = commits /\ worktree' = worktree /\ undone' = undone
      BY <1>1 DEF checkout, history
    <2>2. /\ packing.op \in Ops \ {"status", "head"} /\ packing.op \in Reading
          /\ packing.op # "tree" /\ packing'.op \notin Reading \cup {"status", "head"}
      BY <1>1, <1>3 DEF Reading, Ops, Filling, Describing
    <2>3. /\ packing.commit \in DOMAIN commits
          /\ head = packing.commit /\ Git \notin undone =>
                packing.tree = packing.commit /\ HistoriesAre(out, packing.commit)
          /\ \A f \in Tracked \ undone : worktree[f] = commits[packing.commit][f] =>
                /\ CopiesAre(out, f, commits[packing.commit][f])
                /\ f = Assurance => packing.draft.key = commits[packing.commit][f]
      BY <1>1, <2>2 DEF ReleaseInv, ReadsTracked
    <2> QED
      BY <1>1, <1>3, <1>d, <2>1, <2>2, <2>3 DEF ReadsTracked
  <1> QED
    BY <1>4, <1>5, <1>6 DEF ReleaseInv

LEMMA ManifestStatusKeeps ==
    ASSUME ReleaseInv, ManifestStatus
    PROVE  ReleaseInv'
  <1> DEFINE draft == packing.draft
             described == [clean |-> Clean, commit |-> draft.commit, ready |-> draft.ready,
                          key |-> draft.key, artifacts |-> draft.artifacts]
  <1>1. /\ UNCHANGED <<checkout, history>> /\ packing.op = "manifest-status"
        /\ packing # Resting
        /\ packing' = [packing EXCEPT !.op = "contract", !.draft = Empty]
        /\ Writes("manifest", described)
    BY OpOfResting DEF ManifestStatus
  <1>d. /\ described.clean = Clean /\ described.commit = draft.commit
        /\ described.key = draft.key /\ described.artifacts = draft.artifacts
    OBVIOUS
  <1> HIDE DEF described
  <1>2. DOMAIN packing = Fields /\ DOMAIN out = Made("manifest-status")
    <2>1. Making("manifest-status") = {}
      BY DEF Making
    <2> QED
      BY <1>1, <2>1 DEF ReleaseInv, ReleaseTypeOK, Directory
  <1>3. /\ DOMAIN packing' = Fields /\ packing'.op = "contract"
        /\ packing'.commit = packing.commit /\ packing'.tree = packing.tree
        /\ packing'.copied = packing.copied
    BY <1>1, <1>2 DEF Fields
  <1>w. /\ DOMAIN out' = DOMAIN out \cup {"manifest"} /\ out'["manifest"] = described
        /\ \A n \in DOMAIN out \ {"manifest"} : out'[n] = out[n]
        /\ out' = [n \in DOMAIN out' |-> out'[n]]
    BY <1>1, WritingOne
  <1>m. /\ "manifest" \in ReleaseDocuments /\ "manifest" \notin DOMAIN out
        /\ ManifestParts \subseteq DOMAIN out
        /\ Made("contract") = Made("manifest-status") \cup {"manifest"}
    BY <1>2, NamesApart DEF ReleaseDocuments, Made, Asking, PartNames, Sealing, ManifestParts
  <1>4. /\ ReleaseTypeOK' /\ Summed' /\ Directory' /\ ArchivesFull'
        /\ EvidenceCopied' /\ ReportsShipped' /\ Bundled(out')
        /\ \A f, v : CopiesAre(out, f, v) => CopiesAre(out', f, v)
        /\ \A v : HistoriesAre(out, v) => HistoriesAre(out', v)
    <2>1. packing.op \in Describing /\ packing'.op \in Sealing
      BY <1>1, <1>3 DEF Describing, Sealing
    <2> QED
      BY <1>1, <1>2, <1>3, <1>w, <1>m, <2>1, LaterDescribing
  <1>5. Described' /\ VerdictTaken'
    <2>1. draft.artifacts = PartOf(out, ManifestParts)
      BY <1>1 DEF ReleaseInv, Described
    <2>2. PartOf(out', ManifestParts) = PartOf(out, ManifestParts)
      BY <1>w, <1>m DEF PartOf, ManifestParts
    <2> QED
      BY <1>1, <1>3, <1>4, <1>w, <1>d, <2>1, <2>2
         DEF Described, VerdictTaken, Describing, Sealing
  <1>6. packing.commit \in DOMAIN commits
    BY <1>1 DEF ReleaseInv, ReadsTracked, Ops, Describing
  <1>7. ReadsTracked'
    BY <1>1, <1>3, <1>6
       DEF ReadsTracked, Ops, Reading, Filling, Describing, Sealing, checkout
  <1>8. CommitDescribed'
    <2> SUFFICES ASSUME Clean, draft.commit = packing.commit
                 PROVE  /\ Git \notin undone => /\ packing.tree = packing.commit
                                               /\ HistoriesAre(out', packing.commit)
                        /\ \A f \in Tracked \ undone :
                              /\ CopiesAre(out', f, commits[packing.commit][f])
                              /\ f = Assurance => described.key = commits[packing.commit][f]
      <3>1. UNCHANGED <<commits, undone, head>>
        BY <1>1 DEF checkout, history
      <3> QED
        BY <1>3, <1>d, <1>w, <3>1 DEF CommitDescribed, OfCommit, HistoriesAre, CopiesAre
    <2>1. /\ Git \notin undone =>
                packing.tree = packing.commit /\ HistoriesAre(out, packing.commit)
          /\ \A f \in Tracked \ undone :
                head # packing.commit \/ worktree[f] = commits[packing.commit][f] =>
                   /\ CopiesAre(out, f, commits[packing.commit][f])
                   /\ f = Assurance => draft.key = commits[packing.commit][f]
      BY <1>1 DEF ReleaseInv, ReadsTracked
    <2>2. head = packing.commit => worktree = commits[packing.commit]
      BY DEF Clean
    <2> QED
      BY <1>4, <1>d, <2>1, <2>2
  <1> QED
    BY <1>4, <1>5, <1>7, <1>8 DEF ReleaseInv

LEMMA VerifyContractKeeps ==
    ASSUME ReleaseInv, VerifyContract, packing' # Resting
    PROVE  ReleaseInv'
  <1>1. /\ UNCHANGED <<checkout, history, out>> /\ packing.op = "contract"
        /\ packing # Resting
    BY OpOfResting DEF VerifyContract
  <1>v. \E sound : packing' = [packing EXCEPT !.op = "checks", !.todo = Checked,
                                !.draft = [sound |-> sound, checks |-> Empty]]
    BY DEF VerifyContract
  <1>2. DOMAIN packing = Fields /\ DOMAIN out = Made("contract")
    <2>1. Making("contract") = {}
      BY DEF Making
    <2> QED
      BY <1>1, <2>1 DEF ReleaseInv, ReleaseTypeOK, Directory
  <1>3. /\ DOMAIN packing' = Fields /\ packing'.op = "checks"
        /\ packing'.commit = packing.commit /\ packing'.tree = packing.tree
        /\ packing'.copied = packing.copied /\ packing'.todo = Checked
        /\ packing'.draft.checks = Empty
    BY <1>2, <1>v DEF Fields
  <1>4. /\ ReleaseTypeOK' /\ Summed' /\ Directory' /\ ArchivesFull'
        /\ EvidenceCopied' /\ ReportsShipped' /\ Bundled(out')
    <2>1. "verification" \in ReleaseDocuments /\ "verification" \notin DOMAIN out
      BY <1>2, NamesApart DEF ReleaseDocuments, Made, Asking, PartNames, Sealing
    <2>2. Made("contract") = Made("checks") /\ packing.op \in Sealing
          /\ packing'.op \in Sealing
      BY <1>1, <1>3 DEF Made, Asking, Sealing
    <2>3. out' = [n \in DOMAIN out' |-> out'[n]]
      BY <1>1 DEF ReleaseInv, ReleaseTypeOK
    <2> QED
      BY <1>1, <1>2, <1>3, <2>1, <2>2, <2>3, LaterDescribing
  <1>5. Described'
    BY <1>1, <1>3, <1>4 DEF ReleaseInv, Described, Describing, Sealing
  <1>9. VerdictTaken'
    BY <1>3 DEF VerdictTaken, PassedInShipped, Empty
  <1>6. packing.commit \in DOMAIN commits
    BY <1>1 DEF ReleaseInv, ReadsTracked, Ops, Sealing
  <1>7. ReadsTracked'
    BY <1>1, <1>3, <1>6
       DEF ReadsTracked, Ops, Reading, Filling, Describing, Sealing, checkout
  <1>8. CommitDescribed'
    <2>1. UNCHANGED <<commits, undone, head>>
      BY <1>1 DEF checkout, history
    <2>2. packing.op \in Sealing
      BY <1>1 DEF Sealing
    <2> QED
      BY <1>1, <1>3, <2>1, <2>2
         DEF ReleaseInv, CommitDescribed, OfCommit, HistoriesAre, CopiesAre
  <1> QED
    BY <1>4, <1>5, <1>7, <1>8, <1>9 DEF ReleaseInv

LEMMA JudgeReportKeeps ==
    ASSUME ReleaseInv, NEW r \in Reports, JudgeReport(r)
    PROVE  ReleaseInv'
  <1> DEFINE verdict == Verdict(reports[r])
             checks == Put(packing.draft.checks, r, verdict)
             draft == [sound |-> packing.draft.sound, checks |-> checks]
  <1>1. /\ UNCHANGED <<checkout, history, out>> /\ packing.op = "checks"
        /\ packing # Resting /\ r \in packing.todo
    BY OpOfResting DEF JudgeReport
  <1>2. DOMAIN packing = Fields /\ DOMAIN out = Made("checks")
    <2>1. Making("checks") = {}
      BY DEF Making
    <2> QED
      BY <1>1, <2>1 DEF ReleaseInv, ReleaseTypeOK, Directory
  <1>0. packing' = [packing EXCEPT !.todo = packing.todo \ {r}, !.draft = draft]
    BY <1>2 DEF JudgeReport, Fields
  <1>d. draft.checks = checks
    OBVIOUS
  <1> HIDE DEF draft
  <1>3. /\ DOMAIN packing' = Fields /\ packing'.op = "checks"
        /\ packing'.commit = packing.commit /\ packing'.tree = packing.tree
        /\ packing'.copied = packing.copied /\ packing'.todo = packing.todo \ {r}
        /\ packing'.draft.checks = checks
    BY <1>0, <1>1, <1>2, <1>d DEF Fields
  <1>4. /\ ReleaseTypeOK' /\ Summed' /\ Directory' /\ ArchivesFull'
        /\ EvidenceCopied' /\ ReportsShipped' /\ Bundled(out')
    <2>1. "verification" \in ReleaseDocuments /\ "verification" \notin DOMAIN out
      BY <1>2, NamesApart DEF ReleaseDocuments, Made, Asking, PartNames, Sealing
    <2>2. packing.op \in Sealing /\ packing'.op \in Sealing
      BY <1>1, <1>3 DEF Sealing
    <2>3. out' = [n \in DOMAIN out' |-> out'[n]]
      BY <1>1 DEF ReleaseInv, ReleaseTypeOK
    <2> QED
      BY <1>1, <1>2, <1>3, <2>1, <2>2, <2>3, LaterDescribing
  <1>5. Described'
    BY <1>1, <1>3, <1>4 DEF ReleaseInv, Described, Describing, Sealing
  <1>6. packing.commit \in DOMAIN commits
    BY <1>1 DEF ReleaseInv, ReadsTracked, Ops, Sealing
  <1>7. ReadsTracked'
    BY <1>1, <1>3, <1>6
       DEF ReadsTracked, Ops, Reading, Filling, Describing, Sealing, checkout
  <1>8. CommitDescribed'
    <2>1. UNCHANGED <<commits, undone, head>>
      BY <1>1 DEF checkout, history
    <2>2. packing.op \in Sealing
      BY <1>1 DEF Sealing
    <2> QED
      BY <1>1, <1>3, <2>1, <2>2
         DEF ReleaseInv, CommitDescribed, OfCommit, HistoriesAre, CopiesAre
  <1>9. VerdictTaken'
    <2>1. /\ packing.todo \subseteq Checked
          /\ DOMAIN packing.draft.checks = Checked \ packing.todo
          /\ PassedInShipped(out, packing.draft.checks)
      BY <1>1 DEF ReleaseInv, VerdictTaken
    <2>2. /\ DOMAIN checks = DOMAIN packing.draft.checks \cup {r} /\ checks[r] = verdict
          /\ \A q \in DOMAIN packing.draft.checks \ {r} :
                checks[q] = packing.draft.checks[q]
      <3> DEFINE old == packing.draft.checks
      <3>1. checks = Put(old, r, verdict)
        OBVIOUS
      <3> HIDE DEF old, checks, verdict
      <3>2. /\ DOMAIN checks = DOMAIN old \cup {r} /\ checks[r] = verdict
            /\ \A q \in DOMAIN old \ {r} : checks[q] = old[q]
        BY <3>1 DEF Put
      <3> QED
        BY <3>2 DEF old
    <2>3. ASSUME r \notin rerun, verdict = "pass"
          PROVE  r \in DOMAIN out["reports"] /\ out["reports"][r].passed
      <3>1. reports[r] # Nothing /\ reports[r].passed
        BY <2>3 DEF Verdict
      <3>2. r \in packing.copied /\ out["reports"][r] = reports[r]
        BY <1>1, <2>3, <3>1 DEF ReleaseInv, ReportsShipped
      <3>3. "reports" \in DOMAIN out
        BY <1>2 DEF Made, Asking
      <3>4. out["reports"] = [q \in packing.copied |-> out["reports"][q]]
        BY <1>1, <3>3 DEF ReleaseInv, EvidenceCopied, Written
      <3> QED
        BY <3>1, <3>2, <3>4
    <2> HIDE DEF checks, verdict
    <2>4. PassedInShipped(out, checks)
      BY <2>1, <2>2, <2>3 DEF PassedInShipped
    <2>5. DOMAIN checks = Checked \ (packing.todo \ {r})
      BY <1>1, <2>1, <2>2
    <2> QED
      BY <1>1, <1>3, <2>1, <2>4, <2>5 DEF VerdictTaken, PassedInShipped, history
  <1> QED
    BY <1>4, <1>5, <1>7, <1>8, <1>9 DEF ReleaseInv

LEMMA HashArtifactsKeeps ==
    ASSUME ReleaseInv, HashArtifacts
    PROVE  ReleaseInv'
  <1> DEFINE overall == Overall(packing.draft)
             checks == packing.draft.checks
             verification == [revision |-> packing.commit, checks |-> checks,
                              result |-> overall, coverage |-> reports[Coverage],
                              artifacts |-> Part({"manifest", "publication", "clone",
                                                  "reports", "snapshots"})]
  <1>1. /\ UNCHANGED <<checkout, history>> /\ packing.op = "checks" /\ packing # Resting
        /\ packing.todo = {}
        /\ packing' = [packing EXCEPT !.op = "receipt", !.draft = Empty]
        /\ Writes("verification", verification)
    BY OpOfResting DEF HashArtifacts
  <1> HIDE DEF overall
  <1>d. /\ verification.revision = packing.commit /\ verification.checks = checks
        /\ verification.artifacts = PartOf(out, VerifiedParts)
        /\ verification.coverage = reports[Coverage]
    BY DEF Part, PartOf, VerifiedParts
  <1> HIDE DEF verification, checks
  <1>2. DOMAIN packing = Fields /\ DOMAIN out = Made("checks")
    <2>1. Making("checks") = {}
      BY DEF Making
    <2> QED
      BY <1>1, <2>1 DEF ReleaseInv, ReleaseTypeOK, Directory
  <1>3. /\ DOMAIN packing' = Fields /\ packing'.op = "receipt"
        /\ packing'.commit = packing.commit /\ packing'.tree = packing.tree
        /\ packing'.copied = packing.copied
    BY <1>1, <1>2 DEF Fields
  <1>w. /\ DOMAIN out' = DOMAIN out \cup {"verification"}
        /\ out'["verification"] = verification
        /\ \A n \in DOMAIN out \ {"verification"} : out'[n] = out[n]
        /\ out' = [n \in DOMAIN out' |-> out'[n]]
    BY <1>1, WritingOne
  <1>m. /\ "verification" \in ReleaseDocuments /\ "verification" \notin DOMAIN out
        /\ ManifestParts \cup VerifiedParts \subseteq DOMAIN out
        /\ Made("receipt") = Made("checks") \cup {"verification"}
    BY <1>2, NamesApart
       DEF ReleaseDocuments, Made, Asking, PartNames, Sealing, ManifestParts, VerifiedParts
  <1>4. /\ ReleaseTypeOK' /\ Summed' /\ Directory' /\ ArchivesFull'
        /\ EvidenceCopied' /\ ReportsShipped' /\ Bundled(out')
        /\ \A f, v : CopiesAre(out, f, v) => CopiesAre(out', f, v)
        /\ \A v : HistoriesAre(out, v) => HistoriesAre(out', v)
    <2>1. packing.op \in Sealing /\ packing'.op \in Sealing
      BY <1>1, <1>3 DEF Sealing
    <2> QED
      BY <1>1, <1>2, <1>3, <1>w, <1>m, <2>1, LaterDescribing
  <1>5. Described'
    <2>1. out["manifest"].artifacts = PartOf(out, ManifestParts)
      BY <1>1 DEF ReleaseInv, Described, Sealing
    <2>2. /\ PartOf(out', ManifestParts) = PartOf(out, ManifestParts)
          /\ PartOf(out', VerifiedParts) = PartOf(out, VerifiedParts)
          /\ out'["manifest"] = out["manifest"]
      BY <1>w, <1>m DEF PartOf, ManifestParts, VerifiedParts
    <2> QED
      BY <1>3, <1>4, <1>w, <1>d, <2>1, <2>2 DEF Described, Describing, Sealing
  <1>6. packing.commit \in DOMAIN commits
    BY <1>1 DEF ReleaseInv, ReadsTracked, Ops, Sealing
  <1>7. ReadsTracked'
    BY <1>1, <1>3, <1>6
       DEF ReadsTracked, Ops, Reading, Filling, Describing, Sealing, checkout
  <1>8. CommitDescribed'
    <2>1. UNCHANGED <<commits, undone, head>>
      BY <1>1 DEF checkout, history
    <2>2. OfCommit(out, packing.commit, packing.tree)
      BY <1>1 DEF ReleaseInv, CommitDescribed, Sealing
    <2>3. out'["manifest"] = out["manifest"]
      BY <1>w, <1>m DEF VerifiedParts
    <2>4. OfCommit(out', packing.commit, packing.tree)
      BY <1>4, <2>2, <2>3 DEF OfCommit
    <2> QED
      BY <1>3, <2>1, <2>4 DEF CommitDescribed, OfCommit, HistoriesAre, CopiesAre
  <1>9. VerdictTaken'
    <2>1. /\ DOMAIN checks = Checked /\ PassedInShipped(out, checks)
      BY <1>1 DEF ReleaseInv, VerdictTaken, checks
    <2>2. /\ out'["reports"] = out["reports"] /\ rerun' = rerun
          /\ "reports" \in DOMAIN out
      BY <1>1, <1>w, <1>m DEF VerifiedParts, history
    <2>3. out["reports"] = [q \in packing.copied |-> out["reports"][q]]
      BY <1>1, <2>2 DEF ReleaseInv, EvidenceCopied, Written
    <2>4. Coverage \notin rerun =>
              reports[Coverage] = IF Coverage \in DOMAIN out["reports"]
                                  THEN out["reports"][Coverage] ELSE Nothing
      <3>1. Coverage \in Reports
        BY ReleaseFilesAssumption
      <3> QED
        BY <1>1, <2>3, <3>1 DEF ReleaseInv, ReportsShipped
    <2>5. Shipped(out')
      BY <1>d, <1>w, <2>1, <2>2, <2>4 DEF Shipped, PassedInShipped
    <2> QED
      BY <1>3, <2>2, <2>5 DEF VerdictTaken, Shipped, PassedInShipped
  <1> QED
    BY <1>4, <1>5, <1>7, <1>8, <1>9 DEF ReleaseInv

LEMMA WriteReceiptKeeps ==
    ASSUME ReleaseInv, WriteReceipt
    PROVE  ReleaseInv'
  <1> DEFINE names == {Archives[a] : a \in DOMAIN Archives}
                      \cup {"publication", "manifest", "verification", "plan", "clone",
                            "reports", "snapshots"}
             copies == [name \in names |-> Recorded(name)]
             result == out["verification"].result
             receipt == [commit |-> packing.commit, tree |-> packing.tree,
                         git_clean |-> TRUE, audited |-> packing.audited,
                         verification_result |-> result, clean_clone |-> out["clone"],
                         artifacts |-> copies]
  <1>1. /\ UNCHANGED <<checkout, history>> /\ packing.op = "receipt" /\ packing # Resting
        /\ packing' = [packing EXCEPT !.op = "sums"]
        /\ Writes("receipt", receipt)
    BY OpOfResting DEF WriteReceipt, Goes
  <1>2. DOMAIN packing = Fields /\ DOMAIN out = Made("receipt")
    <2>1. Making("receipt") = {}
      BY DEF Making
    <2> QED
      BY <1>1, <2>1 DEF ReleaseInv, ReleaseTypeOK, Directory
  <1>m. /\ "receipt" \in ReleaseDocuments /\ "receipt" \notin DOMAIN out
        /\ ManifestParts \cup VerifiedParts \cup {"verification"} \subseteq DOMAIN out
        /\ Made("sums") = Made("receipt") \cup {"receipt"} /\ names = DOMAIN out
    BY <1>2, NamesApart
       DEF ReleaseDocuments, Made, Asking, PartNames, Sealing, ManifestParts, VerifiedParts,
           ArchiveNames
  <1>c. copies = PartOf(out, DOMAIN out)
    <2>1. out["reports"] = [q \in packing.copied |-> out["reports"][q]]
      BY <1>1, <1>m DEF ReleaseInv, EvidenceCopied, Written, VerifiedParts
    <2>2. \A name : Recorded(name) = out[name]
      BY <2>1 DEF Recorded
    <2> QED
      BY <1>m, <2>2 DEF PartOf
  <1> HIDE DEF names, copies, result
  <1>d. /\ receipt.commit = packing.commit /\ receipt.tree = packing.tree
        /\ receipt.artifacts = copies
    OBVIOUS
  <1> HIDE DEF receipt
  <1>3. /\ DOMAIN packing' = Fields /\ packing'.op = "sums"
        /\ packing'.commit = packing.commit /\ packing'.tree = packing.tree
        /\ packing'.copied = packing.copied
    BY <1>1, <1>2 DEF Fields
  <1>w. /\ DOMAIN out' = DOMAIN out \cup {"receipt"}
        /\ out'["receipt"] = receipt
        /\ \A n \in DOMAIN out \ {"receipt"} : out'[n] = out[n]
        /\ out' = [n \in DOMAIN out' |-> out'[n]]
    BY <1>1, WritingOne
  <1>4. /\ ReleaseTypeOK' /\ Summed' /\ Directory' /\ ArchivesFull'
        /\ EvidenceCopied' /\ ReportsShipped' /\ Bundled(out')
        /\ \A f, v : CopiesAre(out, f, v) => CopiesAre(out', f, v)
        /\ \A v : HistoriesAre(out, v) => HistoriesAre(out', v)
    <2>1. packing.op \in Sealing /\ packing'.op \in Sealing
      BY <1>1, <1>3 DEF Sealing
    <2> QED
      BY <1>1, <1>2, <1>3, <1>w, <1>m, <2>1, LaterDescribing
  <1>k. \A n \in ManifestParts \cup VerifiedParts \cup {"verification"} : out'[n] = out[n]
    BY <1>w, <1>m
  <1>5. Described'
    <2>1. /\ out["manifest"].artifacts = PartOf(out, ManifestParts)
          /\ out["verification"].artifacts = PartOf(out, VerifiedParts)
          /\ out["verification"].revision = packing.commit
      BY <1>1 DEF ReleaseInv, Described, Sealing
    <2>2. /\ PartOf(out', ManifestParts) = PartOf(out, ManifestParts)
          /\ PartOf(out', VerifiedParts) = PartOf(out, VerifiedParts)
          /\ PartOf(out', DOMAIN out' \ {"receipt"}) = PartOf(out, DOMAIN out)
          /\ out'["manifest"] = out["manifest"] /\ out'["verification"] = out["verification"]
      BY <1>w, <1>m, <1>k DEF PartOf, VerifiedParts
    <2> QED
      BY <1>3, <1>4, <1>w, <1>d, <1>c, <2>1, <2>2 DEF Described, Describing, Sealing
  <1>6. packing.commit \in DOMAIN commits
    BY <1>1 DEF ReleaseInv, ReadsTracked, Ops, Sealing
  <1>7. ReadsTracked'
    BY <1>1, <1>3, <1>6
       DEF ReadsTracked, Ops, Reading, Filling, Describing, Sealing, checkout
  <1>8. CommitDescribed'
    <2>1. UNCHANGED <<commits, undone, head>>
      BY <1>1 DEF checkout, history
    <2>2. OfCommit(out, packing.commit, packing.tree)
      BY <1>1 DEF ReleaseInv, CommitDescribed, Sealing
    <2>3. out'["manifest"] = out["manifest"]
      BY <1>k DEF VerifiedParts
    <2>4. OfCommit(out', packing.commit, packing.tree)
      BY <1>4, <2>2, <2>3 DEF OfCommit
    <2> QED
      BY <1>3, <2>1, <2>4 DEF CommitDescribed, OfCommit, HistoriesAre, CopiesAre
  <1>9. VerdictTaken'
    BY <1>1, <1>3, <1>k
       DEF ReleaseInv, VerdictTaken, Shipped, PassedInShipped, VerifiedParts, history
  <1> QED
    BY <1>4, <1>5, <1>7, <1>8, <1>9 DEF ReleaseInv

LEMMA WriteSumsKeeps ==
    ASSUME ReleaseInv, WriteSums
    PROVE  ReleaseInv'
  <1>1. /\ UNCHANGED <<checkout, history>> /\ packing.op = "sums" /\ packing # Resting
        /\ packing' = Resting /\ Writes("sums", Without(out, {"sums"}))
    BY OpOfResting DEF WriteSums, Raises
  <1>2. "sums" \notin DOMAIN out /\ out = [n \in DOMAIN out |-> out[n]]
    BY <1>1, NoSumsYet DEF ReleaseInv, ReleaseTypeOK
  <1>3. Without(out, {"sums"}) = out
    BY <1>2 DEF Without
  <1>4. /\ DOMAIN out' = DOMAIN out \cup {"sums"} /\ out'["sums"] = out
        /\ \A n \in DOMAIN out \ {"sums"} : out'[n] = out[n]
        /\ out' = [n \in DOMAIN out' |-> out'[n]]
    BY <1>1, <1>3, WritingOne
  <1>5. Finished(out)
    <2>1. DOMAIN out = Made("sums")
      <3>1. Making("sums") = {}
        BY DEF Making
      <3> QED
        BY <1>1, <3>1 DEF ReleaseInv, Directory
    <2>2. packing.commit \in DOMAIN commits
      BY <1>1 DEF ReleaseInv, ReadsTracked, Ops, Sealing
    <2>3. /\ \A name \in ArchiveNames : PathsOf(name) \subseteq DOMAIN out[name]
          /\ Published \subseteq DOMAIN out["publication"].docs
      BY <1>1 DEF ReleaseInv, ArchivesFull, EvidenceCopied, Sealing
    <2>4. /\ Bundled(out)
          /\ out["manifest"].artifacts = PartOf(out, ManifestParts)
          /\ out["verification"].artifacts = PartOf(out, VerifiedParts)
          /\ out["verification"].revision = packing.commit
          /\ out["receipt"].commit = packing.commit /\ out["receipt"].tree = packing.tree
          /\ out["receipt"].artifacts = PartOf(out, DOMAIN out \ {"receipt"})
      BY <1>1 DEF ReleaseInv, Described, Sealing
    <2>5. OfCommit(out, packing.commit, packing.tree) /\ Shipped(out)
      BY <1>1 DEF ReleaseInv, CommitDescribed, VerdictTaken, Sealing
    <2> QED
      BY <2>1, <2>2, <2>3, <2>4, <2>5 DEF Finished
  <1>6. packing'.op = "idle"
    BY <1>1 DEF Resting
  <1>7. ReleaseTypeOK'
    BY <1>1, <1>4 DEF ReleaseInv, ReleaseTypeOK, checkout
  <1>8. Summed'
    <2>2. UNCHANGED <<commits, undone, rerun, head>>
      BY <1>1 DEF checkout, history
    <2>3. Finished(out["sums"])'
      BY <1>4, <1>5, <2>2 DEF Finished, OfCommit, HistoriesAre, CopiesAre, Shipped,
                              PassedInShipped
    <2> QED
      BY <1>4, <2>3 DEF Summed
  <1> QED
    BY <1>1, <1>6, <1>7, <1>8
       DEF ReleaseInv, Directory, ArchivesFull, EvidenceCopied, Described, ReadsTracked,
           CommitDescribed, ReportsShipped, VerdictTaken, Ops, Asking, Filling,
           Describing, Sealing, Reading

\* The beginning of a packaging, and a deletion that breaks off.
LEMMA BeginningKeeps ==
    ASSUME ReleaseInv, BreakDeletion \/ \E overwrite \in BOOLEAN : BeginPackage(overwrite)
    PROVE  ReleaseInv'
  <1>1. UNCHANGED <<checkout, history>> /\ packing = Resting
    BY DEF BreakDeletion, BeginPackage
  <1>2. UNCHANGED <<commits, worktree, reports, undone, rerun, head>>
    BY <1>1 DEF checkout, history
  <1>3. CASE BreakDeletion
    <2>1. PICK S : packing' = Resting /\ out' = Without(out, S)
      BY <1>1, <1>3 DEF BreakDeletion
    <2>2. /\ DOMAIN out' = DOMAIN out \ S /\ \A n \in DOMAIN out' : out'[n] = out[n]
          /\ out' = [n \in DOMAIN out' |-> out'[n]]
      BY <2>1 DEF Without
    <2>3. packing'.op = "idle"
      BY <2>1 DEF Resting
    <2>4. ReleaseTypeOK'
      BY <1>1, <2>1, <2>2 DEF ReleaseInv, ReleaseTypeOK, checkout
    <2>5. Summed'
      <3> SUFFICES ASSUME "sums" \in DOMAIN out' PROVE Summed'
        BY DEF Summed
      <3>0. Finished(out["sums"]) /\ out'["sums"] = out["sums"]
        BY <2>2 DEF ReleaseInv, Summed
      <3>a. \A dir : Finished(dir) => Finished(dir)'
        <4> SUFFICES ASSUME NEW dir, Finished(dir) PROVE Finished(dir)'
          OBVIOUS
        <4>1. OfCommit(dir, dir["receipt"].commit, dir["receipt"].tree)'
          BY <1>2 DEF Finished, OfCommit, HistoriesAre, CopiesAre
        <4>2. Shipped(dir)'
          BY <1>2 DEF Finished, Shipped, PassedInShipped
        <4> QED
          BY <1>2, <4>1, <4>2 DEF Finished, Bundled
      <3>1. Finished(out["sums"])'
        BY <3>0, <3>a
      <3> QED
        BY <2>2, <3>1 DEF ReleaseInv, Summed
    <2> QED
      BY <2>1, <2>3, <2>4, <2>5
         DEF ReleaseInv, Directory, ArchivesFull, EvidenceCopied, Described, ReadsTracked,
             CommitDescribed, ReportsShipped, VerdictTaken, Ops, Asking, Filling,
             Describing, Sealing, Reading
  <1>4. CASE \E overwrite \in BOOLEAN : BeginPackage(overwrite)
    <2>1. out' = Empty /\ packing' = Started
      BY <1>4 DEF BeginPackage
    <2>2. DOMAIN out' = {} /\ out' = [n \in DOMAIN out' |-> out'[n]]
      BY <2>1 DEF Empty
    <2>3. /\ packing'.op = "status" /\ packing'.a = 1 /\ packing'.copied = {}
          /\ packing'.commit = 0
          /\ DOMAIN packing' = Fields
      BY <2>1 DEF Started, Fields
    <2>4. ReleaseTypeOK' /\ Summed'
      BY <1>1, <2>2, <2>3, GoesOnTyped DEF Ops, Asking
    <2>5. Directory'
      BY <2>2, <2>3 DEF Directory, Made, Making, Asking
    <2>6. EvidenceCopied'
      BY <2>2, <2>3 DEF EvidenceCopied, Written, Empty, Describing, Sealing
    <2> QED
      BY <2>3, <2>4, <2>5, <2>6
         DEF ReleaseInv, ArchivesFull, Described, ReadsTracked,
             CommitDescribed, ReportsShipped, VerdictTaken, Ops, Asking, Filling,
             Describing, Sealing, Reading
  <1> QED
    BY <1>3, <1>4

\* A step that raises leaves a directory without checksums.
LEMMA RaisingKeeps ==
    ASSUME ReleaseInv, packing' = Resting,
           \/ CheckStatus \/ AskTag \/ AssessReadiness \/ ArchiveFile \/ PlanPilot
           \/ ValidateCandidate \/ PublishFile \/ OpenManifest \/ VerifyContract \/ BreakOff
    PROVE  ReleaseInv'
  <1>1. packing # Resting /\ UNCHANGED checkout
    BY OpOfResting
       DEF CheckStatus, AskTag, AssessReadiness, ArchiveFile, PlanPilot,
           ValidateCandidate, PublishFile, OpenManifest, VerifyContract, BreakOff
  <1>2. "sums" \notin DOMAIN out /\ out = [n \in DOMAIN out |-> out[n]]
    BY <1>1, NoSumsYet DEF ReleaseInv, ReleaseTypeOK
  <1>3. CASE UNCHANGED out
    BY <1>1, <1>2, <1>3, RaiseKeeps
  <1>4. CASE \E v : Writes(Archives[packing.a], v) /\ packing.op = "archive"
    <2>1. Archives[packing.a] # "sums"
      BY <1>4, NamesApart DEF ReleaseInv, ArchivesFull, PartNames
    <2>2. /\ DOMAIN out' = DOMAIN out \cup {Archives[packing.a]}
          /\ out' = [n \in DOMAIN out' |-> out'[n]]
      BY <1>4, WritingOne
    <2> QED
      BY <1>1, <1>2, <2>1, <2>2, RaiseKeeps
  <1>5. packing.op = "archive" /\ ArchiveFile => \E v : Writes(Archives[packing.a], v)
    BY DEF ArchiveFile
  <1>6. DOMAIN packing = Fields
    BY <1>1 DEF ReleaseInv, ReleaseTypeOK
  <1>7. ArchiveFile => packing.op = "archive"
    BY DEF ArchiveFile
  <1>8. CASE PlanPilot \/ PublishFile
    <2>1. [packing EXCEPT !.op = "candidate"] # Resting
      BY <1>6 DEF Resting, Fields
    <2>2. \A S : [packing EXCEPT !.todo = S] # Resting
      BY <1>6 DEF Resting, Fields
    <2>3. UNCHANGED out
      BY <1>8, <2>1, <2>2 DEF PlanPilot, PublishFile, Goes
    <2> QED
      BY <1>3, <2>3
  <1> QED
    BY <1>3, <1>4, <1>5, <1>7, <1>8
       DEF CheckStatus, AskTag, AssessReadiness, ValidateCandidate, OpenManifest,
           VerifyContract, BreakOff

LEMMA ReleaseInvInit == ReleaseInit => ReleaseInv
  <1> SUFFICES ASSUME ReleaseInit PROVE ReleaseInv
    OBVIOUS
  <1>1. /\ commits = Past /\ head = Len(Past) /\ worktree = Past[head]
        /\ reports = [r \in Reports |-> [id |-> 0, passed |-> TRUE]]
        /\ out = Empty /\ packing = Resting /\ changes = 0
    BY DEF ReleaseInit
  <1>2. packing.op = "idle" /\ DOMAIN out = {}
    BY <1>1 DEF Resting, Empty
  <1>3. ReleaseTypeOK
    <2>1. Past \in Seq([Tracked -> 1 .. TrackedCount]) /\ Past # <<>> /\ TrackedCount \in Nat
      BY ReleaseFilesAssumption, ReleasePastAssumption
    <2>2. /\ head \in DOMAIN commits
          /\ \A n \in DOMAIN commits : commits[n] \in [Tracked -> 1 .. TrackedCount]
      BY <1>1, <2>1
    <2>3. commits \in Seq([Tracked -> Nat])
      BY <1>1, <2>1, <2>2
    <2>4. \A n \in DOMAIN commits : \A f \in Tracked :
              commits[n][f] \in Nat \ {0} /\ commits[n][f] <= TrackedCount + changes
      BY <1>1, <2>1, <2>2
    <2>5. /\ worktree \in [Tracked -> Nat]
          /\ \A f \in Tracked : worktree[f] <= TrackedCount + changes
      BY <1>1, <2>2, <2>4
    <2>6. out = [n \in DOMAIN out |-> out[n]]
      BY <1>1 DEF Empty
    <2> QED
      BY <1>1, <2>2, <2>3, <2>4, <2>5, <2>6 DEF ReleaseTypeOK, Gone
  <1> QED
    BY <1>1, <1>2, <1>3
       DEF ReleaseInv, Directory, ArchivesFull, EvidenceCopied, Described, ReadsTracked,
           CommitDescribed, ReportsShipped, VerdictTaken, Summed, Ops, Asking, Filling,
           Describing, Sealing, Reading

LEMMA ReleaseStep == ReleaseInv /\ [ReleaseNext]_releaseVars => ReleaseInv'
  <1> SUFFICES ASSUME ReleaseInv, [ReleaseNext]_releaseVars PROVE ReleaseInv'
    OBVIOUS
  <1>1. CASE UNCHANGED releaseVars
    BY <1>1
       DEF releaseVars, checkout, history, ReleaseInv, ReleaseTypeOK, Directory, ArchivesFull, EvidenceCopied,
           Described, ReadsTracked, CommitDescribed, ReportsShipped, VerdictTaken, Summed,
           Paths, Written, Bundled, CopiesAre, HistoriesAre, OfCommit, Shipped,
           PassedInShipped, Finished
  <1>2. CASE Others
    BY <1>2, OthersAreNoted
  <1>3. CASE Packager
    <2>1. CASE packing' = Resting
      BY <1>3, <2>1, RaisingKeeps, BeginningKeeps, AskKeeps, AuditKeeps, CopyReportKeeps,
         CopySnapshotKeeps, CopyCloneKeeps, AttachEvidenceKeeps, ManifestHeadKeeps,
         ManifestStatusKeeps, JudgeReportKeeps, HashArtifactsKeeps, WriteReceiptKeeps, WriteSumsKeeps
         DEF Packager
    <2>2. CASE packing' # Resting
      BY <1>3, <2>2, BeginningKeeps, AskKeeps, ArchiveFileKeeps, AuditKeeps, PlanPilotKeeps,
         CopyReportKeeps, CopySnapshotKeeps, CopyCloneKeeps, PublishFileKeeps,
         AttachEvidenceKeeps, OpenManifestKeeps, ManifestHeadKeeps, ManifestStatusKeeps,
         VerifyContractKeeps, JudgeReportKeeps, HashArtifactsKeeps, WriteReceiptKeeps, WriteSumsKeeps
         DEF Packager, BreakOff, Raises
    <2> QED
      BY <2>1, <2>2
  <1> QED
    BY <1>1, <1>2, <1>3 DEF ReleaseNext

----------------------------------------------------------------------------
(* The theorems                                                            *)

\* What is in a directory whose checksums hold is what was finished.
LEMMA PassingIsFinished ==
    ASSUME ReleaseInv, Passes
    PROVE  /\ Finished(out["sums"])
           /\ DOMAIN out = Made("sums") \cup {"sums"}
           /\ \A name \in Made("sums") : out[name] = out["sums"][name]
  <1>1. Finished(out["sums"]) /\ DOMAIN out["sums"] = Made("sums")
    BY DEF ReleaseInv, Summed, Passes, Finished
  <1>2. /\ DOMAIN out = Made("sums") \cup {"sums"}
        /\ \A name \in Made("sums") : out[name] = out["sums"][name]
    BY <1>1 DEF ReleaseInv, Summed, Passes
  <1> QED
    BY <1>1, <1>2

\* A package whose checksums hold is of one run: the documents in it commit to
\* the bytes that are shipped, whatever packagings and deletions broke off before.

LEMMA FinishedIsOneRun ==
    ASSUME ReleaseInv
    PROVE  PackageIsOneRun
  <1> SUFFICES ASSUME Passes PROVE PackageIsOneRun
    BY DEF PackageIsOneRun
  <1> DEFINE dir == out["sums"]
  <1>1. /\ Finished(dir) /\ DOMAIN out = Made("sums") \cup {"sums"}
        /\ \A name \in Made("sums") : out[name] = dir[name]
    BY PassingIsFinished
  <1> HIDE DEF dir
  <1>2. /\ ManifestParts \cup VerifiedParts \cup ReleaseDocuments \subseteq Made("sums")
        /\ "sums" \notin Made("sums")
    BY NamesApart
       DEF ManifestParts, VerifiedParts, ReleaseDocuments, Made, Asking, Sealing, PartNames
  <1>3. /\ out["receipt"] = dir["receipt"] /\ out["manifest"] = dir["manifest"]
        /\ out["verification"] = dir["verification"]
        /\ out["publication"] = dir["publication"] /\ out["reports"] = dir["reports"]
        /\ out["snapshots"] = dir["snapshots"] /\ out["clone"] = dir["clone"]
    BY <1>1, <1>2 DEF ManifestParts, VerifiedParts, ReleaseDocuments
  <1>4. /\ out["manifest"].artifacts = PartOf(out, ManifestParts)
        /\ out["verification"].artifacts = PartOf(out, VerifiedParts)
        /\ out["receipt"].artifacts = PartOf(out, DOMAIN out \ {"receipt", "sums"})
    <2>1. /\ PartOf(dir, ManifestParts) = PartOf(out, ManifestParts)
          /\ PartOf(dir, VerifiedParts) = PartOf(out, VerifiedParts)
          /\ PartOf(dir, Made("sums") \ {"receipt"}) = PartOf(out, Made("sums") \ {"receipt"})
      BY <1>1, <1>2 DEF PartOf
    <2>2. Made("sums") \ {"receipt"} = DOMAIN out \ {"receipt", "sums"}
      BY <1>1, <1>2
    <2> QED
      BY <1>1, <1>3, <2>1, <2>2 DEF Finished
  <1>5. \A doc \in {"receipt", "manifest", "verification"} :
            \A name \in DOMAIN out[doc].artifacts : out[doc].artifacts[name] = out[name]
    BY <1>4 DEF PartOf
  <1>6. DOMAIN out["receipt"].artifacts = DOMAIN out \ {"receipt", "sums"}
    BY <1>4 DEF PartOf
  <1>7. Coverage \notin rerun =>
            out["verification"].coverage =
                IF Coverage \in DOMAIN out["reports"]
                THEN out["reports"][Coverage] ELSE Nothing
    BY <1>1, <1>3 DEF Finished, Shipped
  <1> QED
    BY <1>1, <1>3, <1>5, <1>6, <1>7 DEF PackageIsOneRun, Finished, Bundled

LEMMA FinishedIsOfCommit ==
    ASSUME ReleaseInv
    PROVE  PackageIsOfCommit
  <1> DEFINE dir == out["sums"]
             commit == out["receipt"].commit
             tree == out["receipt"].tree
  <1> SUFFICES ASSUME Passes, out["manifest"].clean, out["manifest"].commit = commit
               PROVE  /\ Git \notin undone =>
                            /\ tree = commit
                            /\ \A name \in Histories : out[name][Git] = commit
                      /\ \A f \in Tracked \ undone : Copies(f) = {commits[commit][f]}
    BY DEF PackageIsOfCommit
  <1>1. /\ Finished(dir) /\ \A name \in Made("sums") : out[name] = dir[name]
        /\ DOMAIN dir = Made("sums")
    BY PassingIsFinished DEF Finished
  <1>2. /\ ManifestParts \cup VerifiedParts \cup ReleaseDocuments \cup ArchiveNames
               \subseteq Made("sums")
    BY DEF ManifestParts, VerifiedParts, ReleaseDocuments, Made, Asking, Sealing
  <1>3. /\ out["receipt"] = dir["receipt"] /\ out["manifest"] = dir["manifest"]
        /\ out["publication"] = dir["publication"] /\ out["plan"] = dir["plan"]
        /\ out["snapshots"] = dir["snapshots"]
    BY <1>1, <1>2 DEF ManifestParts, VerifiedParts, ReleaseDocuments
  <1>4. /\ Git \notin undone => tree = commit /\ HistoriesAre(dir, commit)
        /\ \A f \in Tracked \ undone :
              /\ CopiesAre(dir, f, commits[commit][f])
              /\ f = Assurance => dir["manifest"].key = commits[commit][f]
    BY <1>1, <1>3 DEF Finished, OfCommit
  <1>5. /\ \A name \in ArchiveNames : /\ PathsOf(name) \subseteq DOMAIN out[name]
                                      /\ out[name] = dir[name]
        /\ Published \subseteq DOMAIN out["publication"].docs
        /\ ArchiveNames \cup {"publication", "snapshots", "plan"} \subseteq DOMAIN dir
    BY <1>1, <1>2, <1>3 DEF Finished, ManifestParts
  <1> HIDE DEF dir, commit, tree
  <1>6. Git \notin undone => \A name \in Histories : out[name][Git] = commit
    BY <1>4, <1>5, NamesApart DEF HistoriesAre, PathsOf
  <1>7. ASSUME NEW f \in Tracked \ undone
        PROVE  Copies(f) = {commits[commit][f]}
    <2> DEFINE v == commits[commit][f]
    <2>0. f \in Tracked \ undone
      OBVIOUS
    <2>1. CopiesAre(dir, f, v) /\ (f = Assurance => dir["manifest"].key = v)
      BY <1>4
    <2> HIDE DEF v
    <2>2. \A name \in ArchiveNames : out[name][f] = v
      BY <1>5, <2>1 DEF CopiesAre, PathsOf
    <2>3. f \in Published => out["publication"].docs[f] = v
      BY <1>3, <1>5, <2>1 DEF CopiesAre
    <2>4. f \in DOMAIN out["snapshots"] => out["snapshots"][f] = v
      BY <1>3, <1>5, <2>1 DEF CopiesAre
    <2>5. f = Candidate => out["plan"] = v
      BY <1>3, <1>5, <2>1 DEF CopiesAre
    <2>6. f = Assurance => out["manifest"].key = v
      BY <1>3, <2>1
    <2>7. \A x \in Copies(f) : x = v
      BY <2>2, <2>3, <2>4, <2>5, <2>6 DEF Copies, ArchiveNames
    <2>8. v \in Copies(f)
      <3>1. Archives[1] \in ArchiveNames
        BY NamesApart
      <3>2. out[Archives[1]][f] = v
        BY <2>2, <3>1
      <3>3. out[Archives[1]][f] \in {out[name][f] : name \in ArchiveNames}
        BY <3>1
      <3> QED
        BY <3>2, <3>3 DEF Copies, ArchiveNames
    <2> QED
      BY <2>7, <2>8 DEF v
  <1> QED
    BY <1>4, <1>6, <1>7

LEMMA FinishedIsJudged ==
    ASSUME ReleaseInv
    PROVE  VerdictIsShipped
  <1> SUFFICES ASSUME Passes PROVE VerdictIsShipped
    BY DEF VerdictIsShipped
  <1>1. /\ Finished(out["sums"])
        /\ \A name \in Made("sums") : out[name] = out["sums"][name]
    BY PassingIsFinished
  <1>2. {"verification", "reports"} \subseteq Made("sums")
    BY DEF Made, Asking, Sealing
  <1> QED
    BY <1>1, <1>2 DEF VerdictIsShipped, Finished, Shipped, PassedInShipped

\* A package whose checksums hold is of one run: what the documents in it commit
\* to of it are the bytes that are shipped, whatever packagings and deletions
\* broke off before, and the coverage report of the project that is committed to
\* is the shipped one unless it was written again meanwhile.
THEOREM PackagesAreOfOneRun == ReleaseSpec => []PackageIsOneRun
  BY ReleaseInvInit, ReleaseStep, FinishedIsOneRun, PTL DEF ReleaseSpec

\* A package whose checksums hold and whose manifest was taken of a clean tree at
\* the receipt's commit is of that commit, whatever was edited, committed, reset
\* or switched to meanwhile; HEAD, and the files, that left the commit and got
\* back to it apart.
THEOREM PackagesAreOfTheirCommit == ReleaseSpec => []PackageIsOfCommit
  BY ReleaseInvInit, ReleaseStep, FinishedIsOfCommit, PTL DEF ReleaseSpec

\* What the verification receipt of such a package says was passed was passed in
\* the report that is shipped, those that were written again meanwhile apart.
THEOREM VerdictsAreShipped == ReleaseSpec => []VerdictIsShipped
  BY ReleaseInvInit, ReleaseStep, FinishedIsJudged, PTL DEF ReleaseSpec

----------------------------------------------------------------------------
(* Issues                                                                  *)

Known == Statuses \cup {"planned", "partial", "blocked", "complete"}

Plans == [Items -> [title : Titles, status : Known, number : Nat \cup {None}]]

Runs == [pos : Nat \ {0}, plan : Plans, stage : {"lookup", "write", "close", "link"},
         found : Nat \cup {None}, left : SUBSET Items, alone : BOOLEAN]

Issues == [wanted : {Wanted(p, i) : p \in Plans, i \in Items}, title : Items \X Titles,
           closed : BOOLEAN, subs : SUBSET (Nat \cup {None})]

SyncTypeOK ==
    /\ source \in [Items -> [title : Titles, status : Known]]
    /\ manifest \in Plans /\ pushed \in Plans
    /\ issues \in Seq(Issues)
    /\ \A n \in DOMAIN issues : issues[n].title[1] \in Items
    /\ DOMAIN sync = Runners
    /\ \A r \in Runners : Active(r) => sync[r] \in Runs

\* The manifest, as it is, as it was pushed, and as the syncs that run hold it.
CopiesHeld ==
    {manifest, pushed} \cup {sync[r].plan : r \in {q \in Runners : Active(q)}}

IssuesOf(item) == {n \in DOMAIN issues : issues[n].title[1] = item}

\* The numbers of a plan are those of issues of their items.
NumbersMeant(plan) ==
    \A i \in Items : plan[i].number # None => plan[i].number \in IssuesOf(i)

\* As long as some copy has no number of it, an item has one title everywhere.
Alike(i) ==
    (\E p \in CopiesHeld : p[i].number = None) =>
        /\ \A p, q \in CopiesHeld : p[i].title = q[i].title
        /\ \A p \in CopiesHeld : \A n \in IssuesOf(i) : issues[n].title = <<i, p[i].title>>

\* An item has an issue, or a sync that will create it, and no second of them.
Single(i) ==
    /\ \A m, n \in IssuesOf(i) : m = n
    /\ \A r \in Runners : Seeking(r) /\ Item(r) = i =>
          /\ IssuesOf(i) = {}
          /\ \A q \in Runners : Seeking(q) /\ Item(q) = i => q = r

\* What a sync has found of the item it is at.
Sought(r) ==
    sync[r].stage \in {"write", "close"} =>
        /\ Item(r) \in Items
        /\ sync[r].found # None => sync[r].found \in IssuesOf(Item(r))
        /\ sync[r].found = None =>
              sync[r].stage = "write" /\ sync[r].plan[Item(r)].number = None

SyncInv ==
    /\ SyncTypeOK
    /\ \A p \in CopiesHeld : NumbersMeant(p)
    /\ \A i \in Items \ exposed : Alike(i)
    /\ \A i \in Items \ (exposed \cup raced) : Single(i)
    /\ \A r \in Runners : Active(r) => Sought(r)

LEMMA SyncInvInit == Init => SyncInv
  <1> SUFFICES ASSUME Init PROVE SyncInv
    OBVIOUS
  <1>1. /\ issues = <<>> /\ \A r \in Runners : ~Active(r)
        /\ \A i \in Items : manifest[i].title = 1 /\ manifest[i].number = None
        /\ pushed = manifest /\ DOMAIN sync = Runners
    BY DEF Init, Active
  <1>2. source \in [Items -> [title : Titles, status : Known]] /\ manifest \in Plans
    BY IssueAssumption DEF Init, Plans, Known
  <1>3. CopiesHeld = {manifest}
    BY <1>1 DEF CopiesHeld
  <1>4. \A i : IssuesOf(i) = {}
    BY <1>1 DEF IssuesOf
  <1>5. \A r \in Runners : ~Seeking(r)
    BY <1>1 DEF Seeking
  <1> QED
    BY <1>1, <1>2, <1>3, <1>4, <1>5 DEF SyncInv, SyncTypeOK, NumbersMeant, Alike, Single

LEMMA RunsAreActive == \A run \in Runs : run # NotRunning
  BY DEF Runs, NotRunning

\* A step that writes no issue and makes no new copy.
LEMMA FewerCopies ==
    ASSUME SyncInv, SyncTypeOK', CopiesHeld' \subseteq CopiesHeld,
           UNCHANGED <<issues, exposed, raced>>,
           \A q \in Runners : Active(q)' =>
               \/ sync'[q].stage = "lookup"
               \/ /\ Active(q)
                  /\ sync'[q].stage = sync[q].stage /\ sync'[q].found = sync[q].found
                  /\ sync'[q].plan = sync[q].plan /\ sync'[q].pos = sync[q].pos
    PROVE  SyncInv'
  <1>1. \A i : IssuesOf(i)' = IssuesOf(i)
    BY DEF IssuesOf
  <1>2. \A p \in CopiesHeld' : NumbersMeant(p)'
    BY <1>1 DEF SyncInv, NumbersMeant
  <1>3. \A i \in Items \ exposed' : Alike(i)'
    BY <1>1 DEF SyncInv, Alike
  <1>4. \A q \in Runners : Seeking(q)' => Seeking(q) /\ Item(q)' = Item(q)
    BY DEF Seeking, Item
  <1>5. \A i \in Items \ (exposed' \cup raced') : Single(i)'
    BY <1>1, <1>4 DEF SyncInv, Single
  <1>6. ASSUME NEW q \in Runners, Active(q)'
        PROVE  Sought(q)'
    <2>1. CASE sync'[q].stage = "lookup"
      BY <2>1 DEF Sought
    <2>2. CASE sync'[q].stage # "lookup"
      <3>1. /\ Active(q) /\ Item(q)' = Item(q)
            /\ sync'[q].stage = sync[q].stage /\ sync'[q].found = sync[q].found
            /\ sync'[q].plan = sync[q].plan
        BY <1>6, <2>2 DEF Item
      <3>2. Sought(q)
        BY <3>1 DEF SyncInv
      <3> QED
        BY <1>1, <3>1, <3>2 DEF Sought
    <2> QED
      BY <2>1, <2>2
  <1> QED
    BY <1>2, <1>3, <1>5, <1>6 DEF SyncInv

\* A step of a sync, with what it has to show of the issues it writes.
LEMMA RunKeeps ==
    ASSUME SyncInv, NEW r \in Runners, Active(r), NEW run \in Runs,
           sync' = [sync EXCEPT ![r] = run],
           UNCHANGED <<source, manifest, pushed, exposed>>,
           issues' \in Seq(Issues), \A n \in DOMAIN issues' : issues'[n].title[1] \in Items,
           \A i : IssuesOf(i) \subseteq IssuesOf(i)',
           \A i \in Items : /\ run.plan[i].title = sync[r].plan[i].title
                            /\ run.plan[i].number = None => sync[r].plan[i].number = None,
           NumbersMeant(run.plan)',
           \A i \in Items : \A n \in IssuesOf(i)' :
               \/ issues'[n].title = <<i, sync[r].plan[i].title>>
               \/ n \in IssuesOf(i) /\ issues'[n].title = issues[n].title,
           Sought(r)', \A i \in Items \ (exposed \cup raced') : Single(i)'
    PROVE  SyncInv'
  <1>1. /\ sync'[r] = run /\ DOMAIN sync' = Runners
        /\ \A q \in Runners \ {r} : sync'[q] = sync[q] /\ (Active(q)' <=> Active(q))
        /\ Active(r)'
    BY RunsAreActive DEF SyncInv, SyncTypeOK, Active
  <1>2. SyncTypeOK'
    BY <1>1 DEF SyncInv, SyncTypeOK
  <1>3. \A p \in CopiesHeld' : p \in CopiesHeld \/ p = run.plan
    BY <1>1 DEF CopiesHeld
  <1>4. sync[r].plan \in CopiesHeld
    BY DEF CopiesHeld
  <1>5. \A p \in CopiesHeld' : NumbersMeant(p)'
    <2>1. ASSUME NEW p \in CopiesHeld
          PROVE  NumbersMeant(p)'
      BY DEF SyncInv, NumbersMeant
    <2> QED
      BY <1>3, <2>1
  <1>6. ASSUME NEW i \in Items \ exposed
        PROVE  Alike(i)'
    <2> SUFFICES ASSUME NEW o \in CopiesHeld', o[i].number = None
                 PROVE  /\ \A p, q \in CopiesHeld' : p[i].title = q[i].title
                        /\ \A p \in CopiesHeld' : \A n \in IssuesOf(i)' :
                              issues'[n].title = <<i, p[i].title>>
      BY DEF Alike
    <2>1. \E p \in CopiesHeld : p[i].number = None
      BY <1>3, <1>4
    <2>2. /\ \A p, q \in CopiesHeld : p[i].title = q[i].title
          /\ \A p \in CopiesHeld : \A n \in IssuesOf(i) : issues[n].title = <<i, p[i].title>>
      BY <2>1 DEF SyncInv, Alike
    <2>3. \A p \in CopiesHeld' : p[i].title = sync[r].plan[i].title
      BY <1>3, <1>4, <2>2
    <2>4. \A n \in IssuesOf(i)' : issues'[n].title = <<i, sync[r].plan[i].title>>
      BY <1>4, <2>2
    <2> QED
      BY <2>3, <2>4
  <1>7. ASSUME NEW q \in Runners, Active(q)'
        PROVE  Sought(q)'
    <2>1. CASE q # r
      <3>1. sync'[q] = sync[q] /\ Sought(q) /\ Item(q)' = Item(q)
        BY <1>1, <1>7, <2>1 DEF SyncInv, Item
      <3> QED
        BY <3>1 DEF Sought
    <2> QED
      BY <2>1
  <1> QED
    BY <1>2, <1>5, <1>6, <1>7 DEF SyncInv

\* Other syncs seek what they sought.
LEMMA SeekingOthers ==
    ASSUME SyncInv, NEW r \in Runners, Active(r), NEW run \in Runs,
           sync' = [sync EXCEPT ![r] = run]
    PROVE  \A q \in Runners : Seeking(q)' /\ q # r => Seeking(q) /\ Item(q)' = Item(q)
  BY DEF SyncInv, SyncTypeOK, Seeking, Item, Active

\* A step after which the sync has found nothing yet, and no item an issue more.
LEMMA QuietKeeps ==
    ASSUME SyncInv, NEW r \in Runners, Active(r), NEW run \in Runs,
           sync' = [sync EXCEPT ![r] = run],
           UNCHANGED <<source, manifest, pushed, exposed, raced>>,
           issues' \in Seq(Issues), DOMAIN issues' = DOMAIN issues,
           \A n \in DOMAIN issues : issues'[n].title[1] = issues[n].title[1],
           \A i \in Items : /\ run.plan[i].title = sync[r].plan[i].title
                            /\ run.plan[i].number = None => sync[r].plan[i].number = None
                            /\ run.plan[i].number # None => run.plan[i].number \in IssuesOf(i),
           \A n \in DOMAIN issues : issues'[n].title # issues[n].title =>
               \E i \in Items : issues'[n].title = <<i, sync[r].plan[i].title>>,
           run.stage \in {"lookup", "link"}
    PROVE  SyncInv'
  <1>1. \A i : IssuesOf(i)' = IssuesOf(i)
    BY DEF IssuesOf
  <1>2. sync'[r] = run
    BY DEF SyncInv, SyncTypeOK
  <1>3. Sought(r)'
    BY <1>2 DEF Sought
  <1>4. NumbersMeant(run.plan)'
    BY <1>1 DEF NumbersMeant
  <1>5. \A q \in Runners : Seeking(q)' => Seeking(q) /\ Item(q)' = Item(q)
    <2>1. ~Seeking(r)'
      BY <1>2 DEF Seeking
    <2> QED
      BY <2>1, SeekingOthers
  <1>6. \A i \in Items \ (exposed \cup raced') : Single(i)'
    BY <1>1, <1>5 DEF SyncInv, Single
  <1>7. ASSUME NEW i \in Items, NEW n \in IssuesOf(i)'
        PROVE  \/ issues'[n].title = <<i, sync[r].plan[i].title>>
               \/ n \in IssuesOf(i) /\ issues'[n].title = issues[n].title
    <2>1. n \in IssuesOf(i) /\ n \in DOMAIN issues /\ issues'[n].title[1] = i
      BY <1>1 DEF IssuesOf
    <2>2. \A j : issues'[n].title = <<j, sync[r].plan[j].title>> => j = i
      BY <2>1
    <2> QED
      BY <2>1, <2>2
  <1>8. \A n \in DOMAIN issues' : issues'[n].title[1] \in Items
    BY DEF SyncInv, SyncTypeOK
  <1> QED
    BY <1>1, <1>3, <1>4, <1>6, <1>7, <1>8, RunKeeps

\* What goes on to the next item, or to the next child, has found nothing yet.
LEMMA OnwardTyped ==
    ASSUME NEW run \in Runs, NEW left \in SUBSET Items
    PROVE  /\ Onward(run, left) \in Runs /\ Onward(run, left).plan = run.plan
           /\ Onward(run, left).stage \in {"lookup", "link"}
  <1>1. /\ run.pos + 1 \in Nat \ {0}
        /\ run = [pos |-> run.pos, plan |-> run.plan, stage |-> run.stage,
                  found |-> run.found, left |-> run.left, alone |-> run.alone]
        /\ run.pos \in Nat \ {0} /\ run.plan \in Plans /\ run.alone \in BOOLEAN
    BY DEF Runs
  <1>2. CASE left = {}
    <2>1. Onward(run, left) = [pos |-> run.pos + 1, plan |-> run.plan, stage |-> "lookup",
                               found |-> None, left |-> {}, alone |-> run.alone]
      BY <1>1, <1>2 DEF Onward
    <2> QED
      BY <1>1, <2>1 DEF Runs
  <1>3. CASE left # {}
    <2>1. Onward(run, left) = [pos |-> run.pos, plan |-> run.plan, stage |-> "link",
                               found |-> None, left |-> left, alone |-> run.alone]
      BY <1>1, <1>3 DEF Onward
    <2> QED
      BY <1>1, <2>1 DEF Runs
  <1> QED
    BY <1>2, <1>3

LEMMA NotedTyped ==
    ASSUME NEW run \in Runs, NEW item \in Items, NEW number \in Nat
    PROVE  /\ Noted(run, item, number) \in Runs
           /\ Noted(run, item, number).plan \in Plans
           /\ Noted(run, item, number).plan[item].number = number
           /\ Noted(run, item, number).plan[item].title = run.plan[item].title
           /\ \A i \in Items \ {item} : Noted(run, item, number).plan[i] = run.plan[i]
           /\ Noted(run, item, number).stage \in {"lookup", "link"}
  <1> DEFINE plan == [run.plan EXCEPT ![item].number = number]
             noted == [run EXCEPT !.plan = [@ EXCEPT ![item].number = number]]
  <1>1. run.plan \in Plans
    BY DEF Runs
  <1>2. /\ plan \in Plans /\ plan[item].number = number
        /\ plan[item].title = run.plan[item].title
        /\ \A i \in Items \ {item} : plan[i] = run.plan[i]
    BY <1>1 DEF Plans
  <1> HIDE DEF plan
  <1>3. noted \in Runs /\ noted.plan = plan
    BY <1>2 DEF Runs, plan
  <1> HIDE DEF noted
  <1>4. Noted(run, item, number) = Onward(noted, Children(item)) /\ Children(item) \subseteq Items
    BY DEF Noted, noted, Children
  <1> QED
    BY <1>2, <1>3, <1>4, OnwardTyped

----------------------------------------------------------------------------
(* The steps of others, and the first and the last of a sync               *)

LEMMA EditKeeps ==
    ASSUME SyncInv, NEW i \in Items, NEW record \in [title : Titles, status : Known],
           Edit(i, record)
    PROVE  SyncInv'
  <1>1. UNCHANGED <<manifest, pushed, issues, sync, exposed, raced>>
    BY DEF Edit, histories
  <1>2. source' \in [Items -> [title : Titles, status : Known]]
    BY DEF Edit, SyncInv, SyncTypeOK
  <1>3. SyncTypeOK' /\ CopiesHeld' = CopiesHeld
    BY <1>1, <1>2 DEF SyncInv, SyncTypeOK, Active, CopiesHeld
  <1> QED
    BY <1>1, <1>3, FewerCopies DEF Active

\* An item renamed while a copy has no number of it is exposed.
LEMMA GenerateKeeps ==
    ASSUME SyncInv, GenerateManifest
    PROVE  SyncInv'
  <1>1. /\ UNCHANGED <<source, pushed, issues, sync, raced>> /\ exposed \subseteq exposed'
        /\ manifest' \in Plans
        /\ \A i \in Items : /\ manifest'[i].number = manifest[i].number
                            /\ manifest'[i].title = source[i].title
                            /\ i \notin exposed' /\ manifest[i].title # source[i].title =>
                                  ~Unrecorded(i)
    BY DEF GenerateManifest, Generated, SyncInv, SyncTypeOK, Plans
  <1>2. \A r : Active(r)' <=> Active(r)
    BY <1>1 DEF Active
  <1>3. /\ \A i : IssuesOf(i)' = IssuesOf(i)
        /\ \A r : (Seeking(r)' <=> Seeking(r)) /\ Item(r)' = Item(r)
    BY <1>1, <1>2 DEF IssuesOf, Seeking, Item
  <1>4. SyncTypeOK'
    BY <1>1, <1>2 DEF SyncInv, SyncTypeOK
  <1>5. /\ \A p \in CopiesHeld' : p = manifest' \/ p \in CopiesHeld
        /\ manifest \in CopiesHeld
    BY <1>1, <1>2 DEF CopiesHeld
  <1>6. \A p \in CopiesHeld' : NumbersMeant(p)'
    <2>1. \A p \in CopiesHeld : NumbersMeant(p)'
      BY <1>3 DEF SyncInv, NumbersMeant
    <2>2. NumbersMeant(manifest)
      BY <1>5 DEF SyncInv
    <2>3. NumbersMeant(manifest)'
      BY <1>1, <1>3, <2>2 DEF NumbersMeant
    <2> QED
      BY <1>5, <2>1, <2>3
  <1>7. ASSUME NEW i \in Items \ exposed'
        PROVE  Alike(i)'
    <2>1. Alike(i)
      BY <1>1 DEF SyncInv
    <2>2. CASE manifest[i].title = source[i].title
      <3>1. \A p \in CopiesHeld' : \E q \in CopiesHeld :
                q[i].title = p[i].title /\ q[i].number = p[i].number
        BY <1>1, <1>5, <2>2
      <3> QED
        BY <1>1, <1>3, <2>1, <3>1 DEF Alike
    <2>3. CASE manifest[i].title # source[i].title
      <3>1. \A p \in CopiesHeld : p[i].number # None
        BY <1>1, <2>3 DEF Unrecorded, CopiesHeld
      <3>2. \A p \in CopiesHeld' : p[i].number # None
        BY <1>1, <1>5, <3>1
      <3> QED
        BY <3>2 DEF Alike
    <2> QED
      BY <2>2, <2>3
  <1>8. \A i \in Items \ (exposed' \cup raced') : Single(i)'
    BY <1>1, <1>3 DEF SyncInv, Single
  <1>9. \A r \in Runners : Active(r)' => Sought(r)'
    BY <1>1, <1>2, <1>3 DEF SyncInv, Sought
  <1> QED
    BY <1>4, <1>6, <1>7, <1>8, <1>9 DEF SyncInv

LEMMA PushKeeps ==
    ASSUME SyncInv, Push
    PROVE  SyncInv'
  <1>1. UNCHANGED <<source, manifest, issues, sync, exposed, raced>> /\ pushed' = manifest
    BY DEF Push, histories
  <1>2. SyncTypeOK' /\ CopiesHeld' \subseteq CopiesHeld
    BY <1>1 DEF SyncInv, SyncTypeOK, Active, CopiesHeld
  <1> QED
    BY <1>1, <1>2, FewerCopies DEF Active

LEMMA BeginKeeps ==
    ASSUME SyncInv, NEW r \in Runners, Begin(r)
    PROVE  SyncInv'
  <1> DEFINE plan == IF r \in Kept THEN manifest ELSE pushed
             run == [pos |-> 1, plan |-> plan, stage |-> "lookup", found |-> None,
                     left |-> {}, alone |-> \A p \in Runners : ~Active(p)]
  <1>1. UNCHANGED <<source, manifest, pushed, issues, exposed, raced>>
    BY DEF Begin, histories
  <1>2. /\ ~Active(r) /\ DOMAIN sync' = Runners /\ sync'[r] = run
        /\ \A q \in Runners \ {r} :
              sync'[q] = IF Active(q) THEN [sync[q] EXCEPT !.alone = FALSE] ELSE NotRunning
    BY DEF Begin
  <1>3. run \in Runs
    <2>1. plan \in Plans
      BY DEF SyncInv, SyncTypeOK
    <2>2. (\A p \in Runners : ~Active(p)) \in BOOLEAN
      OBVIOUS
    <2> HIDE DEF plan
    <2> QED
      BY <2>1, <2>2 DEF Runs
  <1>4. ASSUME NEW q \in Runners \ {r}, Active(q)'
        PROVE  /\ Active(q) /\ sync'[q] \in Runs
               /\ sync'[q].stage = sync[q].stage /\ sync'[q].found = sync[q].found
               /\ sync'[q].plan = sync[q].plan /\ sync'[q].pos = sync[q].pos
    <2>1. Active(q)
      BY <1>2, <1>4 DEF Active
    <2>2. sync[q] \in Runs /\ sync'[q] = [sync[q] EXCEPT !.alone = FALSE]
      BY <1>2, <2>1 DEF SyncInv, SyncTypeOK
    <2> QED
      BY <2>1, <2>2 DEF Runs
  <1>5. SyncTypeOK'
    BY <1>1, <1>2, <1>3, <1>4 DEF SyncInv, SyncTypeOK
  <1>6. CopiesHeld' \subseteq CopiesHeld
    <2>1. sync'[r].plan \in {manifest, pushed}
      BY <1>2
    <2>2. \A q \in Runners \ {r} : Active(q)' => Active(q) /\ sync'[q].plan = sync[q].plan
      BY <1>4
    <2> HIDE DEF run
    <2> QED
      BY <1>1, <2>1, <2>2 DEF CopiesHeld
  <1>7. sync'[r].stage = "lookup"
    BY <1>2
  <1> QED
    BY <1>1, <1>4, <1>5, <1>6, <1>7, FewerCopies

\* A sync that ends, done or not.
LEMMA EndKeeps ==
    ASSUME SyncInv, NEW r \in Runners, Finish(r) \/ Abort(r)
    PROVE  SyncInv'
  <1>1. /\ Active(r) /\ UNCHANGED <<source, pushed, issues, exposed, raced>>
        /\ manifest' \in {manifest, sync[r].plan}
        /\ sync' = [sync EXCEPT ![r] = NotRunning]
    BY DEF Finish, Abort, histories
  <1>2. /\ DOMAIN sync' = Runners /\ ~Active(r)'
        /\ \A q \in Runners \ {r} : sync'[q] = sync[q] /\ (Active(q)' <=> Active(q))
    BY <1>1 DEF SyncInv, SyncTypeOK, Active
  <1>3. sync[r].plan \in Plans
    BY <1>1 DEF SyncInv, SyncTypeOK, Runs
  <1>4. SyncTypeOK'
    BY <1>1, <1>2, <1>3 DEF SyncInv, SyncTypeOK
  <1>5. CopiesHeld' \subseteq CopiesHeld
    BY <1>1, <1>2 DEF CopiesHeld
  <1> QED
    BY <1>1, <1>2, <1>4, <1>5, FewerCopies

LEMMA StutterKeeps ==
    ASSUME SyncInv, UNCHANGED vars \/ AddToProject
    PROVE  SyncInv'
  <1>1. UNCHANGED <<source, manifest, pushed, issues, sync, exposed, raced>>
    BY DEF vars, AddToProject, histories
  <1>2. SyncTypeOK' /\ CopiesHeld' = CopiesHeld
    BY <1>1 DEF SyncInv, SyncTypeOK, Active, CopiesHeld
  <1> QED
    BY <1>1, <1>2, FewerCopies DEF Active

----------------------------------------------------------------------------
(* The steps of a sync                                                     *)

\* What is known of a sync that runs.
LEMMA Running ==
    ASSUME SyncInv, NEW r \in Runners, Active(r)
    PROVE  /\ sync[r] \in Runs /\ sync[r].plan \in Plans /\ sync[r].plan \in CopiesHeld
           /\ DOMAIN sync = Runners /\ Sought(r) /\ NumbersMeant(sync[r].plan)
           /\ Len(issues) \in Nat /\ DOMAIN issues = 1 .. Len(issues)
           /\ \A n \in DOMAIN issues : issues[n] \in Issues
  BY DEF SyncInv, SyncTypeOK, Runs, CopiesHeld

\* A search that finds nothing, of an item that is not exposed, is of one that has
\* no issue; that no other sync is about to create one is what raced records.
LEMMA LookupKeeps ==
    ASSUME SyncInv, NEW r \in Runners, Lookup(r)
    PROVE  SyncInv'
  <1> DEFINE item == Item(r)
             number == sync[r].plan[item].number
  <1>1. /\ Active(r) /\ sync[r].pos <= Len(Order) /\ sync[r].stage = "lookup"
        /\ UNCHANGED <<source, manifest, pushed, issues, exposed>>
    BY DEF Lookup
  <1>2. PICK n \in IF number # None THEN {number}
                   ELSE FindIssue(Wanted(sync[r].plan, item).title) :
            /\ sync' = [sync EXCEPT ![r] = [@ EXCEPT !.stage = "write", !.found = n]]
            /\ raced' = IF n = None /\ item \in SoughtItems
                        THEN raced \cup {item} ELSE raced
    BY DEF Lookup
  <1>3. /\ sync[r] \in Runs /\ sync[r].plan \in Plans /\ sync[r].plan \in CopiesHeld
        /\ DOMAIN sync = Runners /\ NumbersMeant(sync[r].plan)
        /\ DOMAIN issues = 1 .. Len(issues) /\ Len(issues) \in Nat
    BY <1>1, Running
  <1>4. item \in Items
    <2>1. sync[r].pos \in Nat \ {0} /\ Len(Order) \in Nat /\ DOMAIN Order = 1 .. Len(Order)
      BY <1>3, IssueAssumption DEF Runs
    <2> QED
      BY <1>1, <2>1 DEF Item, Items
  <1>5. /\ n # None => n \in IssuesOf(item)
        /\ n = None => number = None /\ Numbers(<<item, sync[r].plan[item].title>>) = {}
    <2>1. CASE number # None
      BY <1>2, <1>3, <1>4, <2>1 DEF NumbersMeant
    <2>2. CASE number = None
      <3>1. Wanted(sync[r].plan, item).title = <<item, sync[r].plan[item].title>>
        BY DEF Wanted
      <3>2. None \notin DOMAIN issues
        BY <1>3, IssueAssumption
      <3>3. Numbers(<<item, sync[r].plan[item].title>>) \subseteq IssuesOf(item)
        BY DEF Numbers, IssuesOf
      <3> QED
        BY <1>2, <2>2, <3>1, <3>2, <3>3 DEF FindIssue, Numbers
    <2> QED
      BY <2>1, <2>2
  <1>6. n \in Nat \cup {None}
    BY <1>3, <1>5 DEF IssuesOf
  <1>7. PICK run \in Runs :
            /\ sync' = [sync EXCEPT ![r] = run] /\ sync'[r] = run
            /\ run.plan = sync[r].plan /\ run.stage = "write"
            /\ run.found = n /\ run.pos = sync[r].pos
    <2> DEFINE next == [sync[r] EXCEPT !.stage = "write", !.found = n]
    <2>1. next \in Runs
      BY <1>3, <1>6 DEF Runs
    <2>2. /\ next.plan = sync[r].plan /\ next.stage = "write"
          /\ next.found = n /\ next.pos = sync[r].pos
      BY <1>3 DEF Runs
    <2> QED
      BY <1>2, <1>3, <2>1, <2>2
  <1>8. \A i : IssuesOf(i)' = IssuesOf(i)
    BY <1>1 DEF IssuesOf
  <1>9. Item(r)' = item
    BY <1>7 DEF Item
  <1> HIDE DEF item
  <1>10. Sought(r)'
    BY <1>4, <1>5, <1>7, <1>8, <1>9 DEF Sought, number
  <1>11. NumbersMeant(run.plan)'
    BY <1>3, <1>7, <1>8 DEF NumbersMeant
  <1>12. ASSUME NEW i \in Items \ (exposed \cup raced')
         PROVE  Single(i)'
    <2>1. i \notin raced /\ Single(i)
      BY <1>2, <1>12 DEF SyncInv
    <2>2. \A q \in Runners : Seeking(q)' /\ q # r => Seeking(q) /\ Item(q)' = Item(q)
      BY <1>1, <1>7, SeekingOthers
    <2>3. CASE i # item \/ n # None
      <3>1. \A q \in Runners : Seeking(q)' /\ Item(q)' = i => Seeking(q) /\ Item(q) = i
        <4>1. Seeking(r)' => n = None
          BY <1>7 DEF Seeking
        <4> QED
          BY <1>9, <2>2, <2>3, <4>1
      <3> QED
        BY <1>8, <2>1, <3>1 DEF Single
    <2>4. CASE i = item /\ n = None
      <3>1. IssuesOf(i) = {}
        <4>1. Alike(i) /\ number = None
          BY <1>5, <1>12, <2>4 DEF SyncInv
        <4>2. \A m \in IssuesOf(i) : issues[m].title = <<i, sync[r].plan[i].title>>
          BY <1>3, <2>4, <4>1 DEF Alike, number
        <4>3. Numbers(<<i, sync[r].plan[i].title>>) = {}
          BY <1>5, <2>4
        <4> QED
          BY <4>2, <4>3 DEF Numbers, IssuesOf
      <3>2. \A q \in Runners : Seeking(q) => Item(q) # i
        BY <1>2, <1>12, <2>4 DEF SoughtItems
      <3> QED
        BY <1>8, <2>2, <3>1, <3>2 DEF Single
    <2> QED
      BY <2>3, <2>4
  <1>13. \A i \in Items : \A m \in IssuesOf(i)' :
             m \in IssuesOf(i) /\ issues'[m].title = issues[m].title
    BY <1>1, <1>8
  <1>14. /\ issues' \in Seq(Issues)
         /\ \A m \in DOMAIN issues' : issues'[m].title[1] \in Items
    BY <1>1 DEF SyncInv, SyncTypeOK
  <1> QED
    BY <1>1, <1>7, <1>8, <1>10, <1>11, <1>12, <1>13, <1>14, RunKeeps

LEMMA LinkKeeps ==
    ASSUME SyncInv, NEW r \in Runners, Attach(r) \/ AttachUnavailable(r)
    PROVE  SyncInv'
  <1>1. /\ Active(r) /\ UNCHANGED <<source, manifest, pushed, exposed, raced>>
        /\ \E child \in sync[r].left :
              /\ sync' = [sync EXCEPT ![r] = Linked(@, child)]
              /\ \/ issues' = issues
                 \/ issues' = [issues EXCEPT ![sync[r].plan[Item(r)].number].subs =
                                                 @ \cup {sync[r].plan[child].number}]
    BY DEF Attach, AttachUnavailable, Linking, First, histories
  <1>2. PICK child \in sync[r].left :
              /\ sync' = [sync EXCEPT ![r] = Linked(@, child)]
              /\ \/ issues' = issues
                 \/ issues' = [issues EXCEPT ![sync[r].plan[Item(r)].number].subs =
                                                 @ \cup {sync[r].plan[child].number}]
    BY <1>1
  <1>3. /\ sync[r] \in Runs /\ sync[r].plan \in Plans /\ NumbersMeant(sync[r].plan)
        /\ issues \in Seq(Issues) /\ Len(issues) \in Nat /\ DOMAIN issues = 1 .. Len(issues)
        /\ \A n \in DOMAIN issues : issues[n] \in Issues
    BY <1>1, Running DEF SyncInv, SyncTypeOK
  <1>4. child \in Items /\ sync[r].left \ {child} \in SUBSET Items
    BY <1>3 DEF Runs
  <1>5. PICK run \in Runs : /\ sync' = [sync EXCEPT ![r] = run]
                            /\ run.plan = sync[r].plan /\ run.stage \in {"lookup", "link"}
    <2>1. /\ Linked(sync[r], child) \in Runs /\ Linked(sync[r], child).plan = sync[r].plan
          /\ Linked(sync[r], child).stage \in {"lookup", "link"}
      BY <1>3, <1>4, OnwardTyped DEF Linked
    <2>2. sync' = [sync EXCEPT ![r] = Linked(sync[r], child)]
      BY <1>2
    <2> QED
      BY <2>1, <2>2
  <1>6. /\ issues' \in Seq(Issues) /\ DOMAIN issues' = DOMAIN issues
        /\ \A n \in DOMAIN issues : issues'[n].title = issues[n].title
    <2>1. CASE issues' = issues
      BY <1>3, <2>1
    <2>2. CASE issues' = [issues EXCEPT ![sync[r].plan[Item(r)].number].subs =
                                           @ \cup {sync[r].plan[child].number}]
      <3> DEFINE number == sync[r].plan[Item(r)].number
                 linked == [issues[number] EXCEPT !.subs = @ \cup {sync[r].plan[child].number}]
      <3>1. sync[r].plan[child].number \in Nat \cup {None}
        BY <1>3, <1>4 DEF Plans
      <3>2. ASSUME number \in DOMAIN issues
            PROVE  linked \in Issues /\ linked.title = issues[number].title
        <4> DEFINE more == issues[number].subs \cup {sync[r].plan[child].number}
        <4>1. issues[number] \in Issues
          BY <1>3, <3>2
        <4>2. more \in SUBSET (Nat \cup {None})
          BY <3>1, <4>1 DEF Issues
        <4> HIDE DEF more, number
        <4>3. [issues[number] EXCEPT !.subs = more] \in Issues
          BY <4>1, <4>2 DEF Issues
        <4>4. [issues[number] EXCEPT !.subs = more].title = issues[number].title
          BY <4>1 DEF Issues
        <4> QED
          BY <4>3, <4>4 DEF more
      <3>3. issues' = [issues EXCEPT ![number] = linked]
        BY <2>2
      <3> HIDE DEF number, linked
      <3>4. CASE number \in DOMAIN issues
        BY <1>3, <3>2, <3>3, <3>4
      <3>5. CASE number \notin DOMAIN issues
        <4>1. issues = [n \in 1 .. Len(issues) |-> issues[n]]
          BY <1>3
        <4>2. issues' = [n \in 1 .. Len(issues) |-> issues[n]]
          BY <1>3, <3>3, <3>5
        <4> QED
          BY <1>3, <4>1, <4>2
      <3> QED
        BY <3>4, <3>5
    <2> QED
      BY <1>2, <2>1, <2>2
  <1> QED
    BY <1>1, <1>3, <1>5, <1>6, QuietKeeps DEF NumbersMeant

\* The item is done: its number is that of one of its issues.
LEMMA NoteKeeps ==
    ASSUME SyncInv, NEW r \in Runners, Active(r), NEW item \in Items, NEW number \in Nat,
           NEW issue \in Issues, number \in IssuesOf(item),
           issue.title \in {issues[number].title, <<item, sync[r].plan[item].title>>},
           UNCHANGED <<source, manifest, pushed, exposed, raced>>,
           sync' = [sync EXCEPT ![r] = Noted(@, item, number)],
           issues' = [issues EXCEPT ![number] = issue]
    PROVE  SyncInv'
  <1>1. /\ sync[r] \in Runs /\ sync[r].plan \in Plans /\ NumbersMeant(sync[r].plan)
        /\ issues \in Seq(Issues) /\ Len(issues) \in Nat /\ DOMAIN issues = 1 .. Len(issues)
    BY Running DEF SyncInv, SyncTypeOK
  <1>2. PICK run \in Runs :
            /\ sync' = [sync EXCEPT ![r] = run]
            /\ run.plan[item].number = number
            /\ run.plan[item].title = sync[r].plan[item].title
            /\ \A i \in Items \ {item} : run.plan[i] = sync[r].plan[i]
            /\ run.stage \in {"lookup", "link"}
    BY <1>1, NotedTyped
  <1>3. /\ issues' \in Seq(Issues) /\ DOMAIN issues' = DOMAIN issues
        /\ issues'[number] = issue
        /\ \A n \in DOMAIN issues \ {number} : issues'[n] = issues[n]
    BY <1>1 DEF IssuesOf
  <1>4. issues[number].title[1] = item /\ issue.title[1] = item
    BY DEF IssuesOf
  <1>5. \A n \in DOMAIN issues : issues'[n].title[1] = issues[n].title[1]
    BY <1>3, <1>4
  <1>6. \A n \in DOMAIN issues : issues'[n].title # issues[n].title =>
            \E i \in Items : issues'[n].title = <<i, sync[r].plan[i].title>>
    BY <1>3
  <1>7. \A i \in Items : /\ run.plan[i].title = sync[r].plan[i].title
                         /\ run.plan[i].number = None => sync[r].plan[i].number = None
                         /\ run.plan[i].number # None => run.plan[i].number \in IssuesOf(i)
    BY <1>1, <1>2, IssueAssumption DEF NumbersMeant
  <1> QED
    BY <1>2, <1>3, <1>5, <1>6, <1>7, QuietKeeps

LEMMA ClosingTyped ==
    ASSUME NEW issue \in Issues, NEW yes \in BOOLEAN
    PROVE  /\ [issue EXCEPT !.closed = yes] \in Issues
           /\ [issue EXCEPT !.closed = yes].title = issue.title
  <1> DEFINE next == [issue EXCEPT !.closed = yes]
  <1>1. next = [wanted |-> issue.wanted, title |-> issue.title, closed |-> yes,
                subs |-> issue.subs]
    BY DEF Issues
  <1>2. /\ issue.title \in Items \X Titles /\ issue.subs \in SUBSET (Nat \cup {None})
        /\ issue.wanted \in {Wanted(p, i) : p \in Plans, i \in Items}
    BY DEF Issues
  <1> HIDE DEF next
  <1>3. next \in Issues
    BY <1>1, <1>2 DEF Issues
  <1>4. next.title = issue.title
    BY <1>1
  <1> QED
    BY <1>3, <1>4 DEF next

LEMMA CloseKeeps ==
    ASSUME SyncInv, NEW r \in Runners, Close(r)
    PROVE  SyncInv'
  <1>1. /\ Active(r) /\ sync[r].stage = "close"
        /\ UNCHANGED <<source, manifest, pushed, exposed, raced>>
        /\ issues' = [issues EXCEPT ![sync[r].found].closed = TRUE]
        /\ sync' = [sync EXCEPT ![r] = Noted(@, Item(r), sync[r].found)]
    BY DEF Close, histories
  <1>2. /\ Sought(r) /\ \A n \in DOMAIN issues : issues[n] \in Issues
        /\ Len(issues) \in Nat /\ DOMAIN issues = 1 .. Len(issues)
    BY <1>1, Running
  <1>3. PICK item, number : item = Item(r) /\ number = sync[r].found
    OBVIOUS
  <1>4. item \in Items /\ number \in IssuesOf(item) /\ number \in Nat
    BY <1>1, <1>2, <1>3 DEF Sought, IssuesOf
  <1>5. PICK issue \in Issues : /\ issue.title = issues[number].title
                                /\ issues' = [issues EXCEPT ![number] = issue]
    <2>1. PICK old \in Issues : old = issues[number]
      BY <1>2, <1>4 DEF IssuesOf
    <2>2. PICK yes \in BOOLEAN : yes = TRUE
      OBVIOUS
    <2>3. [old EXCEPT !.closed = yes] \in Issues
      BY Zenon, ClosingTyped
    <2>4. [old EXCEPT !.closed = yes].title = old.title
      BY ClosingTyped
    <2>5. issues' = [issues EXCEPT ![number] = [old EXCEPT !.closed = yes]]
      BY <1>1, <1>3, <2>1, <2>2
    <2> QED
      BY <2>1, <2>3, <2>4, <2>5
  <1>6. sync' = [sync EXCEPT ![r] = Noted(@, item, number)]
    BY <1>1, <1>3
  <1> QED
    BY <1>1, <1>4, <1>5, <1>6, NoteKeeps

LEMMA WantedIssue ==
    ASSUME NEW plan \in Plans, NEW item \in Items, NEW closed \in BOOLEAN,
           NEW subs \in SUBSET (Nat \cup {None})
    PROVE  /\ [wanted |-> Wanted(plan, item), title |-> Wanted(plan, item).title,
               closed |-> closed, subs |-> subs] \in Issues
           /\ Wanted(plan, item).title = <<item, plan[item].title>>
  <1>1. Wanted(plan, item).title = <<item, plan[item].title>>
    BY DEF Wanted
  <1>2. plan[item].title \in Titles
    BY DEF Plans
  <1>3. Wanted(plan, item) \in {Wanted(p, i) : p \in Plans, i \in Items}
    OBVIOUS
  <1> QED
    BY <1>1, <1>2, <1>3 DEF Issues

\* An issue that is updated is of the item, and gets its title in the plan.
LEMMA UpdateKeeps ==
    ASSUME SyncInv, NEW r \in Runners, Update(r)
    PROVE  SyncInv'
  <1>1. /\ Active(r) /\ sync[r].stage = "write" /\ sync[r].found # None
        /\ UNCHANGED <<source, manifest, pushed, exposed, raced>>
    BY DEF Update, histories
  <1>2. /\ Sought(r) /\ sync[r].plan \in Plans
        /\ Len(issues) \in Nat /\ DOMAIN issues = 1 .. Len(issues)
        /\ \A n \in DOMAIN issues : issues[n] \in Issues
    BY <1>1, Running
  <1>3. PICK item, number, plan :
            item = Item(r) /\ number = sync[r].found /\ plan = sync[r].plan
    OBVIOUS
  <1>4. /\ item \in Items /\ number \in IssuesOf(item) /\ number \in Nat
        /\ number \in DOMAIN issues /\ plan \in Plans
    BY <1>1, <1>2, <1>3 DEF Sought, IssuesOf
  <1>5. PICK issue \in Issues :
            /\ issue.title = <<item, plan[item].title>>
            /\ issues' = [issues EXCEPT ![number] = issue]
            /\ sync' = [sync EXCEPT ![r] = Noted(@, item, number)]
    <2>1. PICK old \in Issues : old = issues[number]
      BY <1>2, <1>4
    <2>2. PICK wanted, closed : /\ wanted = Wanted(plan, item)
                                /\ closed = (wanted.status = "complete")
      OBVIOUS
    <2>3. closed \in BOOLEAN /\ old.subs \in SUBSET (Nat \cup {None})
      BY <2>2 DEF Issues
    <2>6. Patched(old, wanted) = [wanted |-> wanted, title |-> wanted.title,
                                  closed |-> closed, subs |-> old.subs]
      BY <2>2, Zenon DEF Patched
    <2>7. /\ [wanted |-> wanted, title |-> wanted.title, closed |-> closed,
              subs |-> old.subs] \in Issues
          /\ wanted.title = <<item, plan[item].title>>
      BY <1>4, <2>2, <2>3, WantedIssue
    <2>8. Patched(old, wanted).title = wanted.title
      BY <2>6
    <2>4. /\ Patched(old, Wanted(plan, item)) \in Issues
          /\ Patched(old, Wanted(plan, item)).title = <<item, plan[item].title>>
      BY <2>2, <2>6, <2>7, <2>8
    <2>5. /\ issues' = [issues EXCEPT ![number] = Patched(issues[number], Wanted(plan, item))]
          /\ sync' = [sync EXCEPT ![r] = Noted(@, item, number)]
      BY <1>3 DEF Update
    <2> QED
      BY <2>1, <2>4, <2>5
  <1> QED
    BY <1>1, <1>4, <1>5, NoteKeeps, <1>3

\* A new issue of an item that is neither exposed nor raced is its first.
LEMMA CreateKeeps ==
    ASSUME SyncInv, NEW r \in Runners, Create(r)
    PROVE  SyncInv'
  <1>1. /\ Active(r) /\ sync[r].stage = "write" /\ sync[r].found = None
        /\ UNCHANGED <<source, manifest, pushed, exposed, raced>>
    BY DEF Create, Seeking, histories
  <1>2. /\ sync[r] \in Runs /\ sync[r].plan \in Plans /\ DOMAIN sync = Runners
        /\ Sought(r) /\ NumbersMeant(sync[r].plan)
        /\ issues \in Seq(Issues) /\ Len(issues) \in Nat /\ DOMAIN issues = 1 .. Len(issues)
    BY <1>1, Running DEF SyncInv, SyncTypeOK
  <1>3. PICK item, number, plan :
            item = Item(r) /\ number = Len(issues) + 1 /\ plan = sync[r].plan
    OBVIOUS
  <1>4. /\ item \in Items /\ number \in Nat /\ plan \in Plans
    BY <1>1, <1>2, <1>3 DEF Sought
  <1>5. PICK issue \in Issues :
            /\ issue.title = <<item, plan[item].title>>
            /\ issues' = Append(issues, issue)
    <2> DEFINE wanted == Wanted(plan, item)
               new == [wanted |-> wanted, title |-> wanted.title, closed |-> FALSE, subs |-> {}]
    <2>1. PICK no \in BOOLEAN, none \in SUBSET (Nat \cup {None}) : no = FALSE /\ none = {}
      OBVIOUS
    <2>2. /\ [wanted |-> wanted, title |-> wanted.title, closed |-> no, subs |-> none] \in Issues
          /\ wanted.title = <<item, plan[item].title>>
      BY <1>4, WantedIssue
    <2>3. issues' = Append(issues, new)
      BY <1>3 DEF Create
    <2>4. new \in Issues
      BY <2>1, <2>2
    <2>5. new.title = wanted.title
      OBVIOUS
    <2> QED
      BY <2>2, <2>3, <2>4, <2>5
  <1>6. /\ issues' \in Seq(Issues) /\ DOMAIN issues' = DOMAIN issues \cup {number}
        /\ number \notin DOMAIN issues /\ issues'[number] = issue
        /\ \A n \in DOMAIN issues : issues'[n] = issues[n]
    <2>1. /\ issues' \in Seq(Issues) /\ Len(issues') = number
          /\ issues'[number] = issue
          /\ \A n \in 1 .. Len(issues) : issues'[n] = issues[n]
      BY <1>2, <1>3, <1>5
    <2>2. DOMAIN issues' = 1 .. number
      BY <2>1
    <2> QED
      BY <1>2, <1>3, <2>1, <2>2
  <1>7. issue.title[1] = item
    BY <1>5
  <1>8. /\ IssuesOf(item)' = IssuesOf(item) \cup {number}
        /\ \A i \in Items \ {item} : IssuesOf(i)' = IssuesOf(i)
    BY <1>6, <1>7 DEF IssuesOf
  <1>9. PICK run \in Runs :
            /\ sync' = [sync EXCEPT ![r] = run] /\ sync'[r] = run
            /\ \A i \in Items : /\ run.plan[i].title = plan[i].title
                                /\ run.plan[i].number # plan[i].number =>
                                      i = item /\ run.plan[i].number = number
            /\ \/ run.stage \in {"lookup", "link"}
               \/ run.stage = "close" /\ run.found = number /\ run.pos = sync[r].pos
    <2>1. CASE sync' = [sync EXCEPT ![r] = Noted(@, item, number)]
      <3> DEFINE next == Noted(sync[r], item, number)
      <3>1. /\ next \in Runs /\ next.plan[item].number = number
            /\ next.plan[item].title = plan[item].title
            /\ \A i \in Items \ {item} : next.plan[i] = plan[i]
            /\ next.stage \in {"lookup", "link"}
        <4>1. PICK old \in Runs : old = sync[r]
          BY <1>2
        <4>2. /\ Noted(old, item, number) \in Runs
              /\ Noted(old, item, number).plan[item].number = number
              /\ Noted(old, item, number).plan[item].title = old.plan[item].title
              /\ \A i \in Items \ {item} : Noted(old, item, number).plan[i] = old.plan[i]
              /\ Noted(old, item, number).stage \in {"lookup", "link"}
          BY <1>4, NotedTyped
        <4>3. next = Noted(old, item, number) /\ plan = old.plan
          BY <1>3, <4>1
        <4> HIDE DEF next
        <4> QED
          BY <4>2, <4>3
      <3>2. sync' = [sync EXCEPT ![r] = next] /\ sync'[r] = next
        BY <1>2, <2>1
      <3> HIDE DEF next
      <3> QED
        BY <3>1, <3>2
    <2>2. CASE sync' = [sync EXCEPT ![r] = [@ EXCEPT !.stage = "close", !.found = number]]
      <3> DEFINE next == [sync[r] EXCEPT !.stage = "close", !.found = number]
      <3>1. next \in Runs
        BY <1>2, <1>4 DEF Runs
      <3>2. /\ next.plan = plan /\ next.stage = "close" /\ next.found = number
            /\ next.pos = sync[r].pos
        BY <1>2, <1>3 DEF Runs
      <3> QED
        BY <1>2, <2>2, <3>1, <3>2
    <2> QED
      BY <1>3, <2>1, <2>2 DEF Create
  <1>10. /\ \A i : IssuesOf(i) \subseteq IssuesOf(i)'
         /\ \A n \in DOMAIN issues' : issues'[n].title[1] \in Items
    BY <1>4, <1>6, <1>7 DEF SyncInv, SyncTypeOK, IssuesOf
  <1>11. \A i \in Items :
             /\ run.plan[i].title = sync[r].plan[i].title
             /\ run.plan[i].number = None => sync[r].plan[i].number = None
    BY <1>3, <1>4, <1>9, IssueAssumption
  <1>12. NumbersMeant(run.plan)'
    <2>1. \A i \in Items : sync[r].plan[i].number # None =>
              sync[r].plan[i].number \in IssuesOf(i)'
      BY <1>2, <1>10 DEF NumbersMeant
    <2>2. number \in IssuesOf(item)'
      BY <1>8
    <2> QED
      BY <1>3, <1>9, <2>1, <2>2 DEF NumbersMeant
  <1>13. \A i \in Items : \A n \in IssuesOf(i)' :
               \/ issues'[n].title = <<i, sync[r].plan[i].title>>
               \/ n \in IssuesOf(i) /\ issues'[n].title = issues[n].title
    BY <1>3, <1>5, <1>6, <1>7 DEF IssuesOf
  <1>14. Sought(r)'
    <2>1. run.stage = "close" => Item(r)' = item
      BY <1>3, <1>9 DEF Item
    <2> QED
      BY <1>4, <1>8, <1>9, <2>1, IssueAssumption DEF Sought
  <1>15. ASSUME NEW i \in Items \ (exposed \cup raced')
         PROVE  Single(i)'
    <2>1. Single(i)
      BY <1>1 DEF SyncInv
    <2>2. \A q \in Runners : Seeking(q)' => q # r /\ Seeking(q) /\ Item(q)' = Item(q)
      <3>1. ~Seeking(r)'
        BY <1>9 DEF Seeking
      <3> QED
        BY <1>1, <1>9, <3>1, SeekingOthers
    <2>3. CASE i = item
      <3>1. Seeking(r) /\ Item(r) = i
        BY <1>3, <2>3 DEF Create
      <3>2. IssuesOf(i) = {} /\ \A q \in Runners : Seeking(q) /\ Item(q) = i => q = r
        BY <2>1, <3>1 DEF Single
      <3>3. IssuesOf(i)' = {number}
        BY <1>8, <2>3, <3>2
      <3> QED
        BY <2>2, <3>2, <3>3 DEF Single
    <2>4. CASE i # item
      BY <1>8, <2>1, <2>2, <2>4 DEF Single
    <2> QED
      BY <2>3, <2>4
  <1> QED
    BY <1>1, <1>6, <1>9, <1>10, <1>11, <1>12, <1>13, <1>14, <1>15, RunKeeps

----------------------------------------------------------------------------
(* What a second issue of an item tells                                    *)

LEMMA SyncInvStep == SyncInv /\ [Next]_vars => SyncInv'
  <1> SUFFICES ASSUME SyncInv, [Next]_vars PROVE SyncInv'
    OBVIOUS
  <1>1. ASSUME NEW i \in Items, NEW title \in Titles,
               Edit(i, [source[i] EXCEPT !.title = title])
        PROVE  SyncInv'
    <2>1. source[i] \in [title : Titles, status : Known]
      BY DEF SyncInv, SyncTypeOK
    <2>2. [source[i] EXCEPT !.title = title] \in [title : Titles, status : Known]
      BY <2>1
    <2> QED
      BY <1>1, <2>2, EditKeeps
  <1>2. ASSUME NEW i \in Items, NEW status \in Statuses,
               Edit(i, [source[i] EXCEPT !.status = status])
        PROVE  SyncInv'
    <2>1. source[i] \in [title : Titles, status : Known] /\ status \in Known
      BY DEF SyncInv, SyncTypeOK, Known
    <2>2. [source[i] EXCEPT !.status = status] \in [title : Titles, status : Known]
      BY <2>1
    <2> QED
      BY <1>2, <2>2, EditKeeps
  <1>3. ASSUME NEW r \in Runners, Begin(r) \/ Step(r) \/ Abort(r)
        PROVE  SyncInv'
    BY <1>3, BeginKeeps, EndKeeps, LookupKeeps, CreateKeeps, CloseKeeps, UpdateKeeps,
       LinkKeeps DEF Step
  <1> QED
    BY <1>1, <1>2, <1>3, GenerateKeeps, PushKeeps, StutterKeeps DEF Next

\* However many syncs run at once, end half-way or start from an old manifest, an
\* item has a second issue only if it was renamed while a copy of the manifest had
\* no number of it, or if two syncs both searched for its issue before either had
\* created it (sync_github_issues.py:82-153, 234-350).
THEOREM TwinsAreExplained == Spec => []TwinsExplained
  <1>1. SyncInv => TwinsExplained
    BY DEF SyncInv, SyncTypeOK, TwinsExplained, Single, IssuesOf
  <1> QED
    BY SyncInvInit, SyncInvStep, <1>1, PTL DEF Spec

=============================================================================
