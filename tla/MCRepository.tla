---------------------------- MODULE MCRepository ----------------------------
(***************************************************************************)
(* An instance of Release, Harness, IssueSync and Governance for TLC: the  *)
(* scripts that maintainers run on the repository.  They do not write for  *)
(* each other: a behaviour is of one of them, chosen at the start.         *)
(*                                                                         *)
(* Release: three tracked files, one of them copied as evidence and two    *)
(* published.  IssueSync: a track of one phase.                            *)
(* Governance: one blocker of two criteria, one claim, and two profiles.   *)
(***************************************************************************)
EXTENDS Release, Harness, IssueSync, Governance

CONSTANTS phase, track, blocker, claim, first, second

MCSnapshots == {2}
MCPublished == {1, 3}
MCReports == {"challenge", "coverage"}
MCArchives == <<"source", "with-git">>
MCHistories == {"with-git"}
MCBad == {4}
MCPast == <<<<2, 2, 3>>, <<1, 2, 3>>>>

MCTools == <<"ruff", "cargo">>

MCOrder == <<phase, track>>

MCParent == [i \in {phase, track} |-> IF i = phase THEN track ELSE None]

MCCriteria == [b \in {blocker} |-> {first, second}]
MCBlocks == [b \in {blocker} |-> {"stable"}]
MCProfiles == {"alpha", "stable"}
MCRequired == [p \in MCProfiles |-> {claim}]
MCMinimum == [p \in MCProfiles |-> IF p = "alpha" THEN 2 ELSE 3]

VARIABLE script    \* the script that a behaviour is about

PackageNext == script = "package" /\ ReleaseNext /\ UNCHANGED <<harnessVars, vars, governanceVars, script>>

CheckNext == script = "harness" /\ HarnessNext /\ UNCHANGED <<releaseVars, vars, governanceVars, script>>

SyncNext == script = "issues" /\ Next /\ UNCHANGED <<releaseVars, harnessVars, governanceVars, script>>

ValidateNext ==
    script = "contract" /\ GovernanceNext /\ UNCHANGED <<releaseVars, harnessVars, vars, script>>

RepositoryStart ==
    /\ ReleaseInit /\ HarnessInit /\ Init /\ GovernanceInit
    /\ script \in {"package", "harness", "issues", "contract"}

RepositorySpec ==
    /\ RepositoryStart
    /\ [][PackageNext \/ CheckNext \/ SyncNext \/ ValidateNext]_
          <<releaseVars, harnessVars, vars, governanceVars, script>>

=============================================================================
