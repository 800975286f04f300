---------------------------- MODULE TrialRunner ----------------------------
(***************************************************************************)
(* run_benchmark over a checkpointing, retrying adapter (runner.py,        *)
(* adapters.py, manifest.py), run again into the same directory with the   *)
(* same checkpoints after it returned, raised or was killed.               *)
(*                                                                         *)
(* A trial is identified by its task and seed; the model and the adapter   *)
(* are fixed.  An output is named after the call's identity and counted    *)
(* from 1, so that every answer of the provider is another output.  The    *)
(* score, render and assessment files of a trial go with its output.       *)
(***************************************************************************)
EXTENDS Naturals, Sequences, SequencesExt

CONSTANTS
    TaskList,     \* the tasks of a run, in order; a task may occur twice
    Seeds,        \* the seeds of runs
    Adapter,      \* the adapter that makes the calls
    Checkpointed, \* whether the adapter is wrapped in a CheckpointingAdapter
    MaxAttempts,  \* max_attempts of the RetryingAdapter
    None,
    MaxRuns       \* bound: runs that are started

\* What the adapters raise: the caller's function anything, here three; the
\* directory and the command what their files and processes do, where only an
\* exit code is made a RuntimeError, and a command that takes too long is not a
\* TimeoutError; the endpoint see Completion.
CallableRaises == {"ValueError", "RuntimeError", "TimeoutError"}
DirectoryRaises == {"FileNotFoundError", "UnicodeDecodeError"}
CommandRaises == {"RuntimeError", "TimeoutExpired", "FileNotFoundError", "UnicodeDecodeError"}
EndpointRaises == {"RuntimeError", "TimeoutError", "IncompleteRead", "UnicodeDecodeError"}

Raises == [callable |-> CallableRaises, directory |-> DirectoryRaises,
           command |-> CommandRaises, endpoint |-> EndpointRaises]

Retryable == {"TimeoutError", "RuntimeError"}

ASSUME RunnerAssumption ==
    /\ Adapter \in DOMAIN Raises
    /\ TaskList \in Seq(Range(TaskList)) /\ Len(TaskList) > 0
    /\ Seeds \subseteq Nat
    /\ Checkpointed \in BOOLEAN
    /\ MaxAttempts \in Nat \ {0} /\ MaxRuns \in Nat

VARIABLES
    cache,        \* the checkpoint of each call
    outputs,      \* the output file of each trial
    tables,       \* the JSONL files and reproduce.sh
    manifest,     \* run-manifest.json
    derived,      \* prov.jsonld and ro-crate-metadata.json, by their manifest
    run,          \* the run in progress
    runs,         \* number of runs started
    whole,        \* history: the last run into the directory returned
    answers,      \* history: answers the provider gave to each call
    spent,        \* history: provider calls of the last generation of each call
    lost          \* history: answers of each call that a crash took

directory == <<outputs, tables, manifest, derived>>
history == <<answers, spent, lost>>
vars == <<cache, directory, run, runs, whole, history>>

----------------------------------------------------------------------------
Tables == <<"results", "trials", "evaluations", "failures", "reproduce">>

\* Fault: the seed is left out of the trial's identity.
TaskOnly(seed, i) == <<TaskList[i], 0>>

TrialId(seed, i) == <<TaskList[i], seed + i - 1>>

\* What a checkpoint is filed under.
CallId(seed, i) == <<TaskList[i], seed + i - 1>>

Trials == {TrialId(seed, i) : seed \in Seeds, i \in DOMAIN TaskList}
Calls == {CallId(seed, i) : seed \in Seeds, i \in DOMAIN TaskList}

\* What an adapter returns for a call.
Result == [output : Calls \X Nat, scorable : BOOLEAN, attempts : Nat]

ASSUME NoneAssumption == None \notin Result

Trial == TrialId(run.seed, run.i)
Call == CallId(run.seed, run.i)

NoRun == [at |-> "none"]

Init ==
    /\ cache = [c \in Calls |-> None]
    /\ outputs = [t \in Trials |-> None]
    /\ tables = [name \in Range(Tables) |-> None]
    /\ manifest = None /\ derived = None
    /\ run = NoRun /\ runs = 0
    /\ whole = FALSE
    /\ answers = [c \in Calls |-> 0]
    /\ spent = [c \in Calls |-> 0]
    /\ lost = [c \in Calls |-> 0]

\* The directory may hold the files of earlier runs; they are written over.
Begin(seed, continue) ==
    /\ run = NoRun /\ runs < MaxRuns
    /\ runs' = runs + 1
    /\ run' = [at |-> "generate", seed |-> seed, continue |-> continue, i |-> 1,
               attempt |-> 1, result |-> None, trials |-> <<>>]
    /\ whole' = FALSE
    /\ UNCHANGED <<cache, directory, history>>

----------------------------------------------------------------------------
(* The end of a trial                                                      *)

\* The trial is recorded, and the next one begins or the tables are written.
After(record) ==
    IF run.i < Len(TaskList)
    THEN [run EXCEPT !.trials = Append(@, record), !.i = @ + 1, !.attempt = 1,
                     !.result = None, !.at = "generate"]
    ELSE [run EXCEPT !.trials = Append(@, record), !.i = 1, !.result = None,
                     !.at = "tables"]

Failure(attempts, exhausted) ==
    [trial |-> Trial, status |-> "generation-failed", attempts |-> attempts,
     output |-> None, exhausted |-> exhausted]

Success(result) ==
    [trial |-> Trial, status |-> "success", attempts |-> result.attempts,
     output |-> result.output, exhausted |-> FALSE]

\* An exception that brings no number of attempts counts as one.
Fail(attempts, exhausted) ==
    run' = IF run.continue THEN After(Failure(attempts, exhausted)) ELSE NoRun

----------------------------------------------------------------------------
(* CheckpointingAdapter.generate and RetryingAdapter.generate              *)

\* Fault: checkpoints are written and never read.
NeverHit == FALSE

Hit == Checkpointed /\ cache[Call] # None

\* The stored result comes back with its metadata.
UseCheckpoint ==
    /\ run.at = "generate" /\ Hit
    /\ run' = [run EXCEPT !.result = cache[Call], !.at = "judge"]
    /\ UNCHANGED <<cache, directory, runs, whole, history>>

\* The provider answers, with what the runner can score or with something else
\* (another task's identity, another media type).
CallAnswered(scorable) ==
    /\ run.at = "generate" /\ ~Hit
    /\ answers' = [answers EXCEPT ![Call] = @ + 1]
    /\ spent' = [spent EXCEPT ![Call] = run.attempt]
    /\ run' = [run EXCEPT
                 !.result = [output |-> <<Call, answers[Call] + 1>>, scorable |-> scorable,
                             attempts |-> run.attempt],
                 !.at = IF Checkpointed THEN "store" ELSE "judge"]
    /\ UNCHANGED <<cache, directory, runs, whole, lost>>

\* Fault: when the attempts are used up, they begin anew.
CallTransientUnbounded ==
    /\ run.at = "generate" /\ ~Hit
    /\ Raises[Adapter] \cap Retryable # {}
    /\ spent' = [spent EXCEPT ![Call] = run.attempt]
    /\ run' = [run EXCEPT !.attempt = (@ % MaxAttempts) + 1]
    /\ UNCHANGED <<cache, directory, runs, whole, answers, lost>>

\* A timeout or another error that is retried, until the attempts are used up.
CallTransient ==
    /\ run.at = "generate" /\ ~Hit
    /\ Raises[Adapter] \cap Retryable # {}
    /\ spent' = [spent EXCEPT ![Call] = run.attempt]
    /\ IF run.attempt >= MaxAttempts
       THEN Fail(run.attempt, TRUE)
       ELSE run' = [run EXCEPT !.attempt = @ + 1]
    /\ UNCHANGED <<cache, directory, runs, whole, answers, lost>>

\* Any other error goes through the retry loop as it is.
CallRefused ==
    /\ run.at = "generate" /\ ~Hit
    /\ Raises[Adapter] \ Retryable # {}
    /\ spent' = [spent EXCEPT ![Call] = run.attempt]
    /\ Fail(1, FALSE)
    /\ UNCHANGED <<cache, directory, runs, whole, answers, lost>>

StoreCheckpoint ==
    /\ run.at = "store"
    /\ cache' = [cache EXCEPT ![Call] = run.result]
    /\ run' = [run EXCEPT !.at = "judge"]
    /\ UNCHANGED <<directory, runs, whole, history>>

----------------------------------------------------------------------------
(* run_benchmark                                                           *)

\* A result that cannot be scored fails the trial.
RejectResult ==
    /\ run.at = "judge" /\ ~run.result.scorable
    /\ Fail(1, FALSE)
    /\ UNCHANGED <<cache, directory, runs, whole, history>>

\* The output is written, and hashed for the manifest as it is on disk.
WriteOutput ==
    /\ run.at = "judge" /\ run.result.scorable
    /\ outputs' = [outputs EXCEPT ![Trial] = run.result.output]
    /\ run' = After(Success(run.result))
    /\ UNCHANGED <<cache, tables, manifest, derived, runs, whole, history>>

\* An exception of the assessor or the scorer leaves the run, whatever
\* continue_on_error says, when the output is already written.
ScoringRaises ==
    /\ run.at = "judge" /\ run.result.scorable
    /\ outputs' = [outputs EXCEPT ![Trial] = run.result.output]
    /\ run' = NoRun
    /\ UNCHANGED <<cache, tables, manifest, derived, runs, whole, history>>

Succeeded(trial) == trial.status = "success"
Failed(trial) == trial.status # "success"

Contents(trials, name) ==
    CASE name \in {"results", "trials", "reproduce"} -> trials
      [] name = "evaluations" -> SelectSeq(trials, Succeeded)
      [] name = "failures"    -> SelectSeq(trials, Failed)

\* One file after the other, when all tasks are done.
WriteTable ==
    /\ run.at = "tables"
    /\ tables' = [tables EXCEPT ![Tables[run.i]] = Contents(run.trials, Tables[run.i])]
    /\ run' = IF run.i < Len(Tables) THEN [run EXCEPT !.i = @ + 1]
              ELSE [run EXCEPT !.at = "manifest"]
    /\ UNCHANGED <<cache, outputs, manifest, derived, runs, whole, history>>

\* The manifest, with the hashes that were taken of the outputs and tables.
WriteManifest ==
    /\ run.at = "manifest"
    /\ manifest' = [seed |-> run.seed, trials |-> run.trials,
                    tables |-> [name \in Range(Tables) |-> Contents(run.trials, name)]]
    /\ run' = [run EXCEPT !.at = "derive"]
    /\ UNCHANGED <<cache, outputs, tables, derived, runs, whole, history>>

\* The provenance documents are built from the manifest, and the run returns.
WriteDerived ==
    /\ run.at = "derive"
    /\ derived' = manifest
    /\ run' = NoRun
    /\ whole' = TRUE
    /\ UNCHANGED <<cache, outputs, tables, manifest, runs, history>>

\* The process is killed.
Crash ==
    /\ run # NoRun
    /\ run' = NoRun
    /\ lost' = IF run.at = "store" THEN [lost EXCEPT ![Call] = @ + 1] ELSE lost
    /\ UNCHANGED <<cache, directory, runs, whole, answers, spent>>

Runner ==
    \/ UseCheckpoint
    \/ \E scorable \in BOOLEAN : CallAnswered(scorable)
    \/ CallTransient \/ CallRefused
    \/ StoreCheckpoint \/ RejectResult \/ WriteOutput \/ ScoringRaises
    \/ WriteTable \/ WriteManifest \/ WriteDerived

Next ==
    \/ \E seed \in Seeds, continue \in BOOLEAN : Begin(seed, continue)
    \/ Runner
    \/ Crash

Spec == Init /\ [][Next]_vars

\* The runner goes on, and the adapters' timeouts end every call.
Fairness == WF_vars(Runner)

----------------------------------------------------------------------------
(* Properties                                                              *)

\* A manifest that a run returned with agrees with the directory: a trial for
\* each task in its order, the tables that were written, and under each trial's
\* name the output of its record, whatever an earlier run left there and
\* although a task may occur twice.
ManifestAgrees ==
    whole =>
        /\ manifest.tables = tables /\ derived = manifest
        /\ Len(manifest.trials) = Len(TaskList)
        /\ \A i \in DOMAIN TaskList :
              LET r == manifest.trials[i]
              IN  /\ r.trial = TrialId(manifest.seed, i)
                  /\ Succeeded(r) => outputs[r.trial] = r.output

\* A call that was answered and stored is not made again: with checkpoints,
\* every answer but one was lost to a crash before it was stored.
NoDuplicateAnswers ==
    Checkpointed => \A c \in Calls : answers[c] <= 1 + lost[c]

\* The attempts of a trial that succeeded or used them up are the calls made
\* for it, through retries, checkpoints and restarts.
RetriesRecorded ==
    run.at # "none" =>
        \A i \in DOMAIN run.trials :
            LET r == run.trials[i]
            IN  Succeeded(r) \/ r.exhausted
                  => r.attempts = spent[CallId(run.seed, i)]

\* Every run ends: it returns, raises or is killed.
RunsEnd == run # NoRun ~> run = NoRun

=============================================================================
