--------------------------- MODULE BenchmarkProofs --------------------------
(***************************************************************************)
(* Proofs about a benchmark from its plan to its last trial.               *)
(*                                                                         *)
(* TrialRunner, for any task list, seeds, number of attempts and runs:     *)
(* what a run returns with agrees with the files, no stored answer is      *)
(* asked for again, and attempts are counted through restarts.             *)
(*                                                                         *)
(* CampaignLedger, for any panel, gates, plan, policies, prices and        *)
(* requests: only cells of qualified and priced models are leased, leases  *)
(* stay within the cap and the budget, and the reserve is enough for the   *)
(* retries that it is meant for.                                           *)
(***************************************************************************)
EXTENDS TrialRunner, CampaignLedger, Sums, SequenceTheorems, TLAPS

----------------------------------------------------------------------------
(* The inductive invariant                                                 *)

RunStages == {"generate", "store", "judge", "tables", "manifest", "derive"}

Record == [trial : Trials, status : {"success", "generation-failed"}, attempts : Nat,
           output : (Calls \X Nat) \cup {None}, exhausted : BOOLEAN]

Active == [at : RunStages, seed : Seeds, continue : BOOLEAN, i : Nat, attempt : Nat,
           result : Result \cup {None}, trials : Seq(Record)]

\* Where a run is, and how many trials it has recorded there.
Placed(r) ==
    /\ r \in Active
    /\ r.at \in {"generate", "store", "judge"} =>
          r.i \in 1 .. Len(TaskList) /\ Len(r.trials) = r.i - 1
    /\ r.at \in {"store", "judge"} => r.result \in Result
    /\ r.at = "store" => Checkpointed
    /\ r.at = "tables" => r.i \in 1 .. Len(Tables)
    /\ r.at \in {"tables", "manifest", "derive"} => Len(r.trials) = Len(TaskList)

\* A recorded trial agrees with the outputs and the provider's calls.
Accounted(r, outs, calls) ==
    \A j \in DOMAIN r.trials :
        /\ r.trials[j].trial = TrialId(r.seed, j)
        /\ Succeeded(r.trials[j]) => outs[TrialId(r.seed, j)] = r.trials[j].output
        /\ Succeeded(r.trials[j]) \/ r.trials[j].exhausted =>
              r.trials[j].attempts = calls[CallId(r.seed, j)]

TypeInv ==
    /\ cache \in [Calls -> Result \cup {None}]
    /\ outputs = [t \in Trials |-> outputs[t]]
    /\ tables = [name \in Range(Tables) |-> tables[name]]
    /\ answers \in [Calls -> Nat]
    /\ spent \in [Calls -> Nat]
    /\ lost \in [Calls -> Nat]

RunInv == run = NoRun \/ (Placed(run) /\ Accounted(run, outputs, spent))

\* The result in hand, like every checkpoint, counts the calls made for it.
AttemptsInv ==
    /\ \A c \in Calls : cache[c] # None => cache[c].attempts = spent[c]
    /\ run.at \in {"store", "judge"} => run.result.attempts = spent[Call]

CacheInv ==
    /\ ~Checkpointed => \A c \in Calls : cache[c] = None
    /\ run.at = "store" => cache[Call] = None

\* An answer is in a checkpoint, about to be stored, or lost.
AnswersInv ==
    Checkpointed => \A c \in Calls :
        answers[c] = lost[c] + (IF cache[c] # None THEN 1 ELSE 0)
                             + (IF run.at = "store" /\ Call = c THEN 1 ELSE 0)

Written(k) == tables[Tables[k]] = Contents(run.trials, Tables[k])

Manifested ==
    /\ manifest = [seed |-> run.seed, trials |-> run.trials,
                   tables |-> [name \in Range(Tables) |-> Contents(run.trials, name)]]
    /\ manifest.tables = tables

FilesInv ==
    /\ run.at = "tables" => \A k \in 1 .. run.i - 1 : Written(k)
    /\ run.at = "manifest" => \A k \in 1 .. Len(Tables) : Written(k)
    /\ run.at = "derive" => Manifested

WholeInv == whole => run = NoRun /\ ManifestAgrees

IInv ==
    TypeInv /\ RunInv /\ AttemptsInv /\ CacheInv /\ AnswersInv /\ FilesInv /\ WholeInv

LEMMA TrialsDiffer ==
    ASSUME NEW seed \in Seeds, NEW i \in Nat, NEW j \in Nat, i # j
    PROVE  TrialId(seed, i) # TrialId(seed, j) /\ CallId(seed, i) # CallId(seed, j)
BY RunnerAssumption DEF TrialId, CallId

LEMMA TrialsExist ==
    ASSUME NEW seed \in Seeds, NEW i \in 1 .. Len(TaskList)
    PROVE  TrialId(seed, i) \in Trials /\ CallId(seed, i) \in Calls
BY RunnerAssumption DEF Trials, Calls

LEMMA InitIInv == Init => IInv
<1> SUFFICES ASSUME Init PROVE IInv
  OBVIOUS
<1>1. run.at = "none"
  BY DEF Init, NoRun
<1> QED
  BY <1>1 DEF Init, IInv, TypeInv, RunInv, AttemptsInv, CacheInv, AnswersInv, FilesInv, WholeInv

----------------------------------------------------------------------------
(* The end of a trial                                                      *)

\* Recording a trial that is accounted for keeps the run in order.
LEMMA AfterInOrder ==
    ASSUME Placed(run), run.at \in {"generate", "judge"},
           NEW record \in Record, record.trial = Trial,
           NEW outs, NEW calls, Accounted(run, outs, calls),
           Succeeded(record) => outs[Trial] = record.output,
           Succeeded(record) \/ record.exhausted => record.attempts = calls[Call]
    PROVE  /\ Placed(After(record)) /\ Accounted(After(record), outs, calls)
           /\ After(record).at \in {"generate", "tables"}
           /\ After(record).i \in Nat
           /\ After(record).at = "tables" => After(record).i = 1
<1> DEFINE r == After(record)
<1>1. /\ run \in Active /\ run.i \in 1 .. Len(TaskList) /\ Len(run.trials) = run.i - 1
      /\ Len(TaskList) \in Nat
  BY RunnerAssumption DEF Placed
<1>2. /\ run.trials \in Seq(Record) /\ run.seed \in Seeds
      /\ Append(run.trials, record) \in Seq(Record)
      /\ Len(Append(run.trials, record)) = run.i
  BY <1>1 DEF Active
<1>3. /\ r \in Active /\ r.trials = Append(run.trials, record) /\ r.seed = run.seed
      /\ run.i < Len(TaskList) => r.at = "generate" /\ r.i = run.i + 1
      /\ run.i >= Len(TaskList) => r.at = "tables" /\ r.i = 1
  <2>1. CASE run.i < Len(TaskList)
    <3>1. r = [at |-> "generate", seed |-> run.seed, continue |-> run.continue,
               i |-> run.i + 1, attempt |-> 1, result |-> None,
               trials |-> Append(run.trials, record)]
      BY <1>1, <2>1 DEF After, Active
    <3> QED  BY <1>1, <1>2, <2>1, <3>1 DEF Active, RunStages
  <2>2. CASE run.i >= Len(TaskList)
    <3>0. ~(run.i < Len(TaskList))
      BY <1>1, <2>2
    <3>1. r = [at |-> "tables", seed |-> run.seed, continue |-> run.continue,
               i |-> 1, attempt |-> run.attempt, result |-> None,
               trials |-> Append(run.trials, record)]
      BY <1>1, <3>0 DEF After, Active
    <3> QED  BY <1>1, <1>2, <2>2, <3>1 DEF Active, RunStages
  <2> QED  BY <1>1, <2>1, <2>2
<1>4. Placed(r)
  <2>1. Len(Tables) = 5
    BY DEF Tables
  <2>2. Len(r.trials) = run.i
    BY <1>2, <1>3
  <2>3. CASE run.i < Len(TaskList)
    BY <1>1, <1>3, <2>2, <2>3 DEF Placed
  <2>4. CASE run.i >= Len(TaskList)
    BY <1>1, <1>3, <2>1, <2>2, <2>4 DEF Placed
  <2> QED  BY <1>1, <2>3, <2>4
<1>5. Accounted(r, outs, calls)
  <2> SUFFICES ASSUME NEW j \in DOMAIN r.trials
               PROVE  /\ r.trials[j].trial = TrialId(r.seed, j)
                      /\ Succeeded(r.trials[j]) =>
                            outs[TrialId(r.seed, j)] = r.trials[j].output
                      /\ Succeeded(r.trials[j]) \/ r.trials[j].exhausted =>
                            r.trials[j].attempts = calls[CallId(r.seed, j)]
    BY DEF Accounted
  <2>1. CASE j \in DOMAIN run.trials
    <3>1. r.trials[j] = run.trials[j]
      BY <1>2, <1>3, <2>1
    <3> QED  BY <1>3, <2>1, <3>1 DEF Accounted
  <2>2. CASE j \notin DOMAIN run.trials
    <3>1. j = run.i /\ r.trials[j] = record
      BY <1>1, <1>2, <1>3, <2>2
    <3> QED  BY <1>3, <3>1 DEF Trial, Call
  <2> QED  BY <2>1, <2>2
<1> QED  BY <1>1, <1>3, <1>4, <1>5

LEMMA RecordsMade ==
    ASSUME Placed(run), run.at \in {"generate", "judge"}
    PROVE  /\ \A n \in Nat, e \in BOOLEAN : Failure(n, e) \in Record
           /\ \A res \in Result : Success(res) \in Record
           /\ Trial \in Trials /\ Call \in Calls
<1>1. run.seed \in Seeds /\ run.i \in 1 .. Len(TaskList)
  BY DEF Placed, Active
<1>2. Trial \in Trials /\ Call \in Calls
  BY <1>1, TrialsExist DEF Trial, Call
<1> QED  BY <1>2 DEF Failure, Success, Record, Result

----------------------------------------------------------------------------
(* What a step may change                                                  *)

LEMMA SameTrials ==
    ASSUME NEW outs, NEW calls, Accounted(run, outs, calls),
           NEW r, r.trials = run.trials, r.seed = run.seed
    PROVE  Accounted(r, outs, calls)
BY DEF Accounted

\* The trial in progress is none of those recorded.
LEMMA Elsewhere ==
    ASSUME Placed(run), run.at \in {"generate", "judge"}, TypeInv,
           Accounted(run, outputs, spent)
    PROVE  /\ \A n : Accounted(run, outputs, [spent EXCEPT ![Call] = n])
           /\ \A o : Accounted(run, [outputs EXCEPT ![Trial] = o], spent)
<1>1. /\ run.seed \in Seeds /\ run.i \in 1 .. Len(TaskList) /\ Len(TaskList) \in Nat
      /\ DOMAIN run.trials = 1 .. run.i - 1
  BY RunnerAssumption DEF Placed, Active
<1>2. ASSUME NEW j \in DOMAIN run.trials
      PROVE  /\ TrialId(run.seed, j) # Trial /\ CallId(run.seed, j) # Call
             /\ TrialId(run.seed, j) \in Trials /\ CallId(run.seed, j) \in Calls
  <2>1. j \in 1 .. Len(TaskList) /\ j # run.i
    BY <1>1, <1>2
  <2> QED  BY <1>1, <2>1, TrialsDiffer, TrialsExist DEF Trial, Call
<1>3. ASSUME NEW n PROVE Accounted(run, outputs, [spent EXCEPT ![Call] = n])
  BY <1>2 DEF Accounted, TypeInv
<1>4. ASSUME NEW o PROVE Accounted(run, [outputs EXCEPT ![Trial] = o], spent)
  BY <1>2 DEF Accounted, TypeInv
<1> QED  BY <1>3, <1>4

LEMMA ActiveNow == ASSUME IInv, run.at \in RunStages PROVE run # NoRun /\ Placed(run) /\ Accounted(run, outputs, spent)
BY DEF IInv, RunInv, NoRun, RunStages

\* A run that ends leaves everything in order.
LEMMA EndStep ==
    ASSUME IInv, run # NoRun, TypeInv', CacheInv', AnswersInv',
           \A c \in Calls : cache'[c] # None => cache'[c].attempts = spent'[c],
           run' = NoRun, UNCHANGED whole
    PROVE  IInv'
<1>1. run'.at = "none"
  BY DEF NoRun
<1>2. ~whole'
  BY DEF IInv, WholeInv
<1> QED  BY <1>1, <1>2 DEF IInv, RunInv, AttemptsInv, FilesInv, WholeInv

\* A run that records a trial, too.
LEMMA RecordStep ==
    ASSUME IInv, run.at \in {"generate", "judge"},
           TypeInv', CacheInv', AnswersInv',
           \A c \in Calls : cache'[c] # None => cache'[c].attempts = spent'[c],
           NEW record \in Record, run' = After(record), record.trial = Trial,
           Accounted(run, outputs', spent'),
           Succeeded(record) => outputs'[Trial] = record.output,
           Succeeded(record) \/ record.exhausted => record.attempts = spent'[Call],
           UNCHANGED <<tables, whole>>
    PROVE  IInv'
<1>1. run # NoRun /\ Placed(run)
  BY ActiveNow DEF RunStages
<1>2. /\ Placed(run') /\ Accounted(run', outputs', spent')
      /\ run'.at \in {"generate", "tables"}
      /\ run'.at = "tables" => run'.i = 1
  BY <1>1, AfterInOrder
<1>3. ~whole'
  BY <1>1 DEF IInv, WholeInv
<1>4. FilesInv'
  BY <1>2 DEF FilesInv
<1> QED  BY <1>2, <1>3, <1>4 DEF IInv, RunInv, AttemptsInv, WholeInv

----------------------------------------------------------------------------
(* The steps                                                               *)

LEMMA BeginStep ==
    ASSUME IInv, NEW seed \in Seeds, NEW continue \in BOOLEAN, Begin(seed, continue)
    PROVE  IInv'
<1>1. run' = [at |-> "generate", seed |-> seed, continue |-> continue, i |-> 1,
              attempt |-> 1, result |-> None, trials |-> <<>>]
  BY DEF Begin
<1>2. Placed(run')
  BY <1>1, RunnerAssumption DEF Placed, Active, RunStages
<1>3. Accounted(run', outputs, spent)
  BY <1>1 DEF Accounted
<1>4. run.at = "none" /\ run'.at = "generate"
  BY <1>1 DEF Begin, NoRun
<1> QED
  BY <1>2, <1>3, <1>4 DEF Begin, directory, history, IInv, TypeInv, RunInv, AttemptsInv,
     CacheInv, AnswersInv, FilesInv, WholeInv

LEMMA UseCheckpointStep == ASSUME IInv, UseCheckpoint PROVE IInv'
<1>1. run # NoRun /\ Placed(run) /\ Accounted(run, outputs, spent)
  BY ActiveNow DEF UseCheckpoint, RunStages
<1>2. run \in Active /\ Call \in Calls /\ cache[Call] \in Result
  BY <1>1, RecordsMade DEF UseCheckpoint, Hit, Placed, IInv, TypeInv
<1>3. run' = [at |-> "judge", seed |-> run.seed, continue |-> run.continue, i |-> run.i,
              attempt |-> run.attempt, result |-> cache[Call], trials |-> run.trials]
  BY <1>2 DEF UseCheckpoint, Active
<1>4. Placed(run')
  BY <1>1, <1>2, <1>3 DEF Placed, Active, RunStages, UseCheckpoint
<1>5. Accounted(run', outputs, spent)
  BY <1>1, <1>3, SameTrials
<1>6. Call' = Call /\ run'.at = "judge" /\ run'.result = cache[Call]
  BY <1>3 DEF Call
<1>7. cache[Call].attempts = spent[Call]
  BY <1>2 DEF IInv, AttemptsInv, UseCheckpoint, Hit
<1> QED
  BY <1>1, <1>2, <1>4, <1>5, <1>6, <1>7 DEF UseCheckpoint, directory, history, IInv, TypeInv,
     RunInv, AttemptsInv, CacheInv, AnswersInv, FilesInv, WholeInv

\* Before a call there is no checkpoint of it.
LEMMA NoCheckpoint ==
    ASSUME IInv, Call \in Calls, ~Hit PROVE cache[Call] = None
BY DEF IInv, CacheInv, Hit

LEMMA CallAnsweredStep ==
    ASSUME IInv, NEW scorable \in BOOLEAN, CallAnswered(scorable) PROVE IInv'
<1> DEFINE res == [output |-> <<Call, answers[Call] + 1>>, scorable |-> scorable,
                   attempts |-> run.attempt]
           at  == IF Checkpointed THEN "store" ELSE "judge"
<1>1. run # NoRun /\ Placed(run) /\ Accounted(run, outputs, spent) /\ run.at = "generate"
  BY ActiveNow DEF CallAnswered, RunStages
<1>2. run \in Active /\ Call \in Calls /\ cache[Call] = None
  BY <1>1, RecordsMade, NoCheckpoint DEF CallAnswered, Placed
<1>3. run.attempt \in Nat /\ answers[Call] \in Nat
  BY <1>2 DEF Active, IInv, TypeInv
<1>4. res \in Result
  BY <1>2, <1>3 DEF Result
<1>5. run' = [at |-> at, seed |-> run.seed, continue |-> run.continue, i |-> run.i,
              attempt |-> run.attempt, result |-> res, trials |-> run.trials]
  BY <1>2 DEF CallAnswered, Active
<1>6. Placed(run')
  BY <1>1, <1>2, <1>4, <1>5 DEF Placed, Active, RunStages
<1>7. /\ answers' = [answers EXCEPT ![Call] = @ + 1]
      /\ spent' = [spent EXCEPT ![Call] = run.attempt]
      /\ UNCHANGED <<cache, outputs, tables, manifest, derived, whole, lost>>
  BY DEF CallAnswered, directory
<1>8. Accounted(run', outputs', spent')
  BY <1>1, <1>5, <1>7, Elsewhere, SameTrials DEF IInv
<1>9. Call' = Call /\ run'.at = at /\ run'.result.attempts = run.attempt
  BY <1>5 DEF Call
<1>10. TypeInv'
  BY <1>2, <1>3, <1>7 DEF IInv, TypeInv
<1>11. AttemptsInv' /\ CacheInv'
  BY <1>1, <1>2, <1>7, <1>9 DEF IInv, TypeInv, AttemptsInv, CacheInv
<1>12. AnswersInv'
  BY <1>1, <1>2, <1>7, <1>9 DEF IInv, TypeInv, AnswersInv
<1> QED
  BY <1>1, <1>6, <1>7, <1>8, <1>9, <1>10, <1>11, <1>12 DEF IInv, RunInv, FilesInv, WholeInv

\* A call that fails is counted, and nothing else on disk or in history changes.
LEMMA CallCounted ==
    ASSUME IInv, run.at = "generate", ~Hit,
           spent' = [spent EXCEPT ![Call] = run.attempt],
           UNCHANGED <<cache, directory, whole, answers, lost>>, run'.at # "store"
    PROVE  /\ TypeInv' /\ CacheInv' /\ AnswersInv'
           /\ \A c \in Calls : cache'[c] # None => cache'[c].attempts = spent'[c]
           /\ Accounted(run, outputs', spent')
<1>1. run # NoRun /\ Placed(run) /\ Accounted(run, outputs, spent)
  BY ActiveNow DEF RunStages
<1>2. run \in Active /\ Call \in Calls /\ cache[Call] = None /\ run.attempt \in Nat
  BY <1>1, RecordsMade, NoCheckpoint DEF Placed, Active
<1>3. Accounted(run, outputs', spent')
  BY <1>1, Elsewhere DEF IInv, directory
<1>4. TypeInv'
  BY <1>2 DEF IInv, TypeInv, directory
<1>5. CacheInv' /\ AnswersInv'
  BY DEF IInv, CacheInv, AnswersInv
<1>6. \A c \in Calls : cache'[c] # None => cache'[c].attempts = spent'[c]
  BY <1>2 DEF IInv, TypeInv, AttemptsInv
<1> QED  BY <1>3, <1>4, <1>5, <1>6

LEMMA FailStep ==
    ASSUME IInv, run.at \in {"generate", "judge"}, NEW n \in Nat, NEW e \in BOOLEAN,
           Fail(n, e), TypeInv', CacheInv', AnswersInv',
           \A c \in Calls : cache'[c] # None => cache'[c].attempts = spent'[c],
           Accounted(run, outputs', spent'), e => n = spent'[Call],
           UNCHANGED <<tables, whole>>
    PROVE  IInv'
<1>1. run # NoRun /\ Placed(run)
  BY ActiveNow DEF RunStages
<1>2. CASE run.continue
  <2>1. /\ Failure(n, e) \in Record /\ run' = After(Failure(n, e))
        /\ Failure(n, e).trial = Trial /\ ~Succeeded(Failure(n, e))
        /\ Failure(n, e).exhausted = e /\ Failure(n, e).attempts = n
    BY <1>1, <1>2, RecordsMade DEF Fail, Failure, Succeeded
  <2> QED  BY <2>1, RecordStep
<1>3. CASE ~run.continue
  BY <1>1, <1>3, EndStep DEF Fail
<1> QED  BY <1>2, <1>3

LEMMA FailLeaves ==
    ASSUME run \in Active, NEW n, NEW e, Fail(n, e) PROVE run'.at # "store"
BY DEF Fail, After, NoRun, Active

LEMMA CallTransientStep == ASSUME IInv, CallTransient PROVE IInv'
<1>1. /\ run.at = "generate" /\ ~Hit
      /\ spent' = [spent EXCEPT ![Call] = run.attempt]
      /\ UNCHANGED <<cache, directory, whole, answers, lost>>
  BY DEF CallTransient
<1>2. run # NoRun /\ Placed(run) /\ run \in Active /\ run.attempt \in Nat
  BY <1>1, ActiveNow DEF RunStages, Placed, Active
<1>3. Call \in Calls /\ spent'[Call] = run.attempt
  BY <1>1, <1>2, RecordsMade DEF IInv, TypeInv
<1>4. CASE run.attempt >= MaxAttempts
  <2>1. Fail(run.attempt, TRUE)
    BY <1>4 DEF CallTransient
  <2>2. run'.at # "store"
    BY <1>2, <2>1, FailLeaves
  <2>3. /\ TypeInv' /\ CacheInv' /\ AnswersInv' /\ Accounted(run, outputs', spent')
        /\ \A c \in Calls : cache'[c] # None => cache'[c].attempts = spent'[c]
    BY <1>1, <2>2, CallCounted
  <2> QED  BY <1>1, <1>2, <1>3, <2>1, <2>3, FailStep DEF directory
<1>5. CASE ~(run.attempt >= MaxAttempts)
  <2>1. run' = [at |-> run.at, seed |-> run.seed, continue |-> run.continue, i |-> run.i,
                attempt |-> run.attempt + 1, result |-> run.result, trials |-> run.trials]
    BY <1>2, <1>5 DEF CallTransient, Active
  <2>2. run'.at = "generate"
    BY <1>1, <2>1
  <2>3. /\ TypeInv' /\ CacheInv' /\ AnswersInv' /\ Accounted(run, outputs', spent')
        /\ \A c \in Calls : cache'[c] # None => cache'[c].attempts = spent'[c]
    BY <1>1, <2>2, CallCounted
  <2>4. Placed(run') /\ Accounted(run', outputs', spent')
    BY <1>1, <1>2, <2>1, <2>3, SameTrials DEF Placed, Active
  <2> QED
    BY <1>1, <1>2, <2>2, <2>3, <2>4 DEF IInv, RunInv, AttemptsInv, FilesInv, WholeInv
<1> QED  BY <1>4, <1>5

LEMMA CallRefusedStep == ASSUME IInv, CallRefused PROVE IInv'
<1>1. /\ run.at = "generate" /\ ~Hit /\ Fail(1, FALSE)
      /\ spent' = [spent EXCEPT ![Call] = run.attempt]
      /\ UNCHANGED <<cache, directory, whole, answers, lost>>
  BY DEF CallRefused
<1>2. run \in Active
  BY <1>1, ActiveNow DEF RunStages, Placed
<1>3. run'.at # "store"
  BY <1>1, <1>2, FailLeaves
<1>4. /\ TypeInv' /\ CacheInv' /\ AnswersInv' /\ Accounted(run, outputs', spent')
      /\ \A c \in Calls : cache'[c] # None => cache'[c].attempts = spent'[c]
  BY <1>1, <1>3, CallCounted
<1> QED  BY <1>1, <1>4, FailStep DEF directory

\* Whether or not a checkpoint is in hand, what is on disk stays counted.
LEMMA DiskCounted ==
    ASSUME IInv, run.at \notin {"store"}, run'.at # "store",
           UNCHANGED <<cache, answers, spent, lost>>
    PROVE  /\ CacheInv' /\ AnswersInv'
           /\ \A c \in Calls : cache'[c] # None => cache'[c].attempts = spent'[c]
BY DEF IInv, CacheInv, AnswersInv, AttemptsInv

LEMMA StoreCheckpointStep == ASSUME IInv, StoreCheckpoint PROVE IInv'
<1>1. /\ run.at = "store" /\ cache' = [cache EXCEPT ![Call] = run.result]
      /\ UNCHANGED <<outputs, tables, manifest, derived, whole, answers, spent, lost>>
  BY DEF StoreCheckpoint, directory, history
<1>2. run # NoRun /\ Placed(run) /\ Accounted(run, outputs, spent) /\ run \in Active
  BY <1>1, ActiveNow DEF RunStages, Placed
<1>3. run' = [at |-> "judge", seed |-> run.seed, continue |-> run.continue, i |-> run.i,
              attempt |-> run.attempt, result |-> run.result, trials |-> run.trials]
  BY <1>2 DEF StoreCheckpoint, Active
<1>4. Call \in Calls
  BY <1>1, <1>2, TrialsExist DEF Placed, Active, Call
<1>5. run.result \in Result /\ run.result # None /\ Checkpointed
  BY <1>1, <1>2, NoneAssumption DEF Placed
<1>6. Placed(run') /\ Accounted(run', outputs', spent')
  BY <1>1, <1>2, <1>3, SameTrials DEF Placed, Active, RunStages
<1>7. Call' = Call /\ run'.at = "judge" /\ run'.result = run.result
  BY <1>3 DEF Call
<1>8. TypeInv'
  BY <1>1, <1>4, <1>5 DEF IInv, TypeInv
<1>9. AttemptsInv' /\ CacheInv'
  BY <1>1, <1>4, <1>5, <1>7 DEF IInv, TypeInv, AttemptsInv, CacheInv
<1>10. cache[Call] = None
  BY <1>1 DEF IInv, CacheInv
<1>11. AnswersInv'
  <2> SUFFICES ASSUME NEW c \in Calls
               PROVE  answers[c] = lost[c] + (IF cache'[c] # None THEN 1 ELSE 0) + 0
    BY <1>1, <1>7 DEF AnswersInv
  <2>1. answers[c] = lost[c] + (IF cache[c] # None THEN 1 ELSE 0)
                             + (IF Call = c THEN 1 ELSE 0)
    BY <1>1, <1>5 DEF IInv, AnswersInv
  <2>2. lost[c] \in Nat
    BY DEF IInv, TypeInv
  <2>3. CASE c = Call
    <3>1. cache'[c] # None
      BY <1>1, <1>4, <1>5, <2>3 DEF IInv, TypeInv
    <3> QED  BY <1>10, <2>1, <2>2, <2>3, <3>1
  <2>4. CASE c # Call
    <3>1. cache'[c] = cache[c]
      BY <1>1, <2>4 DEF IInv, TypeInv
    <3> QED  BY <2>1, <2>2, <2>4, <3>1
  <2> QED  BY <2>3, <2>4
<1> QED
  BY <1>1, <1>2, <1>6, <1>7, <1>8, <1>9, <1>11 DEF IInv, RunInv, FilesInv, WholeInv

LEMMA RejectResultStep == ASSUME IInv, RejectResult PROVE IInv'
<1>1. /\ run.at = "judge" /\ Fail(1, FALSE)
      /\ UNCHANGED <<cache, outputs, tables, whole, answers, spent, lost>>
  BY DEF RejectResult, directory, history
<1>2. run \in Active /\ Accounted(run, outputs', spent')
  BY <1>1, ActiveNow DEF RunStages, Placed
<1>3. run'.at # "store"
  BY <1>1, <1>2, FailLeaves
<1>4. /\ CacheInv' /\ AnswersInv'
      /\ \A c \in Calls : cache'[c] # None => cache'[c].attempts = spent'[c]
  BY <1>1, <1>3, DiskCounted
<1>5. TypeInv'
  BY <1>1 DEF IInv, TypeInv
<1> QED  BY <1>1, <1>2, <1>4, <1>5, FailStep

LEMMA WriteOutputStep == ASSUME IInv, WriteOutput PROVE IInv'
<1>1. /\ run.at = "judge" /\ run' = After(Success(run.result))
      /\ outputs' = [outputs EXCEPT ![Trial] = run.result.output]
      /\ UNCHANGED <<cache, tables, whole, answers, spent, lost>>
  BY DEF WriteOutput, history
<1>2. Placed(run) /\ run \in Active /\ Accounted(run, outputs, spent)
  BY <1>1, ActiveNow DEF RunStages, Placed
<1>3. run.result \in Result /\ Trial \in Trials /\ Success(run.result) \in Record
  BY <1>1, <1>2, RecordsMade DEF Placed
<1>4. run'.at # "store"
  BY <1>1, <1>2 DEF After, Active
<1>5. /\ CacheInv' /\ AnswersInv'
      /\ \A c \in Calls : cache'[c] # None => cache'[c].attempts = spent'[c]
  BY <1>1, <1>4, DiskCounted
<1>6. TypeInv'
  BY <1>1, <1>3 DEF IInv, TypeInv
<1>7. Accounted(run, outputs', spent')
  BY <1>1, <1>2, Elsewhere DEF IInv
<1>8. outputs'[Trial] = Success(run.result).output
  BY <1>1, <1>3 DEF IInv, TypeInv, Success
<1>9. Success(run.result).trial = Trial /\ Success(run.result).attempts = spent'[Call]
  BY <1>1 DEF IInv, AttemptsInv, Success
<1> QED  BY <1>1, <1>3, <1>5, <1>6, <1>7, <1>8, <1>9, RecordStep

LEMMA ScoringRaisesStep == ASSUME IInv, ScoringRaises PROVE IInv'
<1>1. /\ run.at = "judge" /\ run' = NoRun
      /\ outputs' = [outputs EXCEPT ![Trial] = run.result.output]
      /\ UNCHANGED <<cache, tables, whole, answers, spent, lost>>
  BY DEF ScoringRaises, history
<1>2. run # NoRun /\ Placed(run)
  BY <1>1, ActiveNow DEF RunStages
<1>3. Trial \in Trials
  BY <1>1, <1>2, RecordsMade
<1>4. TypeInv'
  BY <1>1, <1>3 DEF IInv, TypeInv
<1>5. run'.at # "store"
  BY <1>1 DEF NoRun
<1> QED  BY <1>1, <1>2, <1>4, <1>5, DiskCounted, EndStep

LEMMA WriteTableStep == ASSUME IInv, WriteTable PROVE IInv'
<1> DEFINE name == Tables[run.i]
           last == run.i >= Len(Tables)
<1>1. /\ run.at = "tables"
      /\ tables' = [tables EXCEPT ![name] = Contents(run.trials, name)]
      /\ UNCHANGED <<cache, outputs, manifest, derived, whole, answers, spent, lost>>
  BY DEF WriteTable, history
<1>2. /\ run # NoRun /\ Placed(run) /\ Accounted(run, outputs, spent) /\ run \in Active
      /\ run.i \in 1 .. Len(Tables) /\ Len(Tables) = 5
  BY <1>1, ActiveNow DEF RunStages, Placed, Tables
<1>3. run' = [at |-> IF last THEN "manifest" ELSE "tables", seed |-> run.seed,
              continue |-> run.continue, i |-> IF last THEN run.i ELSE run.i + 1,
              attempt |-> run.attempt, result |-> run.result, trials |-> run.trials]
  <2>1. CASE last
    <3>1. ~(run.i < Len(Tables))
      BY <1>2, <2>1
    <3> QED  BY <1>2, <2>1, <3>1 DEF WriteTable, Active
  <2>2. CASE ~last
    <3>1. run.i < Len(Tables)
      BY <1>2, <2>2
    <3> QED  BY <1>1, <1>2, <2>2, <3>1 DEF WriteTable, Active
  <2> QED  BY <2>1, <2>2
<1>4. Placed(run') /\ Accounted(run', outputs', spent')
  <2>1. Len(run'.trials) = Len(TaskList) /\ run' \in Active
    BY <1>1, <1>2, <1>3 DEF Placed, Active, RunStages
  <2>2. run'.at = "tables" => run'.i \in 1 .. Len(Tables)
    BY <1>2, <1>3
  <2>3. run'.at \in {"tables", "manifest"}
    BY <1>3
  <2> QED  BY <1>1, <1>2, <1>3, <2>1, <2>2, <2>3, SameTrials DEF Placed
<1>5. \A k \in 1 .. Len(Tables) : Tables[k] \in Range(Tables)
  BY DEF Range, Tables
<1>6. TypeInv'
  BY <1>1, <1>2, <1>5 DEF IInv, TypeInv
<1>7. ASSUME NEW k \in 1 .. Len(Tables), k = run.i \/ Written(k)
      PROVE  tables'[Tables[k]] = Contents(run'.trials, Tables[k])
  <2>1. run'.trials = run.trials
    BY <1>3
  <2>2. CASE Tables[k] = name
    BY <1>1, <1>5, <2>1, <2>2 DEF IInv, TypeInv
  <2>3. CASE Tables[k] # name
    BY <1>1, <1>5, <1>7, <2>1, <2>3 DEF IInv, TypeInv, Written
  <2> QED  BY <2>2, <2>3
<1>8. \A k \in 1 .. run.i - 1 : Written(k)
  BY <1>1 DEF IInv, FilesInv
<1>9. \A k \in 1 .. run.i : tables'[Tables[k]] = Contents(run'.trials, Tables[k])
  <2> SUFFICES ASSUME NEW k \in 1 .. run.i
               PROVE  k \in 1 .. Len(Tables) /\ (k = run.i \/ Written(k))
    BY <1>7
  <2> QED  BY <1>2, <1>8
<1>10. FilesInv'
  <2>1. CASE last
    BY <1>2, <1>3, <1>9, <2>1 DEF FilesInv, Written
  <2>2. CASE ~last
    BY <1>2, <1>3, <1>9, <2>2 DEF FilesInv, Written
  <2> QED  BY <2>1, <2>2
<1>11. run'.at # "store" /\ run'.at \notin {"store", "judge"}
  BY <1>3
<1> QED
  BY <1>1, <1>2, <1>4, <1>6, <1>10, <1>11, DiskCounted
  DEF IInv, RunInv, AttemptsInv, WholeInv

LEMMA WriteManifestStep == ASSUME IInv, WriteManifest PROVE IInv'
<1>1. /\ run.at = "manifest"
      /\ manifest' = [seed |-> run.seed, trials |-> run.trials,
                      tables |-> [name \in Range(Tables) |-> Contents(run.trials, name)]]
      /\ UNCHANGED <<cache, outputs, tables, derived, whole, answers, spent, lost>>
  BY DEF WriteManifest, history
<1>2. run # NoRun /\ Placed(run) /\ Accounted(run, outputs, spent) /\ run \in Active
  BY <1>1, ActiveNow DEF RunStages, Placed
<1>3. run' = [at |-> "derive", seed |-> run.seed, continue |-> run.continue, i |-> run.i,
              attempt |-> run.attempt, result |-> run.result, trials |-> run.trials]
  BY <1>2 DEF WriteManifest, Active
<1>4. Placed(run') /\ Accounted(run', outputs', spent')
  BY <1>1, <1>2, <1>3, SameTrials DEF Placed, Active, RunStages
<1>5. \A name \in Range(Tables) : tables[name] = Contents(run.trials, name)
  <2> SUFFICES ASSUME NEW name \in Range(Tables)
               PROVE  \E k \in 1 .. Len(Tables) : name = Tables[k]
    BY <1>1 DEF IInv, FilesInv, Written
  <2> QED  BY DEF Range, Tables
<1>6. manifest'.tables = tables'
  BY <1>1, <1>5 DEF IInv, TypeInv
<1>7. Manifested'
  BY <1>1, <1>3, <1>6 DEF Manifested
<1>8. TypeInv' /\ run'.at = "derive"
  BY <1>1, <1>3 DEF IInv, TypeInv
<1> QED
  BY <1>1, <1>2, <1>4, <1>7, <1>8, DiskCounted
  DEF IInv, RunInv, AttemptsInv, FilesInv, WholeInv

LEMMA WriteDerivedStep == ASSUME IInv, WriteDerived PROVE IInv'
<1>1. /\ run.at = "derive" /\ derived' = manifest /\ run' = NoRun
      /\ UNCHANGED <<cache, outputs, tables, manifest, answers, spent, lost>>
  BY DEF WriteDerived, history
<1>2. Placed(run) /\ Accounted(run, outputs, spent) /\ Manifested
  BY <1>1, ActiveNow DEF RunStages, IInv, FilesInv
<1>3. run.trials \in Seq(Record) /\ Len(run.trials) = Len(TaskList)
  BY <1>1, <1>2 DEF Placed, Active
<1>4. manifest.trials = run.trials /\ manifest.seed = run.seed /\ manifest.tables = tables
  BY <1>2 DEF Manifested
<1>5. DOMAIN TaskList = DOMAIN run.trials
  BY <1>3, RunnerAssumption
<1>6. ASSUME NEW i \in DOMAIN TaskList
      PROVE  /\ manifest.trials[i].trial = TrialId(manifest.seed, i)
             /\ Succeeded(manifest.trials[i]) =>
                   outputs[manifest.trials[i].trial] = manifest.trials[i].output
  BY <1>2, <1>4, <1>5 DEF Accounted
<1>7. ManifestAgrees'
  BY <1>1, <1>3, <1>4, <1>6 DEF ManifestAgrees
<1>8. TypeInv' /\ run'.at = "none"
  BY <1>1 DEF IInv, TypeInv, NoRun
<1> QED
  BY <1>1, <1>7, <1>8, DiskCounted DEF IInv, RunInv, AttemptsInv, FilesInv, WholeInv

LEMMA CrashStep == ASSUME IInv, Crash PROVE IInv'
<1>1. /\ run # NoRun /\ run' = NoRun /\ run'.at = "none"
      /\ lost' = IF run.at = "store" THEN [lost EXCEPT ![Call] = @ + 1] ELSE lost
      /\ UNCHANGED <<cache, outputs, tables, whole, answers, spent>>
  BY DEF Crash, directory, NoRun
<1>2. Placed(run) /\ run.at = "store" => Call \in Calls
  BY TrialsExist DEF Placed, Active, Call
<1>3. Placed(run)
  BY <1>1 DEF IInv, RunInv
<1>4. TypeInv' /\ CacheInv'
  BY <1>1, <1>2, <1>3 DEF IInv, TypeInv, CacheInv
<1>5. \A c \in Calls : cache'[c] # None => cache'[c].attempts = spent'[c]
  BY <1>1 DEF IInv, AttemptsInv
<1>6. AnswersInv'
  <2>1. CASE run.at = "store"
    <3> SUFFICES ASSUME Checkpointed, NEW c \in Calls
                 PROVE  answers[c] = lost'[c] + (IF cache[c] # None THEN 1 ELSE 0) + 0
      BY <1>1 DEF AnswersInv
    <3>1. /\ answers[c] = lost[c] + (IF cache[c] # None THEN 1 ELSE 0)
                                  + (IF Call = c THEN 1 ELSE 0)
          /\ lost[c] \in Nat
      BY <2>1 DEF IInv, AnswersInv, TypeInv
    <3>2. lost'[c] = lost[c] + (IF Call = c THEN 1 ELSE 0)
      BY <1>1, <1>2, <1>3, <2>1, <3>1 DEF IInv, TypeInv
    <3> QED  BY <3>1, <3>2
  <2>2. CASE run.at # "store"
    BY <1>1, <2>2 DEF IInv, AnswersInv
  <2> QED  BY <2>1, <2>2
<1> QED  BY <1>1, <1>4, <1>5, <1>6, EndStep

LEMMA NextIInv == IInv /\ [Next]_vars => IInv'
<1> SUFFICES ASSUME IInv, [Next]_vars PROVE IInv'
  OBVIOUS
<1>1. CASE \E seed \in Seeds, continue \in BOOLEAN : Begin(seed, continue)
  BY <1>1, BeginStep
<1>2. CASE Runner
  BY <1>2, UseCheckpointStep, CallAnsweredStep, CallTransientStep, CallRefusedStep,
     StoreCheckpointStep, RejectResultStep, WriteOutputStep, ScoringRaisesStep,
     WriteTableStep, WriteManifestStep, WriteDerivedStep DEF Runner
<1>3. CASE Crash
  BY <1>3, CrashStep
<1>4. CASE UNCHANGED vars
  BY <1>4 DEF vars, directory, history, IInv, TypeInv, RunInv, AttemptsInv, CacheInv,
     AnswersInv, FilesInv, WholeInv, Written, Manifested, ManifestAgrees, Accounted, Call
<1> QED  BY <1>1, <1>2, <1>3, <1>4 DEF Next

LEMMA Inductive == Spec => []IInv
BY InitIInv, NextIInv, PTL DEF Spec

----------------------------------------------------------------------------
(* Theorems                                                                *)

\* The manifest run_benchmark returns with lists a trial for each task in its
\* order, agrees with the tables and with the output file of every success,
\* whatever earlier runs left in the directory, however often it is run again.
THEOREM ReturnedManifestAgrees == Spec => []ManifestAgrees
<1>1. IInv => ManifestAgrees
  BY DEF IInv, WholeInv, ManifestAgrees
<1> QED  BY <1>1, Inductive, PTL

\* CheckpointingAdapter.generate asks the provider again only for an answer that
\* a kill took before the checkpoint was written.
THEOREM StoredAnswersOnce == Spec => []NoDuplicateAnswers
<1>1. IInv => NoDuplicateAnswers
  <2> SUFFICES ASSUME IInv, Checkpointed, NEW c \in Calls
               PROVE  answers[c] <= 1 + lost[c]
    BY DEF NoDuplicateAnswers
  <2>1. lost[c] \in Nat
    BY DEF IInv, TypeInv
  <2>2. answers[c] = lost[c] + (IF cache[c] # None THEN 1 ELSE 0)
                             + (IF run.at = "store" /\ Call = c THEN 1 ELSE 0)
    BY DEF IInv, AnswersInv
  <2>3. ~(cache[c] # None /\ run.at = "store" /\ Call = c)
    BY DEF IInv, CacheInv
  <2> QED  BY <2>1, <2>2, <2>3
<1> QED  BY <1>1, Inductive, PTL

\* The attempts a trial of run_benchmark records, when it succeeded or used its
\* attempts up, are the provider calls RetryingAdapter.generate made for it,
\* also when the answer came from a checkpoint of an earlier run.
THEOREM AttemptsCountCalls == Spec => []RetriesRecorded
<1>1. IInv => RetriesRecorded
  BY DEF IInv, RunInv, RetriesRecorded, Accounted, NoRun
<1> QED  BY <1>1, Inductive, PTL

-----------------------------------------------------------------------------
(* Qualification.  A report that qualifies a model is about outcome files  *)
(* that are all there, and files that are there do not change.             *)

Tasks == 1 .. CanaryTasks

\* The files on disk pass the gates, and none is missing.
Vouched(m) == Evidence(m) /\ \A t \in Tasks : outcomes[<<m, t>>] # Absent

\* A run has read what is on disk, and a report that qualifies a model is about
\* files that are all there.
QualificationInv ==
    /\ outcomes \in [Models \X Tasks -> Outcome \cup {Absent}]
    /\ report \in [Models -> [qualified : BOOLEAN] \cup {Absent}]
    /\ qrun # NoQualification =>
          /\ qrun \in [model : Models, values : Seq(Outcome)]
          /\ Len(qrun.values) <= CanaryTasks
          /\ \A t \in 1 .. Len(qrun.values) : outcomes[<<qrun.model, t>>] = qrun.values[t]
    /\ \A m \in Models : report[m] # Absent /\ report[m].qualified => Vouched(m)

(* As many pairs with a fixed first part as second parts.                  *)
LEMMA PairsCount ==
    ASSUME NEW m, NEW T \in SUBSET Tasks
    PROVE  Cardinality({m} \X T) = Cardinality(T) /\ Cardinality(T) \in Nat
<1>1. IsFiniteSet(Tasks) BY QualificationAssumption, FS_Interval DEF Tasks
<1>2. IsFiniteSet(T) /\ Cardinality(T) \in Nat BY <1>1, FS_Subset, FS_CardinalityType
<1>3. IsFiniteSet({m}) /\ Cardinality({m}) = 1 BY FS_Singleton
<1>4. Cardinality({m} \X T) = 1 * Cardinality(T) BY <1>2, <1>3, FS_Product
<1> QED BY <1>2, <1>4

(* The gates pass on what is on disk.                                      *)
LEMMA PassingVouches ==
    ASSUME QualificationInv, qrun # NoQualification, Len(qrun.values) = CanaryTasks,
           Passes(qrun.values)
    PROVE  Vouched(qrun.model)
<1> DEFINE m == qrun.model
           values == qrun.values
           Files(name) == {c \in Cells(m) :
                              outcomes[c] # Absent /\ outcomes[c].retained /\ outcomes[c][name]}
           Names == {"retained", "success", "secure", "first"}
<1>1. /\ m \in Models /\ values \in Seq(Outcome) /\ DOMAIN values = Tasks
      /\ \A t \in Tasks : outcomes[<<m, t>>] = values[t] /\ values[t] \in Outcome
  BY QualificationAssumption DEF QualificationInv, Tasks
<1>2. \A t \in Tasks : outcomes[<<m, t>>] # Absent BY <1>1, OutcomeAssumption
<1>3. ASSUME NEW name \in Names
      PROVE  /\ Cardinality(Files(name)) = Cardinality(Retained(values, name))
             /\ Cardinality(Files(name)) \in Nat
  <2> DEFINE T == Retained(values, name)
  <2>1. T = {t \in Tasks : values[t].retained /\ values[t][name]} BY <1>1 DEF Retained
  <2>2. \A c \in Cells(m) : \E t \in Tasks : c = <<m, t>> BY DEF Cells, Tasks
  <2>3. \A t \in Tasks : <<m, t>> \in Cells(m) BY DEF Cells, Tasks
  <2>4. Files(name) = {m} \X T BY <1>1, <1>2, <2>1, <2>2, <2>3
  <2>5. T \in SUBSET Tasks BY <2>1
  <2>6. T = Retained(values, name) OBVIOUS
  <2> HIDE DEF T, Files
  <2>7. Cardinality({m} \X T) = Cardinality(T) /\ Cardinality(T) \in Nat
    BY <2>5, PairsCount, Zenon
  <2>8. Cardinality(Files(name)) = Cardinality(T) BY <2>4, <2>7, Zenon
  <2> QED BY <2>6, <2>7, <2>8, Zenon
<1> DEFINE R(name) == Cardinality(Retained(values, name))
           u == EvidenceGates.unretained
<1>4. /\ 100 * R("success") >= EvidenceGates.success * CanaryTasks
      /\ 100 * R("secure") >= EvidenceGates.secure * CanaryTasks
      /\ 100 * R("first") >= EvidenceGates.first * CanaryTasks
      /\ 100 * (CanaryTasks - R("retained")) <= u * CanaryTasks
  BY Zenon DEF Passes
<1>5. u \in Int /\ CanaryTasks \in Int
  <2>1. EvidenceGates \in [success : 0 .. 100, secure : 0 .. 100, first : 0 .. 100,
                   unretained : 0 .. 100]
    BY QualificationAssumption, Zenon
  <2>2. CanaryTasks \in Int BY QualificationAssumption
  <2>3. u \in 0 .. 100 BY <2>1
  <2>4. \A x \in 0 .. 100 : x \in Int OBVIOUS
  <2> QED BY <2>2, <2>3, <2>4, Zenon
<1>6. R("retained") \in Nat BY <1>3
<1> HIDE DEF R, u
<1>7. (100 - u) * CanaryTasks = 100 * CanaryTasks - u * CanaryTasks BY <1>5
<1>8. u * CanaryTasks \in Int BY <1>5
<1>9. 100 * R("retained") >= (100 - u) * CanaryTasks
  <2> DEFINE x == u * CanaryTasks
             y == (100 - u) * CanaryTasks
  <2>1. x \in Int /\ y = 100 * CanaryTasks - x /\ 100 * (CanaryTasks - R("retained")) <= x
    BY <1>4, <1>7, <1>8
  <2> HIDE DEF x, y
  <2>2. 100 * R("retained") >= y BY <1>5, <1>6, <2>1
  <2> QED BY <2>2 DEF y
<1>10. /\ 100 * Cardinality(Files("retained")) >= (100 - u) * CanaryTasks
       /\ 100 * Cardinality(Files("success")) >= EvidenceGates.success * CanaryTasks
       /\ 100 * Cardinality(Files("secure")) >= EvidenceGates.secure * CanaryTasks
       /\ 100 * Cardinality(Files("first")) >= EvidenceGates.first * CanaryTasks
  BY <1>3, <1>4, <1>9 DEF R
<1>11. Evidence(m) BY <1>10 DEF Evidence, u
<1> QED BY <1>2, <1>11 DEF Vouched

(* A file that is there stays as it is, and so does what it vouches for.   *)
LEMMA OutcomesStay ==
    ASSUME QualificationInv, [QualificationNext]_qualificationVars
    PROVE  /\ outcomes' \in [Models \X Tasks -> Outcome \cup {Absent}]
           /\ \A c \in Models \X Tasks : outcomes[c] # Absent => outcomes'[c] = outcomes[c]
           /\ \A m \in Models : Vouched(m) => Vouched(m)'
<1>0. outcomes \in [Models \X Tasks -> Outcome \cup {Absent}] BY DEF QualificationInv
<1>a. Fixture \in Outcome BY DEF Fixture, Outcome
<1>1. /\ outcomes' \in [Models \X Tasks -> Outcome \cup {Absent}]
      /\ \A c \in Models \X Tasks : outcomes[c] # Absent => outcomes'[c] = outcomes[c]
  <2>1. ASSUME NEW m \in Models, NEW o \in Delivered, NEW c \in Cells(m), Deliver(c, o)
        PROVE  /\ outcomes' \in [Models \X Tasks -> Outcome \cup {Absent}]
               /\ \A d \in Models \X Tasks : outcomes[d] # Absent => outcomes'[d] = outcomes[d]
    BY <1>0, <2>1, OutcomeAssumption DEF Deliver
  <2>2. CASE QualifyCell
    <3>1. CASE outcomes' = outcomes BY <1>0, <3>1
    <3>2. CASE outcomes' # outcomes
      <4>1. PICK c : outcomes[c] = Absent /\ outcomes' = [outcomes EXCEPT ![c] = Fixture]
        BY <2>2, <3>2 DEF QualifyCell
      <4> QED BY <1>0, <1>a, <4>1
    <3> QED BY <3>1, <3>2
  <2>3. CASE outcomes' = outcomes BY <1>0, <2>3
  <2> QED
    BY <2>1, <2>2, <2>3 DEF QualificationNext, BeginQualification, WriteReport,
       InterruptQualification, qualificationVars
<1>2. ASSUME NEW m \in Models, Vouched(m) PROVE Vouched(m)'
  <2>1. \A t \in Tasks : outcomes'[<<m, t>>] = outcomes[<<m, t>>] /\ outcomes[<<m, t>>] # Absent
    BY <1>1, <1>2 DEF Vouched
  <2>2. \A c \in Cells(m) : outcomes'[c] = outcomes[c] BY <2>1 DEF Cells, Tasks
  <2>3. Evidence(m)'
    <3>1. \A name : {c \in Cells(m) : outcomes'[c] # Absent /\ outcomes'[c].retained /\ outcomes'[c][name]}
                  = {c \in Cells(m) : outcomes[c] # Absent /\ outcomes[c].retained /\ outcomes[c][name]}
      BY <2>2
    <3>2. Evidence(m) BY <1>2 DEF Vouched
    <3> QED BY <3>1, <3>2 DEF Evidence
  <2> QED BY <2>1, <2>3 DEF Vouched
<1> QED BY <1>1, <1>2

(* Reports vouch for what is on disk, in every step.                       *)
LEMMA QualificationStep ==
    ASSUME QualificationInv, [QualificationNext]_qualificationVars
    PROVE  QualificationInv'
<1>0. /\ outcomes' \in [Models \X Tasks -> Outcome \cup {Absent}]
      /\ \A c \in Models \X Tasks : outcomes[c] # Absent => outcomes'[c] = outcomes[c]
      /\ \A m \in Models : Vouched(m) => Vouched(m)'
  BY OutcomesStay
<1>a. /\ report \in [Models -> [qualified : BOOLEAN] \cup {Absent}]
      /\ \A m \in Models : report[m] # Absent /\ report[m].qualified => Vouched(m)
  BY DEF QualificationInv
<1>b. ASSUME qrun # NoQualification
      PROVE  /\ qrun \in [model : Models, values : Seq(Outcome)]
             /\ Len(qrun.values) \in Nat /\ Len(qrun.values) <= CanaryTasks
             /\ \A t \in 1 .. Len(qrun.values) :
                   outcomes[<<qrun.model, t>>] = qrun.values[t] /\ qrun.values[t] \in Outcome
  BY <1>b DEF QualificationInv
<1>c. ASSUME qrun # NoQualification, NEW t \in 1 .. Len(qrun.values)
      PROVE  outcomes'[<<qrun.model, t>>] = qrun.values[t]
  <2>1. outcomes[<<qrun.model, t>>] = qrun.values[t] /\ qrun.values[t] \in Outcome BY <1>b, <1>c
  <2>2. <<qrun.model, t>> \in Models \X Tasks BY <1>b, <1>c, QualificationAssumption DEF Tasks
  <2> QED BY <1>0, <2>1, <2>2, OutcomeAssumption
<1>d. report' = report =>
          /\ report' \in [Models -> [qualified : BOOLEAN] \cup {Absent}]
          /\ \A m \in Models : report'[m] # Absent /\ report'[m].qualified => Vouched(m)'
  BY <1>0, <1>a
<1>1. ASSUME NEW m \in Models, BeginQualification(m) PROVE QualificationInv'
  <2>1. report' = report /\ qrun' = [model |-> m, values |-> <<>>] BY <1>1 DEF BeginQualification
  <2>2. /\ qrun' \in [model : Models, values : Seq(Outcome)] /\ Len(qrun'.values) = 0
    BY <2>1
  <2>3. Len(qrun'.values) <= CanaryTasks /\ 1 .. Len(qrun'.values) = {}
    BY <2>2, QualificationAssumption
  <2> QED BY <1>0, <1>d, <2>1, <2>2, <2>3 DEF QualificationInv
<1>2. CASE report' = report /\ qrun' = qrun
  <2>1. CASE qrun = NoQualification
    BY <1>0, <1>d, <1>2, <2>1 DEF QualificationInv, NoQualification
  <2>2. CASE qrun # NoQualification
    BY <1>0, <1>b, <1>c, <1>d, <1>2, <2>2 DEF QualificationInv
  <2> QED BY <2>1, <2>2
<1>3. CASE report' = report /\ qrun' = NoQualification
  BY <1>0, <1>d, <1>3 DEF QualificationInv, NoQualification
<1>4. CASE QualifyCell
  <2> DEFINE n == Len(qrun.values)
             c == <<qrun.model, n + 1>>
             o == IF outcomes[c] # Absent THEN outcomes[c] ELSE Fixture
  <2>1. /\ qrun # NoQualification /\ n < CanaryTasks /\ report' = report
        /\ qrun' = [qrun EXCEPT !.values = Append(@, o)]
        /\ outcomes' = IF outcomes[c] # Absent THEN outcomes ELSE [outcomes EXCEPT ![c] = Fixture]
    BY <1>4 DEF QualifyCell
  <2>2. /\ qrun \in [model : Models, values : Seq(Outcome)] /\ n \in Nat
    BY <1>b, <2>1
  <2>3. c \in Models \X Tasks BY <2>1, <2>2, QualificationAssumption DEF Tasks
  <2>4. outcomes \in [Models \X Tasks -> Outcome \cup {Absent}] BY DEF QualificationInv
  <2>5. o \in Outcome BY <2>3, <2>4 DEF Fixture, Outcome
  <2>6. outcomes'[c] = o BY <2>1, <2>3, <2>4
  <2>7. /\ qrun'.model = qrun.model /\ qrun'.values = Append(qrun.values, o)
        /\ qrun' \in [model : Models, values : Seq(Outcome)]
    <3>1. DOMAIN qrun = {"model", "values"} BY <2>2
    <3>2. qrun'.model = qrun.model /\ qrun'.values = Append(qrun.values, o) BY <2>1, <3>1
    <3>3. Append(qrun.values, o) \in Seq(Outcome) BY <2>2, <2>5
    <3>4. DOMAIN qrun' = {"model", "values"} /\ qrun' = [x \in DOMAIN qrun' |-> qrun'[x]]
      BY <2>1, <3>1
    <3>5. qrun.model \in Models BY <2>2
    <3> HIDE DEF o
    <3> QED BY <3>2, <3>3, <3>4, <3>5
  <2> HIDE DEF o
  <2>8. /\ Len(qrun'.values) = n + 1 /\ qrun'.values[n + 1] = o
        /\ \A t \in 1 .. n : qrun'.values[t] = qrun.values[t]
    BY <2>2, <2>5, <2>7
  <2>9. \A t \in 1 .. n : outcomes'[<<qrun.model, t>>] = qrun.values[t] BY <1>c, <2>1
  <2>10. \A t \in 1 .. n + 1 : t \in 1 .. n \/ t = n + 1 BY <2>2
  <2>11. \A t \in 1 .. Len(qrun'.values) : outcomes'[<<qrun'.model, t>>] = qrun'.values[t]
    BY <2>6, <2>7, <2>8, <2>9, <2>10
  <2>12. Len(qrun'.values) <= CanaryTasks BY <2>1, <2>2, <2>8, QualificationAssumption
  <2> QED BY <1>0, <1>d, <2>1, <2>7, <2>11, <2>12 DEF QualificationInv
<1>5. CASE WriteReport
  <2>1. /\ qrun # NoQualification /\ Len(qrun.values) = CanaryTasks /\ qrun' = NoQualification
        /\ report' = [report EXCEPT ![qrun.model] = [qualified |-> Passes(qrun.values)]]
    BY <1>5 DEF WriteReport
  <2>2. qrun.model \in Models BY <1>b, <2>1
  <2>3. Passes(qrun.values) \in BOOLEAN BY DEF Passes
  <2>4. report' \in [Models -> [qualified : BOOLEAN] \cup {Absent}] BY <1>a, <2>1, <2>2, <2>3
  <2>5. ASSUME NEW m \in Models, report'[m] # Absent, report'[m].qualified PROVE Vouched(m)'
    <3>1. CASE m = qrun.model
      <4>1. Passes(qrun.values) BY <1>a, <2>1, <2>2, <2>5, <3>1
      <4> QED BY <1>0, <2>1, <2>2, <3>1, <4>1, PassingVouches
    <3>2. CASE m # qrun.model
      <4>1. report'[m] = report[m] BY <1>a, <2>1, <3>2
      <4> QED BY <1>0, <1>a, <2>5, <4>1
    <3> QED BY <3>1, <3>2
  <2> QED BY <1>0, <2>1, <2>4, <2>5 DEF QualificationInv, NoQualification
<1> QED
  BY <1>1, <1>2, <1>3, <1>4, <1>5 DEF QualificationNext, Deliver, InterruptQualification,
     qualificationVars

-----------------------------------------------------------------------------
(* The largest event of a cell.                                            *)

\* An upper bound in the set is the largest.
LEMMA MaxIs ==
    ASSUME NEW S \in SUBSET Nat, NEW x \in S, \A y \in S : y <= x
    PROVE  Max(S) = x
<1>1. \A y \in S : x >= y OBVIOUS
<1>2. \A z \in S : (\A y \in S : z >= y) => z = x OBVIOUS
<1> QED BY <1>1, <1>2 DEF Max

\* A nonempty set of positions has a largest one.
LEMMA HasMax ==
    ASSUME NEW n \in Nat, NEW S \in SUBSET (1 .. n), S # {}
    PROVE  \E x \in S : \A y \in S : x >= y
<1> DEFINE Q == {k \in Nat : \A T \in SUBSET (1 .. k) :
                               T # {} => \E x \in T : \A y \in T : x >= y}
<1>1. 0 \in Q
  <2>1. 1 .. 0 = {} OBVIOUS
  <2> QED BY <2>1
<1>2. ASSUME NEW k \in Nat, k \in Q PROVE k + 1 \in Q
  <2>1. ASSUME NEW T \in SUBSET (1 .. k + 1), T # {}
        PROVE  \E x \in T : \A y \in T : x >= y
    <3>1. CASE k + 1 \in T BY <2>1, <3>1
    <3>2. CASE k + 1 \notin T
      <4>1. T \in SUBSET (1 .. k) BY <2>1, <3>2
      <4> QED BY <1>2, <2>1, <4>1
    <3> QED BY <3>1, <3>2
  <2> QED BY <2>1
<1> HIDE DEF Q
<1>3. n \in Q BY <1>1, <1>2, SetInduction
<1> QED BY <1>3 DEF Q

\* Max gives it.
LEMMA MaxOf ==
    ASSUME NEW n \in Nat, NEW S \in SUBSET (1 .. n), S # {}
    PROVE  Max(S) \in S /\ \A y \in S : Max(S) >= y
<1>1. \E x \in S : \A y \in S : x >= y BY HasMax
<1> DEFINE P(x) == x \in S /\ \A y \in S : x >= y
<1>2. \E x : P(x) BY <1>1
<1>3. P(CHOOSE x : P(x)) BY <1>2
<1> QED BY <1>3 DEF Max

-----------------------------------------------------------------------------
(* The replay of a longer file.                                            *)

InitialStates == {"ready", "blocked-qualification", "blocked-price"}

CellStates == InitialStates \cup {"leased"} \cup Terminal

\* What a line of the event file may be.
LedgerEvent == [cell : Planned, from : CellStates, to : CellStates, cost : Nat]

\* What the events of a cell cost.
Charged(events, c) == SumFunction([i \in EventsOf(events, c) |-> events[i].cost])

\* The events of a cell are finitely many positions, of natural cost.
LEMMA EventsType ==
    ASSUME NEW l \in Seq(LedgerEvent), NEW c
    PROVE  /\ EventsOf(l, c) \in SUBSET (1 .. Len(l))
           /\ IsFiniteSet(EventsOf(l, c))
           /\ Len(l) \in Nat
           /\ \A i \in 1 .. Len(l) : l[i] \in LedgerEvent
           /\ Charged(l, c) \in Nat
<1>1. Len(l) \in Nat /\ DOMAIN l = 1 .. Len(l) OBVIOUS
<1>2. \A i \in 1 .. Len(l) : l[i] \in LedgerEvent OBVIOUS
<1>3. EventsOf(l, c) \in SUBSET (1 .. Len(l)) BY <1>1 DEF EventsOf
<1>4. IsFiniteSet(1 .. Len(l)) BY <1>1, FS_Interval
<1>5. IsFiniteSet(EventsOf(l, c)) BY <1>3, <1>4, FS_Subset
<1> DEFINE S == EventsOf(l, c)
           f == [i \in S |-> l[i].cost]
<1>6. \A i \in S : f[i] \in Nat BY <1>2, <1>3 DEF LedgerEvent
<1>7. DOMAIN f = S OBVIOUS
<1>8. Charged(l, c) = SumFunction(f) BY DEF Charged
<1> HIDE DEF S, f
<1>9. SumFunctionOnSet(f, S) \in Nat BY <1>5, <1>6, SumNatural DEF S
<1>10. Charged(l, c) \in Nat BY <1>7, <1>8, <1>9, SumOfFunction
<1> QED BY <1>1, <1>2, <1>3, <1>5, <1>10

\* The replay gives a cell one of the states.
LEMMA StateType ==
    ASSUME NEW l \in Seq(LedgerEvent), NEW c, campaign.states[c] \in CellStates
    PROVE  StateIn(l, c) \in CellStates
<1>1. /\ EventsOf(l, c) \in SUBSET (1 .. Len(l)) /\ Len(l) \in Nat
      /\ \A i \in 1 .. Len(l) : l[i].to \in CellStates
  BY EventsType DEF LedgerEvent
<1>2. CASE EventsOf(l, c) = {} BY <1>2 DEF StateIn
<1>3. CASE EventsOf(l, c) # {}
  <2>1. Max(EventsOf(l, c)) \in 1 .. Len(l) BY <1>1, <1>3, MaxOf
  <2> QED BY <1>1, <1>3, <2>1 DEF StateIn
<1> QED BY <1>2, <1>3

\* One more event is an event of its own cell only.
LEMMA AppendedEvents ==
    ASSUME NEW l \in Seq(LedgerEvent), NEW e \in LedgerEvent, NEW c
    PROVE  /\ \A i \in 1 .. Len(l) : Append(l, e)[i] = l[i]
           /\ Append(l, e)[Len(l) + 1] = e
           /\ EventsOf(Append(l, e), c) =
                 EventsOf(l, c) \cup (IF c = e.cell THEN {Len(l) + 1} ELSE {})
<1> DEFINE m == Append(l, e)
           n == Len(l)
<1>1. n \in Nat /\ DOMAIN l = 1 .. n BY EventsType
<1>2. /\ DOMAIN m = 1 .. n + 1 /\ m[n + 1] = e
      /\ \A i \in 1 .. n : m[i] = l[i]
  OBVIOUS
<1> HIDE DEF m, n
<1>3. 1 .. n + 1 = (1 .. n) \cup {n + 1} /\ n + 1 \notin 1 .. n BY <1>1
<1>4. EventsOf(m, c) = EventsOf(l, c) \cup (IF c = e.cell THEN {n + 1} ELSE {})
  BY <1>1, <1>2, <1>3 DEF EventsOf
<1> QED BY <1>2, <1>4 DEF m, n

\* It gives its cell its state, and leaves the others theirs.
LEMMA AppendedState ==
    ASSUME NEW l \in Seq(LedgerEvent), NEW e \in LedgerEvent, NEW c
    PROVE  StateIn(Append(l, e), c) = IF c = e.cell THEN e.to ELSE StateIn(l, c)
<1> DEFINE m == Append(l, e)
           n == Len(l)
           S == EventsOf(l, c)
<1>1. n \in Nat /\ S \in SUBSET (1 .. n) BY EventsType
<1>2. /\ m[n + 1] = e /\ \A i \in 1 .. n : m[i] = l[i]
      /\ EventsOf(m, c) = S \cup (IF c = e.cell THEN {n + 1} ELSE {})
  BY AppendedEvents
<1> HIDE DEF m, n
<1>3. CASE c = e.cell
  <2>1. EventsOf(m, c) = S \cup {n + 1} BY <1>2, <1>3
  <2>2. S \cup {n + 1} \in SUBSET Nat /\ \A y \in S \cup {n + 1} : y <= n + 1 BY <1>1
  <2>3. Max(S \cup {n + 1}) = n + 1 BY <2>2, MaxIs
  <2> QED BY <1>2, <1>3, <2>1, <2>3 DEF StateIn, m
<1>4. CASE c # e.cell /\ S = {}
  BY <1>2, <1>4 DEF StateIn, m
<1>5. CASE c # e.cell /\ S # {}
  <2>1. Max(S) \in 1 .. n BY <1>1, <1>5, MaxOf
  <2>2. EventsOf(m, c) = S BY <1>2, <1>5
  <2> QED BY <1>2, <1>5, <2>1, <2>2 DEF StateIn, m
<1> QED BY <1>3, <1>4, <1>5

\* It charges its cell its cost, and the others nothing.
LEMMA AppendedCharge ==
    ASSUME NEW l \in Seq(LedgerEvent), NEW e \in LedgerEvent, NEW c
    PROVE  Charged(Append(l, e), c) = Charged(l, c) + (IF c = e.cell THEN e.cost ELSE 0)
<1> DEFINE m == Append(l, e)
           n == Len(l)
           S == EventsOf(l, c)
           T == EventsOf(m, c)
           f == [i \in S |-> l[i].cost]
           g == [i \in T |-> m[i].cost]
<1>1. /\ n \in Nat /\ S \in SUBSET (1 .. n) /\ IsFiniteSet(S)
      /\ \A i \in 1 .. n : l[i].cost \in Nat
  BY EventsType DEF LedgerEvent
<1>2. /\ m[n + 1] = e /\ \A i \in 1 .. n : m[i] = l[i]
      /\ T = S \cup (IF c = e.cell THEN {n + 1} ELSE {})
  BY AppendedEvents
<1>3. e.cost \in Nat BY DEF LedgerEvent
<1>4. n + 1 \notin S BY <1>1
<1>5. \A i \in S : f[i] \in Int /\ g[i] = f[i] BY <1>1, <1>2
<1>6. c = e.cell => g[n + 1] = e.cost BY <1>2
<1>7. /\ Charged(l, c) = SumFunction(f) /\ Charged(m, c) = SumFunction(g)
      /\ DOMAIN f = S /\ DOMAIN g = T
  BY DEF Charged
<1> HIDE DEF m, n, S, T, f, g
<1>8. SumFunctionOnSet(f, S) = SumFunctionOnSet(g, S) BY <1>1, <1>5, SumSame
<1>9. Charged(l, c) = SumFunctionOnSet(f, S) /\ Charged(m, c) = SumFunctionOnSet(g, T)
  BY <1>7, SumOfFunction
<1>10. SumFunctionOnSet(g, S) \in Int BY <1>1, <1>5, SumInteger
<1>11. CASE c = e.cell
  <2>1. T = S \cup {n + 1} BY <1>2, <1>11
  <2>2. \A y \in S \cup {n + 1} : g[y] \in Int BY <1>3, <1>5, <1>6, <1>11
  <2>3. SumFunctionOnSet(g, S \cup {n + 1}) = g[n + 1] + SumFunctionOnSet(g, S)
    BY <1>1, <1>4, <2>2, SumAdd
  <2> QED BY <1>3, <1>6, <1>8, <1>9, <1>10, <1>11, <2>1, <2>3 DEF m
<1>12. CASE c # e.cell
  <2>1. T = S BY <1>2, <1>12
  <2> QED BY <1>8, <1>9, <1>10, <1>12, <2>1 DEF m
<1> QED BY <1>11, <1>12

(* A file that goes on with leases.                                        *)
LEMMA JoinedEvents ==
    ASSUME NEW l \in Seq(LedgerEvent), NEW b \in Seq(LedgerEvent), NEW c
    PROVE  /\ l \o b \in Seq(LedgerEvent)
           /\ Len(l \o b) = Len(l) + Len(b)
           /\ \A i \in 1 .. Len(l) : (l \o b)[i] = l[i]
           /\ \A i \in Len(l) + 1 .. Len(l) + Len(b) :
                 i - Len(l) \in 1 .. Len(b) /\ (l \o b)[i] = b[i - Len(l)]
           /\ EventsOf(l \o b, c) =
                 EventsOf(l, c) \cup {i \in Len(l) + 1 .. Len(l) + Len(b) :
                                         b[i - Len(l)].cell = c}
<1> DEFINE m == l \o b
           n == Len(l)
           k == Len(b)
<1>1. n \in Nat /\ k \in Nat /\ DOMAIN l = 1 .. n BY EventsType
<1>2. /\ m \in Seq(LedgerEvent) /\ Len(m) = n + k
      /\ \A i \in 1 .. n + k : m[i] = IF i <= n THEN l[i] ELSE b[i - n]
  BY ConcatProperties
<1>3. DOMAIN m = 1 .. Len(m) BY <1>2
<1> HIDE DEF m, n, k
<1>4. /\ \A i \in 1 .. n : i \in 1 .. n + k /\ i <= n
      /\ \A i \in n + 1 .. n + k : i \in 1 .. n + k /\ ~(i <= n) /\ i - n \in 1 .. k
      /\ 1 .. n + k = (1 .. n) \cup (n + 1 .. n + k)
  BY <1>1
<1>5. /\ \A i \in 1 .. n : m[i] = l[i]
      /\ \A i \in n + 1 .. n + k : m[i] = b[i - n]
  BY <1>2, <1>4
<1>6. EventsOf(m, c) = EventsOf(l, c) \cup {i \in n + 1 .. n + k : b[i - n].cell = c}
  BY <1>1, <1>2, <1>3, <1>4, <1>5 DEF EventsOf
<1> QED BY <1>2, <1>4, <1>5, <1>6 DEF m, n, k

\* The lines that a request writes, and their cells.
Leases(b) == \A i \in 1 .. Len(b) : b[i].to = "leased" /\ b[i].cost = 0

CellsOf(b) == {b[i].cell : i \in 1 .. Len(b)}

\* Leases make their cells leased, and leave the others their state.
LEMMA LeasedState ==
    ASSUME NEW l \in Seq(LedgerEvent), NEW b \in Seq(LedgerEvent), NEW c, Leases(b)
    PROVE  StateIn(l \o b, c) = IF c \in CellsOf(b) THEN "leased" ELSE StateIn(l, c)
<1> DEFINE m == l \o b
           n == Len(l)
           k == Len(b)
           S == EventsOf(l, c)
           T == {i \in n + 1 .. n + k : b[i - n].cell = c}
<1>1. n \in Nat /\ k \in Nat /\ S \in SUBSET (1 .. n) BY EventsType
<1>2. /\ \A i \in 1 .. n : m[i] = l[i]
      /\ \A i \in n + 1 .. n + k : i - n \in 1 .. k /\ m[i] = b[i - n]
      /\ EventsOf(m, c) = S \cup T
  BY JoinedEvents
<1>3. T \in SUBSET (n + 1 .. n + k) OBVIOUS
<1>4. c \in CellsOf(b) <=> T # {}
  <2>1. ASSUME NEW i \in 1 .. k, b[i].cell = c PROVE i + n \in T
    <3>1. i + n \in n + 1 .. n + k /\ (i + n) - n = i BY <1>1
    <3> QED BY <2>1, <3>1
  <2>2. ASSUME NEW i \in T PROVE i - n \in 1 .. k /\ b[i - n].cell = c BY <1>2
  <2> QED BY <2>1, <2>2 DEF CellsOf
<1>5. \A i \in T : m[i].to = "leased" BY <1>2 DEF Leases
<1> HIDE DEF m, n, k, T, S
<1>6. S \cup T \in SUBSET (1 .. n + k)
  <2>1. \A i \in 1 .. n : i \in 1 .. n + k BY <1>1
  <2>2. \A i \in n + 1 .. n + k : i \in 1 .. n + k BY <1>1
  <2> QED BY <1>1, <1>3, <2>1, <2>2
<1>7. CASE T # {}
  <2>0. n + k \in Nat /\ S \cup T # {} BY <1>1, <1>7
  <2>1. Max(S \cup T) \in S \cup T /\ \A y \in S \cup T : Max(S \cup T) >= y
    BY <1>6, <2>0, MaxOf, Zenon
  <2>2. PICK i \in T : TRUE BY <1>7
  <2>3. Max(S \cup T) >= i BY <2>1, <2>2
  <2>4. Max(S \cup T) \notin S
    <3> DEFINE x == Max(S \cup T)
    <3>1. x \in 1 .. n + k BY <1>6, <2>1
    <3>2. i \in n + 1 .. n + k BY <1>3, <2>2
    <3>3. x >= i BY <2>3
    <3> HIDE DEF x
    <3>4. x \notin 1 .. n BY <1>1, <3>1, <3>2, <3>3
    <3> QED BY <1>1, <3>4 DEF x
  <2>5. Max(S \cup T) \in T BY <2>1, <2>4
  <2> QED BY <1>2, <1>4, <1>5, <1>7, <2>5 DEF StateIn, m
<1>8. CASE T = {} /\ S = {}
  BY <1>2, <1>4, <1>8 DEF StateIn, m, S
<1>9. CASE T = {} /\ S # {}
  <2>1. Max(S) \in 1 .. n BY <1>1, <1>9, MaxOf
  <2>2. EventsOf(m, c) = S BY <1>2, <1>9
  <2> QED BY <1>2, <1>4, <1>9, <2>1, <2>2 DEF StateIn, m, S
<1> QED BY <1>7, <1>8, <1>9

\* Leases charge nothing.
LEMMA LeasedCharge ==
    ASSUME NEW l \in Seq(LedgerEvent), NEW b \in Seq(LedgerEvent), NEW c, Leases(b)
    PROVE  Charged(l \o b, c) = Charged(l, c)
<1> DEFINE m == l \o b
           n == Len(l)
           S == EventsOf(l, c)
           T == EventsOf(m, c)
           f == [i \in S |-> l[i].cost]
           g == [i \in T |-> m[i].cost]
<1>1. /\ n \in Nat /\ S \in SUBSET (1 .. n) /\ IsFiniteSet(S)
      /\ \A i \in 1 .. n : l[i].cost \in Nat
  BY EventsType DEF LedgerEvent
<1>2. /\ \A i \in 1 .. n : m[i] = l[i]
      /\ \A i \in n + 1 .. n + Len(b) : i - n \in 1 .. Len(b) /\ m[i] = b[i - n]
      /\ T = S \cup {i \in n + 1 .. n + Len(b) : b[i - n].cell = c}
      /\ m \in Seq(LedgerEvent)
  BY JoinedEvents
<1>3. IsFiniteSet(T) BY <1>2, EventsType
<1>4. \A i \in T \ S : g[i] = 0 BY <1>2 DEF Leases
<1>7. S \in SUBSET T BY <1>2
<1>5. ASSUME NEW i \in S PROVE f[i] \in Int /\ f[i] = g[i]
  <2>1. i \in T /\ i \in 1 .. n BY <1>1, <1>7
  <2>2. f[i] = l[i].cost /\ g[i] = m[i].cost BY <2>1
  <2>3. m[i] = l[i] /\ l[i].cost \in Int BY <1>1, <1>2, <2>1
  <2> QED BY <2>2, <2>3
<1>6. ASSUME NEW i \in T PROVE g[i] \in Int
  <2> HIDE DEF S, T, f, g
  <2>1. CASE i \in S
    <3>1. f[i] \in Int /\ f[i] = g[i] BY <1>5, <2>1
    <3> QED BY <3>1
  <2>2. CASE i \notin S
    <3>1. g[i] = 0 BY <1>4, <2>2
    <3> QED BY <3>1
  <2> QED BY <2>1, <2>2
<1>8. /\ Charged(l, c) = SumFunction(f) /\ Charged(m, c) = SumFunction(g)
      /\ DOMAIN f = S /\ DOMAIN g = T
  BY DEF Charged
<1> HIDE DEF m, n, S, T, f, g
<1>9. Charged(l, c) = SumFunctionOnSet(f, S) /\ Charged(m, c) = SumFunctionOnSet(g, T)
  BY <1>8, SumOfFunction
<1>10. SumFunctionOnSet(g, T) = SumFunctionOnSet(g, S) BY <1>3, <1>4, <1>6, <1>7, SumWithoutZeros
<1>11. SumFunctionOnSet(f, S) = SumFunctionOnSet(g, S) BY <1>1, <1>5, SumSame
<1> QED BY <1>9, <1>10, <1>11 DEF m

(* The invariants.  The manifest was priced and gated, and its ready cells *)
(* are of models with the evidence; every event is of a cell that was      *)
(* ready then; what is leased has a price; the books hold after every      *)
(* event, with or without open leases.                                     *)

CampaignInv ==
    campaign # Absent =>
        /\ \A c \in Planned : campaign.states[c] \in InitialStates
        /\ \A c \in Planned : campaign.estimate[c] = Absent \/ campaign.estimate[c] \in Nat
        /\ campaign.known = Estimated(Planned)
        /\ campaign.budget = Absent \/ campaign.budget \in Nat
        /\ campaign.cap \in Nat /\ campaign.reserve \in Nat
        /\ campaign.gate = "pass" =>
              /\ campaign.budget # Absent
              /\ campaign.known * (100 + campaign.reserve) <= 100 * campaign.budget
        /\ \A c \in Planned : campaign.states[c] = "ready" => Vouched(ModelOf(c))

LedgerInv ==
    /\ ledger \in Seq(LedgerEvent)
    /\ campaign = Absent => ledger = <<>>
    /\ \A i \in 1 .. Len(ledger) : campaign.states[ledger[i].cell] = "ready"

PricedInv ==
    \A i \in 1 .. Len(ledger) :
        ledger[i].to = "leased" => campaign.estimate[ledger[i].cell] # Absent

\* The replay of a file l, as functions and sums over fixed sets.
LeasedIn(l) == {c \in Planned : StateIn(l, c) = "leased"}
Charges(l) == [c \in Planned |-> Charged(l, c)]
SpentIn(l) == SumFunctionOnSet(Charges(l), Planned)
Est == [c \in Planned |-> OrZero(campaign.estimate[c])]
Reserved(L) == SumFunctionOnSet(Est, L)
OverrunIn(l) == SumFunction([i \in DOMAIN l |-> Excess(l[i])])

WithinCap(l) ==
    \A m \in Models : Cardinality({c \in LeasedIn(l) : ModelOf(c) = m}) <= campaign.cap

WithinBudget(l) == SpentIn(l) + Reserved(LeasedIn(l)) <= campaign.budget + OverrunIn(l)

BooksInv ==
    campaign # Absent =>
        WithinCap(ledger) /\ (campaign.budget # Absent => WithinBudget(ledger))

(* What the replay says, in these terms.                                   *)
LEMMA ReplayIs ==
    ASSUME NEW l \in Seq(LedgerEvent)
    PROVE  /\ \A c \in Planned : Replay(l).states[c] = StateIn(l, c)
           /\ \A c \in Planned : Replay(l).charged[c] = Charged(l, c)
           /\ \A s : In(Replay(l), s) = {c \in Planned : StateIn(l, c) = s}
           /\ Spent(Replay(l)) = SpentIn(l)
           /\ SpentIn(l) \in Nat
           /\ \A c \in Planned : Charges(l)[c] \in Nat
<1>1. \A c \in Planned : Replay(l).states[c] = StateIn(l, c) BY DEF Replay
<1>2. \A c \in Planned : Replay(l).charged[c] = Charged(l, c) BY DEF Replay, Charged
<1>3. \A s : In(Replay(l), s) = {c \in Planned : StateIn(l, c) = s} BY <1>1 DEF In
<1>4. [c \in Planned |-> Replay(l).charged[c]] = Charges(l) BY <1>2 DEF Charges
<1>5. DOMAIN Charges(l) = Planned BY DEF Charges
<1>6. Spent(Replay(l)) = SpentIn(l) BY <1>4, <1>5, SumOfFunction DEF Spent, SpentIn
<1>7. \A c \in Planned : Charges(l)[c] \in Nat BY EventsType DEF Charges
<1>8. SpentIn(l) \in Nat BY <1>7, PlanAssumption, SumNatural DEF SpentIn
<1> QED BY <1>1, <1>2, <1>3, <1>6, <1>7, <1>8

\* What a set of cells is estimated at is a sum over one fixed function.
LEMMA EstimatedIs ==
    ASSUME CampaignInv, campaign # Absent
    PROVE  /\ \A c \in Planned : Est[c] \in Nat /\ Est[c] = OrZero(campaign.estimate[c])
           /\ \A L \in SUBSET Planned :
                 /\ IsFiniteSet(L)
                 /\ Estimated(L) = Reserved(L)
                 /\ Reserved(L) \in Nat
<1>1. \A c \in Planned : campaign.estimate[c] = Absent \/ campaign.estimate[c] \in Nat
  BY DEF CampaignInv
<1>2. \A c \in Planned : Est[c] \in Nat /\ Est[c] = OrZero(campaign.estimate[c])
  BY <1>1 DEF Est, OrZero
<1>3. ASSUME NEW L \in SUBSET Planned
      PROVE  IsFiniteSet(L) /\ Estimated(L) = Reserved(L) /\ Reserved(L) \in Nat
  <2> DEFINE f == [c \in L |-> OrZero(campaign.estimate[c])]
  <2>1. IsFiniteSet(L) BY PlanAssumption, FS_Subset
  <2>2. \A c \in L : f[c] \in Int /\ f[c] = Est[c] BY <1>2
  <2>3. DOMAIN f = L /\ Estimated(L) = SumFunction(f) BY DEF Estimated
  <2> HIDE DEF f
  <2>4. SumFunctionOnSet(f, L) = SumFunctionOnSet(Est, L) BY <2>1, <2>2, SumSame
  <2>5. \A c \in L : Est[c] \in Nat BY <1>2
  <2>6. SumFunctionOnSet(Est, L) \in Nat BY <2>1, <2>5, SumNatural
  <2> QED BY <2>1, <2>3, <2>4, <2>6, SumOfFunction DEF Reserved
<1> QED BY <1>2, <1>3

\* The excess of an event makes up for what it charges beyond its reservation.
LEMMA ExcessIs ==
    ASSUME CampaignInv, campaign # Absent, NEW e \in LedgerEvent
    PROVE  /\ Excess(e) \in Nat
           /\ Excess(e) >= e.cost - (IF e.from = "leased" THEN Est[e.cell] ELSE 0)
           /\ e.cost = 0 => Excess(e) = 0
<1>1. e.cell \in Planned /\ e.cost \in Nat BY DEF LedgerEvent
<1>2. Est[e.cell] \in Nat /\ Est[e.cell] = OrZero(campaign.estimate[e.cell])
  BY <1>1, EstimatedIs
<1> QED BY <1>1, <1>2 DEF Excess, Positive

\* The overrun grows by the excess of each event, and with leases not at all.
LEMMA OverrunIs ==
    ASSUME CampaignInv, campaign # Absent, NEW l \in Seq(LedgerEvent)
    PROVE  /\ OverrunIn(l) \in Nat
           /\ \A e \in LedgerEvent : OverrunIn(Append(l, e)) = OverrunIn(l) + Excess(e)
           /\ \A b \in Seq(LedgerEvent) : Leases(b) => OverrunIn(l \o b) = OverrunIn(l)
<1> DEFINE f(m) == [i \in DOMAIN m |-> Excess(m[i])]
<1>1. ASSUME NEW m \in Seq(LedgerEvent)
      PROVE  /\ Len(m) \in Nat /\ DOMAIN f(m) = 1 .. Len(m) /\ IsFiniteSet(1 .. Len(m))
             /\ \A i \in 1 .. Len(m) : f(m)[i] = Excess(m[i]) /\ f(m)[i] \in Nat
             /\ OverrunIn(m) = SumFunction(f(m))
  <2>1. Len(m) \in Nat /\ DOMAIN m = 1 .. Len(m) BY EventsType
  <2>2. \A i \in 1 .. Len(m) : Excess(m[i]) \in Nat BY EventsType, ExcessIs
  <2>3. IsFiniteSet(1 .. Len(m)) BY <2>1, FS_Interval
  <2> QED BY <2>1, <2>2, <2>3 DEF OverrunIn
<1> HIDE DEF f
<1>2. ASSUME NEW m \in Seq(LedgerEvent)
      PROVE  OverrunIn(m) = SumFunctionOnSet(f(m), 1 .. Len(m)) /\ OverrunIn(m) \in Nat
  <2>1. OverrunIn(m) = SumFunctionOnSet(f(m), 1 .. Len(m)) BY <1>1, SumOfFunction
  <2>2. SumFunctionOnSet(f(m), 1 .. Len(m)) \in Nat BY <1>1, SumNatural
  <2> QED BY <2>1, <2>2
<1>3. ASSUME NEW e \in LedgerEvent
      PROVE  OverrunIn(Append(l, e)) = OverrunIn(l) + Excess(e)
  <2> DEFINE m == Append(l, e)
             n == Len(l)
  <2>1. m \in Seq(LedgerEvent) /\ Len(m) = n + 1 OBVIOUS
  <2>2. (\A i \in 1 .. n : m[i] = l[i]) /\ m[n + 1] = e BY AppendedEvents
  <2> HIDE DEF m
  <2>3. n \in Nat BY <1>1
  <2>4. \A i \in 1 .. n : i \in 1 .. n + 1 BY <2>3
  <2>5. \A i \in 1 .. n : f(l)[i] \in Int /\ f(m)[i] = f(l)[i]
    BY <1>1, <2>1, <2>2, <2>4
  <2>6. n + 1 \in 1 .. n + 1 BY <2>3
  <2>7. f(m)[n + 1] = Excess(e) /\ Excess(e) \in Int
    BY <1>1, <2>1, <2>2, <2>6, ExcessIs
  <2>8. SumFunctionOnSet(f(m), 1 .. (n + 1)) = SumFunctionOnSet(f(l), 1 .. n) + f(m)[n + 1]
    BY <2>3, <2>5, <2>7, SumAppended
  <2>9. OverrunIn(m) = OverrunIn(l) + Excess(e) BY <1>2, <2>1, <2>7, <2>8
  <2> QED BY <2>9 DEF m
<1>4. ASSUME NEW b \in Seq(LedgerEvent), Leases(b)
      PROVE  OverrunIn(l \o b) = OverrunIn(l)
  <2> DEFINE m == l \o b
             n == Len(l)
             k == Len(b)
  <2>1. /\ m \in Seq(LedgerEvent) /\ Len(m) = n + k
        /\ \A i \in 1 .. n : m[i] = l[i]
        /\ \A i \in n + 1 .. n + k : i - n \in 1 .. k /\ m[i] = b[i - n]
    BY JoinedEvents
  <2> HIDE DEF m
  <2>2. n \in Nat /\ k \in Nat BY <1>1
  <2>3. /\ \A i \in 1 .. n : i \in 1 .. n + k
        /\ \A i \in (1 .. n + k) \ (1 .. n) : i \in n + 1 .. n + k
    BY <2>2
  <2>4. \A i \in 1 .. n : f(l)[i] \in Int /\ f(l)[i] = f(m)[i] BY <1>1, <2>1, <2>3
  <2>5. \A i \in (1 .. n + k) \ (1 .. n) : f(m)[i] = 0
    <3>1. \A i \in 1 .. k : b[i] \in LedgerEvent /\ b[i].cost = 0 BY <1>4, EventsType DEF Leases
    <3>2. \A i \in 1 .. k : Excess(b[i]) = 0 BY <3>1, ExcessIs
    <3> QED BY <1>1, <2>1, <2>3, <3>2
  <2>6. \A i \in 1 .. n + k : f(m)[i] \in Int BY <1>1, <2>1
  <2>7. 1 .. n \in SUBSET (1 .. n + k) /\ IsFiniteSet(1 .. n + k) BY <1>1, <2>1, <2>3
  <2>8. SumFunctionOnSet(f(m), 1 .. n + k) = SumFunctionOnSet(f(m), 1 .. n)
    BY <2>5, <2>6, <2>7, SumWithoutZeros
  <2>9. SumFunctionOnSet(f(l), 1 .. n) = SumFunctionOnSet(f(m), 1 .. n)
    BY <1>1, <2>4, SumSame
  <2>10. OverrunIn(m) = OverrunIn(l) BY <1>2, <2>1, <2>8, <2>9
  <2> QED BY <2>10 DEF m
<1> QED BY <1>2, <1>3, <1>4

(* The order of the cells is strict.                                       *)
LEMMA BeforeIsStrict ==
    ASSUME NEW c \in Planned, NEW d \in Planned, Before(c, d)
    PROVE  ~Before(d, c)
<1> DEFINE P(x, y) == \/ x[1] < y[1]
                      \/ x[1] = y[1] /\ x[2] < y[2]
                      \/ x[1] = y[1] /\ x[2] = y[2] /\ x[3] < y[3]
                      \/ x[1] = y[1] /\ x[2] = y[2] /\ x[3] = y[3] /\ x[4] < y[4]
<1>1. ASSUME NEW x, NEW y, Before(x, y) PROVE P(x, y)
  <2>1. PICK k \in 1 .. 4 : x[k] < y[k] /\ \A j \in 1 .. (k - 1) : x[j] = y[j]
    BY <1>1 DEF Before
  <2>2. k = 1 \/ k = 2 \/ k = 3 \/ k = 4 OBVIOUS
  <2>3. CASE k = 1 BY <2>1, <2>3
  <2>4. CASE k = 2 BY <2>1, <2>4
  <2>5. CASE k = 3 BY <2>1, <2>5
  <2>6. CASE k = 4 BY <2>1, <2>6
  <2> QED BY <2>2, <2>3, <2>4, <2>5, <2>6
<1>2. ASSUME NEW x \in Planned
      PROVE  x[1] \in Nat /\ x[2] \in Nat /\ x[3] \in Nat /\ x[4] \in Nat
  BY PlanAssumption, QualificationAssumption
<1>3. P(c, d) BY <1>1
<1>4. ~P(d, c) BY <1>2, <1>3
<1> QED BY <1>1, <1>4

\* An event that leases nothing keeps the books: what it charges, it releases or
\* counts as overrun.
LEMMA AppendedBooks ==
    ASSUME CampaignInv, campaign # Absent, NEW l \in Seq(LedgerEvent), NEW e \in LedgerEvent,
           e.from = StateIn(l, e.cell), e.to # "leased", WithinCap(l)
    PROVE  /\ WithinCap(Append(l, e))
           /\ campaign.budget # Absent /\ WithinBudget(l) => WithinBudget(Append(l, e))
<1> DEFINE m == Append(l, e)
           L == LeasedIn(l)
           x == e.cell
<1>1. x \in Planned /\ e.cost \in Nat BY DEF LedgerEvent
<1>2. m \in Seq(LedgerEvent) OBVIOUS
<1>3. \A c \in Planned : StateIn(m, c) = IF c = x THEN e.to ELSE StateIn(l, c)
  BY AppendedState
<1>4. LeasedIn(m) = L \ {x} BY <1>1, <1>3 DEF LeasedIn
<1>5. \A c \in Planned : Charged(m, c) = Charged(l, c) + (IF c = x THEN e.cost ELSE 0)
  BY AppendedCharge
<1>6. L \in SUBSET Planned /\ (x \in L <=> e.from = "leased") BY <1>1 DEF LeasedIn
<1> HIDE DEF m, x
<1>7. WithinCap(m)
  <2>1. ASSUME NEW k \in Models
        PROVE  Cardinality({c \in LeasedIn(m) : ModelOf(c) = k}) <= campaign.cap
    <3> DEFINE A == {c \in LeasedIn(m) : ModelOf(c) = k}
               B == {c \in L : ModelOf(c) = k}
    <3>1. A \in SUBSET B /\ B \in SUBSET Planned BY <1>4, <1>6
    <3>2. IsFiniteSet(B) BY <3>1, PlanAssumption, FS_Subset
    <3>3. Cardinality(B) <= campaign.cap BY DEF WithinCap
    <3> HIDE DEF A, B
    <3>4. Cardinality(A) \in Nat /\ Cardinality(B) \in Nat /\ Cardinality(A) <= Cardinality(B)
      BY <3>1, <3>2, FS_Subset, FS_CardinalityType
    <3>5. campaign.cap \in Nat BY DEF CampaignInv
    <3>6. Cardinality(A) <= campaign.cap BY <3>3, <3>4, <3>5
    <3> QED BY <3>6 DEF A
  <2> QED BY <2>1 DEF WithinCap
<1>8. SpentIn(m) = SpentIn(l) + e.cost
  <2>1. \A c \in Planned : Charges(l)[c] \in Int /\ Charges(m)[c] \in Int
    BY <1>2, ReplayIs
  <2>2. \A c \in Planned : Charges(l)[c] = Charged(l, c) /\ Charges(m)[c] = Charged(m, c)
    BY DEF Charges
  <2>3. \A c \in Planned : c # x => Charges(l)[c] = Charges(m)[c]
    BY <1>5, <2>1, <2>2
  <2>4. Charges(m)[x] - Charges(l)[x] = e.cost BY <1>1, <1>5, <2>1, <2>2
  <2>5. SpentIn(m) = SpentIn(l) + (Charges(m)[x] - Charges(l)[x])
    BY <1>1, <2>1, <2>3, PlanAssumption, SumChange DEF SpentIn
  <2> QED BY <2>4, <2>5
<1>9. Reserved(L) - (IF e.from = "leased" THEN Est[x] ELSE 0) = Reserved(LeasedIn(m))
  <2>1. \A c \in L : Est[c] \in Int BY <1>6, EstimatedIs
  <2>2. IsFiniteSet(L) /\ Reserved(L) \in Nat /\ L \ {x} \in SUBSET Planned BY <1>6, EstimatedIs
  <2>3. Reserved(L \ {x}) \in Nat BY <2>2, EstimatedIs
  <2>4. CASE x \in L
    <3>1. Reserved(L) = Est[x] + Reserved(L \ {x}) BY <2>1, <2>2, <2>4, SumRemove DEF Reserved
    <3>2. Est[x] \in Int /\ e.from = "leased" BY <1>6, <2>1, <2>4
    <3> QED BY <1>4, <2>2, <2>3, <3>1, <3>2
  <2>5. CASE x \notin L
    <3>1. L \ {x} = L /\ e.from # "leased" BY <1>6, <2>5
    <3>2. Reserved(LeasedIn(m)) = Reserved(L) BY <1>4, <3>1
    <3>3. (IF e.from = "leased" THEN Est[x] ELSE 0) = 0 BY <3>1
    <3>4. \A y \in Nat : y - 0 = y OBVIOUS
    <3> QED BY <2>2, <3>2, <3>3, <3>4, Zenon
  <2> QED BY <2>4, <2>5
<1>10. OverrunIn(m) = OverrunIn(l) + Excess(e) BY OverrunIs DEF m
<1>11. /\ Excess(e) \in Nat
       /\ Excess(e) >= e.cost - (IF e.from = "leased" THEN Est[x] ELSE 0)
  BY ExcessIs DEF x
<1>12. ASSUME campaign.budget # Absent, WithinBudget(l) PROVE WithinBudget(m)
  <2> DEFINE r == IF e.from = "leased" THEN Est[x] ELSE 0
             R == Reserved(L)
             RR == Reserved(LeasedIn(m))
             S == SpentIn(l)
             SS == SpentIn(m)
             O == OverrunIn(l)
             OO == OverrunIn(m)
             u == Excess(e)
             cost == e.cost
  <2>1. /\ S \in Nat /\ SS = S + cost /\ R \in Nat /\ R - r = RR /\ O \in Nat
        /\ OO = O + u /\ u \in Nat /\ u >= cost - r /\ campaign.budget \in Nat
        /\ S + R <= campaign.budget + O
    <3>1. S \in Nat BY ReplayIs
    <3>2. R \in Nat BY <1>6, EstimatedIs
    <3>3. O \in Nat BY OverrunIs
    <3>4. campaign.budget \in Nat BY <1>12 DEF CampaignInv
    <3>5. S + R <= campaign.budget + O BY <1>12 DEF WithinBudget
    <3> QED BY <1>8, <1>9, <1>10, <1>11, <3>1, <3>2, <3>3, <3>4, <3>5
  <2>2. r \in Int /\ cost \in Int
    <3>1. Est[x] \in Nat BY <1>1, EstimatedIs
    <3> QED BY <1>1, <3>1
  <2> HIDE DEF r, R, RR, S, SS, O, OO, u, cost
  <2>3. SS + RR <= campaign.budget + OO
    <3>1. SS + RR = (S + R) + (cost - r) BY <2>1, <2>2
    <3>2. (S + R) + (cost - r) <= (campaign.budget + O) + u BY <2>1, <2>2
    <3>3. (campaign.budget + O) + u = campaign.budget + OO BY <2>1
    <3> QED BY <3>1, <3>2, <3>3
  <2> QED BY <2>3 DEF SS, RR, OO, WithinBudget
<1> QED BY <1>7, <1>12 DEF m

(* What has been taken before a chosen cell are the cells chosen before.   *)
LEMMA TakenBefore ==
    ASSUME NEW n \in Nat, NEW cells \in SUBSET Planned, NEW chosen \in [1 .. n -> cells],
           NEW k \in 1 .. n,
           \A i, j \in DOMAIN chosen : i < j => Before(chosen[i], chosen[j])
    PROVE  {d \in Range(chosen) : Before(d, chosen[k])} = {chosen[i] : i \in 1 .. (k - 1)}
<1>1. DOMAIN chosen = 1 .. n /\ \A i \in 1 .. n : chosen[i] \in Planned OBVIOUS
<1>2. ASSUME NEW i \in 1 .. n PROVE Before(chosen[i], chosen[k]) <=> i \in 1 .. (k - 1)
  <2>1. CASE i < k
    <3>1. Before(chosen[i], chosen[k]) BY <1>1, <2>1
    <3> QED BY <2>1, <3>1
  <2>2. CASE i = k
    <3>1. ~Before(chosen[k], chosen[k]) BY <1>1, BeforeIsStrict
    <3> QED BY <2>2, <3>1
  <2>3. CASE k < i
    <3>1. Before(chosen[k], chosen[i]) BY <1>1, <2>3
    <3>2. ~Before(chosen[i], chosen[k]) BY <1>1, <3>1, BeforeIsStrict
    <3> QED BY <2>3, <3>2
  <2> QED BY <2>1, <2>2, <2>3
<1>3. \A i \in 1 .. (k - 1) : i \in 1 .. n OBVIOUS
<1>4. Range(chosen) = {chosen[i] : i \in 1 .. n} BY <1>1 DEF Range
<1> QED BY <1>2, <1>3, <1>4

\* The cells a request may take.
ReadyIn(l) == {c \in Planned : StateIn(l, c) = "ready"}

\* What is shown of a request: its cells are priced, and fit the budget and the cap.
BooksAfter(l, n, chosen) ==
    /\ \A i \in 1 .. n : campaign.estimate[chosen[i]] # Absent
    /\ SpentIn(l) + Reserved(LeasedIn(l) \cup Range(chosen)) <= campaign.budget
    /\ \A m \in Models :
          Cardinality({c \in LeasedIn(l) \cup Range(chosen) : ModelOf(c) = m}) <= campaign.cap

(* What the cells that a request takes add up to, one after the other.     *)
LEMMA ChosenBooks ==
    ASSUME CampaignInv, campaign # Absent, campaign.budget # Absent,
           NEW l \in Seq(LedgerEvent), WithinCap(l),
           NEW limit, NEW cells \in SUBSET ReadyIn(l),
           NEW n \in Nat \ {0}, NEW chosen \in [1 .. n -> cells],
           IsChosen(chosen, Replay(l), limit, cells)
    PROVE  BooksAfter(l, n, chosen)
<1> DEFINE Pre(k) == {chosen[i] : i \in 1 .. k}
           L(k) == LeasedIn(l) \cup Pre(k)
           Capped(k) == \A m \in Models :
                           Cardinality({c \in L(k) : ModelOf(c) = m}) <= campaign.cap
           Paid(k) == SpentIn(l) + Reserved(L(k)) <= campaign.budget
<1>1. /\ cells \in SUBSET Planned /\ DOMAIN chosen = 1 .. n
      /\ \A i \in 1 .. n : chosen[i] \in cells
      /\ \A i, j \in DOMAIN chosen : i < j => Before(chosen[i], chosen[j])
  BY DEF IsChosen, ReadyIn
<1>2. Pre(n) = Range(chosen) BY <1>1 DEF Range
<1>3. \A k \in 0 .. n : L(k) \in SUBSET Planned
  <2>1. \A k \in 0 .. n : \A i \in 1 .. k : i \in 1 .. n OBVIOUS
  <2>2. \A k \in 0 .. n : Pre(k) \in SUBSET Planned BY <1>1, <2>1
  <2> QED BY <2>2 DEF LeasedIn
<1>4. ASSUME NEW k \in 1 .. n
      PROVE  /\ \A m \in Models : ModelOf(chosen[k]) = m =>
                   Cardinality({c \in L(k - 1) : ModelOf(c) = m}) < campaign.cap
             /\ campaign.estimate[chosen[k]] # Absent
             /\ SpentIn(l) + Reserved(L(k - 1)) + campaign.estimate[chosen[k]] <= campaign.budget
  <2>1. {d \in Range(chosen) : Before(d, chosen[k])} = Pre(k - 1) BY <1>1, TakenBefore
  <2>2. chosen[k] \in cells /\ chosen[k] \in Range(chosen) BY <1>1 DEF Range
  <2>3. Fits(Replay(l), limit, {d \in Range(chosen) : Before(d, chosen[k])}, chosen[k])
    BY <2>2 DEF IsChosen
  <2>4. Fits(Replay(l), limit, Pre(k - 1), chosen[k]) BY <2>1, <2>3
  <2>5. In(Replay(l), "leased") = LeasedIn(l) /\ Spent(Replay(l)) = SpentIn(l)
    BY ReplayIs DEF LeasedIn
  <2>6. k - 1 \in 0 .. n OBVIOUS
  <2>7. L(k - 1) \in SUBSET Planned BY <1>3, <2>6
  <2> HIDE DEF Pre
  <2>8. Estimated(L(k - 1)) = Reserved(L(k - 1)) BY <2>7, EstimatedIs
  <2> QED BY <2>4, <2>5, <2>8 DEF Fits
<1>5. ASSUME NEW k \in 1 .. n, Capped(k - 1) PROVE Capped(k) /\ Paid(k)
  <2> DEFINE x == chosen[k]
             A == L(k - 1)
             B == L(k)
  <2>1. 1 .. k = (1 .. (k - 1)) \cup {k} /\ k - 1 \in 0 .. n /\ k \in 0 .. n OBVIOUS
  <2>2. B = A \cup {x} BY <2>1
  <2>3. A \in SUBSET Planned /\ x \in Planned BY <1>1, <1>3, <2>1
  <2>4. IsFiniteSet(A) /\ IsFiniteSet(B) /\ Reserved(A) \in Nat /\ Reserved(B) \in Nat
    BY <2>2, <2>3, EstimatedIs
  <2>5. SpentIn(l) \in Nat /\ Est[x] \in Nat BY <2>3, ReplayIs, EstimatedIs
  <2>6. campaign.estimate[x] # Absent => campaign.estimate[x] = Est[x]
    BY <2>3, EstimatedIs DEF OrZero
  <2>7. campaign.budget \in Nat /\ campaign.cap \in Nat BY DEF CampaignInv
  <2>8. SpentIn(l) + Reserved(A) + Est[x] <= campaign.budget BY <1>4, <2>6
  <2>9. \A m \in Models : Cardinality({c \in A : ModelOf(c) = m}) <= campaign.cap BY <1>5
  <2>10. \A m \in Models : ModelOf(x) = m =>
            Cardinality({c \in A : ModelOf(c) = m}) < campaign.cap
    BY <1>4
  <2> HIDE DEF x, A, B, L, Pre
  <2>11. Reserved(B) <= Reserved(A) + Est[x]
    <3>1. CASE x \in A
      <4>1. B = A BY <2>2, <3>1
      <4> QED BY <2>4, <2>5, <4>1
    <3>2. CASE x \notin A
      <4>1. \A y \in A \cup {x} : Est[y] \in Int BY <2>3, EstimatedIs
      <4>2. Reserved(A \cup {x}) = Est[x] + Reserved(A)
        BY <2>4, <3>2, <4>1, SumAdd DEF Reserved
      <4> QED BY <2>2, <2>4, <2>5, <4>2
    <3> QED BY <3>1, <3>2
  <2>12. SpentIn(l) + Reserved(B) <= campaign.budget BY <2>4, <2>5, <2>7, <2>8, <2>11
  <2>13. ASSUME NEW m \in Models
         PROVE  Cardinality({c \in B : ModelOf(c) = m}) <= campaign.cap
    <3> DEFINE C == {c \in A : ModelOf(c) = m}
               D == {c \in B : ModelOf(c) = m}
    <3>1. IsFiniteSet(C) /\ Cardinality(C) \in Nat
      <4>1. C \in SUBSET A OBVIOUS
      <4> QED BY <2>4, <4>1, FS_Subset, FS_CardinalityType
    <3>2. CASE ModelOf(x) = m
      <4>1. Cardinality(C) < campaign.cap BY <2>10, <3>2
      <4>2. D = C \cup {x} BY <2>2, <3>2
      <4> HIDE DEF C, D
      <4>3. Cardinality(C \cup {x}) <= Cardinality(C) + 1
        <5>1. IsFiniteSet(C \cup {x}) /\
                 Cardinality(C \cup {x}) = (IF x \in C THEN Cardinality(C) ELSE Cardinality(C) + 1)
          BY <3>1, FS_AddElement
        <5> QED BY <3>1, <5>1
      <4>4. Cardinality(C \cup {x}) \in Nat BY <3>1, FS_AddElement, FS_CardinalityType
      <4>5. Cardinality(D) <= campaign.cap BY <2>7, <3>1, <4>1, <4>2, <4>3, <4>4
      <4> QED BY <4>5 DEF D
    <3>3. CASE ModelOf(x) # m
      <4>1. D = C BY <2>2, <3>3
      <4> QED BY <2>9, <4>1
    <3> QED BY <3>2, <3>3
  <2> QED BY <2>12, <2>13 DEF B
<1>6. Capped(0)
  <2>1. L(0) = LeasedIn(l) OBVIOUS
  <2> HIDE DEF L
  <2> QED BY <2>1 DEF WithinCap
<1> DEFINE Q == {k \in Nat : k <= n => Capped(k)}
<1>7. 0 \in Q BY <1>6
<1>8. ASSUME NEW k \in Nat, k \in Q PROVE k + 1 \in Q
  <2>1. ASSUME k + 1 <= n PROVE Capped(k + 1)
    <3>1. k + 1 \in 1 .. n /\ (k + 1) - 1 = k /\ k <= n BY <2>1
    <3>2. Capped(k) BY <1>8, <3>1
    <3> HIDE DEF Capped
    <3>3. Capped((k + 1) - 1) BY <3>1, <3>2
    <3> QED BY <1>5, <3>1, <3>3
  <2> HIDE DEF Capped
  <2> QED BY <2>1
<1> HIDE DEF Q
<1>9. \A k \in Nat : k \in Q BY <1>7, <1>8, SetInduction
<1>10. n \in 1 .. n /\ n - 1 \in Nat /\ n - 1 <= n OBVIOUS
<1> HIDE DEF Capped, Paid, L
<1>11. Capped(n - 1) BY <1>9, <1>10 DEF Q
<1>12. Capped(n) /\ Paid(n) BY <1>5, <1>10, <1>11
<1>13. L(n) = LeasedIn(l) \cup Range(chosen) BY <1>2 DEF L
<1> QED BY <1>4, <1>12, <1>13 DEF Capped, Paid, BooksAfter

\* So the books hold when they are written.
LEMMA LeasedBooks ==
    ASSUME CampaignInv, campaign # Absent, campaign.budget # Absent,
           NEW l \in Seq(LedgerEvent), WithinCap(l),
           NEW limit, NEW cells \in SUBSET ReadyIn(l),
           NEW n \in Nat \ {0}, NEW chosen \in [1 .. n -> cells],
           IsChosen(chosen, Replay(l), limit, cells),
           NEW b \in Seq(LedgerEvent), Len(b) = n, Leases(b),
           \A i \in 1 .. n : b[i].cell = chosen[i]
    PROVE  WithinCap(l \o b) /\ WithinBudget(l \o b)
<1> DEFINE m == l \o b
           L == LeasedIn(l) \cup Range(chosen)
<1>1. /\ SpentIn(l) + Reserved(L) <= campaign.budget
      /\ \A k \in Models : Cardinality({c \in L : ModelOf(c) = k}) <= campaign.cap
  <2>1. BooksAfter(l, n, chosen) BY ChosenBooks, Zenon
  <2> QED BY <2>1 DEF BooksAfter
<1>2. DOMAIN chosen = 1 .. n /\ \A i \in 1 .. n : chosen[i] \in Planned BY DEF ReadyIn
<1>3. CellsOf(b) = Range(chosen) BY <1>2 DEF CellsOf, Range
<1>4. \A c \in Planned : StateIn(m, c) = IF c \in Range(chosen) THEN "leased" ELSE StateIn(l, c)
  BY <1>3, LeasedState
<1>5. Range(chosen) \in SUBSET Planned BY <1>2 DEF Range
<1>6. LeasedIn(m) = L BY <1>4, <1>5 DEF LeasedIn
<1>7. \A c \in Planned : Charged(m, c) = Charged(l, c) BY LeasedCharge
<1>8. Charges(m) = Charges(l) BY <1>7 DEF Charges
<1>9. SpentIn(m) = SpentIn(l) BY <1>8 DEF SpentIn
<1>10. OverrunIn(m) \in Nat BY OverrunIs, JoinedEvents
<1>11. campaign.budget \in Nat BY DEF CampaignInv
<1>12. SpentIn(l) \in Nat /\ Reserved(L) \in Nat
  <2>1. L \in SUBSET Planned BY <1>5 DEF LeasedIn
  <2> HIDE DEF L
  <2> QED BY <2>1, ReplayIs, EstimatedIs
<1> HIDE DEF m, L
<1>13. WithinCap(m) BY <1>1, <1>6 DEF WithinCap
<1>14. SpentIn(m) + Reserved(LeasedIn(m)) <= campaign.budget + OverrunIn(m)
  BY <1>1, <1>6, <1>9, <1>10, <1>11, <1>12
<1> QED BY <1>13, <1>14 DEF WithinBudget, m

(* Leases come from requests, never from an appended event.                *)
LeasedOnRequest == "leased" \notin Results

(* A cell that is not blocked was ready when the manifest was built.       *)
LEMMA OnceReady ==
    ASSUME CampaignInv, LedgerInv, campaign # Absent, NEW c \in Planned,
           StateIn(ledger, c) \notin {"blocked-qualification", "blocked-price"}
    PROVE  campaign.states[c] = "ready"
<1>1. CASE EventsOf(ledger, c) = {}
  <2>1. StateIn(ledger, c) = campaign.states[c] BY <1>1 DEF StateIn
  <2>2. campaign.states[c] \in InitialStates BY DEF CampaignInv
  <2> QED BY <2>1, <2>2 DEF InitialStates
<1>2. CASE EventsOf(ledger, c) # {}
  <2>1. PICK i \in EventsOf(ledger, c) : TRUE BY <1>2
  <2>2. i \in 1 .. Len(ledger) BY <2>1, EventsType DEF LedgerInv
  <2>3. ledger[i].cell = c BY <2>1 DEF EventsOf
  <2> QED BY <2>2, <2>3 DEF LedgerInv
<1> QED BY <1>1, <1>2

(* A request writes leases of cells that are ready.                        *)
LEMMA RequestIs ==
    ASSUME CampaignInv, LedgerInv, campaign # Absent,
           NEW n \in Nat, NEW cells \in SUBSET ReadyIn(ledger), NEW chosen \in [1 .. n -> cells]
    PROVE  LET b == [i \in 1 .. n |-> EventFor(Now, chosen[i], "leased", 0)]
           IN  /\ b \in Seq(LedgerEvent) /\ Len(b) = n /\ Leases(b)
               /\ \A i \in 1 .. n : /\ b[i].cell = chosen[i]
                                    /\ campaign.states[chosen[i]] = "ready"
<1> DEFINE b == [i \in 1 .. n |-> EventFor(Now, chosen[i], "leased", 0)]
<1>1. ASSUME NEW i \in 1 .. n
      PROVE  /\ b[i] \in LedgerEvent /\ b[i].cell = chosen[i]
             /\ b[i].to = "leased" /\ b[i].cost = 0
             /\ campaign.states[chosen[i]] = "ready"
  <2>1. chosen[i] \in Planned /\ StateIn(ledger, chosen[i]) = "ready" BY DEF ReadyIn
  <2>2. Now.states[chosen[i]] = "ready" BY <2>1, ReplayIs DEF Now, LedgerInv
  <2>3. b[i] = [cell |-> chosen[i], from |-> "ready", to |-> "leased", cost |-> 0]
    BY <2>2 DEF EventFor
  <2>4. campaign.states[chosen[i]] = "ready" BY <2>1, OnceReady
  <2> QED BY <2>1, <2>3, <2>4 DEF LedgerEvent, CellStates, InitialStates
<1>2. DOMAIN b = 1 .. n OBVIOUS
<1> HIDE DEF b
<1>3. b \in Seq(LedgerEvent) /\ Len(b) = n
  <2>1. b = [i \in 1 .. n |-> b[i]] BY <1>2 DEF b
  <2>2. b \in [1 .. n -> LedgerEvent] BY <1>1, <2>1
  <2> QED BY <1>2, <2>2
<1> QED BY <1>1, <1>3 DEF b, Leases

-----------------------------------------------------------------------------
(* Every step, one after the other.                                        *)

\* build_campaign_manifest.
LEMMA ManifestStep ==
    ASSUME QualificationInv, campaign = Absent, LedgerInv,
           NEW policy \in Policies, NEW prices \in PriceLists, Build(policy, prices)
    PROVE  CampaignInv' /\ LedgerInv' /\ PricedInv' /\ BooksInv'
<1> DEFINE states == [c \in Planned |-> InitialState(ModelOf(c), Qualified, prices, policy)]
           estimate == [c \in Planned |-> prices[ModelOf(c)]]
           known == SumFunction([c \in Planned |-> OrZero(estimate[c])])
           unknown == Cardinality({c \in Planned : states[c] = "ready" /\ estimate[c] = Absent})
<1>1. /\ campaign' = [states |-> states, estimate |-> estimate, known |-> known,
                      gate |-> BudgetGate(known, unknown, policy),
                      budget |-> policy.budget, reserve |-> policy.reserve,
                      cap |-> policy.cap, shards |-> Shards(states, policy.shard)]
      /\ outcomes' = outcomes /\ report' = report /\ ledger' = ledger
  BY DEF Build, qualificationVars
<1>2. ledger' = <<>> BY <1>1 DEF LedgerInv
<1>3. ASSUME NEW c \in Planned
      PROVE  /\ ModelOf(c) \in Models
             /\ states[c] \in InitialStates
             /\ states[c] = "ready" => Vouched(ModelOf(c))
             /\ estimate[c] = Absent \/ estimate[c] \in Nat
  <2>1. ModelOf(c) \in Models BY PlanAssumption DEF ModelOf
  <2>2. estimate[c] = Absent \/ estimate[c] \in Nat BY <2>1, LedgerAssumption
  <2>3. states[c] = InitialState(ModelOf(c), Qualified, prices, policy) OBVIOUS
  <2>4. states[c] \in InitialStates BY <2>3 DEF InitialState, InitialStates
  <2>5. states[c] = "ready" => Qualified[ModelOf(c)] BY <2>3 DEF InitialState
  <2>6. Qualified[ModelOf(c)] => Vouched(ModelOf(c)) BY <2>1 DEF Qualified, QualificationInv
  <2> QED BY <2>1, <2>2, <2>4, <2>5, <2>6
<1>4. policy.cap \in Nat /\ policy.reserve \in Nat /\ (policy.budget = Absent \/ policy.budget \in Nat)
  BY LedgerAssumption
<1>5. known \in Nat
  <2> DEFINE f == [c \in Planned |-> OrZero(estimate[c])]
  <2>1. \A c \in Planned : OrZero(estimate[c]) \in Nat
    <3> HIDE DEF estimate
    <3> QED BY <1>3 DEF OrZero
  <2>2. DOMAIN f = Planned /\ \A c \in Planned : f[c] \in Nat BY <2>1
  <2> HIDE DEF f
  <2>3. SumFunctionOnSet(f, Planned) \in Nat BY <2>2, PlanAssumption, SumNatural
  <2>4. SumFunction(f) \in Nat BY <2>2, <2>3, SumOfFunction
  <2> QED BY <2>4 DEF f
<1> HIDE DEF states, known, unknown
<1>6. /\ campaign'.states = states /\ campaign'.estimate = estimate /\ campaign'.known = known
      /\ campaign'.gate = BudgetGate(known, unknown, policy)
      /\ campaign'.budget = policy.budget /\ campaign'.reserve = policy.reserve
      /\ campaign'.cap = policy.cap
  BY <1>1
<1>7. BudgetGate(known, unknown, policy) = "pass" =>
          /\ policy.budget # Absent
          /\ known * (100 + policy.reserve) <= 100 * policy.budget
  <2>1. ASSUME BudgetGate(known, unknown, policy) = "pass"
        PROVE  /\ policy.budget # Absent
               /\ ~(known * (100 + policy.reserve) > 100 * policy.budget)
    BY <2>1 DEF BudgetGate
  <2>2. ASSUME policy.budget # Absent
        PROVE  known * (100 + policy.reserve) \in Int /\ 100 * policy.budget \in Int
    BY <1>4, <1>5, <2>2
  <2>3. \A x, y \in Int : ~(x > y) => x <= y OBVIOUS
  <2> QED BY <2>1, <2>2, <2>3
<1>8. Estimated(Planned)' = known BY <1>6 DEF Estimated, known
<1>9. \A c \in Planned : Vouched(ModelOf(c)) => Vouched(ModelOf(c))'
  BY <1>1 DEF Vouched, Evidence
<1>10. CampaignInv'
  BY <1>3, <1>4, <1>6, <1>7, <1>8, <1>9 DEF CampaignInv
<1>11. LedgerInv' /\ PricedInv'
  <2>1. 1 .. Len(ledger') = {} BY <1>2
  <2>2. ledger' \in Seq(LedgerEvent) BY <1>2
  <2> QED BY <1>2, <2>1, <2>2 DEF LedgerInv, PricedInv
<1>12. \A c : EventsOf(ledger, c)' = {} BY <1>2 DEF EventsOf
<1>13. LeasedIn(ledger)' = {}
  <2>1. \A c \in Planned : StateIn(ledger, c)' = states[c] BY <1>6, <1>12 DEF StateIn
  <2> QED BY <1>3, <2>1 DEF LeasedIn, InitialStates
<1>14. SpentIn(ledger)' = 0
  <2>1. \A c \in Planned : Charged(ledger, c)' = 0
    <3>1. ASSUME NEW c \in Planned PROVE Charged(ledger, c)' = 0
      <4> DEFINE f == [i \in EventsOf(ledger', c) |-> ledger'[i].cost]
      <4>1. DOMAIN f = {} BY <1>12 DEF EventsOf
      <4>2. SumFunction(f) = 0 BY <4>1, SumOfFunction, SumEmpty
      <4> QED BY <4>2 DEF Charged, EventsOf
    <3> QED BY <3>1
  <2>2. \A c \in Planned : Charges(ledger)'[c] = 0 BY <2>1 DEF Charges
  <2> QED BY <2>2, PlanAssumption, SumZero DEF SpentIn
<1>15. OverrunIn(ledger)' = 0
  <2> DEFINE f == [i \in DOMAIN ledger |-> Excess(ledger[i])]'
  <2>1. DOMAIN f = {} BY <1>2
  <2>2. OverrunIn(ledger)' = SumFunction(f) BY DEF OverrunIn
  <2> HIDE DEF f
  <2> QED BY <2>1, <2>2, SumOfFunction, SumEmpty
<1>16. Reserved(LeasedIn(ledger))' = 0 BY <1>13, SumEmpty DEF Reserved
<1>17. WithinCap(ledger)'
  <2>1. \A m : {c \in {} : ModelOf(c) = m} = {} OBVIOUS
  <2>2. Cardinality({}) = 0 BY FS_EmptySet
  <2> QED BY <1>4, <1>6, <1>13, <2>1, <2>2 DEF WithinCap
<1>18. campaign'.budget # Absent => WithinBudget(ledger)'
  BY <1>4, <1>6, <1>14, <1>15, <1>16 DEF WithinBudget
<1> QED BY <1>10, <1>11, <1>17, <1>18 DEF BooksInv

(* While the manifest stays, the invariants are about the longer file.     *)
LEMMA SameManifest ==
    ASSUME campaign' = campaign, outcomes' = outcomes
    PROVE  /\ CampaignInv => CampaignInv'
           /\ WithinCap(ledger') => WithinCap(ledger)'
           /\ WithinBudget(ledger') => WithinBudget(ledger)'
<1>1. CampaignInv => CampaignInv'
  <2>1. \A c \in Planned : Vouched(ModelOf(c))' <=> Vouched(ModelOf(c)) BY DEF Vouched, Evidence
  <2>2. Estimated(Planned)' = Estimated(Planned) BY DEF Estimated
  <2> QED BY <2>1, <2>2 DEF CampaignInv
<1>2. \A c \in Planned : StateIn(ledger, c)' = StateIn(ledger', c) BY DEF StateIn, EventsOf
<1>3. LeasedIn(ledger)' = LeasedIn(ledger') BY <1>2 DEF LeasedIn
<1>4. Est' = Est BY DEF Est
<1>5. SpentIn(ledger)' = SpentIn(ledger') BY DEF SpentIn, Charges, Charged, EventsOf
<1>6. OverrunIn(ledger)' = OverrunIn(ledger')
  <2>1. \A i : Excess(ledger[i])' = Excess(ledger'[i]) BY DEF Excess
  <2> QED BY <2>1 DEF OverrunIn
<1>7. WithinCap(ledger') => WithinCap(ledger)' BY <1>3 DEF WithinCap
<1>8. WithinBudget(ledger') => WithinBudget(ledger)'
  BY <1>3, <1>4, <1>5, <1>6 DEF WithinBudget, Reserved
<1> QED BY <1>1, <1>7, <1>8

\* append_campaign_event.
LEMMA AppendStep ==
    ASSUME CampaignInv, LedgerInv,
           NEW c \in Planned, NEW new, NEW cost \in Costs, AppendEvent(c, new, cost)
    PROVE  /\ LedgerInv'
           /\ new # "leased" => (PricedInv => PricedInv') /\ (BooksInv => BooksInv')
<1> DEFINE e == EventFor(Now, c, new, cost)
           n == Len(ledger)
<1>1. /\ campaign # Absent /\ ledger \in Seq(LedgerEvent)
      /\ new \in AllowedTransitions(Now.states[c])
      /\ ledger' = Append(ledger, e)
      /\ campaign' = campaign /\ outcomes' = outcomes
  BY DEF AppendEvent, LedgerInv, qualificationVars
<1>2. Now.states[c] = StateIn(ledger, c) BY <1>1, ReplayIs DEF Now
<1>3. StateIn(ledger, c) \in CellStates
  <2>1. campaign.states[c] \in CellStates BY <1>1 DEF CampaignInv, CellStates
  <2> QED BY <1>1, <2>1, StateType
<1>4. new \in CellStates
  BY <1>1 DEF AllowedTransitions, CellStates, InitialStates, Terminal
<1>5. StateIn(ledger, c) \notin {"blocked-qualification", "blocked-price"}
  BY <1>1, <1>2 DEF AllowedTransitions
<1>6. campaign.states[c] = "ready" BY <1>1, <1>5, OnceReady
<1>7. /\ e.cell = c /\ e.from = StateIn(ledger, c) /\ e.to = new /\ e.cost = cost
      /\ e \in LedgerEvent
  BY <1>2, <1>3, <1>4, LedgerAssumption DEF EventFor, LedgerEvent
<1> HIDE DEF e
<1>8. /\ ledger' \in Seq(LedgerEvent) /\ Len(ledger') = n + 1 /\ n \in Nat
      /\ \A i \in 1 .. n : ledger'[i] = ledger[i]
      /\ ledger'[n + 1] = e
  BY <1>1, <1>7, AppendProperties
<1>9. \A i \in 1 .. n + 1 : i \in 1 .. n \/ i = n + 1 BY <1>8
<1>10. LedgerInv'
  <2>1. ASSUME NEW i \in 1 .. Len(ledger') PROVE campaign'.states[ledger'[i].cell] = "ready"
    <3>1. CASE i \in 1 .. n BY <1>1, <1>8, <3>1 DEF LedgerInv
    <3>2. CASE i = n + 1 BY <1>1, <1>6, <1>7, <1>8, <3>2
    <3> QED BY <1>8, <1>9, <2>1, <3>1, <3>2
  <2> QED BY <1>1, <1>8, <2>1 DEF LedgerInv
<1>11. ASSUME new # "leased", PricedInv PROVE PricedInv'
  <2>1. ASSUME NEW i \in 1 .. Len(ledger'), ledger'[i].to = "leased"
        PROVE  campaign'.estimate[ledger'[i].cell] # Absent
    <3>1. CASE i \in 1 .. n BY <1>1, <1>8, <1>11, <2>1, <3>1 DEF PricedInv
    <3>2. CASE i = n + 1 BY <1>7, <1>8, <1>11, <2>1, <3>2
    <3> QED BY <1>8, <1>9, <2>1, <3>1, <3>2
  <2> QED BY <2>1 DEF PricedInv
<1>12. ASSUME new # "leased", BooksInv PROVE BooksInv'
  <2>1. WithinCap(ledger) /\ (campaign.budget # Absent => WithinBudget(ledger))
    BY <1>1, <1>12 DEF BooksInv
  <2>2. /\ WithinCap(Append(ledger, e))
        /\ campaign.budget # Absent => WithinBudget(Append(ledger, e))
    BY <1>1, <1>7, <1>12, <2>1, AppendedBooks
  <2>3. WithinCap(ledger') /\ (campaign.budget # Absent => WithinBudget(ledger'))
    BY <1>1, <2>2
  <2>4. WithinCap(ledger)' /\ (campaign.budget # Absent => WithinBudget(ledger)')
    BY <1>1, <2>3, SameManifest
  <2> QED BY <1>1, <2>4 DEF BooksInv
<1> QED BY <1>10, <1>11, <1>12

\* lease_ready_cells.
LEMMA RequestStep ==
    ASSUME CampaignInv, LedgerInv, NEW limit, NEW filter, LeaseReady(limit, filter)
    PROVE  /\ LedgerInv'
           /\ BooksInv => (PricedInv => PricedInv') /\ BooksInv'
<1> DEFINE cells == In(Now, "ready") \cap filter
           b(n, chosen) == [i \in 1 .. n |-> EventFor(Now, chosen[i], "leased", 0)]
<1>1. /\ campaign # Absent /\ campaign.budget # Absent /\ ledger \in Seq(LedgerEvent)
      /\ campaign' = campaign /\ outcomes' = outcomes
      /\ \E n \in 1 .. limit : \E chosen \in [1 .. n -> cells] :
            IsChosen(chosen, Now, limit, cells) /\ ledger' = ledger \o b(n, chosen)
  BY DEF LeaseReady, LedgerInv, qualificationVars
<1>2. cells \in SUBSET ReadyIn(ledger) BY <1>1, ReplayIs DEF ReadyIn, Now
<1> HIDE DEF cells, b
<1>3. PICK n \in 1 .. limit : \E chosen \in [1 .. n -> cells] :
         IsChosen(chosen, Now, limit, cells) /\ ledger' = ledger \o b(n, chosen)
  BY <1>1
<1>4. PICK chosen \in [1 .. n -> cells] :
         IsChosen(chosen, Now, limit, cells) /\ ledger' = ledger \o b(n, chosen)
  BY <1>3
<1>5. n \in Nat \ {0} OBVIOUS
<1> DEFINE bb == b(n, chosen)
           k == Len(ledger)
<1>6. /\ bb \in Seq(LedgerEvent) /\ Len(bb) = n /\ Leases(bb)
      /\ \A i \in 1 .. n : bb[i].cell = chosen[i] /\ campaign.states[chosen[i]] = "ready"
  BY <1>1, <1>2, <1>5, RequestIs DEF b
<1>7. ledger' = ledger \o bb BY <1>4
<1> HIDE DEF bb
<1>8. /\ ledger' \in Seq(LedgerEvent) /\ Len(ledger') = k + n /\ k \in Nat
      /\ \A i \in 1 .. k : ledger'[i] = ledger[i]
      /\ \A i \in k + 1 .. k + n : i - k \in 1 .. n /\ ledger'[i] = bb[i - k]
  BY <1>1, <1>6, <1>7, JoinedEvents, EventsType
<1>9. \A i \in 1 .. k + n : i \in 1 .. k \/ i \in k + 1 .. k + n BY <1>5, <1>8
<1>10. LedgerInv'
  <2>1. ASSUME NEW i \in 1 .. Len(ledger') PROVE campaign'.states[ledger'[i].cell] = "ready"
    <3>1. CASE i \in 1 .. k BY <1>1, <1>8, <3>1 DEF LedgerInv
    <3>2. CASE i \in k + 1 .. k + n BY <1>1, <1>6, <1>8, <3>2
    <3> QED BY <1>8, <1>9, <2>1, <3>1, <3>2
  <2> QED BY <1>1, <1>8, <2>1 DEF LedgerInv
<1>11. ASSUME BooksInv PROVE (PricedInv => PricedInv') /\ BooksInv'
  <2>1. WithinCap(ledger) BY <1>1, <1>11 DEF BooksInv
  <2>2. IsChosen(chosen, Replay(ledger), limit, cells) BY <1>4 DEF Now
  <2>3. BooksAfter(ledger, n, chosen)
    BY <1>1, <1>2, <1>5, <2>1, <2>2, ChosenBooks, Zenon
  <2>4. WithinCap(ledger') /\ WithinBudget(ledger')
    <3>1. \A i \in 1 .. n : bb[i].cell = chosen[i] BY <1>6
    <3>2. bb \in Seq(LedgerEvent) /\ Len(bb) = n /\ Leases(bb) BY <1>6
    <3>3. campaign # Absent /\ campaign.budget # Absent /\ ledger \in Seq(LedgerEvent) BY <1>1
    <3>4. WithinCap(ledger \o bb) /\ WithinBudget(ledger \o bb)
      BY <1>2, <1>5, <2>1, <2>2, <3>1, <3>2, <3>3, LeasedBooks
    <3> QED BY <1>7, <3>4
  <2>5. BooksInv' BY <1>1, <2>4, SameManifest DEF BooksInv
  <2>6. ASSUME PricedInv PROVE PricedInv'
    <3>1. ASSUME NEW i \in 1 .. Len(ledger'), ledger'[i].to = "leased"
          PROVE  campaign'.estimate[ledger'[i].cell] # Absent
      <4>1. CASE i \in 1 .. k BY <1>1, <1>8, <2>6, <3>1, <4>1 DEF PricedInv
      <4>2. CASE i \in k + 1 .. k + n BY <1>1, <1>6, <1>8, <2>3, <4>2 DEF BooksAfter
      <4> QED BY <1>8, <1>9, <3>1, <4>1, <4>2
    <3> QED BY <3>1 DEF PricedInv
  <2> QED BY <2>5, <2>6
<1> QED BY <1>10, <1>11

(* What a passed gate leaves for retries.                                  *)
LEMMA ReserveIsEnough ==
    ASSUME CampaignInv, LedgerInv, campaign # Absent, campaign.gate = "pass", WithinReserve,
           NEW c \in In(Now, "ready")
    PROVE  Spent(Now) + Estimated(In(Now, "leased") \cup {c}) <= campaign.budget
<1> DEFINE L == LeasedIn(ledger) \cup {c}
           U == Unfinished(Now)
           charges == Charges(ledger)
           held == [x \in Planned |-> IF x \in L THEN Est[x] ELSE 0]
           booked == [x \in Planned |-> charges[x] + held[x]]
           used == [x \in Planned |-> IF x \in U THEN charges[x] ELSE Positive(charges[x], Est[x])]
           allowed == [x \in Planned |-> used[x] + Est[x]]
           Total(f) == SumFunctionOnSet(f, Planned)
<1>0. ledger \in Seq(LedgerEvent) BY DEF LedgerInv
<1>1. /\ \A x \in Planned : Now.states[x] = StateIn(ledger, x)
      /\ \A x \in Planned : Now.charged[x] = charges[x] /\ charges[x] \in Nat
      /\ In(Now, "leased") = LeasedIn(ledger)
      /\ In(Now, "ready") = {x \in Planned : StateIn(ledger, x) = "ready"}
      /\ Spent(Now) = SpentIn(ledger)
  BY <1>0, ReplayIs DEF Now, Charges, LeasedIn
<1>2. L \in SUBSET Planned BY <1>1 DEF LeasedIn
<1>3. \A x \in Planned : Est[x] \in Nat /\ Est[x] = OrZero(campaign.estimate[x])
  BY EstimatedIs
<1>4. \A x \in L : x \in U BY <1>1, <1>2 DEF LeasedIn, Unfinished, Terminal
<1>5. \A x \in Planned : /\ held[x] \in Nat /\ held[x] <= Est[x]
                         /\ held[x] = IF x \in L THEN Est[x] ELSE 0
  BY <1>3
<1>6. \A x \in Planned : /\ used[x] \in Nat
                         /\ x \in U => used[x] = charges[x]
                         /\ x \notin U => used[x] >= charges[x] - Est[x]
  BY <1>1, <1>3 DEF Positive
<1> HIDE DEF L, U, charges, held, used
<1>7. \A x \in Planned : /\ booked[x] \in Int /\ allowed[x] \in Int
                         /\ booked[x] <= allowed[x]
  <2>1. ASSUME NEW x \in Planned
        PROVE  booked[x] \in Int /\ allowed[x] \in Int /\ booked[x] <= allowed[x]
    <3>1. /\ charges[x] \in Nat /\ held[x] \in Nat /\ Est[x] \in Nat /\ used[x] \in Nat
          /\ booked[x] = charges[x] + held[x] /\ allowed[x] = used[x] + Est[x]
      BY <1>1, <1>3, <1>5, <1>6
    <3>2. CASE x \in U
      <4>1. used[x] = charges[x] /\ held[x] <= Est[x] BY <1>5, <1>6, <3>2
      <4> HIDE DEF booked, allowed
      <4> QED BY <3>1, <4>1
    <3>3. CASE x \notin U
      <4>1. held[x] = 0 /\ used[x] >= charges[x] - Est[x] BY <1>4, <1>5, <1>6, <3>3
      <4> HIDE DEF booked, allowed
      <4> QED BY <3>1, <4>1
    <3> QED BY <3>2, <3>3
  <2> QED BY <2>1
<1>8. IsFiniteSet(Planned) BY PlanAssumption
<1>9. Total(booked) = Total(charges) + Total(held)
  <2>1. \A x \in Planned : charges[x] \in Int /\ held[x] \in Int /\ booked[x] = charges[x] + held[x]
    BY <1>1, <1>5
  <2> HIDE DEF booked
  <2> QED BY <1>8, <2>1, SumPlus
<1>10. Total(allowed) = Total(used) + Total(Est)
  <2>1. \A x \in Planned : used[x] \in Int /\ Est[x] \in Int /\ allowed[x] = used[x] + Est[x]
    BY <1>3, <1>6
  <2> HIDE DEF allowed
  <2> QED BY <1>8, <2>1, SumPlus
<1> HIDE DEF booked, allowed
<1>11. Total(booked) <= Total(allowed) BY <1>7, <1>8, SumMonotonic
<1>12. Total(charges) = Spent(Now) BY <1>1 DEF SpentIn, charges
<1>13. Total(held) = Estimated(In(Now, "leased") \cup {c})
  <2>1. \A x \in L : Est[x] \in Int BY <1>2, <1>3
  <2>2. Total(held) = Reserved(L) BY <1>2, <1>5, <1>8, <2>1, SumWithin DEF Reserved
  <2>3. Estimated(L) = Reserved(L) BY <1>2, EstimatedIs
  <2>4. L = In(Now, "leased") \cup {c} BY <1>1 DEF L
  <2> QED BY <2>2, <2>3, <2>4
<1>14. Total(used) = ReserveUsed(Now)
  <2> DEFINE f == [x \in Planned |->
                     IF x \in Unfinished(Now) THEN Now.charged[x]
                     ELSE Positive(Now.charged[x], OrZero(campaign.estimate[x]))]
  <2>1. \A x \in Planned : used[x] \in Int /\ used[x] = f[x] BY <1>1, <1>3, <1>6 DEF used, U
  <2>2. DOMAIN f = Planned /\ ReserveUsed(Now) = SumFunction(f) BY DEF ReserveUsed
  <2> HIDE DEF f
  <2>3. Total(used) = Total(f) BY <1>8, <2>1, SumSame
  <2> QED BY <2>2, <2>3, SumOfFunction
<1>15. Total(Est) = campaign.known
  <2>1. Estimated(Planned) = Reserved(Planned) BY EstimatedIs
  <2>2. campaign.known = Estimated(Planned) BY DEF CampaignInv
  <2> QED BY <2>1, <2>2 DEF Reserved
<1>16. /\ Total(charges) \in Nat /\ Total(held) \in Nat /\ Total(used) \in Nat /\ Total(Est) \in Nat
  BY <1>1, <1>3, <1>5, <1>6, <1>8, SumNatural
<1> DEFINE S == Spent(Now) + Estimated(In(Now, "leased") \cup {c})
           k == campaign.known
           r == campaign.reserve
           p == r * k
           u == ReserveUsed(Now)
<1>17. S \in Nat /\ k \in Nat /\ r \in Nat /\ u \in Nat /\ S <= u + k
  <2>1. r \in Nat BY DEF CampaignInv
  <2>2. S = Total(booked) /\ Total(booked) <= u + k /\ Total(booked) \in Nat
    BY <1>9, <1>10, <1>11, <1>12, <1>13, <1>14, <1>15, <1>16
  <2> QED BY <1>14, <1>15, <1>16, <2>1, <2>2
<1>18. u <= p \div 100 BY DEF WithinReserve
<1>19. campaign.budget \in Nat /\ k * (100 + r) <= 100 * campaign.budget BY DEF CampaignInv
<1> HIDE DEF S, k, r, u, Total
<1>20. p \in Nat /\ k * (100 + r) = 100 * k + p BY <1>17
<1> HIDE DEF p
<1>21. 100 * (p \div 100) <= p /\ p \div 100 \in Nat BY <1>20
<1> DEFINE q == p \div 100
           a == k * (100 + r)
<1>22. q \in Nat /\ 100 * q <= p /\ u <= q /\ a = 100 * k + p /\ a <= 100 * campaign.budget
  BY <1>18, <1>19, <1>20, <1>21
<1> HIDE DEF q, a
<1>23. S <= campaign.budget BY <1>17, <1>19, <1>20, <1>22
<1> QED BY <1>23 DEF S

-----------------------------------------------------------------------------
(* The theorems.                                                           *)

\* What holds whoever writes the leases.
CampaignBase == QualificationInv /\ CampaignInv /\ LedgerInv

\* The invariants hold at first.
LEMMA CampaignStarts ==
    ASSUME CampaignInit
    PROVE  CampaignBase /\ PricedInv /\ BooksInv
<1>1. /\ outcomes = [c \in Models \X (1 .. CanaryTasks) |-> Absent]
      /\ report = [m \in Models |-> Absent] /\ qrun = NoQualification
      /\ campaign = Absent /\ ledger = <<>>
  BY DEF CampaignInit, QualificationInit
<1>2. QualificationInv BY <1>1 DEF QualificationInv, Tasks
<1>3. 1 .. Len(ledger) = {} /\ ledger \in Seq(LedgerEvent) BY <1>1
<1> QED BY <1>1, <1>2, <1>3 DEF CampaignBase, CampaignInv, LedgerInv, PricedInv, BooksInv

\* They hold after every step.
LEMMA CampaignStep ==
    ASSUME CampaignBase, [CampaignNext]_campaignVars
    PROVE  /\ CampaignBase'
           /\ LeasedOnRequest /\ PricedInv /\ BooksInv => PricedInv' /\ BooksInv'
<1>0. QualificationInv /\ CampaignInv /\ LedgerInv BY DEF CampaignBase
<1>1. ASSUME UNCHANGED qualificationVars PROVE QualificationInv'
  BY <1>0, <1>1, QualificationStep
<1>2. ASSUME campaign' = campaign, UNCHANGED qualificationVars PROVE CampaignInv'
  BY <1>0, <1>2, SameManifest DEF qualificationVars
<1>3. CASE campaign = Absent /\ QualificationNext /\ UNCHANGED ledgerVars
  <2>1. campaign' = Absent /\ ledger' = ledger /\ ledger = <<>>
    BY <1>0, <1>3 DEF ledgerVars, LedgerInv
  <2>2. QualificationInv' BY <1>0, <1>3, QualificationStep
  <2>3. CampaignInv' /\ BooksInv' BY <2>1 DEF CampaignInv, BooksInv
  <2>4. 1 .. Len(ledger') = {} /\ ledger' \in Seq(LedgerEvent) BY <2>1
  <2>5. LedgerInv' /\ PricedInv' BY <2>1, <2>4 DEF LedgerInv, PricedInv
  <2> QED BY <2>2, <2>3, <2>5 DEF CampaignBase
<1>4. ASSUME NEW policy \in Policies, NEW prices \in PriceLists, Build(policy, prices)
      PROVE  CampaignBase' /\ PricedInv' /\ BooksInv'
  <2>1. campaign = Absent /\ UNCHANGED qualificationVars BY <1>4 DEF Build
  <2>2. CampaignInv' /\ LedgerInv' /\ PricedInv' /\ BooksInv'
    BY <1>0, <1>4, <2>1, ManifestStep
  <2> QED BY <1>1, <2>1, <2>2 DEF CampaignBase
<1>5. ASSUME NEW c \in Planned, NEW new \in Results, NEW cost \in Costs, AppendEvent(c, new, cost)
      PROVE  /\ CampaignBase'
             /\ LeasedOnRequest /\ PricedInv /\ BooksInv => PricedInv' /\ BooksInv'
  <2>1. campaign' = campaign /\ UNCHANGED qualificationVars BY <1>5 DEF AppendEvent
  <2>2. LeasedOnRequest => new # "leased" BY DEF LeasedOnRequest
  <2>3. LedgerInv' /\ (new # "leased" => (PricedInv => PricedInv') /\ (BooksInv => BooksInv'))
    BY <1>0, <1>5, AppendStep
  <2> QED BY <1>1, <1>2, <2>1, <2>2, <2>3 DEF CampaignBase
<1>6. ASSUME NEW limit \in Limits, NEW filter \in Filters, LeaseReady(limit, filter)
      PROVE  /\ CampaignBase'
             /\ PricedInv /\ BooksInv => PricedInv' /\ BooksInv'
  <2>1. campaign' = campaign /\ UNCHANGED qualificationVars BY <1>6 DEF LeaseReady
  <2>2. LedgerInv' /\ (BooksInv => (PricedInv => PricedInv') /\ BooksInv')
    BY <1>0, <1>6, RequestStep
  <2> QED BY <1>1, <1>2, <2>1, <2>2 DEF CampaignBase
<1>7. CASE UNCHANGED campaignVars
  <2>1. campaign' = campaign /\ ledger' = ledger /\ UNCHANGED qualificationVars
    BY <1>7 DEF campaignVars, ledgerVars
  <2>2. LedgerInv' BY <1>0, <2>1 DEF LedgerInv
  <2>3. PricedInv => PricedInv' BY <2>1 DEF PricedInv
  <2>4. BooksInv => BooksInv'
    <3>1. ASSUME BooksInv, campaign # Absent
          PROVE  /\ WithinCap(ledger')
                 /\ campaign.budget # Absent => WithinBudget(ledger')
      BY <2>1, <3>1 DEF BooksInv
    <3> QED BY <2>1, <3>1, SameManifest DEF BooksInv, qualificationVars
  <2> QED BY <1>1, <1>2, <2>1, <2>2, <2>3, <2>4 DEF CampaignBase
<1> QED BY <1>3, <1>4, <1>5, <1>6, <1>7 DEF CampaignNext

(* Reports are about evidence that stays, the manifest is what they and    *)
(* the prices allow, and the file is one that the replay accepts: every    *)
(* line has a planned cell that was ready, a state and a cost.             *)
THEOREM LedgerIsReplayable == CampaignSpec => []CampaignBase
<1>1. CampaignInit => CampaignBase BY CampaignStarts
<1>2. CampaignBase /\ [CampaignNext]_campaignVars => CampaignBase' BY CampaignStep
<1> QED BY <1>1, <1>2, PTL DEF CampaignSpec

(* The gate that passed is enough to the end, whatever was leased,         *)
(* finished, failed, returned or written by hand: as long as retries and   *)
(* overruns stay within the reserve, the budget of lease_ready_cells       *)
(* refuses no ready cell.                                                  *)
THEOREM ReserveIsKept == CampaignSpec => []ReserveCoversRetries
<1>1. CampaignBase => ReserveCoversRetries
  <2>1. ASSUME CampaignBase, campaign # Absent, campaign.gate = "pass", WithinReserve,
               NEW c \in In(Now, "ready")
        PROVE  Spent(Now) + Estimated(In(Now, "leased") \cup {c}) <= campaign.budget
    BY <2>1, ReserveIsEnough DEF CampaignBase
  <2> QED BY <2>1 DEF ReserveCoversRetries
<1> QED BY <1>1, LedgerIsReplayable, PTL

(* When leases are only written by lease_ready_cells, each is of a priced  *)
(* cell, and after every event the cap of each model holds and what was    *)
(* spent or is reserved exceeds the budget by no more than the overrun.    *)
THEOREM LeasesAreBacked ==
    ASSUME LeasedOnRequest
    PROVE  CampaignSpec => [](CampaignBase /\ PricedInv /\ BooksInv)
<1> DEFINE I == CampaignBase /\ PricedInv /\ BooksInv
<1>1. CampaignInit => I BY CampaignStarts
<1>2. I /\ [CampaignNext]_campaignVars => I' BY CampaignStep
<1> QED BY <1>1, <1>2, PTL DEF CampaignSpec

(* Whatever qualification runs were resumed or interrupted on the way, a   *)
(* cell is leased only when the files on disk pass the gates for its model *)
(* and a price was recorded.                                               *)
THEOREM QualifiedBeforeLeased ==
    ASSUME LeasedOnRequest
    PROVE  CampaignSpec => []OnlyQualifiedLeased
<1>1. CampaignBase /\ PricedInv => OnlyQualifiedLeased
  <2>1. ASSUME CampaignBase, PricedInv, NEW i \in DOMAIN ledger, ledger[i].to = "leased"
        PROVE  Evidence(ModelOf(ledger[i].cell)) /\ campaign.estimate[ledger[i].cell] # Absent
    <3>1. ledger \in Seq(LedgerEvent) /\ i \in 1 .. Len(ledger)
      BY <2>1 DEF CampaignBase, LedgerInv
    <3>2. campaign # Absent
      <4>1. CASE campaign = Absent
        <5>1. ledger = <<>> BY <2>1, <4>1 DEF CampaignBase, LedgerInv
        <5> QED BY <2>1, <5>1
      <4> QED BY <4>1
    <3>3. ledger[i].cell \in Planned BY <3>1, EventsType DEF LedgerEvent
    <3>4. campaign.states[ledger[i].cell] = "ready" BY <2>1, <3>1 DEF CampaignBase, LedgerInv
    <3>5. Vouched(ModelOf(ledger[i].cell))
      BY <2>1, <3>2, <3>3, <3>4 DEF CampaignBase, CampaignInv
    <3> QED BY <2>1, <3>1, <3>5 DEF PricedInv, Vouched
  <2> QED BY <2>1 DEF OnlyQualifiedLeased
<1> QED BY <1>1, LeasesAreBacked, PTL

(* Open leases stay within the cap of their model, and with what was spent *)
(* within the budget, up to what callers charged beyond reservations.      *)
THEOREM BudgetIsReserved ==
    ASSUME LeasedOnRequest
    PROVE  CampaignSpec => []ReservationsHold
<1>1. CampaignBase /\ BooksInv => ReservationsHold
  <2>1. ASSUME CampaignBase, BooksInv, campaign # Absent, campaign.budget # Absent
        PROVE  /\ \A m \in Models :
                    Cardinality({c \in In(Now, "leased") : ModelOf(c) = m}) <= campaign.cap
               /\ Spent(Now) + Estimated(In(Now, "leased")) <= campaign.budget + Overrun
    <3>1. ledger \in Seq(LedgerEvent) BY <2>1 DEF CampaignBase, LedgerInv
    <3>2. In(Now, "leased") = LeasedIn(ledger) /\ Spent(Now) = SpentIn(ledger)
      BY <3>1, ReplayIs DEF Now, LeasedIn
    <3>3. LeasedIn(ledger) \in SUBSET Planned BY DEF LeasedIn
    <3>4. Estimated(LeasedIn(ledger)) = Reserved(LeasedIn(ledger))
      BY <2>1, <3>3, EstimatedIs DEF CampaignBase
    <3>5. Overrun = OverrunIn(ledger) BY DEF Overrun, OverrunIn
    <3> QED BY <2>1, <3>2, <3>4, <3>5 DEF BooksInv, WithinCap, WithinBudget
  <2> QED BY <2>1 DEF ReservationsHold
<1> QED BY <1>1, LeasesAreBacked, PTL

=============================================================================
