# PelicanBench in TLA+

Formal models of [PelicanBench](../src/README.md), a benchmark that pays
language-model providers to draw pelicans on bicycles and has people rate the
results. The project holds TLA+ modules of the parts that have state and can go
wrong over time, TLC configurations that check them on small instances, and
proofs, checked by TLAPS, of what holds for every instance. Paths such as
`campaign_store.py` are relative to `src/src/pelicanbench/`; `PROJECT.json`
gives the source lines of every definition.

To repeat a check: `tlc -config MCCampaignStore.cfg MCCampaignStore` or
`tlapm CampaignStoreProofs.tla`.

## The system

Models are *qualified* on canary tasks. A *campaign* is a fixed table of cells
(model x task x replicate), built with prices and a budget. Workers, which are
separate operating-system processes, take cells from a shared SQLite file under
time-limited leases, call the provider through the runner's retrying and
checkpointing adapters, and record the outcome and its cost. What the models
draw, in one call or action by action on a canvas, is scored, blinded and shown
to human raters, whose responses go into hash-chained files. A study is
*frozen* before it is analysed, and two freezes are needed to unblind it. The
work on all this is itself tracked: governance records say how far it is, pages
and issues are generated from them, a harness and a validation judge the
repository, and a packager makes the release. Everything that is paid for or said by a person is
meant to be auditable afterwards from append-only records.

| component | state | operations | who calls it, what it shares |
|---|---|---|---|
| campaign store `campaign_store.py` | `cells` and `events` tables, metadata | initialise, lease, heartbeat, complete, requeue, reclaim, status, reconcile | workers and operators, concurrently, through SQLite's write lock |
| campaign worker `campaign_worker.py` | the batch in hand, a heartbeat thread, record files | execute a batch, reconcile records with events | calls the store and, through the runner, a provider |
| manifest and JSONL ledger `campaign.py`, `prospective.py` | an event list in a file | build manifest, replay, append, lease | one caller per file, by convention; fed by qualification reports |
| qualification `qualification*.py` | outcome file per cell, report | run, resume, evaluate | operators; its reports decide which cells may be leased |
| runner, adapters `runner.py`, `adapters.py`, `manifest.py` | checkpoints, outputs, tables, manifest | run a task list, retry, resume | the worker; providers |
| one call and one score `adapters.py`, `semantic.py`, `scoring.py`, `judge_firewall.py` | the response as it arrives; the judges' answers | read a response, assess, decide, score | the runner, for each trial; endpoints and judges |
| canvas `canvas.py`, `environments.py` | drawing, undo stack, checkpoints, trajectory | add, update, delete, group, ungroup, checkpoint, undo, restore, reset | an agent, one action at a time |
| agent and simulation `autonomous.py`, `simulation.py` | a script, the events of a run, the steps of its replay | run, recover, replay, compare | drives a canvas through its envelope |
| custody of a rating session `t14_custody.py` | candidate manifest, restricted files, decision packet, authorization | generate, freeze, authorise, load | a custodian and a steward; files that the rating server checks |
| rating session `t14_rating.py`, `scripts/t14_frozen_steward_app.py` | ledger file, final response file, browser tabs | load the page, post a response | one local server process, any number of tabs |
| human calibration `human_study.py`, `calibration.py`, `calibration_ops.py` | staged responses, analysis, stopping report, adjudication queue | sample, submit, analyse, evaluate, queue | raters and stewards; files in between |
| study freeze `study_freeze.py` | freeze manifests, ledger head | build, verify, authorise | stewards, while the frozen files are edited |
| blinding `blinding.py` | public manifest, restricted map, receipt, records | build, blind, authorise, unblind | stewards; takes its authorisation from two freezes |
| release packaging `release_*.py`, `publication.py`, `verification.py` | a directory with archives, evidence, bundle, manifest and receipts | package | reads the working tree, git and the harness's reports while they change |
| harness `scripts/harness.sh` and its scripts | reports under `artifacts/` | run the stages, judge the reports, run in a clean clone | maintainers and a workflow |
| governance and contract `validation.py`, `assurance.py`, `conductor_docs.py` | records, generated pages, issue manifest | edit, generate, validate | maintainers; the harness |
| work graph and issues `workgraph.py`, `scripts/sync_github_issues.py` and others | issue manifest, issues and project on GitHub | generate, sync, add to project | local runs and a workflow, over the network |
| SVG, statistics, tasks, corpus | none that persists between calls | pure functions | everything above |
| Rust crates, web clients, command line | none of their own | ports and wrappers | users |

`PROJECT.json` lists every component, the ones left out included, each with
its reason.

What is hard in it:

* **Clocks and locks.** Every store transaction reads the time *before* it
  waits for the write lock (up to 30 s, `PRAGMA busy_timeout`), so two
  transactions may run in one order and believe in the other.
* **Leases.** A holder may be late, dead or replaced, and each of store,
  main thread and heartbeat thread learns of it at a different moment.
* **Reads in pieces.** Status, reconciliation, freezes, syncs, packagings and
  validations read one thing after the other while what they read changes.
* **Two stores of truth.** Row and event log; event log and record files;
  ledger and final response; manifest, tables and outputs; records and issues.
* **Crashes between two writes**, writes that are cut short, and runs that
  resume from whatever an interrupted one left.
* **Stale inputs.** Two tabs post the same assignment; a map is rebuilt after
  files were blinded with the older one; a manifest read at the start is
  written back at the end.
* **Long histories.** Retries, undo and restore, generated names.

### What makes each part correct

* *Store*: the log replays to the table; each cell has one holder and only the
  holder can act; a token is never granted twice; the cap and the budget hold
  whatever is concurrent; finished cells stay finished; a live lease is not
  taken away by somebody with an old clock.
* *Audit*: what a status says was true at a moment of its call; an alarm has
  a cause.
* *Worker*: records and completion events correspond one to one, but for
  crashes; two workers execute one cell only for known reasons; each lease
  ends.
* *Ledger and qualification*: only cells with evidence are leased, within
  reservations, and a campaign whose gate passed gets to its end.
* *Runner*: what a run returns agrees with the directory; nothing that was
  answered and stored is paid for again. An answer is the document the model
  wrote, and a score has semantic credit only where the judges gave it.
* *Rating session*: the ledger is one chain in the frozen order, an
  acknowledged response is kept, the final response is the ledger and is of
  one frozen session.
* *Calibration*: each rater meets each task blind at least once; the agreement
  is the coefficient it is called.
* *Canvas*: undo and checkpoints give back exactly what was there, errors
  change nothing, the limits hold also after undo and restore; what an agent
  was told of a run is what its actions give when they are replayed.
* *Freeze and blinding*: a freeze and an authorisation stand for a tree that
  existed; unblinding restores the models that were blinded, or refuses.
* *Release*: a package is of one run and of one commit, and the verdict in it
  was taken on what is shipped.
* *Harness and contract*: what they accept is as they say, for the files as
  they were.
* *Issues*: a second issue of an item has a cause, and a sync undisturbed by
  others leaves every issue as its manifest says.

## The modules

| module | what it is |
|---|---|
| `CampaignStore` | the store: one action per function of `campaign_store.py` |
| `LeaseService` | abstract: what leases promise, without tables, clock or money |
| `StoreAudit` | status and reconciliation, SELECT by SELECT; EXTENDS `CampaignStore` |
| `CampaignWorker` | workers with heartbeat threads, record files and crashes; EXTENDS `CampaignStore` and uses its actions |
| `Qualification` | outcomes, resumed runs and reports |
| `CampaignLedger` | plan, manifest, event file; EXTENDS `Qualification` and reads its reports |
| `TrialRunner` | `run_benchmark` over retries and checkpoints, file by file |
| `Completion` | one request to an endpoint: the body piece by piece, and how it is read |
| `Judging` | one trial between its output and its score: assessors, matching, firewall |
| `RatingLedger` | the rating server step by step, its tabs and its two files |
| `RatingSession` | custody, freeze, authorization and session, with a post as one step |
| `HumanCalibration` | sample, sessions, analysis, stopping rule, queue |
| `Canvas` | the drawing environment |
| `DrawingAgent` | scripted agents on a canvas and the replay of what they did; EXTENDS `Canvas` |
| `EditStack` | abstract: an editor with undo and saved versions |
| `StudyFreeze` | building, verifying and authorising, file by file, under edits |
| `Blinding` | maps, blinded records, receipts and restored records |
| `Release` | `build_release_package` with bundle, manifest and receipts, file by file |
| `Harness` | the stages of `harness.sh` with their reports, here and in a clone |
| `Governance` | records, generated pages, readiness and every check of the repository contract |
| `IssueSync` | the issue manifest and its syncs, call by call |
| `MC...` | instances for TLC; `MCHumanStudy` (calibration, blinding, freeze, rating ledger and session), `MCBenchmark` (runs, one call, one score, a campaign in an event file), `MCRepository` (release, harness, issues, contract) and `MCCanvas` (edits, agents) put components into one run that share no state: a behaviour is of one of them, chosen at the start |
| `...Proofs` | theorems and proofs: `Sums` (finite sums and counts), `CampaignStoreProofs`, `CampaignClientsProofs` (`StoreAudit`, `CampaignWorker`), `BenchmarkProofs` (`TrialRunner`, `Qualification`, `CampaignLedger`), `CanvasProofs` (with `DrawingAgent`), `AssessmentProofs` (`Completion`, `Judging`, `RatingLedger`, `RatingSession`), `StudyProofs` (`HumanCalibration`, `Blinding`, `StudyFreeze`), `RepositoryProofs` (`Harness`, `Governance`, `Release`, `IssueSync`) |

Operators whose comment begins with `Fault:` are not part of any
specification. Each is a plausible mistake in the definition that follows it
(a dropped guard, a missing reset); putting it in that definition's place must
break the property named with it in `PROJECT.json`, which shows that the
property depends on that code.

### CampaignStore

`initialised` is the committed metadata, `cell` the cells table and `log` the
events table, kept per cell. A Python function is one transaction from `BEGIN
IMMEDIATE` to `COMMIT`, hence one action; an exception rolls back and is no
step.

| action | code |
|---|---|
| `Initialise`, `Overwrite` | `initialise_campaign_store`, first call and `overwrite=True` |
| `Lease` | `lease_campaign_cells` with the reclaim that begins it; `Chosen` states what its loop takes (order, limit, cap, reserve) |
| `Heartbeat`, `Complete` | the functions of the lease holder; `Owns` is their common check |
| `Requeue` | `requeue_failed_cell` |
| `Reclaim` | `reclaim_expired_leases`, also the command `reclaim-campaign-leases` |
| `Tick` | a second passes |

*Time.* A transaction sees a clock that is `d` seconds old, with any `d` in
`0..MaxWait`. `ttl` is the expiry relative to the present and stops at
`-MaxWait`, below which no comparison of the code differs; that keeps the
state space finite without a bound on time.

*Money* is in natural numbers; `Quantum` is the ratio between their unit and
the 1e-8 to which events are rounded (`Rounded`). *Tokens* are drawn from a
finite set by any choice that the uniqueness query admits: `token_hex` as the
code uses it. When no token is left, no lease is possible; the code would try
16 times and raise, which is also no step. *Overwriting* is two steps: the
database is removed (`Overwrite`), and there is none until a call, this one or
after a crash another, commits the rows of a new one (`Initialise`); all other
transactions fail in between. The sidecar files are taken to go with the
database, and no transaction is caught waiting for its write lock by the removal.
Left out: the hash chain over
all cells' events (the write lock makes the order; tampering is not a
behaviour of the program) and the export, a single read.

### StoreAudit

`campaign_store_status` and `reconcile_campaign_store` open one connection and
run three and two SELECTs without a transaction. `Open`, `Select` and `Close`
are those steps, between any steps of the store; `got` is what was read so far,
`marks` a history of how long each cell's log was at each read. A database
that is overwritten meanwhile is unlinked, and the connection goes on with the
old one (`orphan`, the empty sequence or that database).

### CampaignWorker

`batch` is the set of leases the worker has left, of which `Current` is the one
of the first cell. `pc` follows `execute_campaign_batch`: `loop` at the top of the loop,
`running` in the provider, `ended` before the completion, `writing` between
the completion's commit and the record file. `beat` is the daemon thread, which
may overlap the end of the run by one renewal (`stop()` joins with a timeout)
and dies of any error. `records` are the immutable files. `Crash` is the end of
the process at any of these places, or an error of SQLite or the file system
that leaves the function. All store steps are `CampaignStore`'s own actions.

`Punctual` and `Flaky` choose the environment. With `Punctual = TRUE` the clock
does not move a lease past its end while its own heartbeat would have renewed
it, which is what the interval (shorter than the lease by the check in
`execute_campaign_batch`) gives under a scheduler that is not overloaded; only
`ExclusiveExecution` needs it. `Flaky` lets heartbeat threads die.

### Qualification and CampaignLedger

An outcome file per model and canary task; `BeginQualification` loads the files
that exist, `QualifyCell` fills the gaps with what the fixture gives,
`WriteReport` evaluates the gates (`Passes`), `InterruptQualification` kills the
run, `Deliver` is another run leaving a file (while none is under way). One
directory per model is assumed; the commands' default directory is shared.

`CampaignLedger` goes on from there: `Build` is `build_campaign_manifest` over
the prospective plan (`Planned`, `InOrder`), with prices, `BudgetGate` and
`Shards`. The caller passes on what the reports say (`Qualified`): the command
line does not (it passes "not qualified" for every model). `Replay` is
`replay_campaign_events`, which refuses files that are not `Legal`;
`AppendEvent` and `LeaseReady` are the two writers. The latter takes the one
sequence of ready cells that `IsChosen`: a cell is in it if and only if it
`Fits` next to those taken before it, as the loop finds them. `AppendEvent` is
not used to lease: the function would allow it, past cap and budget. `Absent`
stands for Python's `None`.

### TrialRunner

`run_benchmark` trial by trial: `UseCheckpoint` or `CallAnswered`,
`CallTransient`, `CallRefused` (adapters), `StoreCheckpoint`, `RejectResult`,
`WriteOutput`, `ScoringRaises`; then `WriteTable` once for each table,
`WriteManifest`, `WriteDerived`. `Crash` is a kill at any place and `Begin`
a run into the same directory, with files of earlier ones in it. Every answer
of the provider is another output, so that two answers to one call can be told
apart. A task may be twice in the list and two seeds may share trials, as the
seed of trial *i* is `seed + i - 1`.

### Completion and Judging

`Completion` is one request of the endpoint adapter: deltas, messages, notices
and `[DONE]` arrive in any order an endpoint may send them, the body may break
off at any place, and `Generated` is what `generate` makes of what arrived. A
text is a sequence of `open`, `close` and words, so that `ExtractSvg` can go
wrong the way the code could. `Counts` says which events `_stream_value` takes
content from: deltas up to `[DONE]`, and a message if there is nothing before it.

`Judging` follows `run_benchmark` from the rendered output to the score.
`JudgeAnswers` is one answer of one judge to one question, `EndEnsemble` their
weighted means, `AssessStatically` the fixture, `AssessOtherwise` any other
assessor, which may return an assessment of another task or picture; `Matches`
decides whether it counts; `Score` computes gates and evidence level and only
then asks the firewall. Probabilities are percentages.

### RatingLedger

`server` goes through the handling of one post: `accepted` (compared with the
next frozen assignment), `checked` (append has read the chain), `written`,
`complete` (all assignments recorded), `opened` (the final file created, not
yet written). Between any two, `Crash`. A line's hash is modelled by the
contents it covers, so that equal hashes mean equal histories. A line is
`whole`, `cut`, `unended` (all but the newline, which the reader accepts as a
last line) or `merged` (a line written behind an unended one), because
`append` calls `os.write` once and ignores how much was written. Validation of the
session's files before the server starts is left out.

### RatingSession

What a session was frozen as, and what it was served from. The candidate
manifest has hashes of the assets; `GenerateCustody` makes the aliases and the
schedule from a secret (`NoCollision` is its refusal), possibly cut short;
`Freeze` and `Authorise` are the steward's; `Launch`, `ReadFile`,
`CompareFiles`, `CheckAsset`, `ValidateAuthority` and `ReadDigest` are
`load_frozen_rating_session`, file after file, and everything may be edited
between two of them. `OpenPage`, `ShowImages` and `PostRating` are a tab's
requests: the images are read from the disk at that moment, and a page may be
older than the server. `disturbed`, `reissued` and `refrozen` are histories of
the three edits that nothing in the code can notice. The last one counts a
freeze made while a server is up: it goes on with the packet it has read, and
after the next start the ledger is continued under another packet.

### HumanCalibration

`Sample` is the round-robin over the shuffled cells; the order of the cells is
any. `answers` holds each assignment's locked responses by stage, in the order
of the rater's panel (`IsNext`); a repeated assignment is a second session of the same rater for
the same artifact. The prompt is that of the artifact's task (`TaskOf`), and
artifacts of several models share it (`Prompt`). `Disclose` shows it where a
session permits it, which asks for nothing but the blind answer in this
assignment; `seen` remembers who was told which task's prompt, and `informed`
whether a rater knew it when answering. `Analyse` and
`Evaluate` are the two commands, which work on files, so that a stopping report
may be older than the responses. Agreement, consistency and Brier score are
kept as numerators and denominators. The three open-text fields are treated
alike by the code and are one here, and so are the criteria. The queue (`Queue`)
is computed from the responses as they are.

### Canvas and EditStack

`elements` is a function from the ids in use to a look and a group; what
a look is made of (tag, attributes, text) no property tells apart; a look that
`_sanitize_element` raises on is `Refused`. `history` is the undo stack. A
checkpoint is named by a number: `k > 0` for the name `checkpoint-k` that the
code makes up, 0 for any other. The OpenEnv envelope turns exceptions into
observations, so `Raised` is a step that leaves everything as it is, and a
`Group` that meets an unknown id *leaves the groups set so far*, without a
snapshot. The `named` flag of a checkpoint is a history variable for the
properties. Looks are assumed to be encodable as JSON, as everything is that
arrives over the interface: `state()` hashes the drawing after every edit.

`EditStack` is the promise: a stack of versions (the top is the drawing, below
it the undo history) and saved versions. `ImplementsEditStack` maps
`versions <- Append(history, elements)`. The abstract `EditInPlace` is the
broken-off group, the one place where the implementation loses a version, and
it may change grouping only.

### DrawingAgent

`StartRun` resets a canvas, possibly a used one; `AgentStep` is one round of
`run_autonomous_agent` (the policy's action or its recovery after an error, the
step of the envelope, the event); `StartSimulation` and `SimulationStep` replay
actions and injected faults on a new canvas, `FirstReceipt` and
`CompareReceipts` do so twice and compare, as `assert_deterministic_replay`
does. The hash of a drawing is the drawing.

### StudyFreeze

A file's content is a number that no content before it had, so an edit back to
old bytes is not considered. `job` is the command under way: `BeginBuild`,
`HashInput` file by file, `CompareLedger`, `HashProtocol` (last), `WriteFreeze`,
then the verification that the command ends with (`CheckFile`, `CheckLedger`,
`ExitBuilt`), or `BeginAuthorise` and the verification of both freezes, then
`Issue`. `Edit`, `RemoveFile` and `ReportHead` happen between any of them. The
manifest is written before it is verified: a command that fails leaves it on
disk.

### Blinding

A digest of a model under a key is a sequence of parts; an alias is the
shortest prefix not yet taken, in sorted order (`Aliases`). Public manifest and
restricted map are replaced one after the other (`WritePublic`, `WritePrivate`);
blinding and unblinding load and write in separate steps; panel and key may
change in between. `basis` is a history of which maps the restored records
went through.

### Release

`packing.op` is the operation `build_release_package` is at. It asks git for
the status, HEAD, its tree and the tag in separate calls (`CheckStatus` to
`AskTag`), writes the archives file by file (`ArchiveFile`), copies reports,
snapshots and the clean-clone receipt (`CopyReport` to `CopyClone`), builds the
bundle (`PublishFile`, `AttachEvidence`), the manifest, which asks for HEAD
before it asks for the status (`OpenManifest` to `ManifestStatus`), and the
verification receipt (`VerifyContract`, `JudgeReport`, `HashArtifacts`), whose
verdict is taken on the reports of the project, not on the copies, and which
also commits to the project's coverage report as it is by then. `out` is the
output directory: each name's value is what its bytes are made of, so that equal
values are equal hashes. Files are edited, removed and restored from any commit
(`RestoreTracked`), HEAD goes on by commits and to any commit there is, with or
without the files (`MoveHead`), tags, reports and the clean clone change, all of
it between any two operations. A new edit makes bytes that no file had before;
old bytes come back from a commit. The set of tracked files stays: a file may be
gone from the tree, but not from the index.

`undone` and `rerun` are histories of what no question of the packager can
notice: a file that gets the packaged commit's bytes again; HEAD, when it gets
back to that commit (`Git`); a file whose edit is committed to another HEAD just
between the manifest's question for HEAD and its question for the status; a
report that is written again. The properties except these, and only these.

### Harness

A tree is the set of checks that it fails. `Stages` is the list of commands of
`harness.sh`; each record says which reports a command writes, which ones it
judges, and which ones have to be there. `Stage` runs one on the tree as it is
then, in the working tree or in the clone; `RunScript` is somebody who starts a
single script, perhaps cut to one category (`whole`), `Interrupt` kills the
harness, and what it wrote stays. `CloneCommit` and `WriteCleanReceipt` are
`verify_clean_clone.sh`.

### Governance

`records` are the tracks, blockers with their criteria, claims and profiles,
including records that are malformed, duplicated or cite files that are gone;
`pages` and `board` are what `GenerateDocuments` and `GenerateIssueManifest`
make of them; every other file has a version. `Validate` performs the checks of
`validate_repository` in their order (`CheckOrder`), one group of files after
the other, each on the files as they are then. `ProfileReady` is
`evaluate_release_readiness`. `FaultyBlocker`, `FaultyCriterion`, `FaultyClaim`
and the rest are what makes a check report an error.

### IssueSync

`Edit` changes a record under `conductor/`, `GenerateManifest` makes the issue
manifest of the records, keeping known numbers, and `Push` commits and pushes
it. `Begin` starts a sync at any time: in a kept checkout on the manifest as it
is, in the workflow's on the one last pushed, fresh or stale, whatever other
syncs are running. Nothing in the code keeps them apart: a push starts the
workflow's sync, which has no concurrency group, and both bootstraps push and
go on with their own. A sync goes through the items in
`Order` by the calls of `main`: `Lookup`, `Create`, `Close` and `Update` for
the item itself, then `Attach` or `AttachUnavailable` for each child that is
`left` to link, and `Finish`, which writes the numbers it learnt back over the
manifest, where its checkout is kept (the workflow's is not). `Abort` ends it
at any call. `exposed` and `raced` are histories of the two ways to a second
issue: a rename while some copy of the manifest has no number for the item, and
two syncs that have both searched in vain. GitHub's search is assumed to see
every issue, nobody else to write issues, and old runs of the workflow not to be
started again.

## The runs

| run | checks | instance |
|---|---|---|
| `store` | `ParallelCap`, `LedgerReplays`, `LeaseBacked`, `SpendingExplained`, `ImplementsLeaseService`, `LiveLeaseNotTaken` | three cells, two of one model, batches of up to three, two workers, three tokens, every outcome, heartbeats, retries, a budget of 4 against estimates that costs overrun, clocks one second old |
| `store_requeue_of_lease` | `LeaseMetadataOnlyWhenLeased` is violated | one cell |
| `store_audit` | `StatusWasTrue`, `AlarmsExplained` | two cells, one worker, two tokens, costs of 2 against estimates of 1 and 2, a budget of 4, overwriting |
| `worker` | `RecordsMatchEvents`, `MissingRecordsAreCrashes`, `ExclusiveExecution`, `LeasesEnd` | two workers, batches of two, one task missing, punctual heartbeats that die, retries, two crashes, fairness |
| `benchmark` | `ManifestAgrees`, `NoDuplicateAnswers`, `RunsEnd`; `AnswerIsModelsDocument`; `CreditIsEarned`; `OnlyQualifiedLeased`, `ReservationsHold`, `ReserveCoversRetries`, `CampaignCompletes` | a task that is twice in the list, two seeds that share a trial, two runs, two attempts, kills, fairness; every text of up to four tags and words; two judges of weights 3 and 1, a required relation, three firewall policies; two models of which one may lack evidence, three cells in two stages, four policies, two price lists, a retry, costs that overrun, fairness |
| `trial_quarantine` | `QuarantinedUnjudged` is violated | the same, with texts of one word |
| `rating_crash` | `CompleteIsWritten` is violated | two assignments, one crash, no short write |
| `canvas` | `ImplementsEditStack`, `RunIsReplayable` | three ids of which two fit, id lists that break off at the start and later, a chosen name that collides, four events; two runs of scripts of two actions with a recovery |
| `study` | `OneAnswerIsBlind`, `AlphaIsKrippendorff`; `RestoredAreOriginal`, `WrongOnlyByCollision`; `FreezeIsOneTree`, `AuthorisedTreeExisted`; `LedgerInOrder`, `AcknowledgedKept`, `SessionEnds`; `ResponseIsFrozenSession` | two of three artifacts in cells of two and one, two of which share a task, two raters of different panels, one repeated assignment, three spellings of two labels, an invalid row; three models, two panels, two keys, digests that collide in one or two parts within a map, and across keys; four files, two edits or removals, data freezes with and without the ledger; three assignments, two tabs, two ratings, two crashes, short writes, fairness; two episodes of which one is rated twice, two secrets, two directories, two starts of the server, four edits |
| `study_prompt` | `PromptStaysHidden` is violated | the first of these, from the first answer on |
| `repository` | `PackageIsOfCommit`, `PackageIsOneRun`, `VerdictIsShipped`; `HarnessOkIsEarned`; `TwinsExplained`, `FinishedShows`; `AcceptedIsTruthful` | three tracked files, two commits, two archives, two reports, two packagings, two changes, a deletion that breaks off; two defects, a lane whose tool is missing, two runs; a track and its phase, a local checkout and the workflow's, three syncs, an edit, one break-off; a blocker of two criteria, a claim, two profiles, two edits |
| `issue_overlap` | `OneIssuePerItem` is violated | the syncs alone: two, no edit, no break-off |

A semicolon separates components that share a run. Deadlock checking is off
where the system may stop: all cells finished, tokens used up, the session
answered, `MaxSteps` or `MaxRuns` reached.

### Bounds and why they suffice

* `Tokens` bounds the number of leases of one behaviour. In `store` three are
  enough for a cell to be leased, lost, leased again and lost again: every
  statement compares at most two grants. `Overwrite` gives them back. In
  `worker` and `store_audit` two are enough for a lease and its replacement.
* `MaxLog` stops heartbeats (only them) when a cell has that many events. They
  are otherwise unbounded, and a second one in a row repeats the first. In
  `store_audit` it is 1 and there are none: a heartbeat changes nothing that
  the reads report.
* `MaxWait` of 1 (`store`) lets a clock disagree in either direction around an
  expiry; the code compares times with nothing else.
* `worker`: of the four exceptions of `ExclusiveExecution`, this instance
  reaches the retry of a running lease and the dead heartbeat; that a lease
  which waited in its batch is executed beside its replacement needs two cells
  with tasks, and larger instances reach it.
* `MaxCrashes` of 2 (`worker`, `study`): one can hit the recovery of another.
  `MaxRuns` of 2 (`benchmark`, `canvas`): a run meets the leftovers of one.
  `MaxCrashes` of 1 and `MaxSyncs` of 3 (the syncs in `repository`): a sync that
  breaks off, and two that meet what it left, one after the other or at once.
  `MaxPackages` of 2: a package meets what an older one left.
* `MaxSteps` of 4 in `canvas`: a checkpoint, an edit, a restore and an undo,
  or three checkpoints of which one collides.
* `MaxEdits`: 2 in `study`, so that an edit and a removal, or a removal and
  what replaces it, can fall between three reads; 1 in `repository`, a rename or
  a change of status after any statuses to begin with. `MaxChanges`, `MaxTouches`
  and `MaxRevisions` of 2: a change and its taking back. `MaxTurns` of 4: a rebuilt manifest, custody,
  freeze and authorization follow one edit.
* `MaxText` of 4: an svg element before another one, a closing tag without an
  opening one, words around them. `Percentages` of 0 and 100 with weights of 3
  and 1 put the mean of a question at 0, 25, 75 or 100, on either side of and
  exactly on the threshold.
* `FirstAnalysis` of 6 (`study`): six of seven responses, so that there is an
  analysis before the last answer, the repeated one included. The invariants
  about the current responses are evaluated from the first response on.
* Symmetry (workers, tokens, looks) only in runs without liveness
  properties; the modules never order or name the members of those sets.

The theorems below have none of these bounds, but for `MaxSteps`, `MaxLog`,
`MaxEdits`, `MaxRuns` and their like, which are constants of the modules with
any value.

### Fairness

* `worker`: the clock runs (`WF(Clock)`), someone reclaims again and again
  (`WF(ReclaimAny)`: every lease call reclaims first, and the operator has a
  command for it) and a worker that is in the middle of its function goes on,
  provider calls included, which the adapters bound with timeouts
  (`WF(WorkerStep)`). No fairness of heartbeats, new batches or retries.
* `study`: a stopped server is started again and handles what it has
  (`WF(Start)`, `WF(Handle)`), the rater answers the form in front of them
  (`WF(Submit)`), and reloads a page that keeps being refused (`SF(Load)`:
  strong, because a load waits for the moments in which neither the server is
  busy nor the tab's post pending, which come and go).
* `benchmark`: a run that is under way goes on (`WF(Runner)`): provider calls
  return, as the adapters give them timeouts. Nobody has to start a run.
  In a campaign the caller goes on leasing what it may and finishing what it
  leased (`WF` of either). No fairness of qualification or of building.
* The scripts of `repository` have invariants only and need no fairness; the
  same holds for the components of `study` other than the rating ledger, and for
  one call and one score in `benchmark`. That the
  issues come to show the records is not claimed: the workflow runs only on
  pushes that touch certain paths, a run that failed is not repeated, and a kept
  checkout may always start from a stale manifest. What is claimed is where a
  sync that ends undisturbed leaves them (`FinishedShows`).

### Where code and documents disagree

Five runs show a documented statement failing (the quotations are in
`PROJECT.json`):

* `store_requeue_of_lease`: `requeue_failed_cell` accepts a cell that is still
  leased and leaves its lease columns behind; the reconciliation then reports a
  store that only legal calls have written.
* `rating_crash`: a process that ends between the last rating and the final
  response leaves a session that no request completes.
* `trial_quarantine`: the judges are asked about every rendered output, and the
  firewall decides afterwards; a quarantined output keeps its semantic scores.
* `study_prompt`: the prompt is disclosed when the blind stage of *this*
  assignment is locked; the blind stages of the task's other artifacts, and of a
  repeated assignment, are answered by a rater who knows it.
* `issue_overlap`: two syncs at once both create an issue that both did not
  find, while the README calls the synchronisation idempotent. One at a time it
  creates nothing twice but after a rename (`TwinsExplained`).

Others were met on the way and shape the properties above:

* Exact costs in rows and rounded ones in events drift apart beyond the
  reconciliation's tolerance after a few retries with costs finer than 1e-8
  (`Quantum > 1`). Only direct callers of the store reach it; the worker
  rounds first.
* `docs/transactional-campaign-store.md` lists "consistency between terminal
  states and artifacts" among what reconciliation checks; the function does
  not look at artifacts.
* "Every leased attempt produces a [...] record" fails for a lease that waits
  in a batch: nothing renews it, and it may end without having been run.
* The command line's campaign worker has no assessor but the fixture, which
  answers yes to everything; its scores are marked `fixture-only`.
* A trial whose error is not retried is recorded with one attempt even when it
  came after retries (`runner.py:116`), although
  `docs/model-adapter-spec.md:49` wants the attempts recorded
  (`RetriesRecorded` is about the other trials). A command's timeout is not
  among the errors retried by default.
* A checkpoint is found whatever the sampling options of the call are.
* The `dependency` of a question to a judge is never read.
* `aggregate_judges` wants the weights to have a positive sum, and accepts
  negative ones among them (`semantic.py:294`); a judge with a negative weight
  can raise a mean by ruling out what is asked. `CreditIsEarned` counts the
  support of the others only, against the whole sum.
* `conductor/workflow.md` has open work close "only when resulting evidence is
  attached"; no check asks a complete criterion for evidence, only that cited
  evidence exists.
* `docs/human-calibration-operations.md` says that "missing reliability metrics
  fail closed". Agreement and consistency do; a Brier score without comparable
  responses is 0.0 and passes.
* `build-calibration-adjudication` does not read the policy's
  `minimum_modal_share` of 0.67: by the default of 2/3, two of three is not
  queued.
* `nominal_alpha_by_field` weighs pairs, so it is Krippendorff's alpha only where
  all artifacts have the same number of responses (`AlphaIsKrippendorff`), and
  it counts the repeated answers of one rater as two raters.
* Panels without a blind stage never get `prompt_disclosure_permitted`, although
  their only stage is about the prompt.

## What is proved

For every number of cells, set of workers and tokens, budget, cap, lease term
and clock skew; every canvas and script; every set of files and inputs; all
panels, keys and digests; every task list and set of seeds; any number of
assignments, tabs and crashes; texts of any length; any panel of judges, weights
and answers; any raters and artifacts; any tools, items, blockers and criteria.
The assumptions are the named `ASSUME`s of the modules: numbers are natural
numbers (weights may be negative), the cap is not zero, cells start blocked or
ready, lists are lists and not empty, raters and artifacts are finitely many,
the null values are not among the real ones, an archive does not have the name
of another part of the package. TLC evaluates them in every run. Where a
theorem assumes more, the table says so.

| module | theorem | states |
|---|---|---|
| `CampaignStoreProofs` | `TypeCorrect` | `TypeOK` of the store |
| | `LedgerInvariant` | the inductive invariant of row and log |
| | `ReplayNeverDrifts`, `LeasesBacked`, `StaleTokensFenced`, `AttemptsCounted` | its four parts |
| | `CapHolds` | `ParallelCap` |
| | `TokensGrantedOnce` | `TokensNeverReused` |
| | `FinishedCellsStay`, `LiveLeasesStay` | `FinalStatesStay`, `LiveLeaseNotTaken` |
| | `StoreImplementsLeaseService` | the refinement |
| | `SpendingAccounted` | `SpendingExplained`, if eight digits keep every cost (`CostsExact`) |
| `CampaignClientsProofs` | `AuditInvariant` | the inductive invariant of the two calls, under `CostsExact` |
| | `StatusIsTrue`, `AlarmsAreExplained` | `StatusWasTrue`, `AlarmsExplained`, under `CostsExact` |
| | `RecordsJoinEvents` | `RecordsMatchEvents` |
| | `MissingRecordsAreOfCrashes` | `MissingRecordsAreCrashes` |
| | `OneWorkerPerCell` | `ExclusiveExecution`, if heartbeats are punctual and every term is longer than `MaxWait` |
| `AssessmentProofs` | `AnswerIsDocument` | `AnswerIsModelsDocument` |
| | `CreditEarned` | `CreditIsEarned` |
| | `LedgerStaysInOrder`, `AnswersStay`, `ResponseRepeatsLedger` | `LedgerInOrder`, `AcknowledgedKept`, and `FinalResponseFaithful` (proved only), for one server |
| | `ResponseFrozen` | `ResponseIsFrozenSession` |
| `BenchmarkProofs` | `ReturnedManifestAgrees`, `StoredAnswersOnce`, `AttemptsCountCalls` | `ManifestAgrees`, `NoDuplicateAnswers`, `RetriesRecorded` |
| | `LedgerIsReplayable` | the base invariant of reports, manifest and event file |
| | `ReserveIsKept` | `ReserveCoversRetries` |
| | `LeasesAreBacked` | the inductive invariant of open leases, if only `lease_ready_cells` leases (`LeasedOnRequest`) |
| | `QualifiedBeforeLeased`, `BudgetIsReserved` | `OnlyQualifiedLeased`, `ReservationsHold`, under `LeasedOnRequest` |
| `CanvasProofs` | `CanvasInvariant` | the inductive invariant of the canvas |
| | `SnapshotsDrawable`, `UndoLeadsToEmpty`, `UnnamedCheckpointsStay` | `TypeOK`, `UndoneToEmpty`, `UnnamedCheckpointsKept` |
| | `CanvasImplementsEditStack` | the refinement |
| | `RunsAreReplayable` | `RunIsReplayable` of `DrawingAgent` |
| `StudyProofs` | `TasksAreAnsweredBlind` | `OneAnswerIsBlind` |
| | `AlphaAgrees` | `AlphaIsKrippendorff` |
| | `BlindingTyped`, `ApprovedRestoresOriginal`, `CollisionsAlone` | `TypeOK`, `RestoredAreOriginal`, `WrongOnlyByCollision` |
| | `FreezeTyped`, `BuiltFromOneTree`, `ReceiptOfOneTree` | `FreezeTypeOK`, `FreezeIsOneTree`, `AuthorisedTreeExisted` |
| `RepositoryProofs` | `PackagesAreOfOneRun`, `PackagesAreOfTheirCommit`, `VerdictsAreShipped` | `PackageIsOneRun`, `PackageIsOfCommit`, `VerdictIsShipped` |
| | `HarnessIsHonest` | `HarnessOkIsEarned` |
| | `AcceptanceIsTruthful` | `AcceptedIsTruthful` |
| `RepositoryProofs` | `TwinsAreExplained` | `TwinsExplained` |

*Row and log.* None of the four properties is inductive alone: that an event
continues the row's state needs the row to be the log's last state; that an
expiry names the right holder needs the leased row to be backed by the last
event. `LedgerInv` is their conjunction, cell by cell (`CellInv`), with the fact
that an attempt is completed once (`CompletedOnce`), which the worker's records
need. Since every operation appends at most two events to a cell, each made from
the row, one lemma (`AppendEvent`) says when appending an event keeps `CellInv`,
and every action is an application of it.

*Tokens.* `TokenInv` adds what the log's uniqueness needs: the grants of
different cells have disjoint tokens and a leased row carries a token of its own
cell's grants. `StepGrants` reduces every action to "granted to nobody" or
"granted under a fresh token" for each cell, and the refinement to
`LeaseService` uses only this shape.

*Finished cells.* `FinalStatesStay` says that rows stay *unchanged*, and time
ages rows with a token; so it needs `FinishedBare`: a finished row holds no
token, which in turn is not obvious because a retry leaves tokens behind.

*Cap.* `Chosen(S)` defines the batch by what is before each cell. The proof
takes the last cell of the batch of a given model: the test passed by that one
cell counted all others (`LastCell`), hence the whole batch fits.

*Money.* The sums of the model are folds of the community modules, which take the
elements in an order that `CHOOSE` gives. `Sums` states what can
be said of them for any finite set: the order does not matter (`SumRemove`), and
how a sum changes with one value, one element, one position (`SumChange`,
`SumAdd`, `SumAppended`). The induction it takes is over sets of subsets
(`SubsetInduction`), not over a predicate. `SpendInv` says that a row's cost is
the sum of its events' and that what is spent and reserved fits; the one
case with content is a lease: what is newly reserved was tested against the
budget cell by cell, and the last cell of the batch saw all the others.
`CostsExact` is what the worker establishes by rounding before it completes.

*Audit.* `AuditInv` says that each answer is true of the logs cut at the marks of
its read (`TrueOf`), and that marks only grow. It survives other calls because
a log only grows (`StepContinues`), and an overwrite because the connection
keeps the old database, which was sound when it was unlinked. An answer is made
true by the store's invariants: a row is what its log says (`LedgerInv`), adds up
to it (`SpendInv`), and holds lease columns without a lease only after a retry
(`ShapeInv`). From there the two reports are compared with the logs: what
two prefixes differ in lies between them (`CostsSplit`), counts of cells by state
that add up to all cells leave no cell in another state (`SumOfCounts`), and the
event after a terminal state is a retry (`TerminalThenRetry`).

*Worker.* `BatchInv` says that a batch is backed by the log: each of its leases
is a grant that the log of its cell has, whatever has become of the lease since.
A record is made from the batch, so `RecordsInv` can say that each record, and
each one about to be written, joins a completion of the log (`Joined`); that
it joins only one is `CompletedOnce` of the store. For the other direction the
terminal events without a record form a finite set (`Missed`) whose members
appear only with a crash: a worker that is writing writes its own record or
crashes (`WritingEnds`), and one event is completed by one worker.
`ExclusiveExecution` rests on `HoldingInv`: a worker whose heartbeat is alive,
whose lease did not wait and was not abandoned holds its cell *firmly*, which
means under its own token with time left. Two workers cannot both hold one cell.
It is here that terms have to be longer than `MaxWait`: a lease granted by a
transaction that waited for the write lock as long as its term would start
expired. The defaults are 900 s and 30 s.

*Responses.* `CompletionInv` says that what was written and what would be read of
the body so far both begin the text (`Begins`), and that they are the same until
a message comes. Each event then adds to both what it adds to the body's
concatenation (`ContentAppended`, `WrittenAppended`), which needs
`FlattenSeq(Append(ss, s)) = FlattenSeq(ss) \o s`: the community module flattens
by a recursive function, and that such a function exists and agrees with a
longer one is shown by induction over its domain (`FlattenExists`,
`FlattenAppend`). A beginning of the text has its first `<svg` where the text
has its own, and its last `</svg>` at one of the text's (`BeginningsDocument`).

*Judging.* The gates are walked back to the answers. A product of a credit and a
factor of at most 1 reaches a quarter only if the credit does
(`EntitySupported`, `ProductSupported`); a mean only if one of its values does
(`MeanReached`, `MeanBetween`); a weighted mean of answers only if a quarter of
the weight is that of judges who did not answer 0 (`QuarterSupported`), negative
weights left out. That each question's answers were heard, in their places, is
`PlaceHeard`; that the probabilities scored are the means of these answers is the
invariant (`AssessmentInv`). Percentages are rounded down in the model; the
argument uses no rounding and goes through for fractions.

*Rating ledger.* The invariant says what the server knows at each step of a
post: between the check and the write the ledger is what was read and the next
alias is its length plus one. A line that was acknowledged is `Kept`: it stands
at its place and is not cut, though the line behind it may be merged into it; a
short write damages the last line only, and behind a damaged line nothing is
appended. All of it is for one server process (`OneServer`), which is how the
session is documented.

*Rating session.* The invariant says what a server knows at each step of its
start: what it has read is of the packet there is, unless a freeze came between
(`HostInv`), and every asset checked so far is as the manifest has it or has been
edited since. A page and the ledger are of that packet too (`PagesInv`,
`RatingsInv`). A post names an alias and no place; that it is for the next
assignment, and was shown that assignment's images, needs the aliases of the
schedule to be different (`AcceptedIsNext`), which the server checks at its start.

*Runner.* The invariant says, for the run in progress, which trials are recorded
and that each recorded success has its output on disk; for each call, that
answers, checkpoint and losses add up; and for each table, which of them are
from this run. A task that is twice in the list does not overwrite the
first one's output because its seed differs (`TrialsDiffer`): without it the
manifest would not agree.

*Campaign ledger.* A model that qualified has its evidence on disk: an outcome
file is never removed and a resumed run loads it as it is (`OutcomesStay`), so
what a report vouched for at its writing (`Vouched`) is still there when a cell
is leased. That a ready cell's model had qualified is a fact about the manifest,
because no transition leads out of a blocked state (`OnceReady`). The replay of
a longer file is the replay of the shorter one with one cell changed
(`AppendedState`, `AppendedCharge`) or with a batch leased (`LeasedState`,
`LeasedCharge`). The books of a batch are followed along its prefixes: each cell
was tested next to exactly the cells before it (`TakenBefore`, which needs the
order of cells to be strict, `BeforeIsStrict`), so every prefix fits cap and
budget, and with the last one the batch (`ChosenBooks`). For the reserve nothing
about the file's history is needed: in any file, what a cell was charged and has
reserved is at most its estimate and what it has used of the reserve; summed over
all cells, that is the amount which the gate compared with the budget
(`ReserveIsEnough`).

*Canvas.* At the bottom of the versions is always the empty drawing: a group
that breaks off changes the current version only, and where that is the bottom
one it has no elements to group. The hard part is the naming: made-up names never exceed the
number of checkpoints (deleting is impossible, `reset` clears all), so that
the next one is new unless an agent chose a name of that form.

*Replay.* What an action gives is a function of the drawing, its undo stack and
the number of events (`After`), and of no checkpoint. So the events of a run are
determined by its actions from the empty canvas on, whatever the canvas was used
for before, and the invariant says that the replay has come to where the run was
after as many actions.

*Calibration.* A rater and a task are in `seen` only through an uninformed blind
answer of the rater to an artifact of the task (`DisclosureInv`), since the first
disclosure asks for a blind answer that was given before it; and an answer that
is locked is never replaced (`LockingKeeps`).

*Agreement.* `AlphaIsKrippendorff` holds in every state, whatever the answers
are, so the proof is one of counting. The code counts unordered pairs of
responses, the definition of alpha counts ordered ones by artifact and by label.
A symmetric relation without pairs of equals has two ordered pairs for each
unordered one (`OrderedPairs`); where every artifact has *m* responses, each
response has *m* - 1 partners in its artifact and *n* - 1 among all
(`PairsByPartners`, `PairsWithin`, `PairsAmong`); and the pairs that disagree,
counted by their first label, are the products in the definition's expected
disagreement (`PairsByLabel`). With artifacts of different sizes `PairsWithin`
has no *m*, which is where the two part.

*Freeze.* Nothing holds a file still, so the argument is about contents: a file
that now holds what a manifest committed to has held it ever since the
manifest was written, because a content is never made twice. The invariant says
that a manifest commits only to what was made before (`Sound`), that what was
checked so far was as committed at the moment before the verification
(`Leads`), and that both survive everybody else's edits (`TreeStepKept`). A
passed verification is then a statement about the moment it began
(`SeenAgrees`), for a build the moment the manifest was written, for an
authorisation the one at which both freezes had been loaded.

*Blinding.* An authorisation commits to key and entries, so what it approves is a
map and not a name for one. The invariant carries with every restored file the
map it was blinded by and the one it went back through; the latter was
approved and checked to be one to one (`OneToOne`, `Injective`). If the two
are the same map, every alias leads back to its model; if not, a found alias is
a prefix of two digests, which then begin alike (`PrefixBegins`).

*Release.* The invariant says what the directory holds for sure at each
operation, and what it may hold (`Directory`), so that a packaging that broke off
is recognised by the missing checksums (`RaiseKeeps`) and what is there at the
end was all written by one run. For the commit, a file read while HEAD is the
receipt's commit either has that commit's content or differs from it
(`ReadsTracked`) until it gets these bytes again, which `undone` records, or
another commit has what it holds, which the manifest's own questions for HEAD and
status notice (`CommitDescribed`), except between the two. HEAD itself either is
still at that commit or has left it, and then the manifest names another one,
unless it came back. What others may do is summed up in one lemma (`NotedKeeps`)
by what it lets the histories note (`BackIsNoted`). The coverage report that is
hashed last is the one copied first as long as nobody wrote it (`ReportsShipped`).

*Harness.* What a stage found still holds while nobody edits (`StillPasses`), and
what it left in `artifacts/` is of this run while nobody starts the script on
its own (`ReportsOfRun`). A clone is its commit, and is edited by nobody
(`CloneIsCommit`), so its receipt needs neither condition (`ReceiptIsEarned`).

*Issues.* `SyncInv` speaks of all copies of the manifest that a sync reads now
or later, the kept one, the pushed one and those in the hands of running syncs
(`CopiesHeld`). Their numbers are of the items they are given for
(`NumbersMeant`), whatever is stale. For an item that is not exposed, the copies
agree on its title, and so do its issues, as long as some copy has no number
(`Alike`), so that a search finds what there is. For one that no two syncs have
sought at once either, there is one issue, or none and at most one sync that is
about to create it (`Single`). A step of one sync changes nothing that another
one knows (`QuietKeeps`, `RunKeeps`); the weight is on `LookupKeeps`, where a
second sync that finds nothing either is noted in `raced`, and on `CreateKeeps`.

*Contract.* Six groups of checks are made one after the other; `Examined(k)` says
that the first `k` were true of the files as they are now. Others' edits are
recorded (`revised`); the generators are not, and need not be: a page that was
found up to date is not generated differently (`GeneratingKeeps`).

### Only model-checked

Every invariant and action property of a passing run but one is a theorem. Left
to TLC:

* `SpendingExplained`, `StatusWasTrue` and `AlarmsExplained` for costs finer than
  eight digits: false there, see above.
* `LeasesEnd`, `SessionEnds`, `RunsEnd`, `CampaignCompletes`: liveness under
  fairness.
* `FinishedShows`.

## Not modelled, and why

Pure functions on geometry, pixels and real numbers (SVG inspection, rendering,
statistics, power simulation): nothing happens in time, and TLA+ has no reals.
Task and ontology construction, corpus parsing, document registries:
deterministic one-pass construction and comparison of files. HTTP and provider
adapters below the body of a response: I/O at the boundary; their outcome is a
nondeterministic result. The judge panel's qualification: counts over one
table. Test doubles, explorer, web clients and Rust crates: wrappers and ports.
The weighted means of the judges are whole percentages, because the weights of
the instance add up to 4. Two rating servers on one ledger file would fork its
chain; the session is documented as one local process, and the constant
`Servers` has one member. Two callers on one JSONL ledger lose each other's
events; its functions ask the caller to serialise, and the transactional store
replaces it where that cannot be had.

## What could follow

* The worker over `TrialRunner` instead of a provider that answers at once: a
  cell executed twice would then meet its own checkpoint.
* The judge panel's gates next to those of the models in `Qualification`.
