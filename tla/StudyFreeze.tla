---------------------------- MODULE StudyFreeze ----------------------------
(***************************************************************************)
(* Freezing a study and authorising its unblinding: study_freeze.py and    *)
(* its commands in cli.py.                                                 *)
(*                                                                         *)
(* A steward's command reads the files of the repository one after the     *)
(* other while researchers and workers go on editing them.  A file's       *)
(* content is a number that stands for its bytes, and hence for its hash   *)
(* and size: an edit gives a file a content that no file had before.       *)
(***************************************************************************)
EXTENDS Naturals, FiniteSets

CONSTANTS
    FileCount,    \* files are numbered in the order of their sorted paths
    Protocol,     \* benchmark/protocol/v1-study-lock.json
    TaskFile,     \* benchmark/tasks/v1-candidate-commitment.json
    Ledger,       \* the campaign's event log
    InputSets,    \* what may be given to --input
    NotMade,      \* no manifest, authorisation or report
    MaxEdits      \* bound: edits and removals by everybody else

Files == 1 .. FileCount

NoFile == 0

ASSUME FilesAssumption ==
    /\ FileCount \in Nat
    /\ {Protocol, TaskFile, Ledger} \subseteq Files
    /\ InputSets \subseteq SUBSET Files

ASSUME BoundAssumption == MaxEdits \in Nat

ASSUME NoneAssumption == NotMade \notin Nat

Types == {"analysis-lock", "data-freeze"}

VARIABLES
    content,      \* what is in each file now
    made,         \* number of contents ever made
    head,         \* the ledger verification report: a content of the ledger
    freezes,      \* for each type, the manifest on disk
    authorisation, \* the one on disk: the two freezes it commits to
    job           \* the command that is running

freezeVars == <<content, made, head, freezes, authorisation, job>>
tree == <<content, made>>

----------------------------------------------------------------------------
\* One frozen file's bytes are the committed ledger head, and still are.
HeadInFiles(files, h) ==
    \E f \in DOMAIN files : files[f] = h /\ content[f] = h

HeadCovered(m) == m.head # NotMade => HeadInFiles(m.files, m.head)

\* authorization_commitments: both freezes are of one study.
Compatible(a, d) ==
    /\ a.type = "analysis-lock" /\ d.type = "data-freeze"
    /\ a.task = d.task
    /\ a.protocol = d.protocol

----------------------------------------------------------------------------
Idle == [op |-> "idle"]

FreezeInit ==
    /\ content = [f \in Files |-> f]
    /\ made = FileCount
    /\ head = NotMade
    /\ freezes = [type \in Types |-> NotMade]
    /\ authorisation = NotMade
    /\ job = Idle

----------------------------------------------------------------------------
(* Everybody else                                                          *)

Edit(f) ==
    /\ made < FileCount + MaxEdits
    /\ made' = made + 1
    /\ content' = [content EXCEPT ![f] = made + 1]
    /\ UNCHANGED <<head, freezes, authorisation, job>>

RemoveFile(f) ==
    /\ made < FileCount + MaxEdits
    /\ content[f] # NoFile
    /\ made' = made + 1
    /\ content' = [content EXCEPT ![f] = NoFile]
    /\ UNCHANGED <<head, freezes, authorisation, job>>

\* The campaign's operator verifies the ledger and writes its head down.
ReportHead ==
    /\ content[Ledger] # NoFile
    /\ head' = content[Ledger]
    /\ UNCHANGED <<tree, freezes, authorisation, job>>


----------------------------------------------------------------------------
(* build-study-freeze                                                      *)

\* A data freeze commits to the ledger head of the report, a lock to none.
HeadFor(type) == IF type = "data-freeze" THEN head ELSE NotMade

\* The task identity is read and the protocol lock is found; a data freeze
\* has a ledger head, an analysis lock has none.
BeginBuild(type, inputs) ==
    /\ job = Idle
    /\ content[TaskFile] # NoFile /\ content[Protocol] # NoFile
    /\ type = "data-freeze" => head # NotMade
    /\ inputs \ {Protocol} # {}
    /\ job' = [op |-> "hash", todo |-> inputs \ {Protocol},
               m |-> [type |-> type, task |-> content[TaskFile],
                      head |-> HeadFor(type),
                      files |-> [f \in inputs \ {Protocol} |-> NoFile],
                      protocol |-> NoFile]]
    /\ UNCHANGED <<tree, head, freezes, authorisation>>

\* The inputs are hashed one by one; one that is missing raises.
HashInput ==
    /\ job.op = "hash"
    /\ \E f \in job.todo :
          job' = IF content[f] = NoFile
                 THEN Idle
                 ELSE [op |-> "hash", todo |-> job.todo \ {f},
                       m |-> [job.m EXCEPT !.files[f] = content[f]]]
    /\ UNCHANGED <<tree, head, freezes, authorisation>>

\* The ledger among them is compared with the head.
CompareLedger ==
    /\ job.op = "hash" /\ job.todo = {}
    /\ job' = IF HeadCovered(job.m) THEN [op |-> "seal", m |-> job.m] ELSE Idle
    /\ UNCHANGED <<tree, head, freezes, authorisation>>

\* The protocol lock is hashed last.
HashProtocol ==
    /\ job.op = "seal"
    /\ job' = IF content[Protocol] = NoFile
              THEN Idle
              ELSE [op |-> "write", m |-> [job.m EXCEPT !.protocol = content[Protocol]]]
    /\ UNCHANGED <<tree, head, freezes, authorisation>>

\* verify_study_freeze(m) for a command that goes on with next; before is the
\* tree when the command had its manifests.
Verify(m, next, before) ==
    [op |-> "verify", m |-> m, next |-> next, before |-> before,
     todo |-> DOMAIN m.files \cup {Protocol}, ok |-> TRUE]

\* Fault: the command exits with 0 once the manifest is written.
WriteUnverified ==
    /\ job.op = "write"
    /\ freezes' = [freezes EXCEPT ![job.m.type] = job.m]
    /\ job' = [op |-> "built", m |-> job.m, before |-> content]
    /\ UNCHANGED <<tree, head, authorisation>>

\* write_study_freeze replaces the manifest, and only then it is verified.
WriteFreeze ==
    /\ job.op = "write"
    /\ freezes' = [freezes EXCEPT ![job.m.type] = job.m]
    /\ job' = Verify(job.m, [op |-> "built", m |-> job.m, before |-> content], content)
    /\ UNCHANGED <<tree, head, authorisation>>

\* The command exits with 0.
ExitBuilt ==
    /\ job.op = "built"
    /\ job' = Idle
    /\ UNCHANGED <<tree, head, freezes, authorisation>>

----------------------------------------------------------------------------
(* verify_study_freeze                                                     *)

Committed(m, f) == IF f = Protocol THEN m.protocol ELSE m.files[f]

\* The files in the order of their paths, the protocol lock after them; a
\* difference is noted and the comparison goes on.
CheckFile ==
    /\ job.op = "verify" /\ job.todo # {}
    /\ LET rest == job.todo \ {Protocol}
           f == IF rest = {} THEN Protocol
                ELSE CHOOSE g \in rest : \A h \in rest : g <= h
       IN  job' = [job EXCEPT !.todo = @ \ {f},
                              !.ok = @ /\ content[f] = Committed(job.m, f)]
    /\ UNCHANGED <<tree, head, freezes, authorisation>>

\* The ledger a second time, and the report.
CheckLedger ==
    /\ job.op = "verify" /\ job.todo = {}
    /\ job' = IF job.ok /\ HeadCovered(job.m) THEN job.next ELSE Idle
    /\ UNCHANGED <<tree, head, freezes, authorisation>>

----------------------------------------------------------------------------
(* authorize-model-unblinding-from-freezes                                 *)

\* Fault: the lock is not verified again.
AuthoriseByData ==
    /\ job = Idle
    /\ \E lock, data \in {freezes[type] : type \in Types} \ {NotMade} :
          job' = Verify(data, [op |-> "issue", lock |-> lock, data |-> data,
                               before |-> content], content)
    /\ UNCHANGED <<tree, head, freezes, authorisation>>

\* Both manifests are loaded before either is verified; which file is given
\* as which is up to the steward.
BeginAuthorise ==
    /\ job = Idle
    /\ \E lock, data \in {freezes[type] : type \in Types} \ {NotMade} :
          job' = Verify(lock,
                        Verify(data,
                               [op |-> "issue", lock |-> lock, data |-> data,
                                before |-> content],
                               content),
                        content)
    /\ UNCHANGED <<tree, head, freezes, authorisation>>

\* The freezes have to be of one study.  The rest of the authorisation, the
\* mapping and the key, is in module Blinding.
Issue ==
    /\ job.op = "issue"
    /\ authorisation' =
          IF Compatible(job.lock, job.data)
          THEN [lock |-> job.lock, data |-> job.data]
          ELSE authorisation
    /\ job' = Idle
    /\ UNCHANGED <<tree, head, freezes>>

----------------------------------------------------------------------------
\* The command is interrupted.
FreezeCrash ==
    /\ job # Idle
    /\ job' = Idle
    /\ UNCHANGED <<tree, head, freezes, authorisation>>

Steward ==
    \/ \E type \in Types, inputs \in InputSets : BeginBuild(type, inputs)
    \/ HashInput \/ CompareLedger \/ HashProtocol \/ WriteFreeze \/ ExitBuilt
    \/ CheckFile \/ CheckLedger
    \/ BeginAuthorise \/ Issue
    \/ FreezeCrash

FreezeNext ==
    \/ Steward
    \/ ReportHead
    \/ \E f \in Files : Edit(f) \/ RemoveFile(f)

FreezeSpec == FreezeInit /\ [][FreezeNext]_freezeVars

----------------------------------------------------------------------------
(* Properties                                                              *)

IsManifest(m) ==
    /\ m.type \in Types
    /\ m.type = "data-freeze" <=> m.head # NotMade
    /\ DOMAIN m.files \subseteq Files \ {Protocol} /\ DOMAIN m.files # {}
    /\ \A f \in DOMAIN m.files : m.files[f] \in 1 .. made
    /\ m.protocol \in 1 .. made /\ m.task \in 1 .. made

\* Every manifest on disk is complete and filed under its type, and an
\* authorisation names one of each type.
FreezeTypeOK ==
    /\ content \in [Files -> 0 .. made]
    /\ head \in 1 .. made \cup {NotMade}
    /\ \A type \in Types :
          freezes[type] # NotMade => IsManifest(freezes[type]) /\ freezes[type].type = type
    /\ authorisation # NotMade =>
          /\ IsManifest(authorisation.lock) /\ authorisation.lock.type = "analysis-lock"
          /\ IsManifest(authorisation.data) /\ authorisation.data.type = "data-freeze"

\* The manifest agrees with a tree: every frozen file, the protocol lock and
\* the ledger.
Agrees(m, t) ==
    /\ \A f \in DOMAIN m.files : t[f] = m.files[f]
    /\ t[Protocol] = m.protocol
    /\ m.head # NotMade => \E f \in DOMAIN m.files : t[f] = m.head

\* A freeze whose command exits with 0 is of a tree that existed: at the
\* moment the manifest was written every frozen file, the protocol lock and
\* the ledger held the committed bytes, although the inputs were hashed
\* before, one by one, and compared after, while others edited them.
FreezeIsOneTree == job.op = "built" => Agrees(job.m, job.before)

\* An authorisation stands for one tree of one study: when the command had
\* loaded the two freezes, the files of both, the protocol lock and the ledger held the
\* committed bytes together, although neither was verified by then and the two
\* were verified one after the other; and both name one task identity.
AuthorisedTreeExisted ==
    [][authorisation' # authorisation =>
          /\ Agrees(authorisation'.lock, job.before) /\ Agrees(authorisation'.data, job.before)
          /\ authorisation'.lock.task = authorisation'.data.task]_freezeVars

=============================================================================
