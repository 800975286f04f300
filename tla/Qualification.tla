--------------------------- MODULE Qualification ---------------------------
(***************************************************************************)
(* Qualifying the models of a panel (qualification.py,                     *)
(* qualification_runner.py): one outcome file per model and canary task,   *)
(* a run that resumes from the files that exist, and the report that the   *)
(* evidence gates make of them; how many were resumed is left out.         *)
(***************************************************************************)
EXTENDS Naturals, FiniteSets, Sequences

CONSTANTS
    Models,       \* 1 .. number of models of the panel
    CanaryTasks,  \* number of canary tasks
    Delivered,    \* the outcomes that other runs than the fixture's may leave
    EvidenceGates, \* the gates of the plan, in percent
    Absent

ASSUME QualificationAssumption ==
    /\ Models \subseteq Nat
    /\ CanaryTasks \in Nat \ {0}
    /\ EvidenceGates \in [success : 0 .. 100, secure : 0 .. 100, first : 0 .. 100,
                          unretained : 0 .. 100]

VARIABLES
    outcomes,     \* the outcome file of each cell
    report,       \* qualification-report.json of each model, in its own directory
    qrun          \* the run in progress

qualificationVars == <<outcomes, report, qrun>>

----------------------------------------------------------------------------
Outcome ==
    {o \in [{"retained", "success", "valid", "secure", "first"} -> BOOLEAN] :
        /\ o.first => o.success
        /\ o.secure => o.valid}

ASSUME OutcomeAssumption == Delivered \subseteq Outcome /\ Absent \notin Outcome

\* What the fixture writes for a cell that has no file.
Fixture == [name \in {"retained", "success", "valid", "secure", "first"} |-> TRUE]

Cells(model) == {model} \X (1 .. CanaryTasks)

NoQualification == [model |-> Absent]

QualificationInit ==
    /\ outcomes = [c \in Models \X (1 .. CanaryTasks) |-> Absent]
    /\ report = [m \in Models |-> Absent]
    /\ qrun = NoQualification

----------------------------------------------------------------------------
(* evaluate_model_qualification                                            *)

\* The tasks with a retained outcome that has a property.
Retained(values, name) == {t \in DOMAIN values : values[t].retained /\ values[t][name]}

\* Fault: failures that were not retained do not count against the model.
PassesWhateverRetained(values) ==
    LET AtLeast(name, gate) ==
          100 * Cardinality(Retained(values, name))
             >= gate * Cardinality(Retained(values, "retained"))
    IN  /\ AtLeast("success", EvidenceGates.success)
        /\ AtLeast("secure", EvidenceGates.secure)
        /\ AtLeast("first", EvidenceGates.first)

\* The rates are over the expected cells, never over the retained ones.
Passes(values) ==
    LET Rate(n) == 100 * n
        AtLeast(name, gate) ==
          Rate(Cardinality(Retained(values, name))) >= gate * CanaryTasks
    IN  /\ AtLeast("success", EvidenceGates.success)
        /\ AtLeast("secure", EvidenceGates.secure)
        /\ AtLeast("first", EvidenceGates.first)
        /\ Rate(CanaryTasks - Cardinality(Retained(values, "retained")))
             <= EvidenceGates.unretained * CanaryTasks

----------------------------------------------------------------------------
(* run_fixture_model_qualification                                         *)

\* Another run has left the outcome of a cell.
Deliver(cell, o) ==
    /\ qrun = NoQualification
    /\ outcomes[cell] = Absent
    /\ outcomes' = [outcomes EXCEPT ![cell] = o]
    /\ UNCHANGED <<report, qrun>>

BeginQualification(model) ==
    /\ qrun = NoQualification
    /\ qrun' = [model |-> model, values |-> <<>>]
    /\ UNCHANGED <<outcomes, report>>

\* The next cell is resumed from its file, or executed.
QualifyCell ==
    /\ qrun # NoQualification /\ Len(qrun.values) < CanaryTasks
    /\ LET cell == <<qrun.model, Len(qrun.values) + 1>>
       IN  IF outcomes[cell] # Absent
           THEN /\ qrun' = [qrun EXCEPT !.values = Append(@, outcomes[cell])]
                /\ UNCHANGED outcomes
           ELSE /\ qrun' = [qrun EXCEPT !.values = Append(@, Fixture)]
                /\ outcomes' = [outcomes EXCEPT ![cell] = Fixture]
    /\ UNCHANGED report

WriteReport ==
    /\ qrun # NoQualification /\ Len(qrun.values) = CanaryTasks
    /\ report' = [report EXCEPT ![qrun.model] = [qualified |-> Passes(qrun.values)]]
    /\ qrun' = NoQualification
    /\ UNCHANGED outcomes

\* The run is interrupted: its outcomes stay, its report is the old one.
InterruptQualification ==
    /\ qrun # NoQualification
    /\ qrun' = NoQualification
    /\ UNCHANGED <<outcomes, report>>

QualificationNext ==
    \/ \E m \in Models : BeginQualification(m)
    \/ \E m \in Models, o \in Delivered : \E cell \in Cells(m) : Deliver(cell, o)
    \/ QualifyCell
    \/ WriteReport
    \/ InterruptQualification

----------------------------------------------------------------------------
\* The evidence on disk for a model is what the gates ask for.
Evidence(model) ==
    LET Share(name) == 100 * Cardinality({c \in Cells(model) :
                                outcomes[c] # Absent /\ outcomes[c].retained /\ outcomes[c][name]})
    IN  /\ Share("retained") >= (100 - EvidenceGates.unretained) * CanaryTasks
        /\ Share("success") >= EvidenceGates.success * CanaryTasks
        /\ Share("secure") >= EvidenceGates.secure * CanaryTasks
        /\ Share("first") >= EvidenceGates.first * CanaryTasks

=============================================================================
