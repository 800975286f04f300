---------------------------- MODULE DrawingAgent ----------------------------
(***************************************************************************)
(* An agent that draws on a canvas, and the simulation that replays what   *)
(* it did: run_autonomous_agent with a ScriptedPolicy in                   *)
(* src/pelicanbench/autonomous.py, run_canvas_simulation and               *)
(* assert_deterministic_replay in simulation.py.                           *)
(*                                                                         *)
(* Runs may share one canvas, which each of them resets; a simulation      *)
(* makes a canvas of its own.  A hash of a drawing is the drawing.         *)
(***************************************************************************)
EXTENDS Canvas

CONSTANTS
    Actions,        \* the actions of scripts, records with a type
    Recoveries,     \* the actions that a policy may turn to after an error
    NoAction,       \* next_action returns None
    MaxScript,      \* bound on the actions of a script
    MaxRunSteps,    \* max_steps
    MaxRuns         \* bound on the runs on one canvas

ASSUME AgentAssumption ==
    /\ Recoveries \subseteq Actions /\ NoAction \notin Actions
    /\ MaxScript \in Nat
    /\ MaxRunSteps \in Nat \ {0}
    /\ MaxRuns \in Nat

VARIABLES
    policy,         \* the ScriptedPolicy: its actions and its recovery actions by step
    phase,          \* "idle", "agent", "ended", "simulation", "agreed" or "diverged"
    terminated,     \* the policy had no further action
    events,         \* the AgentEvents of the run
    recoveryCount,
    recorded,       \* the SimulationSteps of the replay
    receipts,       \* the steps of the replay before it, if there was one
    runs            \* the runs started

agentVars ==
    <<policy, phase, terminated, events, recoveryCount, recorded, receipts, runs>>

\* At most one recovery action, for any step after the first.
ScriptedPolicies ==
    [actions  : UNION {[1..n -> Actions] : n \in 0..MaxScript},
     recovery : UNION {[S -> Recoveries] : S \in {{}} \cup {{step} : step \in 2..MaxRunSteps}}]

\* The policy's answer at a step: its recovery only after an error, else its script.
NextAction(step, previousError) ==
    IF previousError /\ step \in DOMAIN policy.recovery
    THEN policy.recovery[step]
    ELSE IF step \in DOMAIN policy.actions THEN policy.actions[step] ELSE NoAction

AgentInit ==
    /\ policy = [actions |-> <<>>, recovery |-> <<>>]
    /\ phase = "idle"
    /\ terminated = FALSE
    /\ events = <<>>
    /\ recoveryCount = 0
    /\ recorded = <<>>
    /\ receipts = {}
    /\ runs = 0

-----------------------------------------------------------------------------
(* One action on the canvas, through the envelope.                         *)

Perform(a) ==
    \/ a.type = "add" /\ Add(a.id, a.look, a.group)
    \/ a.type = "update" /\ Update(a.id, a.look, a.group)
    \/ a.type = "delete" /\ Delete(a.id)
    \/ a.type = "group" /\ Group(a.ids, a.group)
    \/ a.type = "ungroup" /\ Group(a.ids, NoGroup)
    \/ a.type = "checkpoint" /\ IF a.name = 0 THEN CheckpointUnnamed ELSE Checkpoint(a.name)
    \/ a.type = "undo" /\ Undo

\* What the envelope answers: an action that raised has recorded no event.
Response(a) == [action |-> a, error |-> steps' = steps, drawing |-> elements']

FreshCanvas ==
    /\ elements' = NoElements
    /\ history' = <<>>
    /\ checkpoints' = <<>>
    /\ steps' = 0

-----------------------------------------------------------------------------
(* run_autonomous_agent.                                                   *)

PreviousError == events # <<>> /\ events[Len(events)].error

\* Fault: the environment is not reset, as a new one would not need it.
StartRunUnreset ==
    /\ phase \in {"idle", "ended"}
    /\ runs < MaxRuns
    /\ policy' \in ScriptedPolicies
    /\ phase' = "agent"
    /\ terminated' = FALSE
    /\ events' = <<>>
    /\ recoveryCount' = 0
    /\ recorded' = <<>>
    /\ receipts' = {}
    /\ runs' = runs + 1
    /\ UNCHANGED vars

StartRun ==
    /\ phase \in {"idle", "ended"}
    /\ runs < MaxRuns
    /\ Reset
    /\ policy' \in ScriptedPolicies
    /\ phase' = "agent"
    /\ terminated' = FALSE
    /\ events' = <<>>
    /\ recoveryCount' = 0
    /\ recorded' = <<>>
    /\ receipts' = {}
    /\ runs' = runs + 1

AgentStep ==
    LET action == NextAction(Len(events) + 1, PreviousError)
    IN  /\ phase = "agent"
        /\ Len(events) < MaxRunSteps
        /\ action # NoAction
        /\ Perform(action)
        /\ events' = Append(events, Response(action))
        /\ recoveryCount' = IF PreviousError /\ steps' # steps THEN recoveryCount + 1 ELSE recoveryCount
        /\ UNCHANGED <<policy, phase, terminated, recorded, receipts, runs>>

\* Either the policy has finished or the steps are used up.
EndRun ==
    LET complete == Len(events) < MaxRunSteps /\ NextAction(Len(events) + 1, PreviousError) = NoAction
    IN  /\ phase = "agent"
        /\ complete \/ Len(events) = MaxRunSteps
        /\ terminated' = complete
        /\ phase' = "ended"
        /\ UNCHANGED <<vars, policy, events, recoveryCount, recorded, receipts, runs>>

-----------------------------------------------------------------------------
(* run_canvas_simulation of what the script asked for, with the recovery   *)
(* actions of the run as injected faults, twice.                           *)

Requested(i) == IF i \in DOMAIN policy.actions THEN policy.actions[i] ELSE events[i].action

FaultInjections ==
    [i \in {i \in DOMAIN events : events[i].action # Requested(i)} |-> events[i].action]

Executed(i) == IF i \in DOMAIN FaultInjections THEN FaultInjections[i] ELSE Requested(i)

StartSimulation ==
    /\ phase = "ended"
    /\ FreshCanvas
    /\ recorded' = <<>>
    /\ phase' = "simulation"
    /\ UNCHANGED <<policy, terminated, events, recoveryCount, receipts, runs>>

SimulationStep ==
    LET i == Len(recorded) + 1
    IN  /\ phase = "simulation"
        /\ i \in DOMAIN events
        /\ Perform(Executed(i))
        /\ recorded' = Append(recorded, Response(Executed(i)))
        /\ UNCHANGED <<policy, phase, terminated, events, recoveryCount, receipts, runs>>

FirstReceipt ==
    /\ phase = "simulation"
    /\ Len(recorded) = Len(events)
    /\ receipts = {}
    /\ FreshCanvas
    /\ receipts' = {recorded}
    /\ recorded' = <<>>
    /\ UNCHANGED <<policy, phase, terminated, events, recoveryCount, runs>>

CompareReceipts ==
    /\ phase = "simulation"
    /\ Len(recorded) = Len(events)
    /\ receipts # {}
    /\ phase' = IF receipts = {recorded} THEN "agreed" ELSE "diverged"
    /\ UNCHANGED <<vars, policy, terminated, events, recoveryCount, recorded, receipts, runs>>

-----------------------------------------------------------------------------

AgentNext ==
    \/ StartRun \/ AgentStep \/ EndRun
    \/ StartSimulation \/ SimulationStep \/ FirstReceipt \/ CompareReceipts

AgentSpec == Init /\ AgentInit /\ [][AgentNext]_<<vars, agentVars>>

-----------------------------------------------------------------------------
(* Properties.                                                             *)

(* What an agent did on a canvas that was used before is what the same     *)
(* actions do on a new one: the replay sees the same drawings and the same *)
(* errors, step for step, and never diverges.  A reset that forgets one of *)
(* the canvas's tables shows only in a later run that reads it.            *)
RunIsReplayable ==
    /\ phase # "diverged"
    /\ \A i \in DOMAIN recorded : recorded[i] = events[i]

=============================================================================
