------------------------------ MODULE MCCanvas ------------------------------
(***************************************************************************)
(* An instance of Canvas and DrawingAgent for TLC: three ids, of which at  *)
(* most two are in use, so that a list of them may break off at its start, *)
(* middle or end.  In a behaviour the canvas is edited by any action or    *)
(* drawn on by scripted agents.                                            *)
(***************************************************************************)
EXTENDS DrawingAgent, TLC

CONSTANTS e1, e2, e3, bike

MCIdLists == {<<e1>>, <<e1, e2>>, <<e3, e1>>, <<e1, e2, e3>>}

\* A name of its own, and the second one the environment would make up.
MCNames == {0, 2}

MCActions ==
    {[type |-> "add", id |-> e1, look |-> look, group |-> NoGroup] : look \in Looks}
    \cup {[type |-> "group", ids |-> <<e1, e3>>, group |-> bike],
          [type |-> "delete", id |-> e1],
          [type |-> "checkpoint", name |-> 0],
          [type |-> "undo"],
          [type |-> "ungroup", ids |-> <<e1>>],
          [type |-> "update", id |-> e1, look |-> Refused, group |-> Kept]}

MCRecoveries == {[type |-> "undo"], [type |-> "delete", id |-> e1]}

Symmetry == Permutations(Looks)

VARIABLE use

EditNext == use = "edit" /\ Next /\ UNCHANGED <<agentVars, use>>

DrawNext == use = "agent" /\ AgentNext /\ UNCHANGED use

CanvasStart ==
    /\ Init /\ AgentInit
    /\ use \in {"edit", "agent"}

CanvasSpec ==
    /\ CanvasStart
    /\ [][EditNext \/ DrawNext]_<<vars, agentVars, use>>

=============================================================================
