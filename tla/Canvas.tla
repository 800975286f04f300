------------------------------- MODULE Canvas -------------------------------
(***************************************************************************)
(* The drawing environment of the agentic tasks, CanvasEnvironment in      *)
(* src/pelicanbench/canvas.py, as the OpenEnv envelope of environments.py  *)
(* drives it: an action that raises becomes an observation of whatever     *)
(* state it left behind, and the agent goes on.                            *)
(*                                                                         *)
(* An element is what it looks like (tag, attributes, text) and its group. *)
(* Checkpoints are named by numbers: k > 0 is the name "checkpoint-k" that *)
(* the environment makes up itself, 0 is any other name.                   *)
(***************************************************************************)
EXTENDS Integers, Sequences, FiniteSets

CONSTANTS
    Ids,            \* element ids
    Looks,          \* what an element can look like, after sanitising
    Refused,        \* a look that _sanitize_element raises on
    Groups,         \* group names
    NoGroup,        \* group None
    Kept,           \* an update without a group
    IdLists,        \* the ids arguments of group and ungroup
    Names,          \* checkpoint names an agent chooses
    MaxElements,    \* max_elements
    MaxSteps        \* bound on recorded events

ASSUME CanvasAssumption ==
    /\ Refused \notin Looks
    /\ NoGroup \notin Groups
    /\ Kept \notin Groups \cup {NoGroup}
    /\ IdLists \subseteq Seq(Ids)
    /\ Names \subseteq Nat
    /\ MaxElements \in Nat
    /\ MaxSteps \in Nat

VARIABLES
    elements,       \* the drawing: a function from the ids in use
    history,        \* the snapshots that undo goes back to
    checkpoints,    \* the snapshots by name; named: the agent used the name
    steps           \* the number of recorded events

vars == <<elements, history, checkpoints, steps>>

Element == [look : Looks, group : Groups \cup {NoGroup}]

Drawable(S) == S \subseteq Ids /\ IsFiniteSet(S) /\ Cardinality(S) <= MaxElements

Document == UNION {[S -> Element] : S \in {S \in SUBSET Ids : Drawable(S)}}

NoElements == [id \in {} |-> id]

Init ==
    /\ elements = NoElements
    /\ history = <<>>
    /\ checkpoints = <<>>
    /\ steps = 0

Reset ==
    /\ elements' = NoElements
    /\ history' = <<>>
    /\ checkpoints' = <<>>
    /\ steps' = 0

-----------------------------------------------------------------------------
(* How step() ends.                                                        *)

\* The state before is kept for undo and the event is recorded.
Performed(document) ==
    /\ steps < MaxSteps
    /\ elements' = document
    /\ history' = Append(history, elements)
    /\ steps' = steps + 1
    /\ UNCHANGED checkpoints

\* An exception before anything was changed.
Raised == UNCHANGED vars

-----------------------------------------------------------------------------
(* The actions of step().                                                  *)

Add(id, look, group) ==
    IF id \notin DOMAIN elements /\ Cardinality(DOMAIN elements) < MaxElements /\ look # Refused
    THEN Performed([x \in DOMAIN elements \cup {id} |->
                       IF x = id THEN [look |-> look, group |-> group] ELSE elements[x]])
    ELSE Raised

Update(id, look, group) ==
    IF id \in DOMAIN elements /\ look # Refused
    THEN Performed([elements EXCEPT
            ![id] = [look |-> look, group |-> IF group = Kept THEN @.group ELSE group]])
    ELSE Raised

Delete(id) ==
    IF id \in DOMAIN elements
    THEN Performed([x \in DOMAIN elements \ {id} |-> elements[x]])
    ELSE Raised

(* group and ungroup (group None) go through the ids and raise at the      *)
(* first unknown one; what they grouped before it stays grouped, without a *)
(* snapshot and without an event.                                          *)
Group(ids, group) ==
    LET unknown == {i \in DOMAIN ids : ids[i] \notin DOMAIN elements}
        reached == {ids[i] : i \in {i \in DOMAIN ids : \A j \in unknown : i < j}}
        grouped == [x \in DOMAIN elements |->
                       IF x \in reached THEN [elements[x] EXCEPT !.group = group] ELSE elements[x]]
    IN  IF unknown = {}
        THEN Performed(grouped)
        ELSE /\ elements' = grouped
             /\ UNCHANGED <<history, checkpoints, steps>>

Saved(name, named) ==
    /\ steps < MaxSteps
    /\ checkpoints' = [n \in DOMAIN checkpoints \cup {name} |->
          IF n = name
          THEN [document |-> elements,
                named    |-> named \/ (n \in DOMAIN checkpoints /\ checkpoints[n].named)]
          ELSE checkpoints[n]]
    /\ steps' = steps + 1
    /\ UNCHANGED <<elements, history>>

Checkpoint(name) == Saved(name, TRUE)

\* Without an id the name is made from the number of checkpoints.
CheckpointUnnamed == Saved(Cardinality(DOMAIN checkpoints) + 1, FALSE)

\* Fault: the snapshot stays on the stack.
UndoUnpopped ==
    IF history = <<>>
    THEN Raised
    ELSE /\ steps < MaxSteps
         /\ elements' = history[Len(history)]
         /\ steps' = steps + 1
         /\ UNCHANGED <<history, checkpoints>>

Undo ==
    IF history = <<>>
    THEN Raised
    ELSE /\ steps < MaxSteps
         /\ elements' = history[Len(history)]
         /\ history' = SubSeq(history, 1, Len(history) - 1)
         /\ steps' = steps + 1
         /\ UNCHANGED checkpoints

\* restore(), which is not an action of step().
Restore(name) ==
    IF name \in DOMAIN checkpoints
    THEN Performed(checkpoints[name].document)
    ELSE Raised

-----------------------------------------------------------------------------

CheckpointNames == Names \cup (1..MaxSteps)

Next ==
    \/ \E id \in Ids, look \in Looks \cup {Refused}, group \in Groups \cup {NoGroup} :
          Add(id, look, group)
    \/ \E id \in Ids, look \in Looks \cup {Refused}, group \in Groups \cup {NoGroup, Kept} :
          Update(id, look, group)
    \/ \E id \in Ids : Delete(id)
    \/ \E ids \in IdLists, group \in Groups \cup {NoGroup} : Group(ids, group)
    \/ \E name \in Names : Checkpoint(name)
    \/ CheckpointUnnamed
    \/ Undo
    \/ \E name \in CheckpointNames : Restore(name)
    \/ Reset

Spec == Init /\ [][Next]_vars

-----------------------------------------------------------------------------
(* Properties.                                                             *)

(* Every snapshot, by undo or by name, is a drawing within the element     *)
(* limit, so that going back never exceeds it.                             *)
TypeOK ==
    /\ elements \in Document
    /\ history \in Seq(Document)
    /\ \A n \in DOMAIN checkpoints : n \in Nat /\ checkpoints[n].document \in Document
    /\ steps \in 0..MaxSteps

(* Undoing everything leads back to the empty drawing, whatever was        *)
(* restored or broke off half-way: a group that breaks off changes the     *)
(* current version, never the one at the bottom of the stack, because the  *)
(* drawing without elements has nothing to group.                          *)
UndoneToEmpty == Append(history, elements)[1] = NoElements

(* A checkpoint that the environment named is not replaced by another one, *)
(* as long as the agent keeps from names of that form.                     *)
UnnamedCheckpointsKept ==
    [][\A n \in DOMAIN checkpoints :
          (\A m \in DOMAIN checkpoints : checkpoints[m].named => m = 0)
              => \/ n = 0
                 \/ checkpoints' = <<>>
                 \/ checkpoints'[n].document = checkpoints[n].document
                 \/ checkpoints'[n].named]_vars

\* The drawings differ in the groups of their elements at most.
SameLooks(d, e) ==
    DOMAIN d = DOMAIN e /\ \A x \in DOMAIN d : d[x].look = e[x].look

Editor == INSTANCE EditStack WITH
    Documents <- Document,
    Empty     <- NoElements,
    Names     <- CheckpointNames,
    SameElements <- SameLooks,
    versions  <- Append(history, elements),
    saved     <- [n \in DOMAIN checkpoints |-> checkpoints[n].document]

(* The canvas is an editor with undo and checkpoints: an action pushes one *)
(* version, undo pops exactly it, a checkpoint keeps the drawing it was    *)
(* taken of, and an action that raises changes nothing but, when a group   *)
(* breaks off, the grouping of the current version.                        *)
ImplementsEditStack == Editor!Spec

=============================================================================
