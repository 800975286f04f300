----------------------------- MODULE EditStack ------------------------------
(***************************************************************************)
(* What an editor with undo and checkpoints promises, without saying how   *)
(* it edits: a stack of document versions, the top one current, and a set  *)
(* of saved documents.                                                     *)
(***************************************************************************)
EXTENDS Naturals, Sequences

CONSTANTS
    Documents,          \* what a version can be
    Empty,              \* the first version
    Names,              \* names of saved documents
    SameElements(_, _)  \* the documents differ in their grouping at most

VARIABLES
    versions,   \* the current version is the last one
    saved       \* the saved documents, by name

vars == <<versions, saved>>

Current == versions[Len(versions)]

Init ==
    /\ versions = <<Empty>>
    /\ saved = <<>>

\* A change leaves its predecessor below the new version.
Edit ==
    /\ \E d \in Documents : versions' = Append(versions, d)
    /\ UNCHANGED saved

(* A grouping that fails half-way has already grouped some elements; the   *)
(* version before it is lost.                                              *)
EditInPlace ==
    /\ \E d \in Documents :
          /\ SameElements(d, Current)
          /\ versions' = [versions EXCEPT ![Len(versions)] = d]
    /\ UNCHANGED saved

Undo ==
    /\ Len(versions) > 1
    /\ versions' = SubSeq(versions, 1, Len(versions) - 1)
    /\ UNCHANGED saved

Save ==
    /\ \E n \in Names :
          saved' = [m \in DOMAIN saved \cup {n} |-> IF m = n THEN Current ELSE saved[m]]
    /\ UNCHANGED versions

Recall ==
    /\ \E n \in DOMAIN saved : versions' = Append(versions, saved[n])
    /\ UNCHANGED saved

Clear ==
    /\ versions' = <<Empty>>
    /\ saved' = <<>>

Next == Edit \/ EditInPlace \/ Undo \/ Save \/ Recall \/ Clear

Spec == Init /\ [][Next]_vars

=============================================================================
