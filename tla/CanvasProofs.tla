---------------------------- MODULE CanvasProofs ----------------------------
(***************************************************************************)
(* The canvas implements an editor with undo and checkpoints, its          *)
(* snapshots go back to what they should, and what an agent is told of a   *)
(* run is what its actions give when they are performed again, for all     *)
(* ids, limits and lists of ids.                                           *)
(***************************************************************************)
EXTENDS DrawingAgent, FiniteSetTheorems, SequenceTheorems, TLAPS

(* Snapshots are drawings, there are at most as many checkpoints as        *)
(* events, and a name the environment made up is at most their number.     *)
CanvasInv ==
    /\ elements \in Document
    /\ history \in Seq(Document)
    /\ \A n \in DOMAIN checkpoints :
          /\ n \in CheckpointNames
          /\ checkpoints[n].document \in Document
          /\ checkpoints[n].named \in BOOLEAN
          /\ ~checkpoints[n].named => n <= Cardinality(DOMAIN checkpoints)
    /\ IsFiniteSet(DOMAIN checkpoints)
    /\ Cardinality(DOMAIN checkpoints) <= steps
    /\ steps \in 0..MaxSteps

(* The five things a step can do: push a version, group in place, save a   *)
(* checkpoint, pop a version, start afresh.                                *)
Pushes == \E d \in Document : Performed(d)

Regroups ==
    /\ elements' \in Document
    /\ SameLooks(elements', elements)
    /\ UNCHANGED <<history, checkpoints, steps>>

Saves ==
    \E name \in CheckpointNames, named \in BOOLEAN :
        /\ Saved(name, named)
        /\ ~named => name = Cardinality(DOMAIN checkpoints) + 1

Pops == history # <<>> /\ Undo

-----------------------------------------------------------------------------

\* A function on a drawable set with elements as values is a drawing.
LEMMA IntoDocument ==
    ASSUME NEW S, Drawable(S), NEW d \in [S -> Element]
    PROVE  d \in Document
  BY DEF Document, Drawable

\* And the other way round.
LEMMA FromDocument ==
    ASSUME NEW d \in Document
    PROVE  Drawable(DOMAIN d) /\ d \in [DOMAIN d -> Element]
  BY DEF Document

\* The last element of a sequence is replaced.
LEMMA ReplaceLast ==
    ASSUME NEW S, NEW seq \in Seq(S), NEW a \in S, NEW b \in S
    PROVE  Append(seq, b) = [Append(seq, a) EXCEPT ![Len(Append(seq, a))] = b]
<1> DEFINE old == Append(seq, a)
           new == [old EXCEPT ![Len(old)] = b]
<1>1. /\ old \in Seq(S) /\ Len(old) = Len(seq) + 1
      /\ \A i \in 1..Len(seq) : old[i] = seq[i]
  BY AppendProperties
<1>2. /\ Append(seq, b) \in Seq(S) /\ Len(Append(seq, b)) = Len(seq) + 1
      /\ \A i \in 1..Len(seq) : Append(seq, b)[i] = seq[i]
      /\ Append(seq, b)[Len(seq) + 1] = b
  BY AppendProperties
<1>3. Len(seq) \in Nat BY LenProperties
<1> HIDE DEF old
<1>4. Len(old) \in 1..Len(old) BY <1>1, <1>3
<1>5. /\ new \in Seq(S) /\ Len(new) = Len(old)
      /\ \A i \in 1..Len(old) : new[i] = IF i = Len(old) THEN b ELSE old[i]
  BY <1>1, <1>4, ExceptSeq
<1> HIDE DEF new
<1>6. \A i \in 1..Len(new) : new[i] = Append(seq, b)[i] BY <1>1, <1>2, <1>3, <1>5
<1>7. new = Append(seq, b) BY <1>1, <1>2, <1>5, <1>6, SeqEqual
<1> QED BY <1>7 DEF new, old

\* The empty drawing is one.
LEMMA NoElementsDrawn == NoElements \in Document
<1>1. Drawable({}) BY FS_EmptySet, CanvasAssumption DEF Drawable
<1>2. NoElements \in [{} -> Element] BY DEF NoElements
<1> QED BY <1>1, <1>2, IntoDocument

LEMMA InitCanvasInv == Init => CanvasInv
<1> SUFFICES ASSUME Init PROVE CanvasInv OBVIOUS
<1>1. DOMAIN checkpoints = {} BY DEF Init
<1>2. history \in Seq(Document) BY DEF Init
<1>3. IsFiniteSet(DOMAIN checkpoints) /\ Cardinality(DOMAIN checkpoints) = 0
  BY <1>1, FS_EmptySet
<1>4. steps \in 0..MaxSteps /\ Cardinality(DOMAIN checkpoints) <= steps
  BY <1>3, CanvasAssumption DEF Init
<1>5. elements \in Document BY NoElementsDrawn DEF Init
<1> QED BY <1>1, <1>2, <1>3, <1>4, <1>5 DEF CanvasInv

\* Every step does one of the five things.
LEMMA Shapes ==
    ASSUME CanvasInv, [Next]_vars
    PROVE  Pushes \/ Regroups \/ Saves \/ Pops \/ Reset
<1>0. elements \in [DOMAIN elements -> Element] /\ Drawable(DOMAIN elements)
      /\ elements \in Document
  BY FromDocument DEF CanvasInv
<1>s. ASSUME UNCHANGED vars PROVE Regroups
  BY <1>s, <1>0 DEF Regroups, vars, SameLooks, CanvasInv
<1>1. ASSUME NEW id \in Ids, NEW look \in Looks \cup {Refused}, NEW group \in Groups \cup {NoGroup},
             Add(id, look, group)
      PROVE  Pushes \/ Regroups
  <2> DEFINE D == DOMAIN elements
             new == [x \in D \cup {id} |->
                       IF x = id THEN [look |-> look, group |-> group] ELSE elements[x]]
  <2>1. CASE id \notin D /\ Cardinality(D) < MaxElements /\ look # Refused
    <3>1. IsFiniteSet(D) /\ D \subseteq Ids BY <1>0 DEF Drawable
    <3>2. Cardinality(D) \in Nat BY <3>1, FS_CardinalityType
    <3>3. IsFiniteSet(D \cup {id}) /\ Cardinality(D \cup {id}) = Cardinality(D) + 1
      BY <3>1, <2>1, FS_AddElement
    <3>4. Drawable(D \cup {id}) BY <2>1, <3>1, <3>2, <3>3, CanvasAssumption DEF Drawable
    <3>5. new \in [D \cup {id} -> Element] BY <1>0, <2>1 DEF Element
    <3>6. new \in Document BY <3>4, <3>5, IntoDocument
    <3>7. Performed(new) BY <1>1, <2>1 DEF Add
    <3> QED BY <3>6, <3>7 DEF Pushes
  <2>2. CASE ~(id \notin D /\ Cardinality(D) < MaxElements /\ look # Refused)
    BY <1>1, <1>s, <2>2 DEF Add, Raised
  <2> QED BY <2>1, <2>2
<1>2. ASSUME NEW id \in Ids, NEW look \in Looks \cup {Refused},
             NEW group \in Groups \cup {NoGroup, Kept}, Update(id, look, group)
      PROVE  Pushes \/ Regroups
  <2> DEFINE e == [look |-> look, group |-> IF group = Kept THEN elements[id].group ELSE group]
             new == [elements EXCEPT ![id] = e]
  <2>1. CASE id \in DOMAIN elements /\ look # Refused
    <3>1. e \in Element BY <1>0, <2>1 DEF Element
    <3>2. Performed(new) BY <1>2, <2>1 DEF Update
    <3> HIDE DEF e
    <3>3. new \in [DOMAIN elements -> Element] BY <1>0, <3>1
    <3>4. new \in Document BY <1>0, <3>3, IntoDocument
    <3> QED BY <3>2, <3>4 DEF Pushes
  <2>2. CASE ~(id \in DOMAIN elements /\ look # Refused)
    BY <1>2, <1>s, <2>2 DEF Update, Raised
  <2> QED BY <2>1, <2>2
<1>3. ASSUME NEW id \in Ids, Delete(id) PROVE Pushes \/ Regroups
  <2> DEFINE D == DOMAIN elements
             new == [x \in D \ {id} |-> elements[x]]
  <2>1. CASE id \in D
    <3>1. IsFiniteSet(D) /\ D \subseteq Ids BY <1>0 DEF Drawable
    <3>2. IsFiniteSet(D \ {id}) /\ Cardinality(D \ {id}) <= Cardinality(D)
      BY <3>1, FS_Subset
    <3>3. Cardinality(D) \in Nat /\ Cardinality(D \ {id}) \in Nat
      BY <3>1, <3>2, FS_CardinalityType
    <3>4. Drawable(D \ {id})
      BY <1>0, <3>1, <3>2, <3>3, CanvasAssumption DEF Drawable
    <3>5. new \in [D \ {id} -> Element] BY <1>0
    <3>6. new \in Document BY <3>4, <3>5, IntoDocument
    <3>7. Performed(new) BY <1>3, <2>1 DEF Delete
    <3> QED BY <3>6, <3>7 DEF Pushes
  <2>2. CASE id \notin D BY <1>3, <1>s, <2>2 DEF Delete, Raised
  <2> QED BY <2>1, <2>2
<1>4. ASSUME NEW ids \in IdLists, NEW group \in Groups \cup {NoGroup}, Group(ids, group)
      PROVE  Pushes \/ Regroups
  <2> DEFINE unknown == {i \in DOMAIN ids : ids[i] \notin DOMAIN elements}
             reached == {ids[i] : i \in {i \in DOMAIN ids : \A j \in unknown : i < j}}
             regrouped(x) == [elements[x] EXCEPT !.group = group]
             grouped == [x \in DOMAIN elements |->
                            IF x \in reached THEN regrouped(x) ELSE elements[x]]
  <2>0. /\ unknown = {} => Performed(grouped)
        /\ unknown # {} => /\ elements' = grouped
                           /\ UNCHANGED <<history, checkpoints, steps>>
    BY <1>4 DEF Group
  <2> HIDE DEF unknown, reached
  <2>1. \A x \in DOMAIN elements : regrouped(x) \in Element /\ regrouped(x).look = elements[x].look
    BY <1>0 DEF Element
  <2> HIDE DEF regrouped
  <2>2. grouped \in [DOMAIN elements -> Element] BY <1>0, <2>1
  <2>3. grouped \in Document BY <1>0, <2>2, IntoDocument
  <2>4. SameLooks(grouped, elements) BY <2>1 DEF SameLooks
  <2> HIDE DEF grouped
  <2>6. CASE unknown = {} BY <2>0, <2>3, <2>6 DEF Pushes
  <2>7. CASE unknown # {} BY <2>0, <2>3, <2>4, <2>7 DEF Regroups
  <2> QED BY <2>6, <2>7
<1>5. ASSUME NEW name \in Names, Checkpoint(name) PROVE Saves
  BY <1>5 DEF Checkpoint, Saves, CheckpointNames
<1>6. ASSUME CheckpointUnnamed PROVE Saves
  <2> DEFINE n == Cardinality(DOMAIN checkpoints)
  <2>1. n \in Nat /\ n <= steps BY FS_CardinalityType DEF CanvasInv
  <2>2. Saved(n + 1, FALSE) BY <1>6 DEF CheckpointUnnamed
  <2>3. steps < MaxSteps BY <2>2 DEF Saved
  <2> HIDE DEF n
  <2>4. n + 1 \in 1..MaxSteps BY <2>1, <2>3, CanvasAssumption DEF CanvasInv
  <2> QED BY <2>2, <2>4 DEF Saves, CheckpointNames, n
<1>7. ASSUME Undo PROVE Pops \/ Regroups BY <1>7, <1>s DEF Undo, Pops, Raised
<1>8. ASSUME NEW name \in CheckpointNames, Restore(name) PROVE Pushes \/ Regroups
  BY <1>8, <1>s DEF Restore, Pushes, Raised, CanvasInv
<1> QED BY <1>s, <1>1, <1>2, <1>3, <1>4, <1>5, <1>6, <1>7, <1>8 DEF Next

-----------------------------------------------------------------------------

\* What a checkpoint does to the set of names.
LEMMA SavedNames ==
    ASSUME CanvasInv, NEW name \in CheckpointNames, NEW named \in BOOLEAN, Saved(name, named)
    PROVE  /\ DOMAIN checkpoints' = DOMAIN checkpoints \cup {name}
           /\ IsFiniteSet(DOMAIN checkpoints')
           /\ Cardinality(DOMAIN checkpoints) \in Nat
           /\ Cardinality(DOMAIN checkpoints') =
                  IF name \in DOMAIN checkpoints THEN Cardinality(DOMAIN checkpoints)
                  ELSE Cardinality(DOMAIN checkpoints) + 1
<1> DEFINE D == DOMAIN checkpoints
<1>1. IsFiniteSet(D) BY DEF CanvasInv
<1>2. DOMAIN checkpoints' = D \cup {name} BY DEF Saved
<1> HIDE DEF D
<1>3. IsFiniteSet(D \cup {name})
      /\ Cardinality(D \cup {name}) = IF name \in D THEN Cardinality(D) ELSE Cardinality(D) + 1
  BY <1>1, FS_AddElement
<1>4. Cardinality(D) \in Nat BY <1>1, FS_CardinalityType
<1> QED BY <1>2, <1>3, <1>4 DEF D

LEMMA NextCanvasInv ==
    ASSUME CanvasInv, [Next]_vars
    PROVE  CanvasInv'
<1>1. CASE Pushes
  <2>1. PICK d \in Document : Performed(d) BY <1>1 DEF Pushes
  <2>2. history' \in Seq(Document) BY <2>1, AppendProperties DEF Performed, CanvasInv
  <2>3. steps' \in 0..MaxSteps /\ Cardinality(DOMAIN checkpoints) <= steps'
    <3>1. Cardinality(DOMAIN checkpoints) \in Nat BY FS_CardinalityType DEF CanvasInv
    <3> QED BY <2>1, <3>1, CanvasAssumption DEF Performed, CanvasInv
  <2> QED BY <2>1, <2>2, <2>3 DEF Performed, CanvasInv, CheckpointNames
<1>2. CASE Regroups BY <1>2 DEF Regroups, CanvasInv
<1>3. CASE Saves
  <2>1. PICK name \in CheckpointNames, named \in BOOLEAN :
             /\ Saved(name, named)
             /\ ~named => name = Cardinality(DOMAIN checkpoints) + 1
    BY <1>3 DEF Saves
  <2> DEFINE k == Cardinality(DOMAIN checkpoints)
             j == Cardinality(DOMAIN checkpoints')
             D == DOMAIN checkpoints
  <2>2. /\ DOMAIN checkpoints' = D \cup {name}
        /\ IsFiniteSet(DOMAIN checkpoints')
        /\ k \in Nat
        /\ j = IF name \in D THEN k ELSE k + 1
    BY <2>1, SavedNames
  <2>3. /\ steps < MaxSteps
        /\ steps' = steps + 1
        /\ UNCHANGED <<elements, history>>
        /\ \A n \in D \cup {name} : checkpoints'[n] =
              IF n = name
              THEN [document |-> elements,
                    named    |-> named \/ (n \in DOMAIN checkpoints /\ checkpoints[n].named)]
              ELSE checkpoints[n]
    BY <2>1 DEF Saved
  <2>4. /\ elements \in Document
        /\ \A n \in D :
              /\ n \in CheckpointNames
              /\ checkpoints[n].document \in Document
              /\ checkpoints[n].named \in BOOLEAN
              /\ ~checkpoints[n].named => n <= k
        /\ k <= steps
        /\ steps \in 0..MaxSteps
    BY DEF CanvasInv
  <2>5. CheckpointNames \subseteq Nat BY CanvasAssumption DEF CheckpointNames
  <2>6. \A n \in D : n \in Nat BY <2>4, <2>5
  <2> HIDE DEF k, j, D
  <2>7. steps' \in 0..MaxSteps /\ j <= steps' BY <2>2, <2>3, <2>4, CanvasAssumption
  <2>8. ASSUME NEW n \in D \cup {name}
        PROVE  /\ n \in CheckpointNames
               /\ checkpoints'[n].document \in Document
               /\ checkpoints'[n].named \in BOOLEAN
               /\ ~checkpoints'[n].named => n <= j
    <3>1. CASE n = name
      <4> DEFINE was == named \/ (n \in DOMAIN checkpoints /\ checkpoints[n].named)
      <4>0. checkpoints'[n] = [document |-> elements, named |-> was] BY <2>3, <3>1
      <4>w. was \in BOOLEAN /\ (~was => ~named /\ (n \in D => ~checkpoints[n].named))
        BY DEF D
      <4> HIDE DEF was
      <4>1. checkpoints'[n].document = elements /\ checkpoints'[n].named = was BY <4>0
      <4>2. ~checkpoints'[n].named => ~named /\ (n \in D => ~checkpoints[n].named)
        BY <4>1, <4>w
      <4>3. ~named => name = k + 1 BY <2>1 DEF k
      <4>4. ~checkpoints'[n].named => n <= j BY <2>2, <2>4, <3>1, <4>2, <4>3
      <4> QED BY <2>4, <3>1, <4>1, <4>w, <4>4
    <3>2. CASE n # name
      <4>1. n \in D /\ checkpoints'[n] = checkpoints[n] BY <2>3, <3>2
      <4>2. ~checkpoints[n].named => n <= j BY <2>2, <2>4, <2>6, <4>1
      <4> QED BY <2>4, <4>1, <4>2
    <3> QED BY <3>1, <3>2
  <2>9. history' \in Seq(Document) /\ elements' \in Document
    BY <2>3 DEF CanvasInv
  <2> QED BY <2>2, <2>7, <2>8, <2>9 DEF CanvasInv, CheckpointNames, j
<1>4. CASE Pops
  <2>1. Len(history) \in Nat \ {0} BY <1>4, EmptySeq DEF Pops, CanvasInv
  <2>2. history[Len(history)] \in Document BY <2>1, ElementOfSeq DEF CanvasInv
  <2>3. history' = SubSeq(history, 1, Len(history) - 1) BY <1>4 DEF Pops, Undo
  <2>4. \A i \in 1..(Len(history) - 1) : history[i] \in Document
    BY <2>1, ElementOfSeq DEF CanvasInv
  <2>5. history' \in Seq(Document) BY <2>1, <2>3, <2>4, SubSeqProperties
  <2>6. steps' \in 0..MaxSteps /\ Cardinality(DOMAIN checkpoints) <= steps'
    <3>1. Cardinality(DOMAIN checkpoints) \in Nat BY FS_CardinalityType DEF CanvasInv
    <3> QED BY <1>4, <3>1, CanvasAssumption DEF Pops, Undo, CanvasInv
  <2> QED BY <1>4, <2>2, <2>5, <2>6 DEF Pops, Undo, CanvasInv, CheckpointNames
<1>5. CASE Reset
  <2>1. DOMAIN checkpoints' = {} BY <1>5 DEF Reset
  <2>2. history' \in Seq(Document) BY <1>5 DEF Reset
  <2>3. IsFiniteSet(DOMAIN checkpoints') /\ Cardinality(DOMAIN checkpoints') = 0
    BY <2>1, FS_EmptySet
  <2>4. steps' \in 0..MaxSteps /\ Cardinality(DOMAIN checkpoints') <= steps'
    BY <1>5, <2>3, CanvasAssumption DEF Reset
  <2>5. elements' \in Document BY <1>5, NoElementsDrawn DEF Reset
  <2> QED BY <2>1, <2>2, <2>3, <2>4, <2>5 DEF CanvasInv
<1> QED BY <1>1, <1>2, <1>3, <1>4, <1>5, Shapes

(* All drawings and snapshots stay within their types and the limit.       *)
THEOREM CanvasInvariant == Spec => []CanvasInv
  BY InitCanvasInv, NextCanvasInv, PTL DEF Spec

-----------------------------------------------------------------------------

(* Every snapshot, by undo or by name, is a drawing within the limit.      *)
THEOREM SnapshotsDrawable == Spec => []TypeOK
<1>1. CanvasInv => TypeOK
  <2>1. CheckpointNames \subseteq Nat BY CanvasAssumption DEF CheckpointNames
  <2> QED BY <2>1 DEF CanvasInv, TypeOK
<1> QED BY <1>1, CanvasInvariant, PTL

(* Undoing everything leads back to the empty drawing, also after a group  *)
(* broke off: it regroups either above a snapshot or a drawing that has no *)
(* elements.                                                               *)
THEOREM UndoLeadsToEmpty == Spec => []UndoneToEmpty
<1>1. Init => UndoneToEmpty BY DEF Init, UndoneToEmpty
<1>2. ASSUME CanvasInv, UndoneToEmpty, [Next]_vars PROVE UndoneToEmpty'
  <2>0. Len(history) \in Nat /\ elements \in Document /\ history \in Seq(Document)
    BY <1>2, LenProperties DEF CanvasInv
  <2>a. \A h \in Seq(Document), d \in Document :
           Append(h, d)[1] = IF h = <<>> THEN d ELSE h[1]
    OBVIOUS
  <2>1. CASE Pushes
    <3>1. PICK d \in Document : Performed(d) BY <2>1 DEF Pushes
    <3>2. history' = Append(history, elements) /\ elements' = d
      BY <3>1 DEF Performed
    <3>3. history' \in Seq(Document) /\ history' # <<>> BY <2>0, <3>2, AppendProperties
    <3>4. Append(history', elements')[1] = history'[1] BY <2>a, <3>2, <3>3
    <3> QED BY <1>2, <3>2, <3>4 DEF UndoneToEmpty
  <2>2. CASE Regroups
    <3>1. elements' \in Document /\ history' = history /\ DOMAIN elements' = DOMAIN elements
      BY <2>2 DEF Regroups, SameLooks
    <3>2. CASE history = <<>>
      <4>1. elements = NoElements BY <1>2, <2>0, <2>a, <3>2 DEF UndoneToEmpty
      <4>2. DOMAIN elements' = {} BY <3>1, <4>1 DEF NoElements
      <4>3. elements' \in [{} -> Element] BY <3>1, <4>2, FromDocument
      <4>4. elements' = NoElements BY <4>3 DEF NoElements
      <4> QED BY <2>a, <3>1, <3>2, <4>4 DEF UndoneToEmpty
    <3>3. CASE history # <<>>
      BY <1>2, <2>0, <2>a, <3>1, <3>3 DEF UndoneToEmpty
    <3> QED BY <3>2, <3>3
  <2>3. CASE Saves BY <1>2, <2>3 DEF Saves, Saved, UndoneToEmpty
  <2>4. CASE Pops
    <3> DEFINE n == Len(history)
    <3>1. n \in Nat \ {0} BY <1>2, <2>4, EmptySeq DEF Pops, CanvasInv
    <3>2. elements' = history[n] /\ history' = SubSeq(history, 1, n - 1)
      BY <2>4 DEF Pops, Undo
    <3>3. history[n] \in Document /\ history' \in Seq(Document) BY <2>0, <3>1, <3>2
    <3>4. Append(history', elements')[1] = history[1] BY <2>0, <2>a, <3>1, <3>2, <3>3
    <3>5. Append(history, elements)[1] = history[1] BY <2>0, <2>a, <3>1
    <3> QED BY <1>2, <3>2, <3>4, <3>5 DEF UndoneToEmpty
  <2>5. CASE Reset BY <2>5 DEF Reset, UndoneToEmpty
  <2> QED BY <1>2, <2>1, <2>2, <2>3, <2>4, <2>5, Shapes
<1> QED BY <1>1, <1>2, CanvasInvariant, PTL DEF Spec

(* The environment never replaces a checkpoint that it named itself while  *)
(* the agent keeps from names of that form.                                *)
THEOREM UnnamedCheckpointsStay == Spec => UnnamedCheckpointsKept
<1>1. ASSUME CanvasInv, [Next]_vars
      PROVE  [\A n \in DOMAIN checkpoints :
                 (\A m \in DOMAIN checkpoints : checkpoints[m].named => m = 0)
                     => \/ n = 0
                        \/ checkpoints' = <<>>
                        \/ checkpoints'[n].document = checkpoints[n].document
                        \/ checkpoints'[n].named]_vars
  <2> SUFFICES ASSUME NEW n \in DOMAIN checkpoints,
                      \A m \in DOMAIN checkpoints : checkpoints[m].named => m = 0,
                      n # 0
               PROVE  \/ checkpoints' = <<>>
                      \/ checkpoints'[n].document = checkpoints[n].document
                      \/ checkpoints'[n].named
    OBVIOUS
  <2>1. CASE Pushes BY <2>1 DEF Pushes, Performed
  <2>2. CASE Regroups BY <2>2 DEF Regroups
  <2>3. CASE Saves
    <3>1. PICK name \in CheckpointNames, named \in BOOLEAN :
               /\ Saved(name, named)
               /\ ~named => name = Cardinality(DOMAIN checkpoints) + 1
      BY <2>3 DEF Saves
    <3> DEFINE k == Cardinality(DOMAIN checkpoints)
               was == named \/ (n \in DOMAIN checkpoints /\ checkpoints[n].named)
    <3>2. k \in Nat BY <1>1, FS_CardinalityType DEF CanvasInv
    <3>3. ~checkpoints[n].named => n <= k BY <1>1 DEF CanvasInv
    <3>n. CheckpointNames \subseteq Nat BY CanvasAssumption DEF CheckpointNames
    <3>4. n \in Nat BY <1>1, <3>n DEF CanvasInv
    <3>5. n <= k BY <3>3
    <3>6. ~named => name = k + 1 BY <3>1
    <3>7. IF n = name THEN checkpoints'[n] = [document |-> elements, named |-> was]
                      ELSE checkpoints'[n] = checkpoints[n]
      BY <3>1 DEF Saved
    <3>8. named => was = TRUE OBVIOUS
    <3> HIDE DEF k, was
    <3>9. n = name => named BY <3>2, <3>4, <3>5, <3>6
    <3> QED BY <3>7, <3>8, <3>9
  <2>4. CASE Pops BY <2>4 DEF Pops, Undo
  <2>5. CASE Reset BY <2>5 DEF Reset
  <2> QED BY <1>1, <2>1, <2>2, <2>3, <2>4, <2>5, Shapes
<1> QED BY <1>1, CanvasInvariant, PTL DEF Spec, UnnamedCheckpointsKept

(* The canvas implements the editor: a step pushes one version, regroups   *)
(* the current one, saves it, pops it, or starts afresh.                   *)
THEOREM CanvasImplementsEditStack == Spec => ImplementsEditStack
<1> DEFINE versions == Append(history, elements)
           saved == [n \in DOMAIN checkpoints |-> checkpoints[n].document]
<1>1. Init => Editor!Init
  <2>1. SUFFICES ASSUME Init PROVE versions = <<NoElements>> /\ saved = <<>>
    BY DEF Editor!Init
  <2> QED BY <2>1 DEF Init
<1>2. ASSUME CanvasInv, [Next]_vars PROVE [Editor!Next]_(Editor!vars)
  <2>0. Len(history) \in Nat /\ elements \in Document /\ history \in Seq(Document)
    BY <1>2, LenProperties DEF CanvasInv
  <2>t. /\ Len(versions) = Len(history) + 1
        /\ versions \in Seq(Document)
        /\ versions[Len(versions)] = elements
        /\ \A i \in 1..Len(history) : versions[i] = history[i]
    BY <2>0, AppendProperties
  <2>1. CASE Pushes
    <3>1. PICK d \in Document : Performed(d) BY <2>1 DEF Pushes
    <3>2. versions' = Append(versions, d) /\ saved' = saved BY <3>1 DEF Performed
    <3> QED BY <3>2 DEF Editor!Next, Editor!Edit
  <2>2. CASE Regroups
    <3>1. /\ elements' \in Document /\ SameLooks(elements', elements)
          /\ history' = history /\ checkpoints' = checkpoints
      BY <2>2 DEF Regroups
    <3>2. versions' = [versions EXCEPT ![Len(versions)] = elements']
      BY <2>0, <3>1, ReplaceLast
    <3>3. saved' = saved BY <3>1
    <3>4. SameLooks(elements', Editor!Current) BY <2>t, <3>1 DEF Editor!Current
    <3> QED BY <3>1, <3>2, <3>3, <3>4 DEF Editor!Next, Editor!EditInPlace
  <2>3. CASE Saves
    <3>1. PICK name \in CheckpointNames, named \in BOOLEAN : Saved(name, named)
      BY <2>3 DEF Saves
    <3>2. versions' = versions BY <3>1 DEF Saved
    <3>3. saved' = [m \in DOMAIN saved \cup {name} |->
                       IF m = name THEN Editor!Current ELSE saved[m]]
      BY <2>t, <3>1 DEF Saved, Editor!Current
    <3> QED BY <3>2, <3>3 DEF Editor!Next, Editor!Save
  <2>4. CASE Pops
    <3>1. /\ elements' = history[Len(history)]
          /\ history' = SubSeq(history, 1, Len(history) - 1)
          /\ checkpoints' = checkpoints
          /\ Len(history) # 0
      BY <2>0, <2>4 DEF Pops, Undo
    <3>2. versions' = history BY <2>0, <3>1
    <3>3. history = SubSeq(versions, 1, Len(versions) - 1) BY <2>0, <2>t
    <3>4. saved' = saved BY <3>1
    <3>5. Len(versions) > 1 BY <2>0, <2>t, <3>1
    <3> QED BY <3>2, <3>3, <3>4, <3>5 DEF Editor!Next, Editor!Undo
  <2>5. CASE Reset
    <3>1. versions' = <<NoElements>> /\ saved' = <<>> BY <2>5 DEF Reset
    <3> QED BY <3>1 DEF Editor!Next, Editor!Clear
  <2> QED BY <1>2, <2>1, <2>2, <2>3, <2>4, <2>5, Shapes
<1> QED BY <1>1, <1>2, CanvasInvariant, PTL DEF Spec, ImplementsEditStack, Editor!Spec

-----------------------------------------------------------------------------
(* Runs of the agent and of the simulation harness are replayable.         *)

(* What answers depend on: neither the checkpoints, to which no action of  *)
(* step() goes back, nor whether a group has broken off.                   *)
Drawn == [elements |-> elements, history |-> history, steps |-> steps]

Fresh == [elements |-> NoElements, history |-> <<>>, steps |-> 0]

Pushed(s, document) ==
    [elements |-> document, history |-> Append(s.history, s.elements), steps |-> s.steps + 1]

Noted(s) == [elements |-> s.elements, history |-> s.history, steps |-> s.steps + 1]

AddTo(s, id, look, group) ==
    IF /\ id \notin DOMAIN s.elements /\ Cardinality(DOMAIN s.elements) < MaxElements
       /\ look # Refused
    THEN Pushed(s, [x \in DOMAIN s.elements \cup {id} |->
                      IF x = id THEN [look |-> look, group |-> group] ELSE s.elements[x]])
    ELSE s

UpdateIn(s, id, look, group) ==
    IF id \in DOMAIN s.elements /\ look # Refused
    THEN Pushed(s, [s.elements EXCEPT
            ![id] = [look |-> look, group |-> IF group = Kept THEN @.group ELSE group]])
    ELSE s

DeleteFrom(s, id) ==
    IF id \in DOMAIN s.elements
    THEN Pushed(s, [x \in DOMAIN s.elements \ {id} |-> s.elements[x]])
    ELSE s

GroupIn(s, ids, group) ==
    LET unknown == {i \in DOMAIN ids : ids[i] \notin DOMAIN s.elements}
        reached == {ids[i] : i \in {i \in DOMAIN ids : \A j \in unknown : i < j}}
        grouped == [x \in DOMAIN s.elements |->
                       IF x \in reached THEN [s.elements[x] EXCEPT !.group = group]
                       ELSE s.elements[x]]
    IN  IF unknown = {} THEN Pushed(s, grouped)
        ELSE [elements |-> grouped, history |-> s.history, steps |-> s.steps]

Undone(s) ==
    IF s.history = <<>> THEN s
    ELSE [elements |-> s.history[Len(s.history)],
          history |-> SubSeq(s.history, 1, Len(s.history) - 1), steps |-> s.steps + 1]

\* An action is a function of the drawing, its snapshots and the events.
After(a, s) ==
    IF a.type = "add" THEN AddTo(s, a.id, a.look, a.group)
    ELSE IF a.type = "update" THEN UpdateIn(s, a.id, a.look, a.group)
    ELSE IF a.type = "delete" THEN DeleteFrom(s, a.id)
    ELSE IF a.type = "group" THEN GroupIn(s, a.ids, a.group)
    ELSE IF a.type = "ungroup" THEN GroupIn(s, a.ids, NoGroup)
    ELSE IF a.type = "checkpoint" THEN Noted(s)
    ELSE Undone(s)

Receipt(a, s, t) == [action |-> a, error |-> t.steps = s.steps, drawing |-> t.elements]

LEMMA PushedIs ==
    ASSUME NEW document, Performed(document)
    PROVE  Drawn' = Pushed(Drawn, document)
  BY DEF Performed, Drawn, Pushed

LEMMA UndoIs ==
    ASSUME Undo
    PROVE  Drawn' = Undone(Drawn)
  BY DEF Undo, Raised, vars, Drawn, Undone

LEMMA GroupIs ==
    ASSUME NEW ids, NEW group, Group(ids, group)
    PROVE  Drawn' = GroupIn(Drawn, ids, group)
  BY DEF Group, Performed, Drawn, Pushed, GroupIn

LEMMA PerformIs ==
    ASSUME NEW a, Perform(a)
    PROVE  Drawn' = After(a, Drawn)
  <1>1. CASE a.type = "add" /\ Add(a.id, a.look, a.group)
    BY <1>1 DEF Add, Performed, Raised, vars, Drawn, Pushed, AddTo, After
  <1>2. CASE a.type = "update" /\ Update(a.id, a.look, a.group)
    BY <1>2 DEF Update, Performed, Raised, vars, Drawn, Pushed, UpdateIn, After
  <1>3. CASE a.type = "delete" /\ Delete(a.id)
    BY <1>3 DEF Delete, Performed, Raised, vars, Drawn, Pushed, DeleteFrom, After
  <1>4. CASE a.type = "group" /\ Group(a.ids, a.group)
    BY <1>4, GroupIs DEF After
  <1>5. CASE a.type = "ungroup" /\ Group(a.ids, NoGroup)
    BY <1>5, GroupIs DEF After
  <1>6. CASE a.type = "checkpoint" /\ \E name, named : Saved(name, named)
    BY <1>6 DEF Saved, Drawn, Noted, After
  <1>7. CASE a.type = "undo" /\ Undo
    BY <1>7, UndoIs DEF After
  <1>8. ASSUME a.type = "checkpoint",
               IF a.name = 0 THEN CheckpointUnnamed ELSE Checkpoint(a.name)
        PROVE  \E name, named : Saved(name, named)
    BY <1>8 DEF CheckpointUnnamed, Checkpoint
  <1> QED
    BY <1>1, <1>2, <1>3, <1>4, <1>5, <1>6, <1>7, <1>8 DEF Perform

LEMMA ResponseIs ==
    ASSUME NEW a
    PROVE  Response(a) = Receipt(a, Drawn, Drawn')
  BY DEF Response, Receipt, Drawn

-----------------------------------------------------------------------------

IsSeq(s) == \E S : s \in Seq(S)

\* The drawings of the run: the first one is new, and each action leads to the next.
Traces(trace) ==
    /\ trace[0] = Fresh
    /\ \A i \in DOMAIN events :
          /\ trace[i] = After(events[i].action, trace[i - 1])
          /\ events[i] = Receipt(events[i].action, trace[i - 1], trace[i])

ReplayInv ==
    /\ phase \in {"idle", "agent", "ended", "simulation", "agreed"}
    /\ IsSeq(events) /\ IsSeq(recorded)
    /\ Len(recorded) <= Len(events)
    /\ \A i \in DOMAIN recorded : recorded[i] = events[i]
    /\ receipts \in {{}, {events}}
    /\ phase \in {"idle", "agent", "ended"} => recorded = <<>> /\ receipts = {}
    /\ \E trace :
          /\ Traces(trace)
          /\ phase = "agent" => Drawn = trace[Len(events)]
          /\ phase = "simulation" => Drawn = trace[Len(recorded)]

LEMMA SeqFacts ==
    ASSUME NEW s, IsSeq(s)
    PROVE  Len(s) \in Nat /\ DOMAIN s = 1 .. Len(s)
  BY DEF IsSeq

LEMMA AppendedIs ==
    ASSUME NEW s, IsSeq(s), NEW e
    PROVE  /\ IsSeq(Append(s, e)) /\ Len(Append(s, e)) = Len(s) + 1
           /\ DOMAIN Append(s, e) = 1 .. (Len(s) + 1)
           /\ Append(s, e)[Len(s) + 1] = e
           /\ \A i \in DOMAIN s : Append(s, e)[i] = s[i]
  <1>1. PICK S : s \in Seq(S)
    BY DEF IsSeq
  <1>2. s \in Seq(S \cup {e}) /\ e \in S \cup {e}
    BY <1>1
  <1> QED
    BY <1>2 DEF IsSeq

LEMMA SameSeq ==
    ASSUME NEW s, NEW t, IsSeq(s), IsSeq(t), Len(s) = Len(t), \A i \in DOMAIN s : s[i] = t[i]
    PROVE  s = t
  <1>1. PICK S, T : s \in Seq(S) /\ t \in Seq(T)
    BY DEF IsSeq
  <1>2. s \in Seq(S \cup T) /\ t \in Seq(S \cup T) /\ DOMAIN s = 1 .. Len(s)
    BY <1>1
  <1> QED
    BY <1>2, SeqEqual

LEMMA NoneYet == IsSeq(<<>>) /\ Len(<<>>) = 0 /\ DOMAIN <<>> = {}
  <1>1. <<>> \in Seq({}) /\ Len(<<>>) = 0
    BY EmptySeq
  <1>2. IsSeq(<<>>)
    BY <1>1 DEF IsSeq
  <1>3. DOMAIN <<>> = 1 .. 0
    BY <1>1
  <1> QED
    BY <1>1, <1>2, <1>3

LEMMA ReplayInit == Init /\ AgentInit => ReplayInv
  <1> SUFFICES ASSUME Init, AgentInit
               PROVE  ReplayInv
    OBVIOUS
  <1>1. Traces([i \in {0} |-> Fresh])
    BY NoneYet DEF Traces, AgentInit
  <1> QED
    BY <1>1, NoneYet DEF ReplayInv, AgentInit

LEMMA StartKeeps == StartRun => ReplayInv'
  <1> SUFFICES ASSUME StartRun
               PROVE  ReplayInv'
    OBVIOUS
  <1>1. /\ phase' = "agent" /\ events' = <<>> /\ recorded' = <<>> /\ receipts' = {}
        /\ Drawn' = Fresh
    BY DEF StartRun, Reset, Drawn, Fresh
  <1>2. PICK trace : trace = [i \in {0} |-> Fresh]
    OBVIOUS
  <1>3. Traces(trace)' /\ trace[0] = Fresh
    BY <1>1, <1>2, NoneYet DEF Traces
  <1> QED
    BY <1>1, <1>3, NoneYet DEF ReplayInv

LEMMA AgentKeeps ==
    ASSUME ReplayInv, AgentStep
    PROVE  ReplayInv'
  <1> DEFINE a == NextAction(Len(events) + 1, PreviousError)
             n == Len(events)
  <1>1. /\ phase = "agent" /\ Perform(a) /\ events' = Append(events, Response(a))
        /\ UNCHANGED <<phase, recorded, receipts>>
    BY DEF AgentStep
  <1>2. PICK act, response : act = a /\ response = Response(a)
    OBVIOUS
  <1>3. Drawn' = After(act, Drawn) /\ response = Receipt(act, Drawn, Drawn')
    BY <1>1, <1>2, PerformIs, ResponseIs
  <1>4. PICK trace : Traces(trace) /\ Drawn = trace[n]
    BY <1>1 DEF ReplayInv
  <1>5. n \in Nat /\ DOMAIN events = 1 .. n /\ recorded = <<>> /\ receipts = {}
    BY <1>1, SeqFacts DEF ReplayInv
  <1>6. /\ IsSeq(events') /\ Len(events') = n + 1 /\ DOMAIN events' = 1 .. (n + 1)
        /\ events'[n + 1] = response /\ \A i \in 1 .. n : events'[i] = events[i]
    BY <1>1, <1>2, <1>5, AppendedIs DEF ReplayInv
  <1>7. PICK next : next = [i \in 0 .. (n + 1) |-> IF i = n + 1 THEN Drawn' ELSE trace[i]]
    OBVIOUS
  <1>8. /\ next[n + 1] = Drawn' /\ \A i \in 0 .. n : next[i] = trace[i]
    BY <1>5, <1>7
  <1>9. response.action = act
    BY <1>3 DEF Receipt
  <1> HIDE DEF n, a
  <1>10. Traces(next)'
    <2>1. next[0] = Fresh
      BY <1>4, <1>5, <1>8 DEF Traces
    <2>2. ASSUME NEW i \in 1 .. n
          PROVE  /\ next[i] = After(events'[i].action, next[i - 1])
                 /\ events'[i] = Receipt(events'[i].action, next[i - 1], next[i])
      <3>1. i - 1 \in 0 .. n /\ i \in 0 .. n
        BY <1>5
      <3> QED
        BY <1>4, <1>5, <1>6, <1>8, <3>1 DEF Traces
    <2>3. /\ next[n + 1] = After(events'[n + 1].action, next[(n + 1) - 1])
          /\ events'[n + 1] = Receipt(events'[n + 1].action, next[(n + 1) - 1], next[n + 1])
      <3>1. next[(n + 1) - 1] = Drawn
        BY <1>4, <1>5, <1>8
      <3> QED
        BY <1>3, <1>6, <1>8, <1>9, <3>1
    <2> QED
      BY <1>5, <1>6, <2>1, <2>2, <2>3 DEF Traces
  <1> QED
    BY <1>1, <1>5, <1>6, <1>8, <1>10, NoneYet DEF ReplayInv

LEMMA EndKeeps ==
    ASSUME ReplayInv, EndRun
    PROVE  ReplayInv'
  <1>1. /\ phase = "agent" /\ phase' = "ended" /\ UNCHANGED <<events, recorded, receipts>>
    BY DEF EndRun
  <1>2. PICK trace : Traces(trace)
    BY DEF ReplayInv
  <1>3. Traces(trace)'
    BY <1>1, <1>2 DEF Traces
  <1> QED
    BY <1>1, <1>3 DEF ReplayInv

\* A new canvas is where the run began.
LEMMA FreshKeeps ==
    ASSUME ReplayInv, FreshCanvas, phase' = "simulation", recorded' = <<>>,
           receipts' \in {{}, {events}}, events' = events
    PROVE  ReplayInv'
  <1>1. Drawn' = Fresh
    BY DEF FreshCanvas, Drawn, Fresh
  <1>2. PICK trace : Traces(trace)
    BY DEF ReplayInv
  <1>3. Traces(trace)' /\ trace[0] = Fresh
    BY <1>2 DEF Traces
  <1>4. Len(events) \in Nat
    BY SeqFacts DEF ReplayInv
  <1> QED
    BY <1>1, <1>3, <1>4, NoneYet DEF ReplayInv

\* What is executed is what was done, requested or injected.
LEMMA ExecutedIs ==
    ASSUME NEW i \in DOMAIN events
    PROVE  Executed(i) = events[i].action
  BY DEF Executed, FaultInjections, Requested

LEMMA SimulationKeeps ==
    ASSUME ReplayInv, SimulationStep
    PROVE  ReplayInv'
  <1>1. PICK i, a, response :
            i = Len(recorded) + 1 /\ a = Executed(i) /\ response = Response(a)
    OBVIOUS
  <1>2. /\ phase = "simulation" /\ i \in DOMAIN events /\ Perform(a)
        /\ recorded' = Append(recorded, response)
        /\ UNCHANGED <<phase, events, receipts>>
    BY <1>1 DEF SimulationStep
  <1>3. PICK trace : Traces(trace) /\ Drawn = trace[Len(recorded)]
    BY <1>2 DEF ReplayInv
  <1>4. /\ Len(recorded) \in Nat /\ DOMAIN recorded = 1 .. Len(recorded)
        /\ Len(events) \in Nat /\ DOMAIN events = 1 .. Len(events)
    BY SeqFacts DEF ReplayInv
  <1>5. Drawn = trace[i - 1] /\ a = events[i].action
    BY <1>1, <1>2, <1>3, <1>4, ExecutedIs
  <1>6. Drawn' = trace[i]
    BY <1>2, <1>3, <1>5, PerformIs DEF Traces
  <1>7. response = events[i]
    BY <1>1, <1>2, <1>3, <1>5, <1>6, ResponseIs DEF Traces
  <1>8. /\ IsSeq(recorded') /\ Len(recorded') = i /\ DOMAIN recorded' = 1 .. i
        /\ recorded'[i] = response /\ \A j \in DOMAIN recorded : recorded'[j] = recorded[j]
    BY <1>1, <1>2, AppendedIs DEF ReplayInv
  <1>9. \A j \in DOMAIN recorded' : recorded'[j] = events[j]
    BY <1>1, <1>4, <1>7, <1>8 DEF ReplayInv
  <1>10. Traces(trace)'
    BY <1>2, <1>3 DEF Traces
  <1> QED
    BY <1>2, <1>4, <1>6, <1>8, <1>9, <1>10 DEF ReplayInv

LEMMA ReceiptsAgree ==
    ASSUME ReplayInv, Len(recorded) = Len(events)
    PROVE  recorded = events
  BY SameSeq DEF ReplayInv

LEMMA ReplayStep ==
    ASSUME ReplayInv, [AgentNext]_<<vars, agentVars>>
    PROVE  ReplayInv'
  <1>1. CASE UNCHANGED <<vars, agentVars>>
    <2>1. UNCHANGED <<phase, events, recorded, receipts, Drawn>>
      BY <1>1 DEF vars, agentVars, Drawn
    <2>2. PICK trace : /\ Traces(trace)
                       /\ phase = "agent" => Drawn = trace[Len(events)]
                       /\ phase = "simulation" => Drawn = trace[Len(recorded)]
      BY DEF ReplayInv
    <2>3. Traces(trace)'
      BY <2>1, <2>2 DEF Traces
    <2> QED
      BY <2>1, <2>2, <2>3 DEF ReplayInv
  <1>2. CASE StartSimulation
    <2>1. /\ FreshCanvas /\ phase' = "simulation" /\ recorded' = <<>> /\ events' = events
          /\ receipts' \in {{}, {events}}
      BY <1>2 DEF StartSimulation, ReplayInv
    <2> QED
      BY <2>1, FreshKeeps
  <1>3. CASE FirstReceipt
    <2>1. /\ FreshCanvas /\ phase' = "simulation" /\ recorded' = <<>> /\ events' = events
          /\ receipts' \in {{}, {events}}
      BY <1>3, ReceiptsAgree DEF FirstReceipt
    <2> QED
      BY <2>1, FreshKeeps
  <1>4. CASE CompareReceipts
    <2>1. /\ receipts = {events} /\ recorded = events
      BY <1>4, ReceiptsAgree DEF CompareReceipts, ReplayInv
    <2>2. phase' = "agreed" /\ UNCHANGED <<events, recorded, receipts>>
      BY <1>4, <2>1 DEF CompareReceipts
    <2>3. PICK trace : Traces(trace)
      BY DEF ReplayInv
    <2>4. Traces(trace)'
      BY <2>2, <2>3 DEF Traces
    <2> QED
      BY <2>2, <2>4 DEF ReplayInv
  <1> QED
    BY <1>1, <1>2, <1>3, <1>4, StartKeeps, AgentKeeps, EndKeeps, SimulationKeeps DEF AgentNext

\* Whatever was drawn on the canvas before, a replay of the run answers what the
\* run answered, step for step (autonomous.py, simulation.py).
THEOREM RunsAreReplayable == AgentSpec => []RunIsReplayable
  <1>1. ReplayInv => RunIsReplayable
    BY DEF ReplayInv, RunIsReplayable
  <1> QED
    BY <1>1, ReplayInit, ReplayStep, PTL DEF AgentSpec

=============================================================================
