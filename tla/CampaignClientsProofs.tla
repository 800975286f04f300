------------------------ MODULE CampaignClientsProofs -----------------------
(***************************************************************************)
(* Theorems about the two clients of the store, for every campaign, any    *)
(* workers, batches and crashes.  StoreAudit: what campaign_store_status   *)
(* and reconcile_campaign_store make of the store while workers go on.     *)
(* CampaignWorker: execution records and terminal events join up except    *)
(* for one event per crash, and with punctual heartbeats a cell is         *)
(* executed by one worker at a time.                                       *)
(***************************************************************************)
EXTENDS StoreAudit, CampaignWorker, CampaignStoreProofs, Sums, FiniteSetTheorems,
        SequenceTheorems, WellFoundedInduction, TLAPS

-----------------------------------------------------------------------------
(* The audit.  What a row may hold when it is not leased, what an event    *)
(* can say, and that a log only grows.                                     *)

\* Only a completion costs anything, and only a retry leaves failed.
EventShape(e) ==
    /\ e.reason # "completed" => e.cost = 0
    /\ e.prev = "failed" => e.reason = "requeued"

\* Lease columns outlive the lease in a row retried while it was leased.
RetriedLease(row, l) ==
    /\ row.state = "ready"
    /\ l # <<>>
    /\ l[Len(l)].reason = "requeued"
    /\ l[Len(l)].prev = "leased"

Shaped(row, l) ==
    /\ \A i \in DOMAIN l : EventShape(l[i])
    /\ row.state # "leased" /\ (row.owner # None \/ row.token # None) => RetriedLease(row, l)

ShapeInv == \A c \in Cells : Shaped(cell[c], log[c])

\* m starts with l.
Grown(l, m) ==
    /\ m \in Seq(Event)
    /\ Len(l) <= Len(m)
    /\ \A n \in 0..Len(l) : SubSeq(m, 1, n) = SubSeq(l, 1, n)

(* A log that one more event is appended to.                               *)
LEMMA AppendShaped ==
    ASSUME NEW l \in Seq(Event), NEW e \in Event, EventShape(e),
           \A i \in DOMAIN l : EventShape(l[i])
    PROVE  /\ \A i \in DOMAIN Append(l, e) : EventShape(Append(l, e)[i])
           /\ Append(l, e) # <<>>
           /\ Append(l, e)[Len(Append(l, e))] = e
           /\ Append(l, e) \in Seq(Event)
<1> DEFINE n == Len(l)
           m == Append(l, e)
<1>1. /\ n \in Nat /\ DOMAIN m = 1..(n + 1) /\ DOMAIN l = 1..n /\ m[n + 1] = e
      /\ \A i \in 1..n : m[i] = l[i]
      /\ \A i \in 1..(n + 1) : i \in 1..n \/ i = n + 1
      /\ Len(m) = n + 1 /\ m # <<>> /\ m \in Seq(Event)
  OBVIOUS
<1> HIDE DEF n, m
<1>2. \A i \in DOMAIN m : EventShape(m[i]) BY <1>1
<1> QED BY <1>1, <1>2 DEF m

(* It starts with what it was.                                             *)
LEMMA AppendGrown ==
    ASSUME NEW l \in Seq(Event), NEW e \in Event
    PROVE  Grown(l, Append(l, e)) /\ Append(l, e) \in Seq(Event)
<1>1. Len(Append(l, e)) = Len(l) + 1 /\ Len(l) \in Nat /\ Append(l, e) \in Seq(Event) OBVIOUS
<1>2. ASSUME NEW n \in 0..Len(l) PROVE SubSeq(Append(l, e), 1, n) = SubSeq(l, 1, n)
  <2>1. \A i \in 1..n : Append(l, e)[i] = l[i] BY <1>2
  <2>2. SubSeq(Append(l, e), 1, n) = [i \in 1..n |-> Append(l, e)[i]] BY <1>1
  <2>3. SubSeq(l, 1, n) = [i \in 1..n |-> l[i]] BY <1>1
  <2> QED BY <2>1, <2>2, <2>3
<1> QED BY <1>1, <1>2 DEF Grown

(* Growing twice is growing.                                               *)
LEMMA GrownTwice ==
    ASSUME NEW k \in Seq(Event), NEW l \in Seq(Event), NEW m \in Seq(Event),
           Grown(k, l), Grown(l, m)
    PROVE  Grown(k, m)
<1>1. Len(k) \in Nat /\ Len(l) \in Nat /\ Len(m) \in Nat OBVIOUS
<1>2. \A n \in 0..Len(k) : n \in 0..Len(l) BY <1>1 DEF Grown
<1> QED BY <1>1, <1>2 DEF Grown

(* It starts with itself.                                                  *)
LEMMA GrownSame == \A l \in Seq(Event) : Grown(l, l)
BY DEF Grown

\* What a step does to one cell of the database.
Continued(c) == Shaped(cell'[c], log'[c]) /\ Grown(log[c], log'[c])

(* Taking a lapsed lease back clears the lease columns.                    *)
LEMMA ReclaimedShaped ==
    ASSUME TypeOK, ShapeInv, NEW c \in Cells, NEW d \in 0..MaxWait
    PROVE  /\ Shaped(ReclaimedRow(c, d), ReclaimedLog(c, d))
           /\ Grown(log[c], ReclaimedLog(c, d))
<1>1. cell[c] \in Row /\ log[c] \in Seq(Event) /\ Shaped(cell[c], log[c]) BY DEF TypeOK, ShapeInv
<1>2. CASE ~Expired(c, d) BY <1>1, <1>2, GrownSame DEF ReclaimedRow, ReclaimedLog
<1>3. CASE Expired(c, d)
  <2> DEFINE e == EventOf(cell[c], cell[c].owner, cell[c].token, "ready", 0, "lease-expired")
             u == Unleased(cell[c])
  <2>1. e \in Event BY <1>1 DEF EventOf, Event, Row, Reasons, CellStates
  <2>2. EventShape(e) BY <1>3 DEF EventOf, EventShape, Expired
  <2> HIDE DEF e
  <2>3. ReclaimedLog(c, d) = Append(log[c], e) BY <1>3 DEF ReclaimedLog, e
  <2>4. u \in Row /\ u.owner = None /\ u.token = None 
    BY <1>1, UnleasedType DEF Unleased, Row
  <2>5. ReclaimedRow(c, d) = [u EXCEPT !.state = "ready"] BY <1>3 DEF ReclaimedRow
  <2> HIDE DEF u
  <2>6. ReclaimedRow(c, d).owner = None /\ ReclaimedRow(c, d).token = None BY <2>4, <2>5 DEF Row
  <2>7. \A i \in DOMAIN Append(log[c], e) : EventShape(Append(log[c], e)[i])
    BY <1>1, <2>1, <2>2, AppendShaped DEF Shaped
  <2>8. Grown(log[c], Append(log[c], e)) BY <1>1, <2>1, AppendGrown
  <2> QED BY <2>3, <2>6, <2>7, <2>8 DEF Shaped
<1> QED BY <1>2, <1>3

\* A step that is no overwrite.
GoesOn ==
    \/ Initialise \/ LeaseAny \/ HeartbeatAny \/ CompleteAny \/ RequeueAny \/ ReclaimAny \/ Tick
    \/ UNCHANGED vars

(* It continues every cell.                                                *)
LEMMA StepContinues ==
    ASSUME TypeOK, ShapeInv, GoesOn, NEW c \in Cells
    PROVE  Continued(c)
<1>0. cell[c] \in Row /\ log[c] \in Seq(Event) /\ Shaped(cell[c], log[c])
  BY DEF TypeOK, ShapeInv
<1>a. cell'[c] = cell[c] /\ log'[c] = log[c] => Continued(c)
  BY <1>0, GrownSame DEF Continued
<1>b. ASSUME NEW e \in Event, EventShape(e), log'[c] = Append(log[c], e),
             \/ cell'[c].state = "leased"
             \/ cell'[c].owner = None /\ cell'[c].token = None
             \/ cell'[c].state = "ready" /\ e.reason = "requeued" /\ e.prev = "leased"
      PROVE  Continued(c)
  <2>1. /\ \A i \in DOMAIN log'[c] : EventShape(log'[c][i])
        /\ log'[c] # <<>> /\ log'[c][Len(log'[c])] = e
    BY <1>0, <1>b, AppendShaped DEF Shaped
  <2>2. Grown(log[c], log'[c]) BY <1>0, <1>b, AppendGrown
  <2> QED BY <1>b, <2>1, <2>2 DEF Continued, Shaped, RetriedLease
<1>1. CASE Initialise BY <1>a, <1>1 DEF Initialise
<1>2. CASE LeaseAny
  <2>1. PICK w \in Workers, filter \in Filters, limit \in Limits, term \in Terms,
             d \in 0..MaxWait : Lease(w, filter, limit, term, d)
    BY <1>2 DEF LeaseAny
  <2>a. PICK S \in SUBSET Ready(filter, d) :
             \E tok \in FreshTokens(S) : LeaseCells(S, tok, w, term, d)
    BY <2>1 DEF Lease
  <2>2. PICK tok \in FreshTokens(S) : LeaseCells(S, tok, w, term, d) BY <2>a
  <2> DEFINE row == ReclaimedRow(c, d)
             l == ReclaimedLog(c, d)
  <2>3. row \in Row /\ l \in Seq(Event) /\ Shaped(row, l) /\ Grown(log[c], l)
    BY ReclaimedBooks, ReclaimedShaped
  <2>4. CASE c \notin S
    <3>1. cell'[c] = row /\ log'[c] = l BY <2>2, <2>4 DEF LeaseCells
    <3> QED BY <2>3, <3>1 DEF Continued
  <2>5. CASE c \in S
    <3> DEFINE e == LeaseEvent(row, w, tok[c])
    <3>1. tok[c] \in Tokens BY <2>2, <2>5 DEF FreshTokens
    <3>2. cell'[c] = LeasedRow(row, w, tok[c], term - d) /\ log'[c] = Append(l, e)
      BY <2>2, <2>5 DEF LeaseCells
    <3> HIDE DEF row, l
    <3>3. e \in Event /\ EventShape(e)
      BY <2>3, <3>1 DEF LeaseEvent, Event, Row, Reasons, CellStates, EventShape
    <3>4. LeasedRow(row, w, tok[c], term - d).state = "leased" BY <2>3 DEF LeasedRow, Row
    <3> HIDE DEF e
    <3>5. \A i \in DOMAIN Append(l, e) : EventShape(Append(l, e)[i])
      BY <2>3, <3>3, AppendShaped DEF Shaped
    <3>6. Grown(l, Append(l, e)) /\ Append(l, e) \in Seq(Event) BY <2>3, <3>3, AppendGrown
    <3>7. Grown(log[c], Append(l, e)) BY <1>0, <2>3, <3>6, GrownTwice
    <3> QED BY <3>2, <3>4, <3>5, <3>7 DEF Continued, Shaped
  <2> QED BY <2>4, <2>5
<1>3. CASE HeartbeatAny
  <2>1. PICK x \in Cells, w \in Workers, t \in Tokens, term \in Terms, d \in 0..MaxWait :
             Heartbeat(x, w, t, term, d)
    BY <1>3 DEF HeartbeatAny
  <2>2. CASE c # x
    <3>1. cell'[c] = cell[c] /\ log'[c] = log[c] BY <2>1, <2>2 DEF Heartbeat, Update, TypeOK
    <3> QED BY <1>a, <3>1
  <2>3. CASE c = x
    <3> DEFINE e == EventOf(cell[c], w, t, "leased", 0, "lease-heartbeat")
    <3>1. e \in Event BY <1>0 DEF EventOf, Event, Row, Reasons, CellStates
    <3>2. EventShape(e) BY <2>1, <2>3 DEF EventOf, EventShape, Heartbeat, Owns
    <3>3. log'[c] = Append(log[c], e) /\ cell'[c].state = "leased"
      BY <1>0, <2>1, <2>3 DEF Heartbeat, Owns, Update, TypeOK, Row
    <3> HIDE DEF e
    <3> QED BY <1>b, <3>1, <3>2, <3>3
  <2> QED BY <2>2, <2>3
<1>4. CASE CompleteAny
  <2>1. PICK x \in Cells, w \in Workers, t \in Tokens, d \in 0..MaxWait,
             st \in Outcomes, cost \in Costs, artifact \in BOOLEAN :
             Complete(x, w, t, st, cost, artifact, d)
    BY <1>4 DEF CompleteAny
  <2>2. CASE c # x
    <3>1. cell'[c] = cell[c] /\ log'[c] = log[c] BY <2>1, <2>2 DEF Complete, Update, TypeOK
    <3> QED BY <1>a, <3>1
  <2>3. CASE c = x
    <3> DEFINE e == EventOf(cell[c], w, t, st, Rounded(cost), "completed")
               row == [Unleased(cell[c]) EXCEPT !.state = st, !.actual = @ + cost,
                                                !.artifact = artifact]
    <3>1. Rounded(cost) \in Nat /\ st \in CellStates
      BY ArgumentsAssumption, RoundedType DEF CompletionStates, CellStates
    <3>2. e \in Event BY <1>0, <3>1 DEF EventOf, Event, Row, Reasons
    <3>3. EventShape(e) BY <2>1, <2>3 DEF EventOf, EventShape, Complete, Owns
    <3>4. log'[c] = Append(log[c], e) /\ cell'[c] = row
      BY <2>1, <2>3 DEF Complete, Update, TypeOK
    <3>5. row.owner = None /\ row.token = None
      <4> DEFINE u == Unleased(cell[c])
      <4>1. u \in Row /\ u.owner = None /\ u.token = None
        BY <1>0, UnleasedType DEF Unleased, Row
      <4> HIDE DEF u
      <4>2. /\ [u EXCEPT !.state = st, !.actual = @ + cost, !.artifact = artifact].owner = u.owner
            /\ [u EXCEPT !.state = st, !.actual = @ + cost, !.artifact = artifact].token = u.token
        BY <4>1 DEF Row
      <4> QED BY <4>1, <4>2 DEF u
    <3> HIDE DEF e, row
    <3> QED BY <1>b, <3>2, <3>3, <3>4, <3>5
  <2> QED BY <2>2, <2>3
<1>5. CASE RequeueAny
  <2>1. PICK x \in Cells, w \in Operators : Requeue(x, w) BY <1>5 DEF RequeueAny
  <2>2. CASE c # x
    <3>1. cell'[c] = cell[c] /\ log'[c] = log[c] BY <2>1, <2>2 DEF Requeue, Update, TypeOK
    <3> QED BY <1>a, <3>1
  <2>3. CASE c = x
    <3> DEFINE e == EventOf(cell[c], w, None, "ready", 0, "requeued")
    <3>1. e \in Event BY <1>0, ArgumentsAssumption DEF EventOf, Event, Row, Reasons, CellStates
    <3>2. EventShape(e) /\ e.reason = "requeued" /\ e.prev = cell[c].state
      BY DEF EventOf, EventShape
    <3>3. /\ log'[c] = Append(log[c], e) /\ cell'[c].state = "ready"
          /\ cell'[c].owner = cell[c].owner /\ cell'[c].token = cell[c].token
      BY <1>0, <2>1, <2>3 DEF Requeue, Update, TypeOK, Row
    <3>4. cell[c].state = "leased" \/ cell[c].state = "failed"
      BY <2>1, <2>3 DEF Requeue, AllowedTransitions
    <3>5. cell[c].state = "failed" => cell[c].owner = None /\ cell[c].token = None
      BY <1>0 DEF Shaped, RetriedLease
    <3> HIDE DEF e
    <3> QED BY <1>b, <3>1, <3>2, <3>3, <3>4, <3>5
  <2> QED BY <2>2, <2>3
<1>6. CASE ReclaimAny
  <2>1. PICK d \in 0..MaxWait : Reclaim(d) BY <1>6 DEF ReclaimAny
  <2>2. cell'[c] = ReclaimedRow(c, d) /\ log'[c] = ReclaimedLog(c, d) BY <2>1 DEF Reclaim
  <2> QED BY <2>2, ReclaimedShaped DEF Continued
<1>7. CASE Tick
  <2>1. cell'[c] = Older(cell[c]) /\ log' = log BY <1>7 DEF Tick
  <2>2. /\ Older(cell[c]).state = cell[c].state /\ Older(cell[c]).owner = cell[c].owner
        /\ Older(cell[c]).token = cell[c].token
    BY <1>0 DEF Older, Row
  <2> QED BY <1>0, <2>1, <2>2, GrownSame DEF Continued, Shaped, RetriedLease
<1>8. CASE UNCHANGED vars BY <1>a, <1>8 DEF vars
<1> QED BY <1>1, <1>2, <1>3, <1>4, <1>5, <1>6, <1>7, <1>8 DEF GoesOn

(* Events keep their shape, and lease columns outlive a lease in a retried *)
(* row only.                                                               *)
THEOREM ShapeInvariant == Spec => []ShapeInv
<1>1. ASSUME NEW l, l = <<>>, NEW c \in Cells
      PROVE  Shaped(FreshRow(c), l)
  BY <1>1 DEF Shaped, FreshRow
<1>2. ASSUME Init PROVE ShapeInv
  <2>1. \A c \in Cells : cell[c] = FreshRow(c) /\ log[c] = <<>> BY <1>2 DEF Init
  <2> QED BY <1>1, <2>1 DEF ShapeInv
<1>3. ASSUME TypeOK, ShapeInv, [Next]_vars PROVE ShapeInv'
  <2>1. CASE Overwrite
    <3>1. \A c \in Cells : cell'[c] = FreshRow(c) /\ log'[c] = <<>> BY <2>1 DEF Overwrite
    <3> QED BY <1>1, <3>1 DEF ShapeInv
  <2>2. CASE ~Overwrite
    <3>1. GoesOn BY <1>3, <2>2 DEF Next, GoesOn
    <3> QED BY <1>3, <3>1, StepContinues DEF ShapeInv, Continued
  <2> QED BY <2>1, <2>2
<1> QED BY <1>2, <1>3, TypeCorrect, PTL DEF Spec

-----------------------------------------------------------------------------
(* Pieces of a log.                                                        *)

(* One event more of it.                                                   *)
LEMMA SubSeqMore ==
    ASSUME NEW l \in Seq(Event), NEW n \in Nat, n < Len(l), NEW a \in 1..(n + 1)
    PROVE  /\ SubSeq(l, a, n + 1) = Append(SubSeq(l, a, n), l[n + 1])
           /\ SubSeq(l, a, n) \in Seq(Event)
           /\ l[n + 1] \in Event
<1>1. Len(l) \in Nat /\ l[n + 1] \in Event /\ \A i \in 1..Len(l) : l[i] \in Event OBVIOUS
<1> DEFINE s == SubSeq(l, a, n)
           t == SubSeq(l, a, n + 1)
<1>2. /\ Len(s) = (n - a) + 1 /\ Len(t) = (n - a) + 2
      /\ \A i \in 1..((n - a) + 1) : s[i] = l[(a + i) - 1]
      /\ \A i \in 1..((n - a) + 2) : t[i] = l[(a + i) - 1]
  BY <1>1
<1>3. s \in Seq(Event) /\ t \in Seq(Event) BY <1>1
<1> HIDE DEF s, t
<1>4. Len(Append(s, l[n + 1])) = Len(t) /\ Append(s, l[n + 1]) \in Seq(Event) BY <1>1, <1>2, <1>3
<1>5. ASSUME NEW i \in 1..Len(t) PROVE t[i] = Append(s, l[n + 1])[i]
  <2>1. i \in 1..Len(s) \/ i = Len(s) + 1 BY <1>2
  <2>2. CASE i \in 1..Len(s)
    <3>1. Append(s, l[n + 1])[i] = s[i] BY <1>3, <2>2
    <3> QED BY <1>2, <2>2, <3>1
  <2>3. CASE i = Len(s) + 1
    <3>1. Append(s, l[n + 1])[i] = l[n + 1] BY <1>3, <2>3
    <3>2. t[i] = l[(a + i) - 1] /\ (a + i) - 1 = n + 1 BY <1>2, <2>3
    <3> QED BY <3>1, <3>2
  <2> QED BY <2>1, <2>2, <2>3
<1>6. t = Append(s, l[n + 1]) BY <1>3, <1>4, <1>5
<1> QED BY <1>1, <1>3, <1>6 DEF s, t

(* What a log costs up to n is what it costs up to m and from there on.    *)
LEMMA CostsSplit ==
    ASSUME NEW c \in Cells, NEW l \in Seq(Event), NEW m \in 0..Len(l)
    PROVE  \A n \in m..Len(l) :
              LoggedCost(SubSeq(l, 1, n)) =
                  LoggedCost(SubSeq(l, 1, m)) + LoggedCost(SubSeq(l, m + 1, n))
<1> DEFINE Upper(n) == LoggedCost(SubSeq(l, 1, n))
           Piece(n) == LoggedCost(SubSeq(l, m + 1, n))
           Q == {k \in Nat : m + k <= Len(l) => Upper(m + k) = Upper(m) + Piece(m + k)}
<1>0. Len(l) \in Nat /\ m \in Nat OBVIOUS
<1>a. \A n \in 0..Len(l) : SubSeq(l, 1, n) \in Seq(Event) /\ SubSeq(l, m + 1, n) \in Seq(Event)
  OBVIOUS
<1>b. \A n \in 0..Len(l) : Upper(n) \in Nat /\ Piece(n) \in Nat BY <1>a, CostsType
<1>c. ASSUME NEW n \in Nat, m <= n, n < Len(l)
      PROVE  Upper(n + 1) = Upper(n) + l[n + 1].cost /\ Piece(n + 1) = Piece(n) + l[n + 1].cost
             /\ l[n + 1].cost \in Nat
  <2>1. /\ SubSeq(l, 1, n + 1) = Append(SubSeq(l, 1, n), l[n + 1])
        /\ SubSeq(l, 1, n) \in Seq(Event) /\ l[n + 1] \in Event
    <3>1. 1 \in 1..(n + 1) OBVIOUS
    <3> QED BY <1>c, <3>1, SubSeqMore
  <2>2. /\ SubSeq(l, m + 1, n + 1) = Append(SubSeq(l, m + 1, n), l[n + 1])
        /\ SubSeq(l, m + 1, n) \in Seq(Event)
    <3>1. m + 1 \in 1..(n + 1) BY <1>0, <1>c
    <3> QED BY <1>c, <3>1, SubSeqMore
  <2> QED BY <2>1, <2>2, AppendCosts DEF Event
<1>d. Piece(m) = 0
  <2>1. SubSeq(l, m + 1, m) = <<>> BY <1>0
  <2> QED BY <2>1, NoCosts
<1> HIDE DEF Upper, Piece
<1>1. 0 \in Q BY <1>0, <1>b, <1>d
<1>2. ASSUME NEW k \in Nat, k \in Q PROVE k + 1 \in Q
  <2> SUFFICES ASSUME m + (k + 1) <= Len(l)
               PROVE  Upper(m + (k + 1)) = Upper(m) + Piece(m + (k + 1))
    OBVIOUS
  <2> DEFINE n == m + k
  <2>1. n \in Nat /\ m <= n /\ n < Len(l) /\ m + (k + 1) = n + 1 /\ n \in 0..Len(l) BY <1>0
  <2>2. Upper(n) = Upper(m) + Piece(n) BY <1>2, <2>1
  <2> HIDE DEF n
  <2>3. /\ Upper(n + 1) = Upper(n) + l[n + 1].cost /\ Piece(n + 1) = Piece(n) + l[n + 1].cost
        /\ l[n + 1].cost \in Nat
    BY <1>c, <2>1
  <2>4. Upper(m) \in Nat /\ Upper(n) \in Nat /\ Piece(n) \in Nat BY <1>b, <2>1
  <2>5. Upper(n + 1) = Upper(m) + Piece(n + 1) BY <2>2, <2>3, <2>4
  <2> QED BY <2>1, <2>5
<1> HIDE DEF Q
<1>3. \A k \in Nat : k \in Q BY <1>1, <1>2, SetInduction
<1>4. ASSUME NEW n \in m..Len(l) PROVE Upper(n) = Upper(m) + Piece(n)
  <2>1. n - m \in Nat /\ m + (n - m) = n /\ n <= Len(l) BY <1>0
  <2>2. n - m \in Q BY <1>3, <2>1
  <2> QED BY <2>1, <2>2 DEF Q
<1> QED BY <1>4 DEF Upper, Piece

(* Events that are no completions cost nothing together.                   *)
LEMMA FreePiece ==
    ASSUME NEW l \in Seq(Event), \A i \in DOMAIN l : l[i].cost = 0
    PROVE  LoggedCost(l) = 0
<1> DEFINE f == [i \in DOMAIN l |-> l[i].cost]
<1>1. DOMAIN l = 1..Len(l) /\ Len(l) \in Nat OBVIOUS
<1>2. DOMAIN f = 1..Len(l) /\ \A i \in 1..Len(l) : f[i] = 0 BY <1>1
<1>3. LoggedCost(l) = SumFunction(f) BY DEF LoggedCost
<1>4. IsFiniteSet(1..Len(l)) BY <1>1, FS_Interval
<1> HIDE DEF f
<1> QED BY <1>2, <1>3, <1>4, SumZero, SumOfFunction

-----------------------------------------------------------------------------
(* The reads.  Each answer was true of the database when it was given, and *)
(* the log of the database that is read tells what was true then.          *)

\* A row and the log of its cell, at one moment.
Sound(c, row, l) ==
    /\ row.state = ReplayedState(c, l)
    /\ row.actual = LoggedCost(l)
    /\ row.state = "leased" => row.owner # None /\ row.token # None
    /\ Shaped(row, l)

\* Every event continues from the state the one before it left, legally.
Linked(c, l) ==
    \A i \in DOMAIN l :
        /\ l[i].prev = IF i = 1 THEN InitialState[c] ELSE l[i-1].new
        /\ <<l[i].prev, l[i].new>> \in AllowedTransitions

SoundDatabase(db) ==
    /\ db.cell \in [Cells -> Row]
    /\ db.log \in [Cells -> Seq(Event)]
    /\ \A c \in Cells : Sound(c, db.cell[c], db.log[c]) /\ Linked(c, db.log[c])

\* The logs as they were when m was marked.
Prefixes(m, logs) == [c \in Cells |-> SubSeq(logs[c], 1, m[c])]

\* Answer a is what a SELECT returns of a database with logs p.
TrueOf(read, a, p) ==
    /\ read = "states" =>
           a = [s \in CellStates |-> Cardinality({c \in Cells : ReplayedState(c, p[c]) = s})]
    /\ read = "spent" => a = SumFunction([c \in Cells |-> LoggedCost(p[c])])
    /\ read = "reserved" => a = EstimateOf({c \in Cells : ReplayedState(c, p[c]) = "leased"})
    /\ read = "events" => a = p
    /\ read = "cells" => a \in [Cells -> Row] /\ \A c \in Cells : Sound(c, a[c], p[c])

Answers == [CellStates -> Nat] \cup Nat \cup [Cells -> Seq(Event)] \cup [Cells -> Row]

ReadNames == {"states", "spent", "event_count", "reserved", "expired", "events", "cells"}

\* The reads so far, of logs that only grow.
MarksFit(logs) ==
    /\ \A k \in DOMAIN marks : \A c \in Cells : marks[k][c] <= Len(logs[c])
    /\ \A j, k \in DOMAIN marks : j <= k => \A c \in Cells : marks[j][c] <= marks[k][c]

AuditType ==
    /\ kind \in {"none", "status", "reconcile"}
    /\ got \in Seq(Answers)
    /\ marks \in Seq([Cells -> Nat])
    /\ Len(got) = Len(marks)
    /\ Len(got) <= Len(Reads)
    /\ kind = "none" => got = <<>> /\ marks = <<>> /\ orphan = <<>>

AuditInv ==
    /\ AuditType
    /\ orphan # <<>> => SoundDatabase(orphan[1])
    /\ MarksFit(Database.log)
    /\ \A k \in DOMAIN got : TrueOf(Reads[k], got[k], Prefixes(marks[k], Database.log))

(* The store is sound, by its own invariants.                              *)
LEMMA StoreSound ==
    ASSUME TypeOK, LedgerInv, SpendInv, ShapeInv
    PROVE  SoundDatabase([cell |-> cell, log |-> log])
<1>1. ASSUME NEW c \in Cells PROVE Sound(c, cell[c], log[c]) /\ Linked(c, log[c])
  <2>1. Replays(c, cell[c], log[c]) /\ Backed(cell[c], log[c]) /\ Shaped(cell[c], log[c])
    BY DEF LedgerInv, CellInv, ShapeInv
  <2>2. cell[c].actual = LoggedCost(log[c]) BY DEF SpendInv
  <2>3. cell[c].state = ReplayedState(c, log[c]) BY <2>1 DEF Replays, ReplayedState
  <2>4. cell[c].state = "leased" => cell[c].owner # None /\ cell[c].token # None
    BY <2>1 DEF Backed
  <2>5. Linked(c, log[c]) BY <2>1 DEF Replays, Linked
  <2> QED BY <2>1, <2>2, <2>3, <2>4, <2>5 DEF Sound
<1> QED BY <1>1 DEF TypeOK, SoundDatabase

(* So is the database that is read, also when it is no longer the store's. *)
LEMMA DatabaseSound ==
    ASSUME TypeOK, LedgerInv, SpendInv, ShapeInv, AuditInv
    PROVE  SoundDatabase(Database)
<1>1. CASE orphan = <<>> BY <1>1, StoreSound DEF Database
<1>2. CASE orphan # <<>> BY <1>2 DEF Database, AuditInv
<1> QED BY <1>1, <1>2

(* A SELECT returns what is true of the database then.                     *)
LEMMA SelectedTrue ==
    ASSUME NEW db, SoundDatabase(db), NEW d \in 0..MaxWait, NEW read \in ReadNames
    PROVE  /\ TrueOf(read, Selected(read, db, d), db.log)
           /\ Selected(read, db, d) \in Answers
<1>0. /\ db.cell \in [Cells -> Row] /\ db.log \in [Cells -> Seq(Event)]
      /\ \A c \in Cells : Sound(c, db.cell[c], db.log[c])
  BY DEF SoundDatabase
<1>a. \A S \in SUBSET Cells : Cardinality(S) \in Nat BY CellsFinite, FS_CardinalityType
<1>1. CASE read = "states"
  <2>1. Selected(read, db, d) =
           [s \in CellStates |-> Cardinality({c \in Cells : db.cell[c].state = s})]
    BY <1>1 DEF Selected
  <2>2. \A s : {c \in Cells : db.cell[c].state = s} =
               {c \in Cells : ReplayedState(c, db.log[c]) = s}
    BY <1>0 DEF Sound
  <2>3. \A s \in CellStates : Cardinality({c \in Cells : db.cell[c].state = s}) \in Nat BY <1>a
  <2>4. Selected(read, db, d) =
           [s \in CellStates |-> Cardinality({c \in Cells : ReplayedState(c, db.log[c]) = s})]
    BY <2>1, <2>2
  <2>5. Selected(read, db, d) \in [CellStates -> Nat] BY <2>1, <2>3
  <2> QED BY <1>1, <2>4, <2>5 DEF TrueOf, Answers
<1>2. CASE read = "spent"
  <2> DEFINE f == [c \in Cells |-> db.cell[c].actual]
  <2>1. Selected(read, db, d) = SumFunction(f) BY <1>2 DEF Selected
  <2>2. f = [c \in Cells |-> LoggedCost(db.log[c])] BY <1>0 DEF Sound
  <2>3. DOMAIN f = Cells /\ \A c \in Cells : f[c] \in Nat BY <1>0 DEF Row
  <2> HIDE DEF f
  <2>4. SumFunction(f) \in Nat BY <2>3, CellsFinite, SumNatural, SumOfFunction
  <2> QED BY <1>2, <2>1, <2>2, <2>4 DEF TrueOf, Answers
<1>3. CASE read = "event_count"
  <2> DEFINE f == [c \in Cells |-> Len(db.log[c])]
  <2>1. Selected(read, db, d) = SumFunction(f) BY <1>3 DEF Selected
  <2>2. DOMAIN f = Cells /\ \A c \in Cells : f[c] \in Nat BY <1>0
  <2> HIDE DEF f
  <2>3. SumFunction(f) \in Nat BY <2>2, CellsFinite, SumNatural, SumOfFunction
  <2> QED BY <1>3, <2>1, <2>3 DEF TrueOf, Answers
<1>4. CASE read = "reserved"
  <2>1. Selected(read, db, d) = EstimateOf(LeasedRows(db.cell)) BY <1>4 DEF Selected
  <2>2. LeasedRows(db.cell) = {c \in Cells : ReplayedState(c, db.log[c]) = "leased"}
    BY <1>0 DEF LeasedRows, Sound
  <2>3. LeasedRows(db.cell) \in SUBSET Cells BY DEF LeasedRows
  <2>4. IsFiniteSet(LeasedRows(db.cell)) /\ \A c \in LeasedRows(db.cell) : Estimate[c] \in Nat
    BY <2>3, CellsFinite, ManifestAssumption
  <2>5. EstimateOf(LeasedRows(db.cell)) \in Nat BY <2>4, SumNatural DEF EstimateOf
  <2> QED BY <1>4, <2>1, <2>2, <2>5 DEF TrueOf, Answers
<1>5. CASE read = "expired"
  <2>1. Selected(read, db, d) = Cardinality({c \in LeasedRows(db.cell) : db.cell[c].ttl <= -d})
    BY <1>5 DEF Selected
  <2>2. {c \in LeasedRows(db.cell) : db.cell[c].ttl <= -d} \in SUBSET Cells BY DEF LeasedRows
  <2>3. Selected(read, db, d) \in Nat BY <1>a, <2>1, <2>2
  <2> QED BY <1>5, <2>3 DEF TrueOf, Answers
<1>6. CASE read = "events"
  <2>1. Selected(read, db, d) = db.log BY <1>6 DEF Selected
  <2> QED BY <1>0, <1>6, <2>1 DEF TrueOf, Answers
<1>7. CASE read = "cells"
  <2>1. Selected(read, db, d) = db.cell BY <1>7 DEF Selected
  <2> QED BY <1>0, <1>7, <2>1 DEF TrueOf, Answers
<1> QED BY <1>1, <1>2, <1>3, <1>4, <1>5, <1>6, <1>7 DEF ReadNames

(* Logs that have grown since they were marked are the same up to there.   *)
LEMMA GrownPrefixes ==
    ASSUME NEW p \in [Cells -> Seq(Event)], NEW q, NEW m \in [Cells -> Nat],
           \A c \in Cells : Grown(p[c], q[c]) /\ m[c] <= Len(p[c])
    PROVE  Prefixes(m, q) = Prefixes(m, p)
<1>1. ASSUME NEW c \in Cells PROVE SubSeq(q[c], 1, m[c]) = SubSeq(p[c], 1, m[c])
  <2>1. m[c] \in 0..Len(p[c]) OBVIOUS
  <2> QED BY <2>1 DEF Grown
<1> QED BY <1>1 DEF Prefixes

(* The database that is read only grows, also when it is overwritten.      *)
LEMMA DatabaseGrows ==
    ASSUME TypeOK, LedgerInv, SpendInv, ShapeInv, AuditInv, kind # "none",
           StoreStep \/ Replaced \/ UNCHANGED watchedVars
    PROVE  \A c \in Cells : Grown(Database.log[c], (Database').log[c])
<1>0. \A c \in Cells : Database.log[c] \in Seq(Event) BY DatabaseSound DEF SoundDatabase
<1>1. CASE Database' = Database BY <1>0, <1>1, GrownSame
<1>2. CASE Replaced
  <2>1. orphan' = <<Database>> BY <1>2 DEF Replaced
  <2>2. orphan' # <<>> /\ orphan'[1] = Database BY <2>1
  <2>3. Database' = Database BY <2>2 DEF Database
  <2> QED BY <1>1, <2>3
<1>3. CASE StoreStep
  <2>1. orphan' = orphan BY <1>3 DEF StoreStep, auditVars
  <2>2. CASE orphan = <<>>
    <3>1. Database.log = log /\ (Database').log = log' BY <2>1, <2>2 DEF Database
    <3>2. GoesOn BY <1>3 DEF StoreStep, GoesOn
    <3>3. \A c \in Cells : Grown(log[c], log'[c]) BY <3>2, StepContinues DEF Continued
    <3> QED BY <3>1, <3>3
  <2>3. CASE orphan # <<>>
    <3>1. Database' = Database BY <2>1, <2>3 DEF Database
    <3> QED BY <1>1, <3>1
  <2> QED BY <2>2, <2>3
<1>4. CASE UNCHANGED watchedVars
  <2>1. Database' = Database BY <1>4 DEF Database, watchedVars, vars, auditVars
  <2> QED BY <1>1, <2>1
<1> QED BY <1>2, <1>3, <1>4

(* Before a call has read anything there is nothing to explain.            *)
LEMMA EmptyAudit ==
    ASSUME kind' \in {"none", "status", "reconcile"},
           got' = <<>>, marks' = <<>>, orphan' = <<>>
    PROVE  AuditInv'
<1>1. Len(<<>>) = 0 /\ DOMAIN <<>> = {} /\ <<>> \in Seq(Answers) /\ <<>> \in Seq([Cells -> Nat])
  OBVIOUS
<1>2. 0 <= Len(Reads)' BY DEF Reads, StatusReads, ReconcileReads
<1>3. AuditType' BY <1>1, <1>2 DEF AuditType
<1>4. MarksFit(Database.log)' BY <1>1 DEF MarksFit
<1>5. \A k \in DOMAIN got' : TrueOf(Reads[k], got[k], Prefixes(marks[k], Database.log))' BY <1>1
<1> QED BY <1>3, <1>4, <1>5 DEF AuditInv

(* The answers stay true in every step.                                    *)
LEMMA AuditStep ==
    ASSUME TypeOK, LedgerInv, SpendInv, ShapeInv, AuditInv, [AuditNext]_watchedVars
    PROVE  AuditInv'
<1> DEFINE db == Database
<1>0. AuditType /\ MarksFit(db.log) BY DEF AuditInv
<1>a. SoundDatabase(db) BY DatabaseSound
<1>b. db.log \in [Cells -> Seq(Event)] BY <1>a DEF SoundDatabase
<1>c. /\ got \in Seq(Answers) /\ marks \in Seq([Cells -> Nat]) /\ Len(got) = Len(marks)
      /\ Len(got) \in Nat /\ DOMAIN got = 1..Len(got) /\ DOMAIN marks = 1..Len(got)
      /\ \A k \in DOMAIN marks : marks[k] \in [Cells -> Nat]
  BY <1>0 DEF AuditType
<1>1. ASSUME kind # "none", StoreStep \/ Replaced \/ UNCHANGED watchedVars
      PROVE  AuditInv'
  <2>1. UNCHANGED <<kind, got, marks>>
    BY <1>1 DEF StoreStep, Replaced, watchedVars, auditVars
  <2>2. Reads' = Reads BY <2>1 DEF Reads
  <2>3. \A c \in Cells : Grown(db.log[c], (Database').log[c]) BY <1>1, DatabaseGrows
  <2>4. AuditType' BY <1>0, <1>1, <2>1, <2>2 DEF AuditType
  <2>5. ASSUME orphan' # <<>> PROVE SoundDatabase(orphan'[1])
    <3>1. CASE Replaced
      <4>1. orphan' = <<Database>> BY <1>1, <3>1 DEF Replaced
      <4> QED BY <1>a, <4>1
    <3>2. CASE ~Replaced
      <4>1. orphan' = orphan BY <1>1, <3>2 DEF StoreStep, watchedVars, auditVars
      <4> QED BY <2>5, <4>1 DEF AuditInv
    <3> QED BY <3>1, <3>2
  <2>6. ASSUME NEW k \in DOMAIN marks, NEW c \in Cells
        PROVE  marks[k][c] <= Len((Database').log[c])
    <3>1. marks[k][c] <= Len(db.log[c]) /\ marks[k][c] \in Nat BY <1>0, <1>c DEF MarksFit
    <3>2. Len(db.log[c]) <= Len((Database').log[c]) BY <2>3 DEF Grown
    <3>3. Len(db.log[c]) \in Nat BY <1>b
    <3>5. Len((Database').log[c]) \in Nat BY <2>3 DEF Grown
    <3> QED BY <3>1, <3>2, <3>3, <3>5
  <2>7. MarksFit(Database.log)' BY <1>0, <2>1, <2>6 DEF MarksFit
  <2>8. ASSUME NEW k \in DOMAIN got
        PROVE  TrueOf(Reads[k], got[k], Prefixes(marks[k], (Database').log))
    <3>1. TrueOf(Reads[k], got[k], Prefixes(marks[k], db.log)) BY DEF AuditInv
    <3>2. \A c \in Cells : marks[k][c] <= Len(db.log[c]) BY <1>0, <1>c DEF MarksFit
    <3>3. marks[k] \in [Cells -> Nat] BY <1>c
    <3>4. Prefixes(marks[k], (Database').log) = Prefixes(marks[k], db.log)
      BY <1>b, <2>3, <3>2, <3>3, GrownPrefixes
    <3> QED BY <3>1, <3>4
  <2> QED BY <2>1, <2>2, <2>4, <2>5, <2>7, <2>8 DEF AuditInv
<1>2. ASSUME kind = "none", StoreStep \/ Replaced \/ UNCHANGED watchedVars
      PROVE  AuditInv'
  <2>1. got = <<>> /\ marks = <<>> /\ orphan = <<>> BY <1>0, <1>2 DEF AuditType
  <2>2. got' = <<>> /\ marks' = <<>> /\ orphan' = <<>> /\ kind' = "none"
    BY <1>2, <2>1 DEF StoreStep, Replaced, watchedVars, auditVars
  <2> QED BY <2>2, EmptyAudit
<1>3. CASE Close
  <2>1. got' = <<>> /\ marks' = <<>> /\ orphan' = <<>> /\ kind' = "none" BY <1>3 DEF Close
  <2> QED BY <2>1, EmptyAudit
<1>4. CASE \E call \in {"status", "reconcile"} : Open(call)
  <2>1. got = <<>> /\ marks = <<>> /\ orphan = <<>> BY <1>0, <1>4 DEF AuditType, Open
  <2>2. got' = <<>> /\ marks' = <<>> /\ orphan' = <<>> /\ kind' \in {"status", "reconcile"}
    BY <1>4, <2>1 DEF Open
  <2> QED BY <2>2, EmptyAudit
<1>5. CASE Select
  <2>1. PICK d \in 0..MaxWait : got' = Append(got, Selected(Reads[Len(got) + 1], db, d))
    BY <1>5 DEF Select
  <2> DEFINE n == Len(got)
             a == Selected(Reads[n + 1], db, d)
             m == [c \in Cells |-> Len(db.log[c])]
  <2>2. /\ kind # "none" /\ n < Len(Reads) /\ got' = Append(got, a) /\ marks' = Append(marks, m)
        /\ UNCHANGED <<vars, kind, orphan>>
    BY <1>5, <2>1 DEF Select, Asked
  <2>3. Database' = db /\ Reads' = Reads BY <2>2 DEF Database, vars, Reads
  <2>4. Reads[n + 1] \in ReadNames
    BY <1>0, <1>c, <2>2 DEF AuditType, Reads, StatusReads, ReconcileReads, ReadNames
  <2>5. TrueOf(Reads[n + 1], a, db.log) /\ a \in Answers BY <1>a, <2>4, SelectedTrue
  <2>6. m \in [Cells -> Nat] /\ \A c \in Cells : m[c] = Len(db.log[c]) BY <1>b
  <2>7. Prefixes(m, db.log) = db.log
    <3>1. \A c \in Cells : SubSeq(db.log[c], 1, m[c]) = db.log[c] BY <1>b, <2>6, SubSeqFull
    <3> QED BY <1>b, <3>1 DEF Prefixes
  <2> HIDE DEF a, m, n, db
  <2>a. n = Len(got) BY DEF n
  <2>8. /\ got' \in Seq(Answers) /\ Len(got') = n + 1 /\ DOMAIN got' = 1..(n + 1)
        /\ got'[n + 1] = a /\ \A k \in 1..n : got'[k] = got[k]
    BY <1>c, <2>2, <2>5, <2>a
  <2>9. /\ marks' \in Seq([Cells -> Nat]) /\ Len(marks') = n + 1 /\ DOMAIN marks' = 1..(n + 1)
        /\ marks'[n + 1] = m /\ \A k \in 1..n : marks'[k] = marks[k]
    BY <1>c, <2>2, <2>6, <2>a
  <2>b. n \in Nat /\ \A k \in 1..(n + 1) : k \in 1..n \/ k = n + 1 BY <1>c, <2>a
  <2>10. AuditType'
    <3>1. n + 1 <= Len(Reads)
      BY <1>0, <2>2, <2>b DEF AuditType, Reads, StatusReads, ReconcileReads
    <3> QED BY <1>0, <2>2, <2>3, <2>8, <2>9, <3>1 DEF AuditType
  <2>11. /\ \A k \in DOMAIN marks' : \A c \in Cells : marks'[k][c] <= Len(db.log[c])
         /\ \A j, k \in DOMAIN marks' : j <= k => \A c \in Cells : marks'[j][c] <= marks'[k][c]
    <3>0. \A c \in Cells : Len(db.log[c]) \in Nat BY <1>b
    <3>1. ASSUME NEW k \in 1..(n + 1), NEW c \in Cells PROVE marks'[k][c] <= Len(db.log[c])
      <4>1. CASE k \in 1..n BY <1>0, <1>c, <2>9, <2>a, <4>1 DEF MarksFit
      <4>2. CASE k = n + 1 BY <2>6, <2>9, <3>0, <4>2
      <4> QED BY <2>b, <4>1, <4>2
    <3>2. ASSUME NEW j \in 1..(n + 1), NEW k \in 1..(n + 1), j <= k, NEW c \in Cells
          PROVE  marks'[j][c] <= marks'[k][c]
      <4>1. CASE k \in 1..n
        <5>1. j \in 1..n BY <2>b, <3>2, <4>1
        <5> QED BY <1>0, <1>c, <2>9, <2>a, <3>2, <4>1, <5>1 DEF MarksFit
      <4>2. CASE k = n + 1 BY <2>6, <2>9, <3>1, <4>2
      <4> QED BY <2>b, <4>1, <4>2
    <3> QED BY <2>9, <3>1, <3>2
  <2>12. \A k \in DOMAIN got' : TrueOf(Reads[k], got'[k], Prefixes(marks'[k], db.log))
    <3>1. TrueOf(Reads[n + 1], got'[n + 1], Prefixes(marks'[n + 1], db.log))
      BY <2>5, <2>7, <2>8, <2>9
    <3>2. \A k \in 1..n : TrueOf(Reads[k], got'[k], Prefixes(marks'[k], db.log))
      BY <1>c, <2>8, <2>9, <2>a DEF AuditInv, db
    <3> QED BY <2>8, <2>b, <3>1, <3>2
  <2>13. MarksFit(Database.log)' BY <2>3, <2>11 DEF MarksFit
  <2>14. \A k \in DOMAIN got' : TrueOf(Reads[k], got[k], Prefixes(marks[k], Database.log))'
    BY <2>3, <2>12
  <2> QED BY <2>2, <2>10, <2>13, <2>14 DEF AuditInv
<1> QED BY <1>1, <1>2, <1>3, <1>4, <1>5 DEF AuditNext, StoreStep, Replaced, auditVars, watchedVars

(* The calls take steps of the store, or none of its.                      *)
LEMMA AuditStoreSteps == AuditSpec => Spec
<1>1. AuditInit => Init BY DEF AuditInit
<1>2. [AuditNext]_watchedVars => [Next]_vars
  BY DEF AuditNext, StoreStep, Replaced, Open, Select, Close, watchedVars, Next, vars
<1> QED BY <1>1, <1>2, PTL DEF AuditSpec, Spec

(* Whatever a call has read so far was true when it read it.               *)
THEOREM AuditInvariant ==
    ASSUME CostsExact
    PROVE  AuditSpec => []AuditInv
<1>1. ASSUME AuditInit PROVE AuditInv
  <2>1. kind = "none" /\ got = <<>> /\ marks = <<>> /\ orphan = <<>> BY <1>1 DEF AuditInit
  <2>2. Len(<<>>) = 0 /\ DOMAIN <<>> = {} /\ <<>> \in Seq(Answers) /\ <<>> \in Seq([Cells -> Nat])
    OBVIOUS
  <2>3. 0 <= Len(Reads) BY DEF Reads, StatusReads, ReconcileReads
  <2>4. AuditType BY <2>1, <2>2, <2>3 DEF AuditType
  <2>5. MarksFit(Database.log) BY <2>1, <2>2 DEF MarksFit
  <2> QED BY <2>1, <2>2, <2>4, <2>5 DEF AuditInv
<1> QED BY <1>1, AuditStep, AuditStoreSteps, TypeCorrect, LedgerInvariant, SpendInvariant,
           ShapeInvariant, PTL DEF AuditSpec

\* What the prefixes of a log at two marks have between them.
Piece(l, m, n) == SubSeq(l, m + 1, n)

(* The events between two marks.                                           *)
LEMMA PieceEvents ==
    ASSUME NEW l \in Seq(Event), NEW n \in 0..Len(l), NEW m \in 0..n
    PROVE  /\ Piece(l, m, n) \in Seq(Event)
           /\ Len(Piece(l, m, n)) = n - m
           /\ \A i \in 1..(n - m) : Piece(l, m, n)[i] = l[m + i]
           /\ DOMAIN Piece(l, m, n) = 1..(n - m)
           /\ m < n => Piece(l, m, n) # <<>>
<1>1. m \in Nat /\ n \in Nat /\ m <= n /\ n <= Len(l) /\ Len(l) \in Nat OBVIOUS
<1> DEFINE p == SubSeq(l, m + 1, n)
<1>2. p \in Seq(Event) /\ Len(p) = n - m /\ \A i \in 1..(n - m) : p[i] = l[m + i] BY <1>1
<1> HIDE DEF p
<1>3. DOMAIN p = 1..(n - m) BY <1>2
<1>4. m < n => p # <<>> BY <1>1, <1>2
<1> QED BY <1>2, <1>3, <1>4 DEF Piece, p

(* A piece with no completion in it is free.                               *)
LEMMA UncompletedFree ==
    ASSUME NEW l \in Seq(Event), NEW n \in 0..Len(l), NEW m \in 0..n,
           \A i \in DOMAIN l : EventShape(l[i]),
           \A i \in DOMAIN Piece(l, m, n) : Piece(l, m, n)[i].reason # "completed"
    PROVE  LoggedCost(Piece(l, m, n)) = 0
<1>1. ASSUME NEW i \in DOMAIN Piece(l, m, n) PROVE Piece(l, m, n)[i].cost = 0
  <2>0. i \in 1..(n - m) BY PieceEvents
  <2>1. Piece(l, m, n)[i] = l[m + i] BY <2>0, PieceEvents
  <2>2. m + i \in 1..Len(l) BY <2>0
  <2>3. DOMAIN l = 1..Len(l) OBVIOUS
  <2> QED BY <2>1, <2>2, <2>3 DEF EventShape
<1> QED BY <1>1, PieceEvents, FreePiece

(* What is known of one cell when both reads of a reconciliation are done. *)
LEMMA Reconciled ==
    ASSUME AuditInv, SoundDatabase(Database), Answered("reconcile"), NEW c \in Cells
    PROVE  /\ Database.log[c] \in Seq(Event)
           /\ Mark(c, "cells") \in 0..Len(Database.log[c])
           /\ Mark(c, "events") \in 0..Mark(c, "cells")
           /\ Answer("events")[c] = Upto(c, "events")
           /\ Answer("cells")[c] \in Row
           /\ Sound(c, Answer("cells")[c], Upto(c, "cells"))
<1>1. kind = "reconcile" /\ Len(got) = Len(Reads) BY DEF Answered
<1>2. Reads = <<"events", "cells">> BY <1>1 DEF Reads, ReconcileReads
<1>3. Place("events") = 1 /\ Place("cells") = 2
  <2>1. DOMAIN Reads = 1..2 /\ Reads[1] = "events" /\ Reads[2] = "cells" BY <1>2
  <2>2. \A i \in 1..2 : i = 1 \/ i = 2 OBVIOUS
  <2>3. \A i \in DOMAIN Reads : Reads[i] = "events" <=> i = 1 BY <2>1, <2>2
  <2>4. \A i \in DOMAIN Reads : Reads[i] = "cells" <=> i = 2 BY <2>1, <2>2
  <2> QED BY <2>1, <2>3, <2>4 DEF Place
<1>a. got \in Seq(Answers) /\ marks \in Seq([Cells -> Nat]) /\ Len(got) = Len(marks)
  BY DEF AuditInv, AuditType
<1>b. Len(got) = 2 /\ Len(marks) = 2 BY <1>1, <1>2, <1>a
<1>4. DOMAIN got = 1..2 /\ DOMAIN marks = 1..2 BY <1>a, <1>b
<1>c. \A k \in DOMAIN marks : marks[k] \in [Cells -> Nat] BY <1>a
<1>5. \A k \in 1..2 : marks[k] \in [Cells -> Nat] BY <1>4, <1>c
<1>6. /\ TrueOf("events", got[1], Prefixes(marks[1], Database.log))
      /\ TrueOf("cells", got[2], Prefixes(marks[2], Database.log))
  BY <1>2, <1>4 DEF AuditInv
<1>7. /\ got[1] = Prefixes(marks[1], Database.log)
      /\ got[2] \in [Cells -> Row]
      /\ Sound(c, got[2][c], Prefixes(marks[2], Database.log)[c])
  BY <1>6 DEF TrueOf
<1>8. marks[2][c] <= Len(Database.log[c]) /\ marks[1][c] <= marks[2][c]
  BY <1>4 DEF AuditInv, MarksFit
<1>9. Database.log[c] \in Seq(Event) BY DEF SoundDatabase
<1> QED BY <1>3, <1>5, <1>7, <1>8, <1>9 DEF Answer, Mark, Upto, Prefixes

(* reconcile_campaign_store raises no alarm about a sound store but for    *)
(* what was committed between its two reads, and for the lease columns     *)
(* that a retry of a leased cell leaves behind.                            *)
THEOREM AlarmsAreExplained ==
    ASSUME CostsExact
    PROVE  AuditSpec => []AlarmsExplained
<1>1. ASSUME AuditInv, SoundDatabase(Database), Answered("reconcile") PROVE AlarmsExplained
  <2>1. ASSUME NEW c \in StateDrift PROVE Between(c, "events", "cells") # <<>>
    <3> DEFINE l == Database.log[c]
               m == Mark(c, "events")
               n == Mark(c, "cells")
    <3>1. c \in Cells /\ Answer("cells")[c].state # ReplayedState(c, Answer("events")[c])
      BY DEF StateDrift
    <3>2. l \in Seq(Event) /\ n \in 0..Len(l) /\ m \in 0..n
      BY <1>1, <3>1, Reconciled
    <3>3. Upto(c, "events") # Upto(c, "cells")
      BY <1>1, <3>1, Reconciled DEF Sound
    <3>4. m # n BY <3>3 DEF Upto
    <3>5. Between(c, "events", "cells") = Piece(l, m, n) BY DEF Between, Piece
    <3> HIDE DEF l, m, n
    <3> QED BY <3>2, <3>4, <3>5, PieceEvents
  <2>2. ASSUME NEW c \in CostDrift,
               \A i \in DOMAIN Between(c, "events", "cells") :
                  Between(c, "events", "cells")[i].reason # "completed"
        PROVE  FALSE
    <3> DEFINE l == Database.log[c]
               m == Mark(c, "events")
               n == Mark(c, "cells")
               x == LoggedCost(SubSeq(l, 1, n))
               y == LoggedCost(SubSeq(l, 1, m))
    <3>1. c \in Cells BY DEF CostDrift
    <3>2. l \in Seq(Event) /\ n \in 0..Len(l) /\ m \in 0..n
      BY <1>1, <3>1, Reconciled
    <3>3. Answer("cells")[c].actual = x
      BY <1>1, <3>1, Reconciled DEF Sound, Upto
    <3>4. ReplayedCost(Answer("events")[c]) = y
      BY <1>1, <3>1, Reconciled DEF Upto, ReplayedCost, LoggedCost
    <3>5. x - y > Quantum \/ -(x - y) > Quantum BY <3>3, <3>4 DEF CostDrift
    <3>6. \A i \in DOMAIN l : EventShape(l[i])
      BY <1>1, <3>1 DEF SoundDatabase, Sound, Shaped
    <3>7. Between(c, "events", "cells") = Piece(l, m, n) BY DEF Between, Piece
    <3> HIDE DEF l, m, n
    <3>8. LoggedCost(Piece(l, m, n)) = 0 BY <2>2, <3>2, <3>6, <3>7, UncompletedFree
    <3>9. m \in 0..Len(l) /\ n \in m..Len(l) BY <3>2
    <3>10. x = y + LoggedCost(SubSeq(l, m + 1, n)) BY <3>1, <3>2, <3>9, CostsSplit
    <3>11. SubSeq(l, 1, m) \in Seq(Event) BY <3>2, <3>9
    <3>12. y \in Nat BY <3>1, <3>11, CostsType
    <3> HIDE DEF x, y
    <3>13. x = y BY <3>8, <3>10, <3>12 DEF Piece
    <3> QED BY <3>5, <3>12, <3>13, QuantumAssumption
  <2>3. IncompleteLeases = {}
    BY <1>1, Reconciled DEF IncompleteLeases, LeasedRows, Sound
  <2>4. ASSUME NEW c \in StaleLeases
        PROVE  RetriedLease(Answer("cells")[c], Upto(c, "cells"))
    BY <1>1, Reconciled DEF StaleLeases, LeasedRows, Sound, Shaped
  <2> QED BY <2>1, <2>2, <2>3, <2>4 DEF AlarmsExplained, RetriedLease
<1>2. ASSUME TypeOK, LedgerInv, SpendInv, ShapeInv, AuditInv PROVE AlarmsExplained
  <2>1. CASE Answered("reconcile") BY <1>1, <1>2, <2>1, DatabaseSound
  <2>2. CASE ~Answered("reconcile") BY <2>2 DEF AlarmsExplained
  <2> QED BY <2>1, <2>2
<1> QED BY <1>2, AuditInvariant, AuditStoreSteps, TypeCorrect, LedgerInvariant, SpendInvariant,
           ShapeInvariant, PTL

(* Between two reads the logged costs grow by what was logged in between.  *)
LEMMA CostsGrow ==
    ASSUME SoundDatabase(Database), NEW p, NEW q,
           \A c \in Cells : Mark(c, q) \in 0..Len(Database.log[c]) /\ Mark(c, p) \in 0..Mark(c, q)
    PROVE  LET more == SumFunction([c \in Cells |-> LoggedCost(Between(c, p, q))]) IN
           /\ CostUpto(p) \in Nat /\ CostUpto(q) \in Nat /\ more \in Nat
           /\ CostUpto(q) = CostUpto(p) + more
<1> DEFINE f == [c \in Cells |-> LoggedCost(Upto(c, p))]
           g == [c \in Cells |-> LoggedCost(Between(c, p, q))]
           h == [c \in Cells |-> LoggedCost(Upto(c, q))]
<1>1. ASSUME NEW c \in Cells PROVE f[c] \in Nat /\ g[c] \in Nat /\ h[c] = f[c] + g[c]
  <2> DEFINE l == Database.log[c]
             m == Mark(c, p)
             n == Mark(c, q)
  <2>1. l \in Seq(Event) BY DEF SoundDatabase
  <2>2. n \in 0..Len(l) /\ m \in 0..n OBVIOUS
  <2>3. f[c] = LoggedCost(SubSeq(l, 1, m)) /\ h[c] = LoggedCost(SubSeq(l, 1, n)) BY DEF Upto
  <2>4. g[c] = LoggedCost(SubSeq(l, m + 1, n)) BY DEF Between
  <2> HIDE DEF l, m, n, f, g, h
  <2>5. m \in 0..Len(l) /\ n \in m..Len(l) BY <2>1, <2>2
  <2>6. SubSeq(l, 1, m) \in Seq(Event) BY <2>1, <2>5
  <2>7. SubSeq(l, m + 1, n) \in Seq(Event) BY <2>1, <2>2, PieceEvents DEF Piece
  <2> QED BY <2>1, <2>3, <2>4, <2>5, <2>6, <2>7, CostsSplit, CostsType
<1>2. DOMAIN f = Cells /\ DOMAIN g = Cells /\ DOMAIN h = Cells OBVIOUS
<1>3. CostUpto(p) = SumFunction(f) /\ CostUpto(q) = SumFunction(h) BY DEF CostUpto
<1> HIDE DEF f, g, h
<1>4. /\ SumFunction(f) = SumFunctionOnSet(f, Cells) /\ SumFunction(g) = SumFunctionOnSet(g, Cells)
      /\ SumFunction(h) = SumFunctionOnSet(h, Cells)
  BY <1>2, SumOfFunction
<1>5. SumFunctionOnSet(h, Cells) = SumFunctionOnSet(f, Cells) + SumFunctionOnSet(g, Cells)
  BY <1>1, CellsFinite, SumPlus
<1>6. SumFunctionOnSet(f, Cells) \in Nat /\ SumFunctionOnSet(g, Cells) \in Nat
  BY <1>1, CellsFinite, SumNatural
<1>7. SumFunctionOnSet(h, Cells) \in Nat BY <1>5, <1>6
<1> QED BY <1>3, <1>4, <1>5, <1>6, <1>7 DEF g

(* What is known when all five reads of a status are done.                 *)
LEMMA StatusRead ==
    ASSUME AuditInv, SoundDatabase(Database), Answered("status")
    PROVE  /\ \A c \in Cells :
                 /\ Mark(c, "reserved") \in 0..Len(Database.log[c])
                 /\ Mark(c, "spent") \in 0..Mark(c, "reserved")
                 /\ Mark(c, "states") \in 0..Mark(c, "spent")
           /\ Answer("states") = [s \in CellStates |->
                 Cardinality({c \in Cells : ReplayedState(c, Upto(c, "states")) = s})]
           /\ Answer("spent") = CostUpto("spent")
           /\ Answer("reserved") =
                 EstimateOf({c \in Cells : ReplayedState(c, Upto(c, "reserved")) = "leased"})
<1>1. kind = "status" /\ Len(got) = Len(Reads) BY DEF Answered
<1>2. Reads = <<"states", "spent", "event_count", "reserved", "expired">>
  BY <1>1 DEF Reads, StatusReads
<1>3. Place("states") = 1 /\ Place("spent") = 2 /\ Place("reserved") = 4
  <2>1. /\ DOMAIN Reads = 1..5 /\ Reads[1] = "states" /\ Reads[2] = "spent"
        /\ Reads[3] = "event_count" /\ Reads[4] = "reserved" /\ Reads[5] = "expired"
    BY <1>2
  <2>2. \A i \in 1..5 : i = 1 \/ i = 2 \/ i = 3 \/ i = 4 \/ i = 5 OBVIOUS
  <2>3. \A i \in DOMAIN Reads : Reads[i] = "states" <=> i = 1 BY <2>1, <2>2
  <2>4. \A i \in DOMAIN Reads : Reads[i] = "spent" <=> i = 2 BY <2>1, <2>2
  <2>5. \A i \in DOMAIN Reads : Reads[i] = "reserved" <=> i = 4 BY <2>1, <2>2
  <2> QED BY <2>1, <2>3, <2>4, <2>5 DEF Place
<1>a. got \in Seq(Answers) /\ marks \in Seq([Cells -> Nat]) /\ Len(got) = Len(marks)
  BY DEF AuditInv, AuditType
<1>b. Len(got) = 5 /\ Len(marks) = 5 BY <1>1, <1>2, <1>a
<1>4. DOMAIN got = 1..5 /\ DOMAIN marks = 1..5 BY <1>a, <1>b
<1>c. \A k \in DOMAIN marks : marks[k] \in [Cells -> Nat] BY <1>a
<1>5. \A k \in 1..5 : marks[k] \in [Cells -> Nat] BY <1>4, <1>c
<1>6. /\ TrueOf("states", got[1], Prefixes(marks[1], Database.log))
      /\ TrueOf("spent", got[2], Prefixes(marks[2], Database.log))
      /\ TrueOf("reserved", got[4], Prefixes(marks[4], Database.log))
  BY <1>2, <1>4 DEF AuditInv
<1>7. /\ got[1] = [s \in CellStates |-> Cardinality({c \in Cells :
                      ReplayedState(c, Prefixes(marks[1], Database.log)[c]) = s})]
      /\ got[2] = SumFunction([c \in Cells |-> LoggedCost(Prefixes(marks[2], Database.log)[c])])
      /\ got[4] = EstimateOf({c \in Cells :
                      ReplayedState(c, Prefixes(marks[4], Database.log)[c]) = "leased"})
  BY <1>6 DEF TrueOf
<1>8. /\ \A c \in Cells : Prefixes(marks[1], Database.log)[c] = Upto(c, "states")
      /\ \A c \in Cells : Prefixes(marks[2], Database.log)[c] = Upto(c, "spent")
      /\ \A c \in Cells : Prefixes(marks[4], Database.log)[c] = Upto(c, "reserved")
  BY <1>3 DEF Prefixes, Upto, Mark
<1>9. ASSUME NEW c \in Cells
      PROVE  /\ marks[4][c] \in 0..Len(Database.log[c])
             /\ marks[2][c] \in 0..marks[4][c] /\ marks[1][c] \in 0..marks[2][c]
  <2>1. Len(Database.log[c]) \in Nat BY DEF SoundDatabase
  <2>2. marks[4][c] <= Len(Database.log[c]) BY <1>4 DEF AuditInv, MarksFit
  <2>3. marks[2][c] <= marks[4][c] BY <1>4 DEF AuditInv, MarksFit
  <2>4. marks[1][c] <= marks[2][c] BY <1>4 DEF AuditInv, MarksFit
  <2>5. marks[1][c] \in Nat /\ marks[2][c] \in Nat /\ marks[4][c] \in Nat BY <1>5
  <2> QED BY <2>1, <2>2, <2>3, <2>4, <2>5
<1>10. Answer("states") = [s \in CellStates |->
          Cardinality({c \in Cells : ReplayedState(c, Upto(c, "states")) = s})]
  <2>1. \A s : {c \in Cells : ReplayedState(c, Prefixes(marks[1], Database.log)[c]) = s} =
               {c \in Cells : ReplayedState(c, Upto(c, "states")) = s}
    BY <1>8
  <2> QED BY <1>3, <1>7, <2>1 DEF Answer
<1>11. Answer("spent") = CostUpto("spent")
  <2>1. [c \in Cells |-> LoggedCost(Prefixes(marks[2], Database.log)[c])] =
        [c \in Cells |-> LoggedCost(Upto(c, "spent"))]
    BY <1>8
  <2> QED BY <1>3, <1>7, <2>1 DEF Answer, CostUpto
<1>12. Answer("reserved") =
          EstimateOf({c \in Cells : ReplayedState(c, Upto(c, "reserved")) = "leased"})
  <2>1. {c \in Cells : ReplayedState(c, Prefixes(marks[4], Database.log)[c]) = "leased"} =
        {c \in Cells : ReplayedState(c, Upto(c, "reserved")) = "leased"}
    BY <1>8
  <2> QED BY <1>3, <1>7, <2>1 DEF Answer
<1> QED BY <1>3, <1>9, <1>10, <1>11, <1>12 DEF Mark

(* The event after a terminal state is a retry.                            *)
LEMMA TerminalThenRetry ==
    ASSUME SoundDatabase(Database), NEW c \in Cells, NEW read,
           Mark(c, read) \in 0..Len(Database.log[c]),
           ReplayedState(c, Upto(c, read)) \in TerminalStates, After(c, read) # <<>>
    PROVE  After(c, read)[1].reason = "requeued"
<1> DEFINE l == Database.log[c]
           m == Mark(c, read)
           s == ReplayedState(c, Upto(c, read))
<1>1. /\ l \in Seq(Event) /\ Linked(c, l) /\ \A i \in DOMAIN l : EventShape(l[i])
  BY DEF SoundDatabase, Sound, Shaped
<1>2. m \in 0..Len(l) /\ s \in TerminalStates OBVIOUS
<1>3. After(c, read) = Piece(l, m, Len(l)) BY DEF After, Piece
<1>4. Upto(c, read) = SubSeq(l, 1, m) BY DEF Upto
<1>5. s = IF SubSeq(l, 1, m) = <<>> THEN InitialState[c]
          ELSE SubSeq(l, 1, m)[Len(SubSeq(l, 1, m))].new
  BY <1>4 DEF ReplayedState
<1> HIDE DEF l, m, s
<1>6. Len(l) \in Nat /\ DOMAIN l = 1..Len(l) BY <1>1
<1>a. Len(l) \in 0..Len(l) BY <1>6
<1>7. m < Len(l)
  <2>1. m = Len(l) => Piece(l, m, Len(l)) = <<>> BY <1>1, <1>6 DEF Piece
  <2>2. After(c, read) # <<>> OBVIOUS
  <2>3. m # Len(l) BY <1>3, <2>1, <2>2, Zenon
  <2>4. \A k \in Nat : \A j \in 0..k : j # k => j < k OBVIOUS
  <2> QED BY <1>2, <1>6, <2>3, <2>4, Zenon
<1>8. Piece(l, m, Len(l))[1] = l[m + 1]
  <2>1. 1 \in 1..(Len(l) - m) BY <1>2, <1>6, <1>7
  <2> QED BY <1>1, <1>2, <1>a, <2>1, PieceEvents
<1>9. m + 1 \in DOMAIN l BY <1>2, <1>6, <1>7
<1>10. l[m + 1].prev = s
  <2>1. CASE m = 0
    <3>1. SubSeq(l, 1, m) = <<>> BY <1>1, <2>1
    <3>2. m + 1 = 1 BY <2>1
    <3>3. l[m + 1].prev = InitialState[c] BY <1>1, <1>9, <3>2 DEF Linked
    <3>4. s = InitialState[c] BY <1>5, <3>1, Zenon
    <3> QED BY <3>3, <3>4
  <2>2. CASE m # 0
    <3>1. /\ Len(SubSeq(l, 1, m)) = m /\ SubSeq(l, 1, m) # <<>> /\ SubSeq(l, 1, m)[m] = l[m]
      BY <1>1, <1>2, <1>6, <2>2
    <3>2. m + 1 # 1 /\ (m + 1) - 1 = m BY <1>2, <1>6, <2>2
    <3> QED BY <1>1, <1>5, <1>9, <3>1, <3>2 DEF Linked
  <2> QED BY <2>1, <2>2
<1>11. <<s, l[m + 1].new>> \in AllowedTransitions BY <1>1, <1>9, <1>10 DEF Linked
<1>12. s = "failed" BY <1>2, <1>11 DEF AllowedTransitions, TerminalStates
<1> QED BY <1>1, <1>3, <1>8, <1>9, <1>10, <1>12 DEF EventShape

(* campaign_store_status: a campaign reported complete was complete and    *)
(* within its budget at the first read, and the remaining budget is never  *)
(* too small, nor too large by more than was spent between its two sums.   *)
THEOREM StatusIsTrue ==
    ASSUME CostsExact
    PROVE  AuditSpec => []StatusWasTrue
<1>1. ASSUME AuditInv, SoundDatabase(Database), Answered("status") PROVE StatusWasTrue
  <2>1. /\ \A c \in Cells :
              /\ Mark(c, "reserved") \in 0..Len(Database.log[c])
              /\ Mark(c, "spent") \in 0..Mark(c, "reserved")
              /\ Mark(c, "states") \in 0..Mark(c, "spent")
        /\ \A c \in Cells : Len(Database.log[c]) \in Nat
    BY <1>1, StatusRead DEF SoundDatabase
  <2>2. \A c \in Cells :
           /\ Mark(c, "spent") \in 0..Len(Database.log[c])
           /\ Mark(c, "states") \in 0..Len(Database.log[c])
    BY <2>1
  <2> DEFINE more == SumFunction([c \in Cells |-> LoggedCost(Between(c, "spent", "reserved"))])
             reserved ==
                EstimateOf({c \in Cells : ReplayedState(c, Upto(c, "reserved")) = "leased"})
  <2>3. /\ CostUpto("spent") \in Nat /\ CostUpto("reserved") \in Nat /\ more \in Nat
        /\ CostUpto("reserved") = CostUpto("spent") + more
    BY <1>1, <2>1, CostsGrow
  <2>4. CostUpto("states") \in Nat /\ CostUpto("states") <= CostUpto("spent")
    <3>1. /\ CostUpto("states") \in Nat
          /\ SumFunction([c \in Cells |-> LoggedCost(Between(c, "states", "spent"))]) \in Nat
          /\ CostUpto("spent") = CostUpto("states")
                + SumFunction([c \in Cells |-> LoggedCost(Between(c, "states", "spent"))])
      BY <1>1, <2>1, <2>2, CostsGrow
    <3> QED BY <3>1
  <2>5. reserved \in Nat
    <3> DEFINE S == {c \in Cells : ReplayedState(c, Upto(c, "reserved")) = "leased"}
    <3>1. S \in SUBSET Cells OBVIOUS
    <3> HIDE DEF S
    <3>2. IsFiniteSet(S) /\ \A c \in S : Estimate[c] \in Nat
      BY <3>1, CellsFinite, FS_Subset, ManifestAssumption
    <3>3. EstimateOf(S) \in Nat BY <3>2, SumNatural DEF EstimateOf
    <3> QED BY <3>3 DEF S
  <2>6. Answer("spent") = CostUpto("spent") /\ Answer("reserved") = reserved
    BY <1>1, StatusRead
  <2>7. /\ ReportedRemaining = HardBudget - CostUpto("spent") - reserved
        /\ LeftAt("reserved") = HardBudget - CostUpto("reserved") - reserved
    BY <2>6 DEF ReportedRemaining, LeftAt
  <2> HIDE DEF reserved, more
  <2>8. /\ ReportedRemaining >= LeftAt("reserved")
        /\ ReportedRemaining - LeftAt("reserved") <= more
    BY <2>3, <2>5, <2>7, ManifestAssumption
  <2>9. ASSUME ReportedComplete
        PROVE  /\ \A c \in Cells : ReplayedState(c, Upto(c, "states")) \in TerminalStates
               /\ CostUpto("states") <= HardBudget
               /\ \A c \in Cells :
                     After(c, "states") # <<>> => After(c, "states")[1].reason = "requeued"
    <3>1. CostUpto("spent") <= HardBudget BY <2>6, <2>9 DEF ReportedComplete
    <3>2. CostUpto("states") <= HardBudget BY <2>3, <2>4, <3>1, ManifestAssumption
    <3>3. \A c \in Cells : ReplayedState(c, Upto(c, "states")) \in TerminalStates
      <4> DEFINE st == [c \in Cells |-> ReplayedState(c, Upto(c, "states"))]
      <4>1. \A s \in TerminalStates :
               Answer("states")[s] =
                  Cardinality({c \in Cells : ReplayedState(c, Upto(c, "states")) = s})
        BY <1>1, StatusRead DEF TerminalStates, CellStates
      <4>2. \A s : {c \in Cells : ReplayedState(c, Upto(c, "states")) = s} =
                   {c \in Cells : st[c] = s}
        OBVIOUS
      <4>3. \A s \in TerminalStates : Answer("states")[s] = Cardinality({c \in Cells : st[c] = s})
        BY <4>1, <4>2
      <4>4. SumFunctionOnSet(Answer("states"), TerminalStates) = NumCells
        BY <2>9 DEF ReportedComplete, InStates
      <4>8. Cardinality(Cells) = NumCells BY CellsAssumption, FS_Interval DEF Cells
      <4>5. IsFiniteSet(TerminalStates)
        <5>1. IsFiniteSet((({} \cup {"succeeded"}) \cup {"failed"}) \cup {"quarantined"})
          BY FS_EmptySet, FS_AddElement, Zenon
        <5>2. IsFiniteSet(
                 ((({} \cup {"succeeded"}) \cup {"failed"}) \cup {"quarantined"}) \cup {"cancelled"})
          BY <5>1, FS_AddElement, Zenon
        <5>3. TerminalStates =
                 ((({} \cup {"succeeded"}) \cup {"failed"}) \cup {"quarantined"}) \cup {"cancelled"}
          BY DEF TerminalStates
        <5> QED BY <5>2, <5>3, Zenon
      <4>6. \A c \in Cells : st[c] = ReplayedState(c, Upto(c, "states")) OBVIOUS
      <4> HIDE DEF st
      <4> DEFINE n == Answer("states")
                 A == TerminalStates
      <4>9. /\ \A s \in A : n[s] = Cardinality({c \in Cells : st[c] = s})
            /\ SumFunctionOnSet(n, A) = Cardinality(Cells)
            /\ IsFiniteSet(A) /\ IsFiniteSet(Cells)
        BY <4>3, <4>4, <4>5, <4>8, CellsFinite
      <4> HIDE DEF n, A
      <4>10. /\ SumFunctionOnSet(n, A) = Cardinality({c \in Cells : st[c] \in A})
             /\ SumFunctionOnSet(n, A) = Cardinality(Cells) => \A c \in Cells : st[c] \in A
        BY <4>9, SumOfCounts, Zenon
      <4>7. \A c \in Cells : st[c] \in TerminalStates BY <4>9, <4>10 DEF A
      <4> QED BY <4>6, <4>7
    <3>4. ASSUME NEW c \in Cells, After(c, "states") # <<>>
          PROVE  After(c, "states")[1].reason = "requeued"
      BY <1>1, <2>2, <3>3, <3>4, TerminalThenRetry
    <3> QED BY <3>2, <3>3, <3>4
  <2> QED BY <2>8, <2>9 DEF StatusWasTrue, more
<1>2. ASSUME TypeOK, LedgerInv, SpendInv, ShapeInv, AuditInv PROVE StatusWasTrue
  <2>1. CASE Answered("status") BY <1>1, <1>2, <2>1, DatabaseSound
  <2>2. CASE ~Answered("status") BY <2>2 DEF StatusWasTrue
  <2> QED BY <2>1, <2>2
<1> QED BY <1>2, AuditInvariant, AuditStoreSteps, TypeCorrect, LedgerInvariant, SpendInvariant,
           ShapeInvariant, PTL

-----------------------------------------------------------------------------
(* The worker.                                                             *)

USE DEF Cells

(* A recorded cost is rounded already: rounding it again, as _insert_event *)
(* does with the cost the worker rounded, changes nothing.                 *)
LEMMA RoundedOnce ==
    ASSUME NEW cost \in Nat
    PROVE  Rounded(Rounded(cost)) = Rounded(cost)
<1> DEFINE h == Quantum \div 2
           n == (cost + h) \div Quantum
           p == Quantum * n
           m == (p + h) \div Quantum
<1>1. Quantum \in Nat /\ Quantum > 0 BY QuantumAssumption
<1>2. h \in Nat /\ h < Quantum BY <1>1
<1> HIDE DEF h
<1>3. n \in Nat BY <1>1, <1>2
<1> HIDE DEF n
<1>4. \A a, b \in Nat : a * b \in Nat OBVIOUS
<1>5. p \in Nat BY <1>1, <1>3, <1>4
<1>6. \A x \in Nat : x \div Quantum \in Nat
      /\ Quantum * (x \div Quantum) <= x /\ x < Quantum * (x \div Quantum) + Quantum
  BY <1>1
<1>7. p + h \in Nat BY <1>2, <1>5
<1>8. m \in Nat /\ Quantum * m <= p + h /\ p + h < Quantum * m + Quantum
  BY <1>6, <1>7
<1> HIDE DEF m
<1>9. \A a, b \in Nat : a < b => Quantum * a + Quantum <= Quantum * b
  BY <1>1
<1>10. ~(m < n) BY <1>1, <1>2, <1>3, <1>4, <1>5, <1>8, <1>9 DEF p
<1>11. ~(n < m)
  <2>1. ASSUME n < m PROVE FALSE
    <3>1. p + Quantum <= Quantum * m BY <1>3, <1>8, <1>9, <2>1 DEF p
    <3>2. Quantum * m \in Nat BY <1>1, <1>4, <1>8
    <3> HIDE DEF p
    <3> QED BY <1>1, <1>2, <1>5, <1>8, <3>1, <3>2
  <2> QED BY <2>1
<1>12. m = n BY <1>3, <1>8, <1>10, <1>11
<1> QED BY <1>12 DEF Rounded, h, n, p, m

-----------------------------------------------------------------------------
(* What a step of the store does to the log and the lease of one cell.     *)

Added(c) == DOMAIN log'[c] \ DOMAIN log[c]

\* Events are only added, a lease is the one of before or has a new token,
\* and only a lease is completed.
Goes(c) ==
    /\ DOMAIN log[c] \subseteq DOMAIN log'[c]
    /\ \A i \in DOMAIN log[c] : log'[c][i] = log[c][i]
    /\ cell'[c].state = "leased" =>
          \/ ~TokenUsed(cell'[c].token)
          \/ cell[c].state = "leased" /\ Holder(cell'[c]) = Holder(cell[c])
    /\ \A i \in Added(c) : log'[c][i].reason = "completed" =>
          cell[c].state = "leased" /\ Holder(log'[c][i]) = Holder(cell[c])

Completing(c) == \E i \in Added(c) : log'[c][i].reason = "completed"

LEMMA AppendedIs ==
    ASSUME NEW l \in Seq(Event), NEW e
    PROVE  /\ DOMAIN l \subseteq DOMAIN Append(l, e)
           /\ \A i \in DOMAIN l : Append(l, e)[i] = l[i]
           /\ DOMAIN Append(l, e) \ DOMAIN l = {Len(l) + 1}
           /\ Append(l, e)[Len(l) + 1] = e
OBVIOUS

\* Nothing happens to the log of a cell that keeps its lease.
LEMMA RestGoes ==
    ASSUME NEW c \in Cells, log'[c] = log[c],
           cell'[c].state = "leased" => cell[c].state = "leased",
           cell'[c].state = "leased" => Holder(cell'[c]) = Holder(cell[c])
    PROVE  Goes(c) /\ ~Completing(c)
BY DEF Goes, Completing, Added

LEMMA AppendGoes ==
    ASSUME NEW c \in Cells, log[c] \in Seq(Event), NEW e, log'[c] = Append(log[c], e),
           cell'[c].state = "leased" =>
               \/ ~TokenUsed(cell'[c].token)
               \/ cell[c].state = "leased" /\ Holder(cell'[c]) = Holder(cell[c]),
           e.reason = "completed" =>
               cell[c].state = "leased" /\ Holder(e) = Holder(cell[c])
    PROVE  /\ Goes(c)
           /\ e.reason # "completed" => ~Completing(c)
           /\ Added(c) = {Len(log[c]) + 1} /\ log'[c][Len(log[c]) + 1] = e
<1>1. /\ DOMAIN log[c] \subseteq DOMAIN log'[c]
      /\ \A i \in DOMAIN log[c] : log'[c][i] = log[c][i]
      /\ Added(c) = {Len(log[c]) + 1} /\ log'[c][Len(log[c]) + 1] = e
  BY AppendedIs DEF Added
<1> QED BY <1>1 DEF Goes, Completing

(* One cell is updated.                                                    *)
LEMMA UpdateGoes ==
    ASSUME TypeOK, NEW c \in Cells, NEW row, NEW e, Update(c, row, e),
           row.state = "leased" => cell[c].state = "leased" /\ Holder(row) = Holder(cell[c]),
           e.reason = "completed" =>
               cell[c].state = "leased" /\ Holder(e) = Holder(cell[c])
    PROVE  /\ \A x \in Cells : Goes(x)
           /\ \A x \in Cells : x # c => ~Completing(x)
           /\ e.reason # "completed" => ~Completing(c)
           /\ Added(c) = {Len(log[c]) + 1} /\ log'[c][Len(log[c]) + 1] = e
<1>1. cell'[c] = row /\ log'[c] = Append(log[c], e) /\ log[c] \in Seq(Event)
  BY DEF Update, TypeOK
<1>2. ASSUME NEW x \in Cells, x # c PROVE cell'[x] = cell[x] /\ log'[x] = log[x]
  BY <1>2 DEF Update, TypeOK
<1>3. ASSUME NEW x \in Cells, x # c PROVE Goes(x) /\ ~Completing(x)
  BY <1>2, <1>3, RestGoes
<1>4. /\ Goes(c) /\ e.reason # "completed" => ~Completing(c)
      /\ Added(c) = {Len(log[c]) + 1} /\ log'[c][Len(log[c]) + 1] = e
  BY <1>1, AppendGoes
<1>5. ASSUME NEW x \in Cells PROVE Goes(x)
  <2>1. CASE x # c BY <1>3, <2>1
  <2>2. CASE x = c
    <3>1. cell'[x] = row /\ log'[x] = Append(log[x], e) /\ log[x] \in Seq(Event)
      BY <1>1, <2>2
    <3> QED BY <2>2, <3>1, AppendGoes
  <2> QED BY <2>1, <2>2
<1> QED BY <1>3, <1>4, <1>5

(* Leases that expired are taken back.                                     *)
LEMMA ReclaimedGoes ==
    ASSUME TypeOK, NEW c \in Cells, NEW d \in 0..MaxWait,
           cell'[c] = ReclaimedRow(c, d), log'[c] = ReclaimedLog(c, d)
    PROVE  Goes(c) /\ ~Completing(c)
<1>1. CASE ~Expired(c, d)
  BY <1>1, RestGoes DEF ReclaimedRow, ReclaimedLog
<1>2. CASE Expired(c, d)
  <2>1. cell[c] \in Row /\ log[c] \in Seq(Event) BY DEF TypeOK
  <2>2. cell'[c].state = "ready" BY <1>2, <2>1, UnleasedFields DEF ReclaimedRow, CellStates
  <2> DEFINE e == EventOf(cell[c], cell[c].owner, cell[c].token, "ready", 0, "lease-expired")
  <2>3. log'[c] = Append(log[c], e) BY <1>2 DEF ReclaimedLog
  <2>4. e.reason = "lease-expired" BY DEF EventOf
  <2> HIDE DEF e
  <2> QED BY <2>1, <2>2, <2>3, <2>4, AppendGoes
<1> QED BY <1>1, <1>2

(* What is granted has a token that nobody had, and the first event that   *)
(* bears it.                                                               *)
Fresh(c, w, term, d) ==
    /\ cell'[c].token \in Tokens /\ ~TokenUsed(cell'[c].token)
    /\ cell'[c].owner = w /\ cell'[c].ttl = term - d
    /\ \E i \in DOMAIN log'[c] : log'[c][i].token = cell'[c].token

LEMMA LeaseGoes ==
    ASSUME TypeOK, NEW w \in Workers, NEW filter \in Filters, NEW limit \in Limits,
           NEW term \in Terms, NEW d \in 0..MaxWait, Lease(w, filter, limit, term, d)
    PROVE  \A c \in Cells :
              /\ Goes(c) /\ ~Completing(c)
              /\ cell'[c].state = "leased" /\ cell'[c].attempt # cell[c].attempt =>
                    Fresh(c, w, term, d)
              /\ cell[c].state = "leased" /\ ~Expired(c, d) => cell'[c] = cell[c]
<1>1. PICK S \in SUBSET Ready(filter, d) :
           \E tok \in FreshTokens(S) : LeaseCells(S, tok, w, term, d)
  BY DEF Lease
<1>2. PICK tok \in FreshTokens(S) : LeaseCells(S, tok, w, term, d)
  BY <1>1
<1>3. \A c \in S : tok[c] \in Tokens /\ ~TokenUsed(tok[c]) BY <1>2 DEF FreshTokens
<1>4. term - d \in Int BY ArgumentsAssumption, ClockAssumption
<1>5. TAKE c \in Cells
<1> DEFINE row == ReclaimedRow(c, d)
           l == ReclaimedLog(c, d)
<1>6. /\ cell[c] \in Row /\ log[c] \in Seq(Event) /\ row \in Row /\ l \in Seq(Event)
  BY ReclaimedType DEF TypeOK
<1>7. cell[c].state = "leased" /\ ~Expired(c, d) => row = cell[c] BY DEF ReclaimedRow
<1>8. CASE c \notin S
  <2>1. cell'[c] = row /\ log'[c] = l BY <1>2, <1>8 DEF LeaseCells
  <2>2. Goes(c) /\ ~Completing(c) BY <2>1, ReclaimedGoes
  <2>3. row.state = "leased" => row = cell[c]
    BY <1>6, UnleasedFields DEF ReclaimedRow, CellStates
  <2> QED BY <1>7, <2>1, <2>2, <2>3
<1>9. CASE c \in S
  <2> DEFINE e == LeaseEvent(row, w, tok[c])
  <2>1. /\ cell'[c] = LeasedRow(row, w, tok[c], term - d) /\ log'[c] = Append(l, e)
    BY <1>2, <1>9 DEF LeaseCells
  <2>2. row.state = "ready" BY <1>1, <1>9 DEF Ready
  <2>3. tok[c] \in Tokens /\ ~TokenUsed(tok[c]) BY <1>3, <1>9
  <2>4. e.token = tok[c] /\ e.reason = "worker-lease" BY DEF LeaseEvent
  <2>5. l = log[c] \/ \E x : l = Append(log[c], x) /\ x.reason = "lease-expired"
    BY DEF ReclaimedLog, EventOf
  <2>6. ~(cell[c].state = "leased" /\ ~Expired(c, d)) BY <1>7, <2>2
  <2> HIDE DEF row, l, e
  <2>7. /\ cell'[c].token = tok[c] /\ cell'[c].owner = w /\ cell'[c].ttl = term - d
    BY <1>4, <1>6, <2>1, <2>3 DEF LeasedRow, Row
  <2>8. /\ DOMAIN log[c] \subseteq DOMAIN l
        /\ \A i \in DOMAIN log[c] : l[i] = log[c][i]
        /\ \A i \in DOMAIN l \ DOMAIN log[c] : l[i].reason = "lease-expired"
    <3>1. CASE l = log[c] BY <3>1
    <3>2. CASE \E x : l = Append(log[c], x) /\ x.reason = "lease-expired"
      BY <1>6, <3>2, AppendedIs
    <3> QED BY <2>5, <3>1, <3>2
  <2>9. /\ DOMAIN l \subseteq DOMAIN log'[c]
        /\ \A i \in DOMAIN l : log'[c][i] = l[i]
        /\ DOMAIN log'[c] \ DOMAIN l = {Len(l) + 1} /\ log'[c][Len(l) + 1] = e
    BY <1>6, <2>1, AppendedIs
  <2>10. \A i \in Added(c) : log'[c][i].reason # "completed"
    <3>1. TAKE i \in Added(c)
    <3>2. i \in DOMAIN log'[c] /\ i \notin DOMAIN log[c] BY DEF Added
    <3>3. CASE i \in DOMAIN l BY <2>8, <2>9, <3>2, <3>3
    <3>4. CASE i \notin DOMAIN l
      <4>1. log'[c][i] = e BY <2>9, <3>2, <3>4
      <4> QED BY <2>4, <4>1
    <3> QED BY <3>3, <3>4
  <2>11. Goes(c) /\ ~Completing(c)
    BY <2>3, <2>7, <2>8, <2>9, <2>10 DEF Goes, Completing
  <2>12. Fresh(c, w, term, d) BY <2>3, <2>4, <2>7, <2>9 DEF Fresh
  <2> QED BY <2>6, <2>11, <2>12
<1> QED BY <1>8, <1>9

LEMMA HeartbeatGoes ==
    ASSUME TypeOK, NEW c \in Cells, NEW w \in Workers, NEW t \in Tokens, NEW term \in Terms,
           NEW d \in 0..MaxWait, Heartbeat(c, w, t, term, d)
    PROVE  \A x \in Cells : Goes(x) /\ ~Completing(x)
<1> DEFINE e == EventOf(cell[c], w, t, "leased", 0, "lease-heartbeat")
           new == [cell[c] EXCEPT !.ttl = IF term - d > @ THEN term - d ELSE @]
<1>1. Owns(c, w, t, d) /\ Update(c, new, e) BY DEF Heartbeat
<1>2. cell[c] \in Row BY DEF TypeOK
<1>3. Holder(new) = Holder(cell[c]) BY <1>2 DEF Row, Holder
<1>4. e.reason = "lease-heartbeat" BY DEF EventOf
<1>5. cell[c].state = "leased" BY <1>1 DEF Owns
<1> HIDE DEF e, new
<1> QED BY <1>1, <1>3, <1>4, <1>5, UpdateGoes

LEMMA RequeueGoes ==
    ASSUME TypeOK, NEW c \in Cells, NEW w \in Operators, Requeue(c, w)
    PROVE  \A x \in Cells : Goes(x) /\ ~Completing(x)
<1> DEFINE e == EventOf(cell[c], w, None, "ready", 0, "requeued")
           new == [cell[c] EXCEPT !.state = "ready", !.artifact = FALSE]
<1>1. Update(c, new, e) BY DEF Requeue
<1>2. cell[c] \in Row BY DEF TypeOK
<1>3. new.state = "ready" BY <1>2 DEF Row
<1>4. e.reason = "requeued" BY DEF EventOf
<1> HIDE DEF e, new
<1> QED BY <1>1, <1>3, <1>4, UpdateGoes

LEMMA ReclaimGoes ==
    ASSUME TypeOK, NEW d \in 0..MaxWait, Reclaim(d)
    PROVE  \A c \in Cells : Goes(c) /\ ~Completing(c)
<1>1. TAKE c \in Cells
<1>2. cell'[c] = ReclaimedRow(c, d) /\ log'[c] = ReclaimedLog(c, d) BY DEF Reclaim
<1> QED BY <1>2, ReclaimedGoes

LEMMA TickGoes ==
    ASSUME TypeOK, Tick
    PROVE  \A c \in Cells : Goes(c) /\ ~Completing(c)
<1>1. TAKE c \in Cells
<1>2. cell'[c] = Older(cell[c]) /\ log'[c] = log[c] BY DEF Tick
<1>3. cell[c] \in Row BY DEF TypeOK
<1>4. Older(cell[c]).state = cell[c].state /\ Holder(Older(cell[c])) = Holder(cell[c])
  BY <1>3 DEF Older, Row, Holder
<1> QED BY <1>2, <1>4, RestGoes

\* The event that completes an attempt.
CompletedAs(e, row, w, t, st, cost) ==
    /\ e.reason = "completed" /\ e.token = t /\ e.worker = w /\ e.new = st
    /\ e.attempt = row.attempt /\ e.cost = Rounded(cost)

LEMMA CompleteGoes ==
    ASSUME TypeOK, NEW c \in Cells, NEW w \in Workers, NEW t \in Tokens, NEW d \in 0..MaxWait,
           NEW st \in CompletionStates, NEW cost \in Nat, NEW artifact \in BOOLEAN,
           Complete(c, w, t, st, cost, artifact, d)
    PROVE  /\ \A x \in Cells : Goes(x) /\ (x # c => ~Completing(x) /\ cell'[x] = cell[x])
           /\ cell[c].state = "leased" /\ cell[c].owner = w /\ cell[c].token = t
           /\ \A i \in Added(c) : CompletedAs(log'[c][i], cell[c], w, t, st, cost)
           /\ \E i \in Added(c) : TRUE
<1> DEFINE e == EventOf(cell[c], w, t, st, Rounded(cost), "completed")
           new == [Unleased(cell[c]) EXCEPT !.state = st, !.actual = @ + cost,
                                            !.artifact = artifact]
<1>1. Owns(c, w, t, d) /\ Update(c, new, e) BY DEF Complete
<1>2. cell[c] \in Row BY DEF TypeOK
<1>3. st \in CellStates /\ st # "leased" BY DEF CompletionStates, CellStates
<1>4. new.state = st BY <1>2, <1>3, CompletedFields
<1>5. cell[c].state = "leased" /\ cell[c].owner = w /\ cell[c].token = t BY <1>1 DEF Owns
<1>6. CompletedAs(e, cell[c], w, t, st, cost) BY DEF EventOf, CompletedAs
<1>7. Holder(e) = Holder(cell[c]) BY <1>5, <1>6 DEF Holder, CompletedAs
<1>8. \A x \in Cells : x # c => cell'[x] = cell[x] BY <1>1 DEF Update, TypeOK
<1> HIDE DEF e, new
<1>9. /\ \A x \in Cells : Goes(x)
      /\ \A x \in Cells : x # c => ~Completing(x)
      /\ Added(c) = {Len(log[c]) + 1} /\ log'[c][Len(log[c]) + 1] = e
  BY <1>1, <1>3, <1>4, <1>5, <1>7, UpdateGoes
<1>10. \A i \in Added(c) : log'[c][i] = e BY <1>9
<1> QED BY <1>5, <1>6, <1>8, <1>9, <1>10

-----------------------------------------------------------------------------
(* Batches.                                                                *)

LeaseRecord == [cell : Cells, token : Tokens, attempt : Nat, waited : BOOLEAN]

WorkerTyped ==
    /\ pc \in [Workers -> {"idle", "loop", "running", "ended", "writing"}]
    /\ batch \in [Workers -> SUBSET LeaseRecord]
    /\ beat \in [Workers -> {"on", "off"}]
    /\ result \in [Workers -> [state : CompletionStates, cost : Nat, artifact : BOOLEAN]]
    /\ crashes \in Nat
    /\ \A w \in Workers : pc[w] # "idle" => batch[w] # {}

\* A batch has one lease of a cell, and all but the first lease wait.
InOrder(b) ==
    \A l, m \in b : \/ l = m
                    \/ l.cell < m.cell /\ m.waited
                    \/ m.cell < l.cell /\ l.waited

\* The log knows the lease's token, on its attempt and on no other.
Backs(l) ==
    /\ \E i \in DOMAIN log[l.cell] : log[l.cell][i].token = l.token
    /\ cell[l.cell].state = "leased" /\ cell[l.cell].token = l.token =>
          cell[l.cell].attempt = l.attempt
    /\ \A i \in Completions(l.cell) :
          log[l.cell][i].token = l.token => log[l.cell][i].attempt = l.attempt

BatchInv ==
    /\ WorkerTyped
    /\ \A w \in Workers : InOrder(batch[w])
    /\ \A w \in Workers : \A l \in batch[w] : Backs(l)

\* The least cell of a batch is the current one.
LEMMA LeastOf ==
    ASSUME NEW b \in SUBSET LeaseRecord, b # {}
    PROVE  LET l == CHOOSE l \in b : \A m \in b : l.cell <= m.cell
           IN  l \in b /\ \A m \in b : l.cell <= m.cell
<1> DEFINE S == {l.cell : l \in b}
           R == OpToRel(<, Nat)
<1>1. S \subseteq Nat /\ S # {} BY CellsAssumption DEF LeaseRecord
<1> HIDE DEF S
<1>2. \E x \in S : \A y \in S : x <= y
  <2> SUFFICES ASSUME \A x \in S : \E y \in S : y < x PROVE FALSE
    BY <1>1
  <2>1. PICK x \in S : \A y \in S : <<y, x>> \notin R
    BY <1>1, WFMin, NatLessThanWellFounded
  <2> QED BY <1>1, <2>1 DEF OpToRel
<1>3. \E l \in b : \A m \in b : l.cell <= m.cell BY <1>2 DEF S
<1> QED BY <1>3

LEMMA CurrentIs ==
    ASSUME WorkerTyped, NEW w \in Workers, pc[w] # "idle"
    PROVE  /\ Current(w) \in batch[w] /\ Current(w) \in LeaseRecord
           /\ \A m \in batch[w] : Current(w).cell <= m.cell
BY LeastOf DEF WorkerTyped, Current

\* A lease stays backed whatever the store does to its cell.
LEMMA BacksStays ==
    ASSUME NEW l \in LeaseRecord, Backs(l), Goes(l.cell)
    PROVE  Backs(l)'
<1> DEFINE c == l.cell
<1>1. PICK i \in DOMAIN log[c] : log[c][i].token = l.token BY DEF Backs
<1>2. i \in DOMAIN log'[c] /\ log'[c][i].token = l.token BY <1>1 DEF Goes
<1>3. TokenUsed(l.token) BY <1>1 DEF TokenUsed, LeaseRecord
<1>4. ASSUME cell'[c].state = "leased", cell'[c].token = l.token
      PROVE  cell'[c].attempt = l.attempt
  <2>1. cell[c].state = "leased" /\ Holder(cell'[c]) = Holder(cell[c])
    BY <1>3, <1>4 DEF Goes
  <2> QED BY <1>4, <2>1 DEF Backs, Holder
<1>5. ASSUME NEW j \in DOMAIN log'[c], log'[c][j].reason = "completed",
             log'[c][j].token = l.token
      PROVE  log'[c][j].attempt = l.attempt
  <2>1. CASE j \in DOMAIN log[c]
    BY <1>5, <2>1 DEF Goes, Backs, Completions
  <2>2. CASE j \notin DOMAIN log[c]
    <3>1. cell[c].state = "leased" /\ Holder(log'[c][j]) = Holder(cell[c])
      BY <1>5, <2>2 DEF Goes, Added
    <3> QED BY <1>5, <3>1 DEF Backs, Holder
  <2> QED BY <2>1, <2>2
<1> QED BY <1>2, <1>4, <1>5 DEF Backs, Completions

\* What a result may be.
LEMMA ResultsTyped ==
    ASSUME NEW c \in Cells, NEW r \in ResultsOf(c)
    PROVE  r \in [state : CompletionStates, cost : Nat, artifact : BOOLEAN]
BY ArgumentsAssumption, ManifestAssumption DEF ResultsOf, CompletionStates

\* The leases a transaction granted make a batch.
LEMMA GrantedAre ==
    ASSUME TypeOK, TypeOK', NEW w \in Workers, NEW filter \in Filters, NEW limit \in Limits,
           NEW term \in Terms, NEW d \in 0..MaxWait, Lease(w, filter, limit, term, d)
    PROVE  /\ NewLeases \in SUBSET LeaseRecord /\ InOrder(NewLeases)
           /\ \A l \in NewLeases :
                 /\ Backs(l)'
                 /\ cell'[l.cell].state = "leased" /\ cell'[l.cell].owner = w
                 /\ cell'[l.cell].token = l.token /\ cell'[l.cell].ttl = term - d
<1> DEFINE lot == {c \in Cells : cell'[c].state = "leased" /\ cell'[c].attempt # cell[c].attempt}
           lease(c) == [cell |-> c, token |-> cell'[c].token, attempt |-> cell'[c].attempt,
                        waited |-> \E x \in lot : x < c]
<1>1. NewLeases = {lease(c) : c \in lot} BY DEF NewLeases
<1>2. ASSUME NEW c \in lot
      PROVE  Goes(c) /\ ~Completing(c) /\ Fresh(c, w, term, d)
  BY LeaseGoes
<1>3. ASSUME NEW c \in lot PROVE cell'[c].attempt \in Nat /\ cell'[c].token \in Tokens
  BY <1>2 DEF TypeOK, Row, Fresh
<1>4. \A c \in lot : lease(c) \in LeaseRecord BY <1>3 DEF LeaseRecord
<1>5. ASSUME NEW b \in lot, NEW c \in lot
      PROVE  \/ lease(b) = lease(c)
             \/ lease(b).cell < lease(c).cell /\ lease(c).waited
             \/ lease(c).cell < lease(b).cell /\ lease(b).waited
  <2>1. b < c \/ c < b \/ b = c BY CellsAssumption
  <2>2. b < c => lease(c).waited OBVIOUS
  <2>3. c < b => lease(b).waited OBVIOUS
  <2> QED BY <2>1, <2>2, <2>3
<1>6. ASSUME NEW c \in lot
      PROVE  /\ cell'[c].state = "leased" /\ cell'[c].owner = w /\ cell'[c].ttl = term - d
             /\ \E i \in DOMAIN log'[c] : log'[c][i].token = cell'[c].token
             /\ \A i \in DOMAIN log'[c] : log'[c][i].reason = "completed" =>
                   log'[c][i].token # cell'[c].token
  <2>1. \A i \in DOMAIN log[c] : log[c][i].token # cell'[c].token
    BY <1>2 DEF Fresh, TokenUsed
  <2>2. ASSUME NEW i \in DOMAIN log'[c], log'[c][i].reason = "completed"
        PROVE  log'[c][i].token # cell'[c].token
    <3>1. i \in DOMAIN log[c] BY <1>2, <2>2 DEF Completing, Added
    <3> QED BY <1>2, <2>1, <3>1 DEF Goes
  <2> QED BY <1>2, <2>2 DEF Fresh
<1>7. ASSUME NEW c \in lot, NEW l, l = lease(c) PROVE Backs(l)'
  <2>1. l.cell = c /\ l.token = cell'[c].token /\ l.attempt = cell'[c].attempt BY <1>7
  <2> HIDE DEF lease
  <2> QED BY <1>6, <2>1 DEF Backs, Completions
<1> HIDE DEF lot
<1>8. InOrder(NewLeases)
  <2> HIDE DEF lease
  <2> QED BY <1>1, <1>5 DEF InOrder
<1>9. ASSUME NEW l \in NewLeases
      PROVE  /\ Backs(l)'
             /\ cell'[l.cell].state = "leased" /\ cell'[l.cell].owner = w
             /\ cell'[l.cell].token = l.token /\ cell'[l.cell].ttl = term - d
  <2>1. PICK c \in lot : l = lease(c) BY <1>1
  <2>2. l.cell = c /\ l.token = cell'[c].token BY <2>1
  <2> QED BY <1>6, <1>7, <2>1, <2>2
<1> QED BY <1>1, <1>4, <1>8, <1>9

\* What the worker's steps are to the store.
LEMMA StoreOfWorker ==
    ASSUME TypeOK, LedgerInv, WorkerTyped, [WorkerNext]_allVars
    PROVE  TypeOK' /\ LedgerInv' /\ \A c \in Cells : Goes(c)
<1>0. ASSUME UNCHANGED vars PROVE TypeOK' /\ LedgerInv' /\ \A c \in Cells : Goes(c)
  <2>1. TypeOK' /\ LedgerInv' BY <1>0, TypeStep, LedgerStep
  <2> QED BY <1>0, <2>1, RestGoes DEF vars
<1>1. ASSUME NEW w \in Workers, StartBatch(w)
      PROVE TypeOK' /\ LedgerInv' /\ \A c \in Cells : Goes(c)
  <2>1. PICK filter \in Filters, limit \in Limits, term \in Terms, d \in 0..MaxWait :
             Lease(w, filter, limit, term, d)
    BY <1>1 DEF StartBatch
  <2>2. LeaseAny BY <2>1 DEF LeaseAny
  <2>3. TypeOK' /\ LedgerInv' BY <2>2, TypeStep, LedgerStep DEF Next
  <2> QED BY <2>1, <2>3, LeaseGoes
<1>2. ASSUME NEW w \in Workers, CompleteRun(w)
      PROVE TypeOK' /\ LedgerInv' /\ \A c \in Cells : Goes(c)
  <2>1. Current(w) \in LeaseRecord BY <1>2, CurrentIs DEF CompleteRun
  <2>2. /\ result[w].state \in CompletionStates /\ result[w].cost \in Nat
        /\ result[w].artifact \in BOOLEAN
    BY DEF WorkerTyped
  <2>3. Rounded(result[w].cost) \in Nat BY <2>2, RoundedType
  <2>4. PICK d \in 0..MaxWait :
             Complete(Current(w).cell, w, Current(w).token, result[w].state,
                      Rounded(result[w].cost), result[w].artifact, d)
    BY <1>2 DEF CompleteRun
  <2>5. Current(w).cell \in Cells /\ Current(w).token \in Tokens BY <2>1 DEF LeaseRecord
  <2> QED BY <2>2, <2>3, <2>4, <2>5, CompleteTyped, CompleteKeeps, CompleteGoes
<1>3. ASSUME NEW w \in Workers, Beat(w)
      PROVE TypeOK' /\ LedgerInv' /\ \A c \in Cells : Goes(c)
  <2>1. Current(w) \in LeaseRecord BY <1>3, CurrentIs DEF Beat
  <2>2. PICK term \in Terms, d \in 0..MaxWait :
             Heartbeat(Current(w).cell, w, Current(w).token, term, d)
    BY <1>3 DEF Beat
  <2>3. Current(w).cell \in Cells /\ Current(w).token \in Tokens BY <2>1 DEF LeaseRecord
  <2>4. HeartbeatAny BY <2>2, <2>3 DEF HeartbeatAny
  <2>5. TypeOK' /\ LedgerInv' BY <2>4, TypeStep, LedgerStep DEF Next
  <2> QED BY <2>2, <2>3, <2>5, HeartbeatGoes
<1>4. ASSUME Operator PROVE TypeOK' /\ LedgerInv' /\ \A c \in Cells : Goes(c)
  <2>1. Next BY <1>4 DEF Operator, Next
  <2>2. TypeOK' /\ LedgerInv' BY <2>1, TypeStep, LedgerStep
  <2>3. ASSUME Initialise, NEW c \in Cells PROVE Goes(c)
    <3>1. cell' = cell /\ log' = log BY <2>3 DEF Initialise
    <3> QED BY <3>1, RestGoes
  <2>4. ASSUME RequeueAny, NEW c \in Cells PROVE Goes(c)
    BY <2>4, RequeueGoes DEF RequeueAny
  <2>5. ASSUME ReclaimAny, NEW c \in Cells PROVE Goes(c)
    BY <2>5, ReclaimGoes DEF ReclaimAny
  <2>6. \A c \in Cells : Goes(c) BY <1>4, <2>3, <2>4, <2>5 DEF Operator
  <2> QED BY <2>2, <2>6
<1>5. ASSUME Clock PROVE TypeOK' /\ LedgerInv' /\ \A c \in Cells : Goes(c)
  <2>1. Tick BY <1>5 DEF Clock
  <2>2. TypeOK' /\ LedgerInv' BY <2>1, TypeStep, LedgerStep DEF Next
  <2> QED BY <2>1, <2>2, TickGoes
<1>6. ASSUME NEW w \in Workers,
             SkipMissing(w) \/ StartRun(w) \/ EndRun(w) \/ CompleteRaises(w) \/ WriteRecord(w)
               \/ BeatDies(w) \/ Crash(w)
      PROVE UNCHANGED vars
  BY <1>6 DEF SkipMissing, StartRun, EndRun, CompleteRaises, WriteRecord, BeatDies, Crash
<1>7. CASE UNCHANGED allVars BY <1>0, <1>7 DEF allVars
<1>8. CASE WorkerNext
  BY <1>0, <1>1, <1>2, <1>3, <1>4, <1>5, <1>6, <1>8, Zenon DEF WorkerNext, WorkerStep
<1> QED BY <1>7, <1>8

\* Who works on the lease of before, if on any, is the same worker still.
LEMMA TypedStep ==
    ASSUME TypeOK, TypeOK', WorkerTyped, [WorkerNext]_allVars
    PROVE  /\ WorkerTyped'
           /\ \A w \in Workers : \/ batch'[w] \subseteq batch[w]
                                 \/ StartBatch(w) /\ batch'[w] = NewLeases
<1> DEFINE Goal == /\ WorkerTyped'
                   /\ \A w \in Workers : \/ batch'[w] \subseteq batch[w]
                                         \/ StartBatch(w) /\ batch'[w] = NewLeases
<1>1. ASSUME NEW w \in Workers, StartBatch(w) PROVE Goal
  <2>1. NewLeases \in SUBSET LeaseRecord /\ NewLeases # {}
    BY <1>1, GrantedAre DEF StartBatch
  <2>2. WorkerTyped' BY <1>1, <2>1 DEF StartBatch, WorkerTyped
  <2>3. batch' = [batch EXCEPT ![w] = NewLeases] BY <1>1 DEF StartBatch
  <2> HIDE DEF NewLeases
  <2>4. \A v \in Workers : v # w => batch'[v] = batch[v] BY <2>3 DEF WorkerTyped
  <2>5. batch'[w] = NewLeases BY <2>3 DEF WorkerTyped
  <2> QED BY <1>1, <2>2, <2>4, <2>5
<1>2. ASSUME NEW w \in Workers, SkipMissing(w) PROVE Goal
  BY <1>2 DEF SkipMissing, WorkerTyped, NoResult, CompletionStates
<1>3. ASSUME NEW w \in Workers, StartRun(w) PROVE Goal
  BY <1>3 DEF StartRun, WorkerTyped
<1>4. ASSUME NEW w \in Workers, EndRun(w) PROVE Goal
  <2>1. Current(w) \in LeaseRecord BY <1>4, CurrentIs DEF EndRun
  <2>2. Current(w).cell \in Cells BY <2>1 DEF LeaseRecord
  <2>3. PICK r \in ResultsOf(Current(w).cell) : result' = [result EXCEPT ![w] = r]
    BY <1>4 DEF EndRun
  <2>4. r \in [state : CompletionStates, cost : Nat, artifact : BOOLEAN]
    BY <2>2, ResultsTyped
  <2>5. result' \in [Workers -> [state : CompletionStates, cost : Nat, artifact : BOOLEAN]]
    BY <2>3, <2>4 DEF WorkerTyped
  <2> QED BY <1>4, <2>5 DEF EndRun, WorkerTyped
<1>5. ASSUME NEW w \in Workers, CompleteRun(w) PROVE Goal
  BY <1>5 DEF CompleteRun, WorkerTyped
<1>6. ASSUME NEW w \in Workers, CompleteRaises(w) PROVE Goal
  BY <1>6 DEF CompleteRaises, WorkerTyped
<1>7. ASSUME NEW w \in Workers, WriteRecord(w) PROVE Goal
  BY <1>7 DEF WriteRecord, WorkerTyped
<1>8. ASSUME NEW w \in Workers, Beat(w) PROVE Goal
  BY <1>8 DEF Beat, workerVars, WorkerTyped
<1>9. ASSUME NEW w \in Workers, BeatDies(w) PROVE Goal
  BY <1>9 DEF BeatDies, WorkerTyped
<1>10. ASSUME NEW w \in Workers, Crash(w) PROVE Goal
  BY <1>10 DEF Crash, WorkerTyped
<1>11. CASE UNCHANGED workerVars
  BY <1>11 DEF workerVars, WorkerTyped
<1>12. CASE WorkerNext
  BY <1>1, <1>2, <1>3, <1>4, <1>5, <1>6, <1>7, <1>8, <1>9, <1>10, <1>11, <1>12, Zenon
     DEF WorkerNext, WorkerStep, Operator, Clock
<1> QED BY <1>11, <1>12 DEF allVars

\* Batches stay in order and backed.
LEMMA BatchStep ==
    ASSUME TypeOK, LedgerInv, BatchInv, [WorkerNext]_allVars
    PROVE  BatchInv'
<1>1. WorkerTyped BY DEF BatchInv
<1>2. TypeOK' /\ \A c \in Cells : Goes(c) BY <1>1, StoreOfWorker
<1>3. /\ WorkerTyped'
      /\ \A w \in Workers : \/ batch'[w] \subseteq batch[w]
                            \/ StartBatch(w) /\ batch'[w] = NewLeases
  BY <1>1, <1>2, TypedStep
<1>4. ASSUME NEW w \in Workers PROVE InOrder(batch'[w]) /\ \A l \in batch'[w] : Backs(l)'
  <2>1. CASE batch'[w] \subseteq batch[w]
    <3>1. InOrder(batch'[w]) BY <2>1 DEF BatchInv, InOrder
    <3>2. ASSUME NEW l \in batch'[w] PROVE Backs(l)'
      <4>1. Backs(l) /\ l \in LeaseRecord BY <1>1, <2>1 DEF BatchInv, WorkerTyped
      <4>2. l.cell \in Cells BY <4>1 DEF LeaseRecord
      <4> QED BY <1>2, <4>1, <4>2, BacksStays
    <3> QED BY <3>1, <3>2
  <2>2. CASE StartBatch(w) /\ batch'[w] = NewLeases
    <3>1. PICK filter \in Filters, limit \in Limits, term \in Terms, d \in 0..MaxWait :
               Lease(w, filter, limit, term, d)
      BY <2>2 DEF StartBatch
    <3> HIDE DEF NewLeases
    <3> QED BY <1>2, <2>2, <3>1, GrantedAre
  <2> QED BY <1>3, <2>1, <2>2
<1>5. (\A w \in Workers : InOrder(batch[w]))' BY <1>4 DEF InOrder
<1>6. (\A w \in Workers : \A l \in batch[w] : Backs(l))' BY <1>4
<1> QED BY <1>3, <1>5, <1>6 DEF BatchInv

-----------------------------------------------------------------------------
(* Records.                                                                *)

Record == [cell : Cells, token : Tokens, attempt : Nat, worker : Workers,
           state : CompletionStates, cost : Nat]

Joined(r) == \E i \in Completions(r.cell) : Matches(r, log[r.cell][i])

(* Every record, and the one a worker is about to write, joins an event.   *)
RecordsInv ==
    /\ records \subseteq Record
    /\ \A r \in records : Joined(r)
    /\ \A w \in Workers : pc[w] = "writing" => Joined(RecordOf(w))

LEMMA RecordTyped ==
    ASSUME WorkerTyped, NEW w \in Workers, pc[w] # "idle"
    PROVE  RecordOf(w) \in Record
<1>1. Current(w) \in LeaseRecord BY CurrentIs
<1>2. result[w].state \in CompletionStates /\ result[w].cost \in Nat BY DEF WorkerTyped
<1>3. Rounded(result[w].cost) \in Nat BY <1>2, RoundedType
<1> QED BY <1>1, <1>2, <1>3 DEF RecordOf, Record, LeaseRecord

LEMMA JoinedStays ==
    ASSUME NEW r, Joined(r), Goes(r.cell)
    PROVE  Joined(r)'
<1>1. PICK i \in Completions(r.cell) : Matches(r, log[r.cell][i]) BY DEF Joined
<1>2. log'[r.cell][i] = log[r.cell][i] /\ i \in DOMAIN log'[r.cell]
  BY <1>1 DEF Goes, Completions
<1>3. i \in Completions(r.cell)' BY <1>1, <1>2 DEF Completions
<1>4. Matches(r, log'[r.cell][i]) BY <1>1, <1>2
<1> QED BY <1>3, <1>4 DEF Joined, Matches

\* Who writes a record next completed its run or wrote it already, and only
\* what is written becomes a record.
LEMMA WritersAre ==
    ASSUME WorkerTyped, [WorkerNext]_allVars
    PROVE  /\ \A v \in Workers : pc'[v] = "writing" =>
                 \/ CompleteRun(v)
                 \/ pc[v] = "writing" /\ batch'[v] = batch[v] /\ result'[v] = result[v]
           /\ \/ records' = records
              \/ \E w \in Workers : WriteRecord(w) /\ records' = records \cup {RecordOf(w)}
<1> DEFINE Stays(v) == pc'[v] = "writing" =>
                           pc[v] = "writing" /\ batch'[v] = batch[v] /\ result'[v] = result[v]
<1>1. ASSUME NEW w \in Workers, StartBatch(w)
      PROVE  records' = records /\ \A v \in Workers : Stays(v)
  BY <1>1 DEF StartBatch, WorkerTyped
<1>2. ASSUME NEW w \in Workers, SkipMissing(w)
      PROVE  records' = records /\ \A v \in Workers : Stays(v)
  BY <1>2 DEF SkipMissing, WorkerTyped
<1>3. ASSUME NEW w \in Workers, StartRun(w)
      PROVE  records' = records /\ \A v \in Workers : Stays(v)
  BY <1>3 DEF StartRun, WorkerTyped
<1>4. ASSUME NEW w \in Workers, EndRun(w)
      PROVE  records' = records /\ \A v \in Workers : Stays(v)
  <2>1. PICK r : result' = [result EXCEPT ![w] = r] BY <1>4 DEF EndRun
  <2> QED BY <1>4, <2>1 DEF EndRun, WorkerTyped
<1>5. ASSUME NEW w \in Workers, CompleteRun(w)
      PROVE  records' = records /\ \A v \in Workers : v # w => Stays(v)
  BY <1>5 DEF CompleteRun, WorkerTyped
<1>6. ASSUME NEW w \in Workers, CompleteRaises(w)
      PROVE  records' = records /\ \A v \in Workers : Stays(v)
  BY <1>6 DEF CompleteRaises, WorkerTyped
<1>7. ASSUME NEW w \in Workers, WriteRecord(w)
      PROVE  records' = records \cup {RecordOf(w)} /\ \A v \in Workers : Stays(v)
  BY <1>7 DEF WriteRecord, WorkerTyped
<1>8. ASSUME NEW w \in Workers, BeatDies(w)
      PROVE  records' = records /\ \A v \in Workers : Stays(v)
  BY <1>8 DEF BeatDies, WorkerTyped
<1>9. ASSUME NEW w \in Workers, Crash(w)
      PROVE  records' = records /\ \A v \in Workers : Stays(v)
  BY <1>9 DEF Crash, WorkerTyped
<1>10. ASSUME UNCHANGED workerVars
      PROVE  records' = records /\ \A v \in Workers : Stays(v)
  BY <1>10 DEF workerVars
<1>11. ASSUME NEW w \in Workers, Beat(w) PROVE UNCHANGED workerVars
  BY <1>11 DEF Beat
<1> HIDE DEF Stays
<1>12. CASE \E w \in Workers : CompleteRun(w)
  BY <1>5, <1>12 DEF Stays
<1>13. CASE \E w \in Workers : WriteRecord(w)
  BY <1>7, <1>13 DEF Stays
<1>14. CASE records' = records /\ \A v \in Workers : Stays(v)
  BY <1>14 DEF Stays
<1>15. CASE WorkerNext
  BY <1>1, <1>2, <1>3, <1>4, <1>6, <1>8, <1>9, <1>10, <1>11, <1>12, <1>13, <1>14, <1>15, Zenon
     DEF WorkerNext, WorkerStep, Operator, Clock
<1>16. CASE UNCHANGED allVars BY <1>10, <1>14, <1>16 DEF allVars
<1> QED BY <1>15, <1>16

\* The attempt that a worker completes is its own.
LEMMA CompleteRunIs ==
    ASSUME TypeOK, BatchInv, NEW w \in Workers, CompleteRun(w)
    PROVE  LET c == Current(w).cell IN
           /\ c \in Cells
           /\ \A x \in Cells : x # c => ~Completing(x) /\ cell'[x] = cell[x]
           /\ cell[c].state = "leased" /\ cell[c].owner = w /\ cell[c].token = Current(w).token
           /\ \E i \in Added(c) : TRUE
           /\ \A i \in Added(c) :
                 /\ log'[c][i].reason = "completed"
                 /\ Matches(RecordOf(w), log'[c][i])
<1> DEFINE c == Current(w).cell
<1>1. WorkerTyped /\ pc[w] # "idle" BY DEF BatchInv, CompleteRun
<1>2. Current(w) \in LeaseRecord /\ Current(w) \in batch[w] BY <1>1, CurrentIs
<1>3. c \in Cells /\ Current(w).token \in Tokens BY <1>2 DEF LeaseRecord
<1>4. /\ result[w].state \in CompletionStates /\ result[w].cost \in Nat
      /\ result[w].artifact \in BOOLEAN
  BY <1>1 DEF WorkerTyped
<1>5. /\ Rounded(result[w].cost) \in Nat
      /\ Rounded(Rounded(result[w].cost)) = Rounded(result[w].cost)
  BY <1>4, RoundedType, RoundedOnce
<1>6. PICK d \in 0..MaxWait :
           Complete(c, w, Current(w).token, result[w].state, Rounded(result[w].cost),
                    result[w].artifact, d)
  BY DEF CompleteRun
<1>7. /\ \A x \in Cells : Goes(x) /\ (x # c => ~Completing(x) /\ cell'[x] = cell[x])
      /\ cell[c].state = "leased" /\ cell[c].owner = w /\ cell[c].token = Current(w).token
      /\ \A i \in Added(c) : CompletedAs(log'[c][i], cell[c], w, Current(w).token,
                                         result[w].state, Rounded(result[w].cost))
      /\ \E i \in Added(c) : TRUE
  BY <1>3, <1>4, <1>5, <1>6, CompleteGoes
<1>8. cell[c].attempt = Current(w).attempt BY <1>2, <1>7 DEF BatchInv, Backs
<1>9. ASSUME NEW i \in Added(c)
      PROVE  log'[c][i].reason = "completed" /\ Matches(RecordOf(w), log'[c][i])
  <2>1. CompletedAs(log'[c][i], cell[c], w, Current(w).token,
                    result[w].state, Rounded(result[w].cost))
    BY <1>7
  <2> QED BY <1>5, <1>8, <2>1 DEF CompletedAs, Matches, RecordOf
<1> QED BY <1>3, <1>7, <1>9

LEMMA RecordsStep ==
    ASSUME TypeOK, LedgerInv, BatchInv, RecordsInv, [WorkerNext]_allVars
    PROVE  RecordsInv'
<1>1. WorkerTyped BY DEF BatchInv
<1>2. \A c \in Cells : Goes(c) BY <1>1, StoreOfWorker
<1>3. /\ \A v \in Workers : pc'[v] = "writing" =>
            \/ CompleteRun(v)
            \/ pc[v] = "writing" /\ batch'[v] = batch[v] /\ result'[v] = result[v]
      /\ \/ records' = records
         \/ \E w \in Workers : WriteRecord(w) /\ records' = records \cup {RecordOf(w)}
  BY <1>1, WritersAre
<1>4. ASSUME NEW r \in records' PROVE r \in Record /\ Joined(r)'
  <2>1. r \in Record /\ Joined(r)
    <3>1. CASE r \in records BY <3>1 DEF RecordsInv
    <3>2. CASE \E w \in Workers : WriteRecord(w) /\ r = RecordOf(w)
      <4>1. PICK w \in Workers : WriteRecord(w) /\ r = RecordOf(w) BY <3>2
      <4>2. pc[w] = "writing" BY <4>1 DEF WriteRecord
      <4>3. RecordOf(w) \in Record BY <1>1, <4>2, RecordTyped
      <4>4. Joined(RecordOf(w)) BY <4>2 DEF RecordsInv
      <4>5. Joined(r)
        <5> HIDE DEF Joined
        <5> QED BY <4>1, <4>4 DEF Joined
      <4> QED BY <4>1, <4>3, <4>5
    <3> QED BY <1>3, <3>1, <3>2
  <2>2. r.cell \in Cells BY <2>1 DEF Record
  <2> QED BY <1>2, <2>1, <2>2, JoinedStays
<1>5. ASSUME NEW v \in Workers, pc'[v] = "writing" PROVE Joined(RecordOf(v))'
  <2>1. CASE CompleteRun(v)
    <3> DEFINE c == Current(v).cell
    <3>1. PICK r : r = RecordOf(v) OBVIOUS
    <3>2. RecordOf(v)' = RecordOf(v) BY <2>1 DEF CompleteRun, RecordOf, Current
    <3>3. PICK i \in Added(c) :
               log'[c][i].reason = "completed" /\ Matches(RecordOf(v), log'[c][i])
      BY <2>1, CompleteRunIs
    <3>4. r.cell = c BY <3>1 DEF RecordOf
    <3>5. i \in DOMAIN log'[r.cell] BY <3>3, <3>4 DEF Added
    <3>6. log'[r.cell][i].reason = "completed" /\ Matches(r, log'[r.cell][i])
      BY <3>1, <3>3, <3>4 DEF Matches
    <3>7. r = RecordOf(v)' BY <3>1, <3>2
    <3> HIDE DEF c
    <3> QED BY <3>5, <3>6, <3>7 DEF Joined, Completions, Matches
  <2>2. CASE pc[v] = "writing" /\ batch'[v] = batch[v] /\ result'[v] = result[v]
    <3>1. PICK r : r = RecordOf(v) OBVIOUS
    <3>2. RecordOf(v)' = RecordOf(v) BY <2>2 DEF RecordOf, Current
    <3>3. r \in Record BY <1>1, <2>2, <3>1, RecordTyped
    <3>4. r.cell \in Cells BY <3>3 DEF Record
    <3>5. Joined(r) BY <2>2, <3>1 DEF RecordsInv, Joined
    <3>6. Joined(r)' BY <1>2, <3>4, <3>5, JoinedStays
    <3>7. r = RecordOf(v)' BY <3>1, <3>2
    <3> QED BY <3>6, <3>7 DEF Joined, Completions, Matches
  <2> QED BY <1>3, <1>5, <2>1, <2>2
<1> QED BY <1>4, <1>5 DEF RecordsInv

(* What holds of the store, the batches and the records at all times.      *)
WorkerInv == TypeOK /\ LedgerInv /\ BatchInv /\ RecordsInv

LEMMA WorkerInvInit ==
    ASSUME WorkerInit
    PROVE  WorkerInv
<1>1. Init BY DEF WorkerInit
<1>2. TypeOK
  <2>1. cell \in [Cells -> Row] BY <1>1, FreshRowType, Zenon DEF Init
  <2>2. log \in [Cells -> Seq(Event)] BY <1>1 DEF Init
  <2> QED BY <1>1, <2>1, <2>2 DEF Init, TypeOK
<1>3. LedgerInv
  <2>1. ASSUME NEW c \in Cells PROVE CellInv(c, cell[c], log[c])
    <3>1. cell[c] = FreshRow(c) /\ log[c] = <<>> BY <1>1 DEF Init
    <3>2. FreshRow(c).state = InitialState[c] /\ FreshRow(c).attempt = 0
      BY DEF FreshRow
    <3>3. InitialState[c] # "leased" BY ManifestAssumption
    <3> QED
      BY <3>1, <3>2, <3>3 DEF CellInv, Replays, Backed, FencedLog, Numbered, CompletedOnce
  <2> QED BY <2>1 DEF LedgerInv
<1>4. WorkerTyped
  <2>1. NoResult \in [state : CompletionStates, cost : Nat, artifact : BOOLEAN]
    BY DEF NoResult, CompletionStates
  <2> QED BY <2>1 DEF WorkerInit, WorkerTyped
<1>5. BatchInv BY <1>4 DEF WorkerInit, BatchInv, InOrder
<1>6. RecordsInv BY DEF WorkerInit, RecordsInv
<1> QED BY <1>2, <1>3, <1>5, <1>6 DEF WorkerInv

LEMMA WorkerInvStep ==
    ASSUME WorkerInv, [WorkerNext]_allVars
    PROVE  WorkerInv'
<1>1. TypeOK /\ LedgerInv /\ BatchInv /\ RecordsInv /\ WorkerTyped BY DEF WorkerInv, BatchInv
<1>2. TypeOK' /\ LedgerInv' BY <1>1, StoreOfWorker
<1>3. BatchInv' BY <1>1, BatchStep
<1>4. RecordsInv' BY <1>1, RecordsStep
<1> QED BY <1>2, <1>3, <1>4 DEF WorkerInv

\* An attempt has one terminal event.
LEMMA OneCompletion ==
    ASSUME LedgerInv, NEW c \in Cells, NEW i \in Completions(c), NEW j \in Completions(c),
           log[c][i].attempt = log[c][j].attempt
    PROVE  i = j
BY DEF LedgerInv, CellInv, CompletedOnce, Completions

LEMMA RecordsInvSuffices == WorkerInv => RecordsMatchEvents
<1> SUFFICES ASSUME WorkerInv PROVE RecordsMatchEvents
  OBVIOUS
<1>1. LedgerInv /\ records \subseteq Record /\ \A r \in records : Joined(r)
  BY DEF WorkerInv, RecordsInv
<1>2. ASSUME NEW r \in records
      PROVE  Cardinality({i \in Completions(r.cell) : Matches(r, log[r.cell][i])}) = 1
  <2>1. r.cell \in Cells BY <1>1 DEF Record
  <2>2. PICK i \in Completions(r.cell) : Matches(r, log[r.cell][i]) BY <1>1 DEF Joined
  <2>3. ASSUME NEW j \in Completions(r.cell), Matches(r, log[r.cell][j]) PROVE i = j
    <3>1. log[r.cell][i].attempt = log[r.cell][j].attempt BY <2>2, <2>3 DEF Matches
    <3> QED BY <1>1, <2>1, <3>1, OneCompletion
  <2>4. {j \in Completions(r.cell) : Matches(r, log[r.cell][j])} = {i} BY <2>2, <2>3
  <2> QED BY <2>4, FS_Singleton
<1>3. ASSUME NEW r \in records, NEW s \in records, r.cell = s.cell, r.attempt = s.attempt
      PROVE  r = s
  <2> DEFINE c == r.cell
  <2>1. r \in Record /\ s \in Record /\ c \in Cells BY <1>1 DEF Record
  <2>2. PICK i \in Completions(c) : Matches(r, log[c][i]) BY <1>1 DEF Joined
  <2>3. PICK j \in Completions(c) : Matches(s, log[c][j]) BY <1>1, <1>3 DEF Joined
  <2>4. log[c][i].attempt = log[c][j].attempt BY <1>3, <2>2, <2>3 DEF Matches
  <2> HIDE DEF c
  <2>5. i = j BY <1>1, <2>1, <2>4, OneCompletion
  <2>6. /\ r.token = s.token /\ r.worker = s.worker /\ r.state = s.state /\ r.cost = s.cost
    BY <2>2, <2>3, <2>5 DEF Matches
  <2> QED BY <1>3, <2>1, <2>6 DEF Record
<1> QED BY <1>2, <1>3 DEF RecordsMatchEvents

(* Every execution record joins exactly one terminal event, with the same  *)
(* worker, outcome and cost, whatever crashes, retries and late workers    *)
(* do; no attempt has two records (_write_immutable_json after             *)
(* complete_campaign_lease).                                               *)
THEOREM RecordsJoinEvents == WorkerSpec => []RecordsMatchEvents
<1>1. WorkerInit => WorkerInv BY WorkerInvInit
<1>2. WorkerInv /\ [WorkerNext]_allVars => WorkerInv' BY WorkerInvStep
<1> QED BY <1>1, <1>2, RecordsInvSuffices, PTL DEF WorkerSpec

-----------------------------------------------------------------------------
(* Terminal events without a record.                                       *)

Missed == UNION {{c} \X Unrecorded(c) : c \in Cells}

MissingInv == IsFiniteSet(Missed) /\ Cardinality(Missed) <= crashes

\* A worker that is writing goes on, writes, or crashes; a crash is counted;
\* and a step that completes an attempt is its worker's.
LEMMA WritingEnds ==
    ASSUME TypeOK, WorkerTyped, [WorkerNext]_allVars
    PROVE  /\ \A v \in Workers : pc[v] = "writing" =>
                 \/ pc'[v] = "writing" /\ batch'[v] = batch[v]
                 \/ WriteRecord(v)
                 \/ Crash(v)
           /\ crashes' = crashes \/ \E w \in Workers : Crash(w)
           /\ (\A c \in Cells : ~Completing(c)) \/ \E w \in Workers : CompleteRun(w)
<1> DEFINE Stays(v) == pc[v] = "writing" => pc'[v] = "writing" /\ batch'[v] = batch[v]
           Uncompleted == \A c \in Cells : ~Completing(c)
           Uncounted == crashes' = crashes
<1>0. ASSUME UNCHANGED vars PROVE Uncompleted
  <2> QED BY <1>0, RestGoes DEF vars
<1>1. ASSUME NEW w \in Workers, StartBatch(w)
      PROVE  Uncompleted /\ Uncounted /\ \A v \in Workers : Stays(v)
  <2>1. PICK filter \in Filters, limit \in Limits, term \in Terms, d \in 0..MaxWait :
             Lease(w, filter, limit, term, d)
    BY <1>1 DEF StartBatch
  <2>2. Uncompleted BY <2>1, LeaseGoes
  <2>3. batch' = [batch EXCEPT ![w] = NewLeases] /\ pc' = [pc EXCEPT ![w] = "loop"]
        /\ pc[w] = "idle" /\ Uncounted
    BY <1>1 DEF StartBatch
  <2> HIDE DEF NewLeases, Uncompleted
  <2> QED BY <2>2, <2>3 DEF WorkerTyped
<1>2. ASSUME NEW w \in Workers, SkipMissing(w)
      PROVE  UNCHANGED vars /\ Uncounted /\ \A v \in Workers : Stays(v)
  BY <1>2 DEF SkipMissing, WorkerTyped
<1>3. ASSUME NEW w \in Workers, StartRun(w)
      PROVE  UNCHANGED vars /\ Uncounted /\ \A v \in Workers : Stays(v)
  BY <1>3 DEF StartRun, WorkerTyped
<1>4. ASSUME NEW w \in Workers, EndRun(w)
      PROVE  UNCHANGED vars /\ Uncounted /\ \A v \in Workers : Stays(v)
  BY <1>4 DEF EndRun, WorkerTyped
<1>5. ASSUME NEW w \in Workers, CompleteRun(w)
      PROVE  Uncounted /\ \A v \in Workers : Stays(v)
  BY <1>5 DEF CompleteRun, WorkerTyped
<1>6. ASSUME NEW w \in Workers, CompleteRaises(w)
      PROVE  UNCHANGED vars /\ Uncounted /\ \A v \in Workers : Stays(v)
  BY <1>6 DEF CompleteRaises, WorkerTyped
<1>7. ASSUME NEW w \in Workers, WriteRecord(w)
      PROVE  UNCHANGED vars /\ Uncounted /\ \A v \in Workers : v # w => Stays(v)
  BY <1>7 DEF WriteRecord, WorkerTyped
<1>8. ASSUME NEW w \in Workers, BeatDies(w)
      PROVE  UNCHANGED vars /\ Uncounted /\ \A v \in Workers : Stays(v)
  BY <1>8 DEF BeatDies, WorkerTyped
<1>9. ASSUME NEW w \in Workers, Crash(w)
      PROVE  UNCHANGED vars /\ \A v \in Workers : v # w => Stays(v)
  BY <1>9 DEF Crash, WorkerTyped
<1>10. ASSUME UNCHANGED workerVars
      PROVE  Uncounted /\ \A v \in Workers : Stays(v)
  BY <1>10 DEF workerVars
<1>11. ASSUME NEW w \in Workers, Beat(w) PROVE UNCHANGED workerVars /\ Uncompleted
  <2>1. Current(w) \in LeaseRecord BY <1>11, CurrentIs DEF Beat
  <2>2. PICK term \in Terms, d \in 0..MaxWait :
             Heartbeat(Current(w).cell, w, Current(w).token, term, d)
    BY <1>11 DEF Beat
  <2>3. Current(w).cell \in Cells /\ Current(w).token \in Tokens BY <2>1 DEF LeaseRecord
  <2>4. Uncompleted BY <2>2, <2>3, HeartbeatGoes
  <2> QED BY <1>11, <2>4 DEF Beat
<1>12. ASSUME Operator PROVE UNCHANGED workerVars /\ Uncompleted
  <2>1. ASSUME Initialise, NEW c \in Cells PROVE ~Completing(c)
    <3>1. cell' = cell /\ log' = log BY <2>1 DEF Initialise
    <3> QED BY <3>1, RestGoes
  <2>2. ASSUME RequeueAny, NEW c \in Cells PROVE ~Completing(c)
    BY <2>2, RequeueGoes DEF RequeueAny
  <2>3. ASSUME ReclaimAny, NEW c \in Cells PROVE ~Completing(c)
    BY <2>3, ReclaimGoes DEF ReclaimAny
  <2>4. Uncompleted BY <1>12, <2>1, <2>2, <2>3 DEF Operator
  <2> QED BY <1>12, <2>4 DEF Operator
<1>13. ASSUME Clock PROVE UNCHANGED workerVars /\ Uncompleted
  <2>1. Uncompleted BY <1>13, TickGoes DEF Clock
  <2> QED BY <1>13, <2>1 DEF Clock
<1> HIDE DEF Stays, Uncompleted, Uncounted
<1>14. CASE \E w \in Workers : CompleteRun(w)
  BY <1>5, <1>14 DEF Stays, Uncounted
<1>15. CASE \E w \in Workers : WriteRecord(w)
  BY <1>0, <1>7, <1>15 DEF Stays, Uncompleted, Uncounted
<1>16. CASE \E w \in Workers : Crash(w)
  BY <1>0, <1>9, <1>16 DEF Stays, Uncompleted
<1>17. CASE Uncompleted /\ Uncounted /\ \A v \in Workers : Stays(v)
  BY <1>17 DEF Stays, Uncompleted, Uncounted
<1>18. CASE WorkerNext
  BY <1>0, <1>1, <1>2, <1>3, <1>4, <1>6, <1>8, <1>10, <1>11, <1>12, <1>13, <1>14, <1>15, <1>16,
     <1>17, <1>18, Zenon
     DEF WorkerNext, WorkerStep
<1>19. CASE UNCHANGED allVars BY <1>0, <1>10, <1>17, <1>19 DEF allVars
<1> QED BY <1>18, <1>19

\* Whom an event waits for.
LEMMA WaitsFor ==
    ASSUME WorkerInv, NEW c \in Cells, NEW i \in Completions(c), NEW w \in Workers,
           pc[w] = "writing", Current(w).cell = c, Current(w).token = log[c][i].token
    PROVE  /\ log[c][i].attempt = Current(w).attempt
           /\ Matches(RecordOf(w), log[c][i])
<1>1. Current(w) \in batch[w] BY CurrentIs DEF WorkerInv, BatchInv
<1>2. log[c][i].attempt = Current(w).attempt BY <1>1 DEF WorkerInv, BatchInv, Backs
<1>3. RecordOf(w).cell = c /\ RecordOf(w).attempt = Current(w).attempt BY DEF RecordOf
<1>4. PICK j \in Completions(c) : Matches(RecordOf(w), log[c][j])
  BY <1>3 DEF WorkerInv, RecordsInv, Joined
<1>5. log[c][i].attempt = log[c][j].attempt BY <1>2, <1>3, <1>4 DEF Matches
<1>6. i = j BY <1>5, OneCompletion DEF WorkerInv
<1> QED BY <1>2, <1>4, <1>6

\* The event whose record is lost when worker v crashes.
Lost(v, c, i) ==
    /\ i \in Completions(c) /\ pc[v] = "writing"
    /\ Current(v).cell = c /\ Current(v).token = log[c][i].token

\* An event without a record was without one before, or just lost its worker.
LEMMA MissedBefore ==
    ASSUME WorkerInv, [WorkerNext]_allVars, NEW c \in Cells, NEW i \in Unrecorded(c)'
    PROVE  i \in Unrecorded(c) \/ \E v \in Workers : Crash(v) /\ Lost(v, c, i)
<1>1. TypeOK /\ LedgerInv /\ BatchInv /\ RecordsInv /\ WorkerTyped BY DEF WorkerInv, BatchInv
<1>2. Goes(c) BY <1>1, StoreOfWorker
<1>3. /\ i \in DOMAIN log'[c] /\ log'[c][i].reason = "completed"
      /\ ~\E w \in Workers : /\ pc'[w] = "writing"
                             /\ Current(w)'.cell = c
                             /\ Current(w)'.token = log'[c][i].token
      /\ ~\E r \in records' : /\ r.cell = c /\ r.token = log'[c][i].token
                              /\ r.attempt = log'[c][i].attempt
  BY DEF Unrecorded, Completions, BeingWritten, Recorded
<1>4. i \in DOMAIN log[c]
  <2>1. SUFFICES ASSUME i \notin DOMAIN log[c] PROVE FALSE
    OBVIOUS
  <2>2. i \in Added(c) /\ Completing(c) BY <1>3, <2>1 DEF Added, Completing
  <2>3. PICK w \in Workers : CompleteRun(w) BY <1>1, <2>2, WritingEnds
  <2>4. /\ \A x \in Cells : x # Current(w).cell => ~Completing(x)
        /\ \A j \in Added(Current(w).cell) :
              Matches(RecordOf(w), log'[Current(w).cell][j])
    BY <1>1, <2>3, CompleteRunIs
  <2>5. c = Current(w).cell BY <2>2, <2>4
  <2>6. Matches(RecordOf(w), log'[c][i]) BY <2>2, <2>4, <2>5
  <2>7. log'[c][i].token = Current(w).token BY <2>6 DEF Matches, RecordOf
  <2>8. pc'[w] = "writing" BY <1>1, <2>3 DEF CompleteRun, WorkerTyped
  <2>9. Current(w)' = Current(w) BY <2>3 DEF CompleteRun, Current
  <2> QED BY <1>3, <2>5, <2>7, <2>8, <2>9
<1>5. i \in Completions(c) /\ log'[c][i] = log[c][i] BY <1>2, <1>3, <1>4 DEF Goes, Completions
<1>6. records \subseteq records' BY <1>1, WritersAre
<1>7. ~Recorded(c, log[c][i])
  <2> DEFINE e == log[c][i]
  <2>1. log'[c][i] = e BY <1>5
  <2> HIDE DEF e
  <2>2. ~Recorded(c, e) BY <1>3, <1>6, <2>1 DEF Recorded
  <2> QED BY <2>2 DEF e
<1>8. CASE ~BeingWritten(c, log[c][i]) BY <1>5, <1>7, <1>8 DEF Unrecorded
<1>9. CASE BeingWritten(c, log[c][i])
  <2>1. PICK v \in Workers : /\ pc[v] = "writing" /\ Current(v).cell = c
                             /\ Current(v).token = log[c][i].token
    BY <1>9 DEF BeingWritten
  <2>2. CASE pc'[v] = "writing" /\ batch'[v] = batch[v]
    <3>1. Current(v)' = Current(v) BY <2>2 DEF Current
    <3> QED BY <1>3, <1>5, <2>1, <2>2, <3>1
  <2>3. CASE WriteRecord(v)
    <3>1. Matches(RecordOf(v), log[c][i]) BY <1>5, <2>1, WaitsFor
    <3>2. RecordOf(v) \in records' BY <2>3 DEF WriteRecord
    <3>3. /\ RecordOf(v).cell = c /\ RecordOf(v).token = log[c][i].token
          /\ RecordOf(v).attempt = log[c][i].attempt
      BY <2>1, <3>1 DEF RecordOf, Matches
    <3> QED BY <1>3, <1>5, <3>2, <3>3
  <2>4. CASE Crash(v) BY <1>5, <2>1, <2>4 DEF Lost
  <2> QED BY <1>1, <2>1, <2>2, <2>3, <2>4, WritingEnds
<1> QED BY <1>8, <1>9

LEMMA OneCrash ==
    ASSUME WorkerTyped, NEW v \in Workers, NEW w \in Workers, Crash(v), Crash(w)
    PROVE  v = w
BY DEF Crash, WorkerTyped

\* A crash loses at most one record.
LEMMA OneLost ==
    ASSUME WorkerInv, NEW v \in Workers, NEW c \in Cells, NEW i, Lost(v, c, i),
           NEW x \in Cells, NEW j, Lost(v, x, j)
    PROVE  c = x /\ i = j
<1>1. c = x BY DEF Lost
<1>2. i \in Completions(c) /\ j \in Completions(c) BY <1>1 DEF Lost
<1>3. log[c][i].attempt = Current(v).attempt BY <1>2, WaitsFor DEF Lost
<1>4. log[c][j].attempt = Current(v).attempt BY <1>1, <1>2, WaitsFor DEF Lost
<1> QED BY <1>1, <1>2, <1>3, <1>4, OneCompletion DEF WorkerInv

LEMMA MissedMoves ==
    ASSUME WorkerInv, [WorkerNext]_allVars
    PROVE  \/ crashes' = crashes /\ Missed' \subseteq Missed
           \/ crashes' = crashes + 1 /\ \E p : Missed' \subseteq Missed \cup {p}
<1>1. TypeOK /\ WorkerTyped BY DEF WorkerInv, BatchInv
<1>2. ASSUME NEW p \in Missed'
      PROVE  \E c \in Cells : \E i \in Unrecorded(c)' : p = <<c, i>>
  BY DEF Missed
<1>3. ASSUME NEW c \in Cells, NEW i \in Unrecorded(c) PROVE <<c, i>> \in Missed
  BY DEF Missed
<1>4. CASE ~\E w \in Workers : Crash(w)
  <2>1. crashes' = crashes BY <1>1, <1>4, WritingEnds
  <2>2. ASSUME NEW p \in Missed' PROVE p \in Missed
    <3>1. PICK c \in Cells : \E i \in Unrecorded(c)' : p = <<c, i>> BY <1>2
    <3>2. PICK i \in Unrecorded(c)' : p = <<c, i>> BY <3>1
    <3>3. i \in Unrecorded(c) BY <1>4, MissedBefore
    <3> QED BY <1>3, <3>2, <3>3
  <2> QED BY <2>1, <2>2
<1>5. CASE \E w \in Workers : Crash(w)
  <2>1. PICK w \in Workers : Crash(w) BY <1>5
  <2>2. crashes' = crashes + 1 BY <2>1 DEF Crash
  <2>3. ASSUME NEW p \in Missed', p \notin Missed
        PROVE  \E c \in Cells : \E i : p = <<c, i>> /\ Lost(w, c, i)
    <3>1. PICK c \in Cells : \E i \in Unrecorded(c)' : p = <<c, i>> BY <1>2
    <3>2. PICK i \in Unrecorded(c)' : p = <<c, i>> BY <3>1
    <3>3. PICK v \in Workers : Crash(v) /\ Lost(v, c, i)
      BY <1>3, <2>3, <3>2, MissedBefore
    <3>4. v = w BY <1>1, <2>1, <3>3, OneCrash
    <3> QED BY <3>2, <3>3, <3>4 DEF Lost
  <2>4. \A p, q \in Missed' : p \notin Missed /\ q \notin Missed => p = q
    BY <2>3, OneLost
  <2>5. \E p : Missed' \subseteq Missed \cup {p}
    <3>1. CASE Missed' \subseteq Missed BY <3>1
    <3>2. CASE \E p \in Missed' : p \notin Missed BY <2>4, <3>2
    <3> QED BY <3>1, <3>2
  <2> QED BY <2>2, <2>5
<1> QED BY <1>4, <1>5

LEMMA MissingStep ==
    ASSUME WorkerInv, MissingInv, [WorkerNext]_allVars
    PROVE  MissingInv'
<1>1. PICK S : S = Missed OBVIOUS
<1>2. PICK T : T = Missed' OBVIOUS
<1>3. IsFiniteSet(S) /\ Cardinality(S) <= crashes /\ crashes \in Nat
  BY <1>1 DEF MissingInv, WorkerInv, BatchInv, WorkerTyped
<1>4. \/ crashes' = crashes /\ T \subseteq S
      \/ crashes' = crashes + 1 /\ \E p : T \subseteq S \cup {p}
  BY <1>1, <1>2, MissedMoves
<1>5. IsFiniteSet(T) /\ Cardinality(T) <= crashes'
  <2>1. CASE crashes' = crashes /\ T \subseteq S
    <3>1. IsFiniteSet(T) /\ Cardinality(T) <= Cardinality(S) BY <1>3, <2>1, FS_Subset
    <3>2. Cardinality(S) \in Nat /\ Cardinality(T) \in Nat
      BY <1>3, <3>1, FS_CardinalityType
    <3> QED BY <1>3, <2>1, <3>1, <3>2
  <2>2. CASE crashes' = crashes + 1 /\ \E p : T \subseteq S \cup {p}
    <3>1. PICK p : T \subseteq S \cup {p} BY <2>2
    <3>2. /\ IsFiniteSet(S \cup {p})
          /\ Cardinality(S \cup {p}) = Cardinality(S) \/ Cardinality(S \cup {p}) = Cardinality(S) + 1
      BY <1>3, FS_AddElement
    <3>3. IsFiniteSet(T) /\ Cardinality(T) <= Cardinality(S \cup {p}) BY <3>1, <3>2, FS_Subset
    <3>4. Cardinality(S) \in Nat /\ Cardinality(T) \in Nat
      BY <1>3, <3>3, FS_CardinalityType
    <3> QED BY <1>3, <2>2, <3>2, <3>3, <3>4
  <2> QED BY <1>4, <2>1, <2>2
<1> QED BY <1>2, <1>5 DEF MissingInv

(* A terminal event without an execution record is one whose worker is     *)
(* about to write it, or one of a crash between complete_campaign_lease    *)
(* and _write_immutable_json; there are no more of them than crashes.      *)
THEOREM MissingRecordsAreOfCrashes == WorkerSpec => []MissingRecordsAreCrashes
<1>1. WorkerInit => WorkerInv BY WorkerInvInit
<1>2. ASSUME WorkerInit PROVE MissingInv
  <2>1. \A c \in Cells : Unrecorded(c) = {}
    BY <1>2 DEF WorkerInit, Init, Unrecorded, Completions
  <2>2. Missed = {} BY <2>1 DEF Missed
  <2>3. crashes = 0 BY <1>2 DEF WorkerInit
  <2> QED BY <2>2, <2>3, FS_EmptySet DEF MissingInv
<1>3. WorkerInv /\ [WorkerNext]_allVars => WorkerInv' BY WorkerInvStep
<1>4. WorkerInv /\ MissingInv /\ [WorkerNext]_allVars => MissingInv' BY MissingStep
<1>5. MissingInv => MissingRecordsAreCrashes
  BY DEF MissingInv, Missed, MissingRecordsAreCrashes
<1> QED BY <1>1, <1>2, <1>3, <1>4, <1>5, PTL DEF WorkerSpec

-----------------------------------------------------------------------------
(* Who executes a cell holds its lease.                                    *)

Firm(c, w, t) ==
    cell[c].state = "leased" /\ cell[c].owner = w /\ cell[c].token = t /\ cell[c].ttl > 0

\* A lease that has not expired stays, or is requeued.
Firmly(c) ==
    cell[c].state = "leased" /\ cell[c].ttl > 0 =>
        \/ /\ cell'[c].state = "leased" /\ cell'[c].ttl > 0
           /\ cell'[c].owner = cell[c].owner /\ cell'[c].token = cell[c].token
        \/ \E i \in DOMAIN log'[c] :
              log'[c][i].reason = "requeued" /\ log'[c][i].prev = "leased"

\* The worker calls the provider or is about to, and its heartbeats go out.
Tended(w) == pc[w] = "loop" \/ (pc[w] = "running" /\ beat[w] = "on")

HoldingInv ==
    \A w \in Workers :
        Tended(w) /\ ~Current(w).waited /\ ~Abandoned(Current(w).cell) =>
            Firm(Current(w).cell, w, Current(w).token)

LEMMA NotExpired ==
    ASSUME TypeOK, NEW c \in Cells, cell[c].ttl > 0, NEW d \in 0..MaxWait
    PROVE  ~Expired(c, d)
<1>1. cell[c].ttl \in Int BY DEF TypeOK, Row
<1>2. d \in Nat BY ClockAssumption
<1> QED BY <1>1, <1>2 DEF Expired

LEMMA HeartbeatFirm ==
    ASSUME TypeOK, NEW c \in Cells, NEW w \in Workers, NEW t \in Tokens, NEW term \in Terms,
           NEW d \in 0..MaxWait, Heartbeat(c, w, t, term, d), NEW x \in Cells
    PROVE  Firmly(x)
<1> DEFINE new == [cell[c] EXCEPT !.ttl = IF term - d > @ THEN term - d ELSE @]
<1>1. cell' = [cell EXCEPT ![c] = new] BY DEF Heartbeat, Update
<1>2. cell[c] \in Row BY DEF TypeOK
<1>3. term - d \in Int BY ArgumentsAssumption, ClockAssumption
<1>4. /\ new.state = cell[c].state /\ new.owner = cell[c].owner /\ new.token = cell[c].token
      /\ new.ttl >= cell[c].ttl /\ new.ttl \in Int /\ cell[c].ttl \in Int
  BY <1>2, <1>3 DEF Row
<1> HIDE DEF new
<1>5. CASE x = c
  <2>1. cell'[x] = new BY <1>1, <1>5 DEF TypeOK
  <2> QED BY <1>4, <1>5, <2>1 DEF Firmly
<1>6. CASE x # c
  <2>1. cell'[x] = cell[x] BY <1>1, <1>6 DEF TypeOK
  <2> QED BY <2>1 DEF Firmly
<1> QED BY <1>5, <1>6

LEMMA RequeueFirm ==
    ASSUME TypeOK, NEW c \in Cells, NEW w \in Operators, Requeue(c, w), NEW x \in Cells
    PROVE  Firmly(x)
<1> DEFINE e == EventOf(cell[c], w, None, "ready", 0, "requeued")
           new == [cell[c] EXCEPT !.state = "ready", !.artifact = FALSE]
<1>1. cell' = [cell EXCEPT ![c] = new] /\ log'[c] = Append(log[c], e)
  BY DEF Requeue, Update, TypeOK
<1>2. e.reason = "requeued" /\ e.prev = cell[c].state BY DEF EventOf
<1> HIDE DEF e, new
<1>3. CASE x = c
  <2>1. log[c] \in Seq(Event) BY DEF TypeOK
  <2>2. Len(log[c]) + 1 \in DOMAIN log'[c] /\ log'[c][Len(log[c]) + 1] = e
    BY <1>1, <2>1, AppendedIs
  <2> QED BY <1>2, <1>3, <2>2 DEF Firmly
<1>4. CASE x # c
  <2>1. cell'[x] = cell[x] BY <1>1, <1>4 DEF TypeOK
  <2> QED BY <2>1 DEF Firmly
<1> QED BY <1>3, <1>4

\* The clock and a completion are the only other ends of a lease.
LEMMA LeasesFirm ==
    ASSUME TypeOK, BatchInv, [WorkerNext]_allVars, NEW c \in Cells
    PROVE  \/ Firmly(c)
           \/ Clock
           \/ \E w \in Workers : CompleteRun(w) /\ Current(w).cell = c
<1>1. WorkerTyped BY DEF BatchInv
<1>2. ASSUME cell'[c] = cell[c] PROVE Firmly(c) BY <1>2 DEF Firmly
<1>3. ASSUME UNCHANGED vars PROVE Firmly(c) BY <1>2, <1>3 DEF vars
<1>4. ASSUME NEW w \in Workers, StartBatch(w) PROVE Firmly(c)
  <2>1. PICK filter \in Filters, limit \in Limits, term \in Terms, d \in 0..MaxWait :
             Lease(w, filter, limit, term, d)
    BY <1>4 DEF StartBatch
  <2>2. cell[c].state = "leased" /\ ~Expired(c, d) => cell'[c] = cell[c]
    BY <2>1, LeaseGoes
  <2> QED BY <2>2, NotExpired DEF Firmly
<1>5. ASSUME NEW w \in Workers, Beat(w) PROVE Firmly(c)
  <2>1. Current(w) \in LeaseRecord BY <1>1, <1>5, CurrentIs DEF Beat
  <2>2. PICK term \in Terms, d \in 0..MaxWait :
             Heartbeat(Current(w).cell, w, Current(w).token, term, d)
    BY <1>5 DEF Beat
  <2>3. Current(w).cell \in Cells /\ Current(w).token \in Tokens BY <2>1 DEF LeaseRecord
  <2> QED BY <2>2, <2>3, HeartbeatFirm
<1>6. ASSUME Operator PROVE Firmly(c)
  <2>1. CASE Initialise
    <3>1. cell' = cell BY <2>1 DEF Initialise
    <3> QED BY <1>2, <3>1
  <2>2. CASE RequeueAny BY <2>2, RequeueFirm DEF RequeueAny
  <2>3. CASE ReclaimAny
    <3>1. PICK d \in 0..MaxWait : Reclaim(d) BY <2>3 DEF ReclaimAny
    <3>2. cell'[c] = ReclaimedRow(c, d) BY <3>1 DEF Reclaim
    <3> QED BY <3>2, NotExpired DEF ReclaimedRow, Firmly
  <2> QED BY <1>6, <2>1, <2>2, <2>3 DEF Operator
<1>7. ASSUME NEW w \in Workers, CompleteRun(w), Current(w).cell # c PROVE Firmly(c)
  BY <1>2, <1>7, CompleteRunIs
<1>8. ASSUME NEW w \in Workers,
             SkipMissing(w) \/ StartRun(w) \/ EndRun(w) \/ CompleteRaises(w) \/ WriteRecord(w)
               \/ BeatDies(w) \/ Crash(w)
      PROVE UNCHANGED vars
  BY <1>8 DEF SkipMissing, StartRun, EndRun, CompleteRaises, WriteRecord, BeatDies, Crash
<1>9. CASE WorkerNext
  BY <1>3, <1>4, <1>5, <1>6, <1>7, <1>8, <1>9, Zenon DEF WorkerNext, WorkerStep
<1>10. CASE UNCHANGED allVars BY <1>3, <1>10 DEF allVars
<1> QED BY <1>9, <1>10

\* Who is tended was before, on the same lease, unless its batch begins.
LEMMA TendedBefore ==
    ASSUME TypeOK, BatchInv, BatchInv', [WorkerNext]_allVars, NEW v \in Workers,
           Tended(v)', ~Current(v)'.waited
    PROVE  StartBatch(v) \/ (Tended(v) /\ Current(v)' = Current(v))
<1> DEFINE Same == (Tended(v)' => Tended(v)) /\ batch'[v] = batch[v]
<1>0. WorkerTyped /\ WorkerTyped' BY DEF BatchInv
<1>1. Tended(v)' <=> pc'[v] = "loop" \/ (pc'[v] = "running" /\ beat'[v] = "on")
  BY DEF Tended
<1>2. ASSUME NEW w \in Workers, SkipMissing(w) PROVE Same
  BY <1>0, <1>2 DEF SkipMissing, WorkerTyped, Tended
<1>3. ASSUME NEW w \in Workers, StartRun(w) PROVE Same
  BY <1>0, <1>3 DEF StartRun, WorkerTyped, Tended
<1>4. ASSUME NEW w \in Workers, EndRun(w) PROVE Same
  <2>1. PICK late \in {beat[w], "off"} : beat' = [beat EXCEPT ![w] = late]
    BY <1>4 DEF EndRun
  <2>2. pc' = [pc EXCEPT ![w] = "ended"] /\ batch' = batch BY <1>4 DEF EndRun
  <2> QED BY <1>0, <2>1, <2>2 DEF WorkerTyped, Tended
<1>5. ASSUME NEW w \in Workers, CompleteRun(w) PROVE Same
  BY <1>0, <1>5 DEF CompleteRun, WorkerTyped, Tended
<1>6. ASSUME NEW w \in Workers, CompleteRaises(w) PROVE Same \/ ~Tended(v)'
  BY <1>0, <1>6 DEF CompleteRaises, WorkerTyped, Tended
<1>7. ASSUME NEW w \in Workers, w # v, WriteRecord(w) PROVE Same
  <2>1. pc'[v] = pc[v] /\ batch'[v] = batch[v] /\ beat' = beat
    BY <1>0, <1>7 DEF WriteRecord, WorkerTyped
  <2> QED BY <2>1 DEF Tended
<1>8. ASSUME NEW w \in Workers, BeatDies(w) PROVE Same
  BY <1>0, <1>8 DEF BeatDies, WorkerTyped, Tended
<1>9. ASSUME NEW w \in Workers, Crash(w) PROVE Same \/ ~Tended(v)'
  BY <1>0, <1>9 DEF Crash, WorkerTyped, Tended
<1>10. ASSUME UNCHANGED workerVars PROVE Same
  BY <1>10 DEF workerVars, Tended
<1>11. ASSUME NEW w \in Workers, Beat(w) PROVE UNCHANGED workerVars
  BY <1>11 DEF Beat
<1>12. ASSUME NEW w \in Workers, w # v, StartBatch(w) PROVE Same
  <2>1. pc'[v] = pc[v] /\ batch'[v] = batch[v] /\ beat' = beat
    BY <1>0, <1>12 DEF StartBatch, WorkerTyped
  <2> QED BY <2>1 DEF Tended
<1>13. ASSUME WriteRecord(v) PROVE FALSE
  <2>1. pc[v] = "writing" /\ batch' = [batch EXCEPT ![v] = @ \ {Current(v)}]
    BY <1>13 DEF WriteRecord
  <2>2. batch'[v] = batch[v] \ {Current(v)} BY <1>0, <2>1 DEF WorkerTyped
  <2>3. pc'[v] # "idle" BY <1>1
  <2>4. batch'[v] # {} /\ batch'[v] \in SUBSET LeaseRecord BY <1>0, <2>3 DEF WorkerTyped
  <2>5. Current(v)' \in batch'[v] BY <2>4, LeastOf DEF Current
  <2>6. PICK m \in batch[v] : m = Current(v)' /\ m # Current(v) BY <2>2, <2>5
  <2>7. /\ Current(v) \in batch[v] /\ Current(v).cell <= m.cell
        /\ Current(v).cell \in Int /\ m.cell \in Int
    BY <1>0, <2>1, CurrentIs DEF LeaseRecord, WorkerTyped
  <2>8. m.waited BY <2>6, <2>7 DEF BatchInv, InOrder
  <2> QED BY <2>6, <2>8
<1> HIDE DEF Same
<1>14. CASE Same BY <1>14 DEF Same, Current
<1>15. CASE WorkerNext
  BY <1>2, <1>3, <1>4, <1>5, <1>6, <1>7, <1>8, <1>9, <1>10, <1>11, <1>12, <1>13, <1>14, <1>15,
     Zenon DEF WorkerNext, WorkerStep, Operator, Clock
<1>16. CASE UNCHANGED allVars BY <1>10, <1>14, <1>16 DEF allVars
<1> QED BY <1>15, <1>16

LEMMA HoldingStep ==
    ASSUME Punctual, \A term \in Terms : term > MaxWait,
           WorkerInv, WorkerInv', HoldingInv, [WorkerNext]_allVars
    PROVE  HoldingInv'
<1>0. /\ TypeOK /\ TypeOK' /\ LedgerInv /\ BatchInv /\ BatchInv'
      /\ WorkerTyped /\ WorkerTyped'
  BY DEF WorkerInv, BatchInv
<1>1. ASSUME NEW v \in Workers, Tended(v)', ~Current(v)'.waited,
             ~Abandoned(Current(v).cell)'
      PROVE  Firm(Current(v).cell, v, Current(v).token)'
  <2>1. PICK l : l = Current(v)' OBVIOUS
  <2>2. pc'[v] # "idle" BY <1>1 DEF Tended
  <2>3. batch'[v] # {} /\ batch'[v] \in SUBSET LeaseRecord
    BY <1>0, <2>2 DEF WorkerTyped
  <2>4. l \in batch'[v] /\ l \in LeaseRecord BY <2>1, <2>3, LeastOf DEF Current
  <2>5. l.cell \in Cells BY <2>4 DEF LeaseRecord
  <2>6. SUFFICES /\ cell'[l.cell].state = "leased" /\ cell'[l.cell].owner = v
                 /\ cell'[l.cell].token = l.token /\ cell'[l.cell].ttl > 0
    BY <2>1 DEF Firm
  <2>7. CASE StartBatch(v)
    <3>1. PICK filter \in Filters, limit \in Limits, term \in Terms, d \in 0..MaxWait :
               Lease(v, filter, limit, term, d)
      BY <2>7 DEF StartBatch
    <3>2. batch' = [batch EXCEPT ![v] = NewLeases] BY <2>7 DEF StartBatch
    <3> HIDE DEF NewLeases
    <3>3. l \in NewLeases BY <1>0, <2>4, <3>2 DEF WorkerTyped
    <3>4. /\ cell'[l.cell].state = "leased" /\ cell'[l.cell].owner = v
          /\ cell'[l.cell].token = l.token /\ cell'[l.cell].ttl = term - d
      BY <1>0, <3>1, <3>3, GrantedAre
    <3>5. term - d > 0
      <4>1. term \in Nat /\ term > MaxWait /\ d \in Nat /\ d <= MaxWait /\ MaxWait \in Nat
        BY ArgumentsAssumption, ClockAssumption
      <4> QED BY <4>1
    <3> QED BY <3>4, <3>5
  <2>8. CASE Tended(v) /\ Current(v)' = Current(v)
    <3>1. l = Current(v) BY <2>1, <2>8
    <3>2. ~\E i \in DOMAIN log'[l.cell] :
              log'[l.cell][i].reason = "requeued" /\ log'[l.cell][i].prev = "leased"
      BY <1>1, <2>1 DEF Abandoned
    <3>3. Goes(l.cell) BY <1>0, <2>5, StoreOfWorker
    <3>4. ~Abandoned(l.cell) BY <3>2, <3>3 DEF Abandoned, Goes
    <3>5. ~Abandoned(Current(v).cell) BY <3>1, <3>4 DEF Abandoned
    <3>6. ~Current(v).waited BY <1>1, <2>8
    <3>7. Firm(Current(v).cell, v, Current(v).token) BY <2>8, <3>5, <3>6 DEF HoldingInv
    <3>8. /\ cell[l.cell].state = "leased" /\ cell[l.cell].owner = v
          /\ cell[l.cell].token = l.token /\ cell[l.cell].ttl > 0
      BY <3>1, <3>7 DEF Firm
    <3>9. CASE Firmly(l.cell) BY <3>2, <3>8, <3>9 DEF Firmly
    <3>10. ASSUME NEW w \in Workers, CompleteRun(w), Current(w).cell = l.cell PROVE FALSE
      <4>1. cell[l.cell].owner = w BY <1>0, <3>10, CompleteRunIs
      <4>2. pc[v] = "ended" BY <3>8, <3>10, <4>1 DEF CompleteRun
      <4> QED BY <2>8, <4>2 DEF Tended
    <3>11. CASE Clock
      <4>1. ~Expired(l.cell, 0) BY <1>0, <2>5, <3>8, NotExpired, ClockAssumption
      <4>2. Owns(l.cell, v, l.token, 0) BY <3>8, <4>1 DEF Owns
      <4>3. Owns(Current(v).cell, v, Current(v).token, 0) BY <3>1, <4>2 DEF Owns, Expired
      <4>4. WouldRenew(v) BY <2>8, <4>3 DEF Tended, WouldRenew
      <4>5. cell[l.cell].ttl > 1 BY <3>1, <3>11, <4>4 DEF Clock
      <4>6. cell'[l.cell] = Older(cell[l.cell]) BY <2>5, <3>11 DEF Clock, Tick
      <4>7. cell[l.cell] \in Row BY <1>0, <2>5 DEF TypeOK
      <4> QED BY <3>8, <4>5, <4>6, <4>7 DEF Older, Row
    <3> QED BY <1>0, <2>5, <3>9, <3>10, <3>11, LeasesFirm
  <2> QED BY <1>0, <1>1, <2>7, <2>8, TendedBefore
<1> QED BY <1>1 DEF HoldingInv

LEMMA HoldingSuffices ==
    ASSUME WorkerInv, HoldingInv
    PROVE  ExclusiveExecution
<1>1. ASSUME NEW w \in Workers, NEW v \in Workers, pc[w] = "running", pc[v] = "running",
             Current(w).cell = Current(v).cell, ~Abandoned(Current(w).cell),
             \A x \in {w, v} : ~Current(x).waited /\ beat[x] # "off"
      PROVE  w = v
  <2>1. beat[w] = "on" /\ beat[v] = "on" BY <1>1 DEF WorkerInv, BatchInv, WorkerTyped
  <2>2. Tended(w) /\ Tended(v) BY <1>1, <2>1 DEF Tended
  <2>3. ~Abandoned(Current(v).cell) BY <1>1 DEF Abandoned
  <2>4. Firm(Current(w).cell, w, Current(w).token) BY <1>1, <2>2 DEF HoldingInv
  <2>5. Firm(Current(v).cell, v, Current(v).token) BY <1>1, <2>2, <2>3 DEF HoldingInv
  <2> QED BY <1>1, <2>4, <2>5 DEF Firm
<1> QED BY <1>1 DEF ExclusiveExecution

(* Two workers call the provider for one cell at the same time only if a   *)
(* retry abandoned the running lease, the lease of one of them waited in   *)
(* its batch, or its heartbeat thread died (_LeaseHeartbeat): with         *)
(* punctual heartbeats, and leases longer than the wait for the write      *)
(* lock.                                                                   *)
THEOREM OneWorkerPerCell ==
    ASSUME Punctual, \A term \in Terms : term > MaxWait
    PROVE  WorkerSpec => []ExclusiveExecution
<1>1. WorkerInit => WorkerInv BY WorkerInvInit
<1>2. WorkerInit => HoldingInv BY DEF WorkerInit, HoldingInv, Tended
<1>3. WorkerInv /\ [WorkerNext]_allVars => WorkerInv' BY WorkerInvStep
<1>4. WorkerInv /\ WorkerInv' /\ HoldingInv /\ [WorkerNext]_allVars => HoldingInv'
  BY HoldingStep
<1>5. WorkerInv /\ HoldingInv => ExclusiveExecution BY HoldingSuffices
<1> QED BY <1>1, <1>2, <1>3, <1>4, <1>5, PTL DEF WorkerSpec

=============================================================================
