------------------------- MODULE CampaignStoreProofs ------------------------
(***************************************************************************)
(* Theorems about CampaignStore, for every campaign, every set of workers  *)
(* and tokens and every bound on clocks and arguments: the event log and   *)
(* the cells table agree, leases are fenced, the per-model cap holds, a    *)
(* token is granted once, the store implements the lease service, and the  *)
(* money adds up.                                                          *)
(***************************************************************************)
EXTENDS CampaignStore, Sums, FiniteSetTheorems, SequenceTheorems,
        WellFoundedInduction, TLAPS

USE DEF Cells

(* Rounding a cost gives a cost: _insert_event's round(actual_cost, 8).    *)
LEMMA RoundedType ==
    ASSUME NEW cost \in Nat
    PROVE  Rounded(cost) \in Nat
<1>1. Quantum \in Nat \ {0} BY QuantumAssumption
<1>2. (cost + (Quantum \div 2)) \div Quantum \in Nat BY <1>1
<1> DEFINE n == (cost + (Quantum \div 2)) \div Quantum
<1>3. \A a, b \in Nat : a * b \in Nat OBVIOUS
<1>4. n \in Nat BY <1>2
<1> HIDE DEF n
<1>5. Quantum * n \in Nat BY <1>1, <1>3, <1>4
<1> QED BY <1>5 DEF Rounded, n

(* A row as initialise_campaign_store inserts it is a row.                 *)
LEMMA FreshRowType == \A c \in Cells : FreshRow(c) \in Row
BY ManifestAssumption DEF FreshRow, Row, CellStates

(* Clearing the lease columns of a row leaves a row.                       *)
LEMMA UnleasedType ==
    ASSUME NEW row \in Row
    PROVE  Unleased(row) \in Row
<1> DEFINE a == [row EXCEPT !.owner = None]
           b == [a EXCEPT !.token = None]
           u == [b EXCEPT !.ttl = 0]
<1>1. a \in Row BY DEF Row
<1> HIDE DEF a
<1>2. b \in Row BY <1>1 DEF Row
<1> HIDE DEF b
<1>3. u \in Row BY <1>2 DEF Row
<1> QED BY <1>3, Zenon DEF a, b, u, Unleased

(* The row a completion writes is a row.                                   *)
LEMMA CompletedType ==
    ASSUME NEW row \in Row, NEW new \in CellStates, NEW cost \in Nat, NEW art \in BOOLEAN
    PROVE  [Unleased(row) EXCEPT !.state = new, !.actual = @ + cost, !.artifact = art] \in Row
<1> DEFINE u == Unleased(row)
           a == [u EXCEPT !.state = new]
           b == [a EXCEPT !.actual = @ + cost]
           e == [b EXCEPT !.artifact = art]
<1>1. u \in Row BY UnleasedType
<1> HIDE DEF u
<1>2. a \in Row BY <1>1 DEF Row
<1> HIDE DEF a
<1>3. b \in Row BY <1>2 DEF Row
<1> HIDE DEF b
<1>4. e \in Row BY <1>3 DEF Row
<1> QED BY <1>4, Zenon DEF u, a, b, e

(* _reclaim_expired_in_transaction keeps the types of the rows it visits.  *)
LEMMA ReclaimedType ==
    ASSUME TypeOK, NEW c \in Cells, NEW d \in 0..MaxWait
    PROVE  /\ ReclaimedRow(c, d) \in Row
           /\ ReclaimedLog(c, d) \in Seq(Event)
<1>1. cell[c] \in Row /\ log[c] \in Seq(Event) BY DEF TypeOK
<1>2. ReclaimedRow(c, d) \in Row
  <2>1. Unleased(cell[c]) \in Row BY <1>1, UnleasedType
  <2>2. [Unleased(cell[c]) EXCEPT !.state = "ready"] \in Row BY <2>1 DEF Row, CellStates
  <2> QED BY <1>1, <2>2 DEF ReclaimedRow
<1>3. ASSUME Expired(c, d)
      PROVE  EventOf(cell[c], cell[c].owner, cell[c].token, "ready", 0, "lease-expired") \in Event
  BY <1>1 DEF EventOf, Row, Event, CellStates, Reasons
<1>4. ReclaimedLog(c, d) \in Seq(Event)
  BY <1>1, <1>3 DEF ReclaimedLog
<1> QED BY <1>2, <1>4

(* A grant of lease_campaign_cells makes a row and an event.               *)
LEMMA LeasedType ==
    ASSUME NEW row \in Row, NEW w \in Workers, NEW t \in Tokens, NEW ttl \in Int
    PROVE  /\ LeasedRow(row, w, t, ttl) \in Row
           /\ LeaseEvent(row, w, t) \in Event
<1> DEFINE a == [row EXCEPT !.state = "leased"]
           b == [a EXCEPT !.attempt = @ + 1]
           e == [b EXCEPT !.owner = w]
           f == [e EXCEPT !.token = t]
           g == [f EXCEPT !.ttl = ttl]
<1>1. a \in Row BY DEF Row, CellStates
<1> HIDE DEF a
<1>2. b \in Row BY <1>1 DEF Row
<1> HIDE DEF b
<1>3. e \in Row BY <1>2 DEF Row
<1> HIDE DEF e
<1>4. f \in Row BY <1>3 DEF Row
<1> HIDE DEF f
<1>5. g \in Row BY <1>4 DEF Row
<1>6. LeasedRow(row, w, t, ttl) \in Row BY <1>5, Zenon DEF a, b, e, f, g, LeasedRow
<1>7. LeaseEvent(row, w, t) \in Event BY DEF LeaseEvent, Row, Event, CellStates, Reasons
<1> QED BY <1>6, <1>7

(* The update of one cell by heartbeat, completion or retry keeps types.   *)
LEMMA UpdateType ==
    ASSUME TypeOK, NEW c \in Cells, NEW row \in Row, NEW e \in Event, Update(c, row, e)
    PROVE  TypeOK'
<1>1. cell' \in [Cells -> Row] BY DEF TypeOK, Update
<1>2. log[c] \in Seq(Event) BY DEF TypeOK
<1>3. Append(log[c], e) \in Seq(Event) BY <1>2
<1>4. log' \in [Cells -> Seq(Event)] BY <1>3 DEF TypeOK, Update
<1> QED BY <1>1, <1>4 DEF TypeOK, Update

\* A completion keeps the types, whatever it costs.
LEMMA CompleteTyped ==
    ASSUME TypeOK, NEW c \in Cells, NEW w \in Workers, NEW t \in Tokens, NEW d \in 0..MaxWait,
           NEW new \in CompletionStates, NEW cost \in Nat, NEW artifact \in BOOLEAN,
           Complete(c, w, t, new, cost, artifact, d)
    PROVE  TypeOK'
<1>1. cell[c] \in Row BY DEF TypeOK
<1>2. new \in CellStates BY DEF CompletionStates, CellStates
<1>3. [Unleased(cell[c]) EXCEPT !.state = new, !.actual = @ + cost, !.artifact = artifact] \in Row
  BY <1>1, <1>2, CompletedType
<1>4. EventOf(cell[c], w, t, new, Rounded(cost), "completed") \in Event
  BY <1>1, <1>2, RoundedType DEF EventOf, Row, Event, Reasons
<1> QED BY <1>3, <1>4, UpdateType DEF Complete

(* Each action of the store keeps the types.                               *)
LEMMA TypeStep ==
    ASSUME TypeOK, [Next]_vars
    PROVE  TypeOK'
<1>1. CASE Initialise
  BY <1>1 DEF Initialise, TypeOK
<1>2. CASE Overwrite
  <2>1. cell' \in [Cells -> Row] BY <1>2, FreshRowType DEF Overwrite
  <2>2. log' \in [Cells -> Seq(Event)] BY <1>2 DEF Overwrite
  <2> QED BY <1>2, <2>1, <2>2 DEF Overwrite, TypeOK
<1>3. CASE LeaseAny
  <2>1. PICK w \in Workers, filter \in Filters, limit \in Limits, term \in Terms,
             d \in 0..MaxWait : Lease(w, filter, limit, term, d)
    BY <1>3 DEF LeaseAny
  <2>2. PICK S \in SUBSET Ready(filter, d) :
             \E tok \in FreshTokens(S) : LeaseCells(S, tok, w, term, d)
    BY <2>1 DEF Lease
  <2>3. PICK tok \in FreshTokens(S) : LeaseCells(S, tok, w, term, d)
    BY <2>2
  <2>4. tok \in [S -> Tokens] BY <2>3 DEF FreshTokens
  <2>5. term - d \in Int BY ArgumentsAssumption, ClockAssumption
  <2>6. \A c \in Cells : ReclaimedRow(c, d) \in Row /\ ReclaimedLog(c, d) \in Seq(Event)
    BY ReclaimedType
  <2>7. \A c \in S : c \in Cells =>
             /\ LeasedRow(ReclaimedRow(c, d), w, tok[c], term - d) \in Row
             /\ LeaseEvent(ReclaimedRow(c, d), w, tok[c]) \in Event
    BY <2>4, <2>5, <2>6, LeasedType
  <2>8. cell' \in [Cells -> Row]
    BY <2>3, <2>6, <2>7 DEF LeaseCells
  <2>9. \A c \in Cells : c \in S =>
             Append(ReclaimedLog(c, d), LeaseEvent(ReclaimedRow(c, d), w, tok[c])) \in Seq(Event)
    BY <2>6, <2>7
  <2>10. log' \in [Cells -> Seq(Event)]
    BY <2>3, <2>6, <2>9 DEF LeaseCells
  <2>11. initialised' \in BOOLEAN BY <2>1 DEF Lease, TypeOK
  <2> QED BY <2>8, <2>10, <2>11 DEF TypeOK
<1>4. CASE HeartbeatAny
  <2>1. PICK c \in Cells, w \in Workers, t \in Tokens, term \in Terms, d \in 0..MaxWait :
             Heartbeat(c, w, t, term, d)
    BY <1>4 DEF HeartbeatAny
  <2>2. cell[c] \in Row BY DEF TypeOK
  <2>3. term - d \in Int BY ArgumentsAssumption, ClockAssumption
  <2>4. [cell[c] EXCEPT !.ttl = IF term - d > @ THEN term - d ELSE @] \in Row
    BY <2>2, <2>3 DEF Row
  <2>5. EventOf(cell[c], w, t, "leased", 0, "lease-heartbeat") \in Event
    BY <2>2 DEF EventOf, Row, Event, CellStates, Reasons
  <2> QED BY <2>1, <2>4, <2>5, UpdateType DEF Heartbeat
<1>5. CASE CompleteAny
  <2>1. PICK c \in Cells, w \in Workers, t \in Tokens, d \in 0..MaxWait,
             new \in Outcomes, cost \in Costs, artifact \in BOOLEAN :
             Complete(c, w, t, new, cost, artifact, d)
    BY <1>5 DEF CompleteAny
  <2>2. cost \in Nat /\ new \in CompletionStates BY ArgumentsAssumption
  <2> QED BY <2>1, <2>2, CompleteTyped
<1>6. CASE RequeueAny
  <2>1. PICK c \in Cells, w \in Operators : Requeue(c, w) BY <1>6 DEF RequeueAny
  <2>2. cell[c] \in Row BY DEF TypeOK
  <2>3. [cell[c] EXCEPT !.state = "ready", !.artifact = FALSE] \in Row
    BY <2>2 DEF Row, CellStates
  <2>4. EventOf(cell[c], w, None, "ready", 0, "requeued") \in Event
    BY <2>2, ArgumentsAssumption DEF EventOf, Row, Event, CellStates, Reasons
  <2> QED BY <2>1, <2>3, <2>4, UpdateType DEF Requeue
<1>7. CASE ReclaimAny
  <2>1. PICK d \in 0..MaxWait : Reclaim(d) BY <1>7 DEF ReclaimAny
  <2>2. \A c \in Cells : ReclaimedRow(c, d) \in Row /\ ReclaimedLog(c, d) \in Seq(Event)
    BY ReclaimedType
  <2> QED BY <2>1, <2>2 DEF Reclaim, TypeOK
<1>8. CASE Tick
  <2>1. \A c \in Cells : Older(cell[c]) \in Row
    <3> TAKE c \in Cells
    <3>1. cell[c] \in Row BY DEF TypeOK
    <3> QED BY <3>1 DEF Older, Row
  <2>2. cell' \in [Cells -> Row] BY <1>8, <2>1, Zenon DEF Tick
  <2> QED BY <1>8, <2>2 DEF Tick, TypeOK
<1>9. CASE UNCHANGED vars
  BY <1>9 DEF vars, TypeOK
<1> QED BY <1>1, <1>2, <1>3, <1>4, <1>5, <1>6, <1>7, <1>8, <1>9 DEF Next

(* The store's rows and events keep their types (CampaignStore!TypeOK).    *)
THEOREM TypeCorrect == Spec => []TypeOK
<1>1. ASSUME Init PROVE TypeOK
  <2>1. cell \in [Cells -> Row] BY <1>1, FreshRowType, Zenon DEF Init
  <2>2. log \in [Cells -> Seq(Event)] BY <1>1 DEF Init
  <2> QED BY <1>1, <2>1, <2>2 DEF Init, TypeOK
<1> QED BY <1>1, TypeStep, PTL DEF Spec

-----------------------------------------------------------------------------
(* The ledger invariant.  What the event log says of a cell and what its   *)
(* row says agree, in five ways at once; they are inductive together,      *)
(* because a renewal or completion is fenced only if the row it checks is  *)
(* backed by the log.                                                      *)

\* An attempt is completed once, and before the next one is granted.
CompletedOnce(row, l) ==
    \A i \in DOMAIN l :
        /\ l[i].attempt <= row.attempt
        /\ l[i].reason = "completed" =>
              /\ row.state = "leased" => l[i].attempt < row.attempt
              /\ \A j \in DOMAIN l :
                    l[j].reason = "completed" /\ l[i].attempt = l[j].attempt => i = j

CellInv(c, row, l) ==
    /\ Replays(c, row, l)
    /\ Backed(row, l)
    /\ FencedLog(l)
    /\ Numbered(row, l)
    /\ CompletedOnce(row, l)

LedgerInv == \A c \in Cells : CellInv(c, cell[c], log[c])

(* Appending an event keeps the log's part of the invariant when the event *)
(* continues from the row: legal transition, fenced holder, next number.   *)
LEMMA AppendEvent ==
    ASSUME NEW c \in Cells, NEW row \in Row, NEW l \in Seq(Event), CellInv(c, row, l),
           NEW e \in Event, NEW new \in Row,
           e.prev = row.state, <<e.prev, e.new>> \in AllowedTransitions,
           e.reason \in {"lease-heartbeat", "lease-expired", "completed"} =>
               row.state = "leased" /\ Holder(e) = Holder(row) /\ e.worker = row.owner,
           e.attempt = row.attempt + (IF Grant(e) THEN 1 ELSE 0),
           new.state = e.new, new.attempt = e.attempt,
           new.state = "leased" =>
               /\ Held(e)
               /\ Holder(e) = Holder(new)
               /\ e.worker = new.owner
               /\ new.owner # None
               /\ new.token # None
    PROVE  CellInv(c, new, Append(l, e))
<1> DEFINE n == Len(l)
           m == Append(l, e)
<1>1. /\ n \in Nat /\ m \in Seq(Event) /\ Len(m) = n + 1 /\ m # <<>> /\ m[n + 1] = e
      /\ DOMAIN m = 1..(n + 1) /\ DOMAIN l = 1..n
      /\ \A i \in 1..n : m[i] = l[i]
      /\ (l = <<>> <=> n = 0)
  OBVIOUS
<1> HIDE DEF n, m
<1>2. Replays(c, new, m)
  <2>1. ASSUME NEW i \in 1..(n + 1)
        PROVE  /\ m[i].prev = IF i = 1 THEN InitialState[c] ELSE m[i-1].new
               /\ <<m[i].prev, m[i].new>> \in AllowedTransitions
    <3>1. CASE i \in 1..n
      <4>1. m[i] = l[i] /\ (i # 1 => m[i-1] = l[i-1]) BY <1>1, <3>1
      <4>2. i \in DOMAIN l BY <1>1, <3>1
      <4>3. /\ l[i].prev = IF i = 1 THEN InitialState[c] ELSE l[i-1].new
            /\ <<l[i].prev, l[i].new>> \in AllowedTransitions
        BY <4>2 DEF CellInv, Replays
      <4>4. CASE i = 1 BY <4>1, <4>3, <4>4
      <4>5. CASE i # 1 BY <4>1, <4>3, <4>5
      <4> QED BY <4>4, <4>5
    <3>2. CASE i = n + 1
      <4>1. m[i] = e /\ (i # 1 => m[i-1] = l[n]) BY <1>1, <3>2
      <4>2. row.state = IF n = 0 THEN InitialState[c] ELSE l[n].new
        BY <1>1 DEF CellInv, Replays, n
      <4> QED BY <1>1, <3>2, <4>1, <4>2
    <3> QED BY <1>1, <3>1, <3>2
  <2> QED BY <1>1, <2>1 DEF Replays
<1>3. Backed(new, m)
  BY <1>1 DEF Backed
<1>4. FencedLog(m)
  <2>1. ASSUME NEW i \in 1..(n + 1),
               m[i].reason \in {"lease-heartbeat", "lease-expired", "completed"}
        PROVE  i > 1 /\ Held(m[i-1]) /\ Holder(m[i]) = Holder(m[i-1])
               /\ m[i].worker = m[i-1].worker
    <3>1. CASE i \in 1..n
      <4>1. m[i] = l[i] /\ (i > 1 => m[i-1] = l[i-1]) BY <1>1, <3>1
      <4> QED BY <1>1, <2>1, <3>1, <4>1 DEF CellInv, FencedLog
    <3>2. CASE i = n + 1
      <4>1. m[i] = e BY <1>1, <3>2
      <4>2. row.state = "leased" /\ Holder(e) = Holder(row) /\ e.worker = row.owner
        BY <2>1, <4>1
      <4>3. /\ n # 0 /\ Held(l[n]) /\ Holder(l[n]) = Holder(row)
            /\ l[n].worker = row.owner
        BY <1>1, <4>2 DEF CellInv, Backed, n
      <4>4. i > 1 /\ m[i-1] = l[n] BY <1>1, <3>2, <4>3
      <4> QED BY <4>1, <4>2, <4>3, <4>4
    <3> QED BY <1>1, <3>1, <3>2
  <2> QED BY <1>1, <2>1 DEF FencedLog
<1>5. Numbered(new, m)
  <2>1. ASSUME NEW i \in 1..(n + 1)
        PROVE  m[i].attempt = (IF i = 1 THEN 0 ELSE m[i-1].attempt)
                              + (IF Grant(m[i]) THEN 1 ELSE 0)
    <3>1. CASE i \in 1..n
      <4>1. m[i] = l[i] /\ (i # 1 => m[i-1] = l[i-1]) BY <1>1, <3>1
      <4>2. i \in DOMAIN l BY <1>1, <3>1
      <4>3. l[i].attempt = (IF i = 1 THEN 0 ELSE l[i-1].attempt) + (IF Grant(l[i]) THEN 1 ELSE 0)
        BY <4>2 DEF CellInv, Numbered
      <4>4. CASE i = 1 BY <4>1, <4>3, <4>4
      <4>5. CASE i # 1 BY <4>1, <4>3, <4>5
      <4> QED BY <4>4, <4>5
    <3>2. CASE i = n + 1
      <4>1. m[i] = e /\ (i # 1 => m[i-1] = l[n]) BY <1>1, <3>2
      <4>2. row.attempt = IF n = 0 THEN 0 ELSE l[n].attempt
        BY <1>1 DEF CellInv, Numbered, n
      <4> QED BY <1>1, <3>2, <4>1, <4>2
    <3> QED BY <1>1, <3>1, <3>2
  <2> QED BY <1>1, <2>1 DEF Numbered
<1>6. CompletedOnce(new, m)
  <2>1. \A i \in 1..n : m[i] \in Event /\ m[i].attempt <= row.attempt
    BY <1>1 DEF CellInv, CompletedOnce
  <2>2. row.attempt \in Nat /\ new.attempt \in Nat /\ row.attempt <= new.attempt
    BY DEF Row
  <2>a. \A i \in 1..n : m[i].attempt \in Nat BY <2>1 DEF Event
  <2>3. ASSUME NEW i \in 1..(n + 1) PROVE m[i].attempt <= new.attempt
    <3>1. CASE i \in 1..n BY <2>1, <2>2, <2>a, <3>1
    <3>2. CASE i = n + 1 BY <1>1, <2>2, <3>2
    <3> QED BY <1>1, <3>1, <3>2
  <2>4. ASSUME NEW i \in 1..n, m[i].reason = "completed"
        PROVE  /\ row.state = "leased" => m[i].attempt < row.attempt
               /\ \A j \in 1..n :
                     m[j].reason = "completed" /\ m[i].attempt = m[j].attempt => i = j
    BY <1>1, <2>4 DEF CellInv, CompletedOnce
  <2>5. e.reason = "completed" => /\ row.state = "leased" /\ new.state # "leased"
                                  /\ e.attempt = row.attempt
    BY <2>2 DEF Held, Grant
  <2>6. ASSUME NEW i \in 1..(n + 1), m[i].reason = "completed", new.state = "leased"
        PROVE  m[i].attempt < new.attempt
    <3>1. i \in 1..n BY <1>1, <2>5, <2>6
    <3>2. CASE Grant(e)
      BY <2>1, <2>2, <3>1, <3>2 DEF Event
    <3>3. CASE ~Grant(e)
      <4>1. row.state = "leased" BY <2>6, <3>3 DEF Held, Grant
      <4> QED BY <2>4, <2>6, <3>1, <3>3, <4>1, <2>2
    <3> QED BY <3>2, <3>3
  <2>7. ASSUME NEW i \in 1..(n + 1), NEW j \in 1..(n + 1), m[i].reason = "completed",
               m[j].reason = "completed", m[i].attempt = m[j].attempt
        PROVE  i = j
    <3>1. CASE i \in 1..n /\ j \in 1..n BY <2>4, <2>7, <3>1
    <3>2. CASE i = n + 1 /\ j \in 1..n
      <4>1. m[j].attempt < row.attempt BY <1>1, <2>4, <2>5, <2>7, <3>2
      <4> QED BY <1>1, <2>1, <2>2, <2>5, <2>7, <3>2, <4>1 DEF Event
    <3>3. CASE j = n + 1 /\ i \in 1..n
      <4>1. m[i].attempt < row.attempt BY <1>1, <2>4, <2>5, <2>7, <3>3
      <4> QED BY <1>1, <2>1, <2>2, <2>5, <2>7, <3>3, <4>1 DEF Event
    <3> QED BY <1>1, <3>1, <3>2, <3>3
  <2> QED BY <1>1, <2>3, <2>6, <2>7 DEF CompletedOnce
<1> QED BY <1>2, <1>3, <1>4, <1>5, <1>6 DEF CellInv, m

\* What the updates of a row write into it.
LEMMA UnleasedFields ==
    ASSUME NEW row \in Row, NEW st \in CellStates
    PROVE  LET new == [Unleased(row) EXCEPT !.state = st] IN
           new.state = st /\ new.attempt = row.attempt /\ new.token = None /\ new.owner = None
<1>1. Unleased(row).attempt = row.attempt /\ Unleased(row).token = None
      /\ Unleased(row).owner = None /\ Unleased(row) \in Row
  BY UnleasedType DEF Unleased, Row
<1> QED BY <1>1 DEF Row

LEMMA CompletedFields ==
    ASSUME NEW row \in Row, NEW st \in CellStates, NEW cost \in Nat, NEW art \in BOOLEAN
    PROVE  LET new == [Unleased(row) EXCEPT !.state = st, !.actual = @ + cost, !.artifact = art]
           IN  new.state = st /\ new.attempt = row.attempt
<1>1. Unleased(row).attempt = row.attempt /\ Unleased(row) \in Row
  BY UnleasedType DEF Unleased, Row
<1> QED BY <1>1 DEF Row

LEMMA LeasedFields ==
    ASSUME NEW row \in Row, NEW w \in Workers, NEW t \in Tokens, NEW ttl \in Int
    PROVE  LET new == LeasedRow(row, w, t, ttl) IN
           /\ new.state = "leased" /\ new.attempt = row.attempt + 1
           /\ new.token = t /\ new.owner = w
BY DEF LeasedRow, Row

(* A lease taken back by _reclaim_expired_in_transaction.                  *)
LEMMA ReclaimedInv ==
    ASSUME TypeOK, LedgerInv, NEW c \in Cells, NEW d \in 0..MaxWait
    PROVE  CellInv(c, ReclaimedRow(c, d), ReclaimedLog(c, d))
<1>1. cell[c] \in Row /\ log[c] \in Seq(Event) /\ CellInv(c, cell[c], log[c])
  BY DEF TypeOK, LedgerInv
<1>2. CASE ~Expired(c, d)
  BY <1>1, <1>2 DEF ReclaimedRow, ReclaimedLog
<1>3. CASE Expired(c, d)
  <2> DEFINE e == EventOf(cell[c], cell[c].owner, cell[c].token, "ready", 0, "lease-expired")
             new == [Unleased(cell[c]) EXCEPT !.state = "ready"]
  <2>1. new \in Row BY <1>3, ReclaimedType DEF ReclaimedRow
  <2>2. cell[c].state = "leased" BY <1>3 DEF Expired
  <2>3. e \in Event
    BY <1>1 DEF EventOf, Row, Event, CellStates, Reasons
  <2>4. new.state = "ready" /\ new.attempt = cell[c].attempt
    BY <1>1, UnleasedFields DEF CellStates
  <2>5. /\ e.prev = "leased" /\ e.new = "ready" /\ e.reason = "lease-expired"
        /\ e.attempt = cell[c].attempt /\ e.token = cell[c].token /\ e.worker = cell[c].owner
    BY <2>2 DEF EventOf
  <2> HIDE DEF e, new
  <2>6. Holder(e) = Holder(cell[c]) BY <2>5 DEF Holder
  <2>7. ~Grant(e) BY <2>5 DEF Grant
  <2>8. e.attempt = cell[c].attempt + (IF Grant(e) THEN 1 ELSE 0)
    BY <1>1, <2>5, <2>7 DEF Row
  <2>9. <<e.prev, e.new>> \in AllowedTransitions BY <2>5 DEF AllowedTransitions
  <2>10. CellInv(c, new, Append(log[c], e))
    BY <1>1, <2>1, <2>2, <2>3, <2>4, <2>5, <2>6, <2>8, <2>9, AppendEvent
  <2> QED BY <1>3, <2>10 DEF ReclaimedRow, ReclaimedLog, e, new
<1> QED BY <1>2, <1>3

(* A cell granted by lease_campaign_cells.                                 *)
LEMMA LeasedInv ==
    ASSUME NEW c \in Cells, NEW row \in Row, NEW l \in Seq(Event), CellInv(c, row, l),
           row.state = "ready", NEW w \in Workers, NEW t \in Tokens, NEW ttl \in Int
    PROVE  CellInv(c, LeasedRow(row, w, t, ttl), Append(l, LeaseEvent(row, w, t)))
<1> DEFINE e == LeaseEvent(row, w, t)
           new == LeasedRow(row, w, t, ttl)
<1>1. new \in Row /\ e \in Event BY LeasedType
<1>2. /\ new.state = "leased" /\ new.attempt = row.attempt + 1
      /\ new.token = t /\ new.owner = w
  BY LeasedFields
<1>3. /\ e.prev = "ready" /\ e.new = "leased" /\ e.reason = "worker-lease"
      /\ e.attempt = row.attempt + 1 /\ e.token = t /\ e.worker = w
  BY DEF LeaseEvent
<1> HIDE DEF e, new
<1>4. Grant(e) /\ Held(e) BY <1>3 DEF Grant, Held
<1>5. Holder(e) = Holder(new) BY <1>2, <1>3 DEF Holder
<1>6. <<e.prev, e.new>> \in AllowedTransitions BY <1>3 DEF AllowedTransitions
<1>7. w # None /\ t # None BY NoneAssumption
<1>8. CellInv(c, new, Append(l, e))
  BY <1>1, <1>2, <1>3, <1>4, <1>5, <1>6, <1>7, AppendEvent
<1> QED BY <1>8 DEF e, new

(* Only one cell changes: the others keep their part of the invariant.     *)
LEMMA UpdateInv ==
    ASSUME TypeOK, LedgerInv, NEW c \in Cells, NEW row, NEW e, Update(c, row, e),
           CellInv(c, row, Append(log[c], e))
    PROVE  LedgerInv'
<1>1. ASSUME NEW x \in Cells PROVE CellInv(x, cell'[x], log'[x])
  <2>1. CASE x = c
    BY <2>1 DEF Update, TypeOK
  <2>2. CASE x # c
    <3>1. cell'[x] = cell[x] /\ log'[x] = log[x] BY <2>2 DEF Update, TypeOK
    <3> QED BY <3>1 DEF LedgerInv
  <2> QED BY <2>1, <2>2
<1>2. (\A x \in Cells : CellInv(x, cell[x], log[x]))' <=>
      \A x \in Cells : CellInv(x, cell'[x], log'[x])
  BY DEF CellInv, Replays, Backed, FencedLog, Numbered, CompletedOnce
<1> QED BY <1>1, <1>2 DEF LedgerInv

\* A completion keeps the ledger invariant, whatever it costs.
LEMMA CompleteKeeps ==
    ASSUME TypeOK, LedgerInv, NEW c \in Cells, NEW w \in Workers, NEW t \in Tokens,
           NEW d \in 0..MaxWait, NEW st \in CompletionStates, NEW cost \in Nat,
           NEW artifact \in BOOLEAN, Complete(c, w, t, st, cost, artifact, d)
    PROVE  LedgerInv'
<1> DEFINE e == EventOf(cell[c], w, t, st, Rounded(cost), "completed")
           new == [Unleased(cell[c]) EXCEPT !.state = st, !.actual = @ + cost,
                                            !.artifact = artifact]
<1>2. Owns(c, w, t, d) /\ Update(c, new, e) BY DEF Complete
<1>3. cell[c] \in Row /\ log[c] \in Seq(Event) /\ CellInv(c, cell[c], log[c]) BY DEF TypeOK, LedgerInv
<1>4. /\ cost \in Nat /\ st \in CellStates /\ st # "leased"
      /\ <<"leased", st>> \in AllowedTransitions
  BY DEF CompletionStates, CellStates, AllowedTransitions
<1>5. new \in Row BY <1>3, <1>4, CompletedType
<1>6. e \in Event BY <1>3, <1>4, RoundedType DEF EventOf, Row, Event, Reasons
<1>7. new.state = st /\ new.attempt = cell[c].attempt BY <1>3, <1>4, CompletedFields
<1>8. cell[c].state = "leased" /\ cell[c].owner = w /\ cell[c].token = t
  BY <1>2 DEF Owns
<1>9. /\ e.prev = "leased" /\ e.new = st /\ e.reason = "completed"
      /\ e.attempt = cell[c].attempt /\ e.token = t /\ e.worker = w
  BY <1>8 DEF EventOf
<1> HIDE DEF e, new
<1>10. Holder(e) = Holder(cell[c]) BY <1>8, <1>9 DEF Holder
<1>11. ~Grant(e) BY <1>9 DEF Grant
<1>12. e.attempt = cell[c].attempt + (IF Grant(e) THEN 1 ELSE 0)
  BY <1>3, <1>9, <1>11 DEF Row
<1>13. CellInv(c, new, Append(log[c], e))
  BY <1>3, <1>4, <1>5, <1>6, <1>7, <1>8, <1>9, <1>10, <1>12, AppendEvent
<1> QED BY <1>2, <1>13, UpdateInv

(* Every action of the store keeps the ledger invariant.                   *)
LEMMA LedgerStep ==
    ASSUME TypeOK, LedgerInv, [Next]_vars
    PROVE  LedgerInv'
<1>0. ASSUME \A c \in Cells : CellInv(c, cell'[c], log'[c])
      PROVE  LedgerInv'
  BY <1>0 DEF LedgerInv, CellInv, Replays, Backed, FencedLog, Numbered, CompletedOnce
<1>a. \A c \in Cells : cell[c] \in Row /\ log[c] \in Seq(Event) /\ CellInv(c, cell[c], log[c])
  BY DEF TypeOK, LedgerInv
<1>1. CASE Initialise
  BY <1>0, <1>1, <1>a DEF Initialise
<1>2. CASE Overwrite
  <2>1. ASSUME NEW c \in Cells PROVE CellInv(c, FreshRow(c), <<>>)
    <3>1. FreshRow(c).state = InitialState[c] /\ FreshRow(c).attempt = 0
      BY DEF FreshRow
    <3>2. InitialState[c] # "leased" BY ManifestAssumption
    <3> QED BY <3>1, <3>2 DEF CellInv, Replays, Backed, FencedLog, Numbered, CompletedOnce
  <2>2. ASSUME NEW c \in Cells PROVE cell'[c] = FreshRow(c) /\ log'[c] = <<>>
    BY <1>2 DEF Overwrite
  <2> QED BY <1>0, <2>1, <2>2
<1>3. CASE LeaseAny
  <2>1. PICK w \in Workers, filter \in Filters, limit \in Limits, term \in Terms,
             d \in 0..MaxWait : Lease(w, filter, limit, term, d)
    BY <1>3 DEF LeaseAny
  <2>2. PICK S \in SUBSET Ready(filter, d) :
             \E tok \in FreshTokens(S) : LeaseCells(S, tok, w, term, d)
    BY <2>1 DEF Lease
  <2>3. PICK tok \in FreshTokens(S) : LeaseCells(S, tok, w, term, d)
    BY <2>2
  <2>4. tok \in [S -> Tokens] BY <2>3 DEF FreshTokens
  <2>5. term - d \in Int BY ArgumentsAssumption, ClockAssumption
  <2>6. ASSUME NEW c \in Cells PROVE CellInv(c, cell'[c], log'[c])
    <3> DEFINE row == ReclaimedRow(c, d)
               l == ReclaimedLog(c, d)
    <3>1. row \in Row /\ l \in Seq(Event) BY ReclaimedType
    <3>2. CellInv(c, row, l) BY ReclaimedInv
    <3>3. CASE c \notin S
      <4>1. cell'[c] = row /\ log'[c] = l BY <2>3, <3>3 DEF LeaseCells
      <4> QED BY <3>2, <4>1
    <3>4. CASE c \in S
      <4>1. cell'[c] = LeasedRow(row, w, tok[c], term - d)
            /\ log'[c] = Append(l, LeaseEvent(row, w, tok[c]))
        BY <2>3, <3>4 DEF LeaseCells
      <4>2. row.state = "ready" BY <2>2, <3>4 DEF Ready
      <4>3. tok[c] \in Tokens BY <2>4, <3>4
      <4> HIDE DEF row, l
      <4> QED BY <2>5, <3>1, <3>2, <4>1, <4>2, <4>3, LeasedInv
    <3> QED BY <3>3, <3>4
  <2> QED BY <1>0, <2>6
<1>4. CASE HeartbeatAny
  <2>1. PICK c \in Cells, w \in Workers, t \in Tokens, term \in Terms, d \in 0..MaxWait :
             Heartbeat(c, w, t, term, d)
    BY <1>4 DEF HeartbeatAny
  <2> DEFINE e == EventOf(cell[c], w, t, "leased", 0, "lease-heartbeat")
             new == [cell[c] EXCEPT !.ttl = IF term - d > @ THEN term - d ELSE @]
  <2>2. Owns(c, w, t, d) /\ Update(c, new, e) BY <2>1 DEF Heartbeat
  <2>3. cell[c] \in Row /\ log[c] \in Seq(Event) /\ CellInv(c, cell[c], log[c]) BY <1>a
  <2>4. new \in Row BY <2>3, ArgumentsAssumption, ClockAssumption DEF Row
  <2>5. e \in Event BY <2>3 DEF EventOf, Row, Event, CellStates, Reasons
  <2>6. /\ new.state = cell[c].state /\ new.attempt = cell[c].attempt
        /\ new.token = cell[c].token /\ new.owner = cell[c].owner
    BY <2>3 DEF Row
  <2>7. cell[c].state = "leased" /\ cell[c].owner = w /\ cell[c].token = t
    BY <2>2 DEF Owns
  <2>8. /\ e.prev = "leased" /\ e.new = "leased" /\ e.reason = "lease-heartbeat"
        /\ e.attempt = cell[c].attempt /\ e.token = t /\ e.worker = w
    BY <2>7 DEF EventOf
  <2> HIDE DEF e, new
  <2>9. Holder(e) = Holder(cell[c]) /\ Holder(e) = Holder(new) BY <2>6, <2>7, <2>8 DEF Holder
  <2>10. ~Grant(e) /\ Held(e) BY <2>8 DEF Grant, Held
  <2>11. e.attempt = cell[c].attempt + (IF Grant(e) THEN 1 ELSE 0)
    BY <2>3, <2>8, <2>10 DEF Row
  <2>12. <<e.prev, e.new>> \in AllowedTransitions BY <2>8 DEF AllowedTransitions
  <2>13. w # None /\ t # None BY NoneAssumption
  <2>14. CellInv(c, new, Append(log[c], e))
    BY <2>3, <2>4, <2>5, <2>6, <2>7, <2>8, <2>9, <2>10, <2>11, <2>12, <2>13, AppendEvent
  <2> QED BY <2>2, <2>14, UpdateInv
<1>5. CASE CompleteAny
  <2>1. PICK c \in Cells, w \in Workers, t \in Tokens, d \in 0..MaxWait,
             st \in Outcomes, cost \in Costs, artifact \in BOOLEAN :
             Complete(c, w, t, st, cost, artifact, d)
    BY <1>5 DEF CompleteAny
  <2>2. cost \in Nat /\ st \in CompletionStates BY ArgumentsAssumption
  <2> QED BY <2>1, <2>2, CompleteKeeps
<1>6. CASE RequeueAny
  <2>1. PICK c \in Cells, w \in Operators : Requeue(c, w) BY <1>6 DEF RequeueAny
  <2> DEFINE e == EventOf(cell[c], w, None, "ready", 0, "requeued")
             new == [cell[c] EXCEPT !.state = "ready", !.artifact = FALSE]
  <2>2. <<cell[c].state, "ready">> \in AllowedTransitions /\ Update(c, new, e)
    BY <2>1 DEF Requeue
  <2>3. cell[c] \in Row /\ log[c] \in Seq(Event) /\ CellInv(c, cell[c], log[c]) BY <1>a
  <2>4. new \in Row BY <2>3 DEF Row, CellStates
  <2>5. e \in Event
    BY <2>3, ArgumentsAssumption DEF EventOf, Row, Event, CellStates, Reasons
  <2>6. new.state = "ready" /\ new.attempt = cell[c].attempt BY <2>3 DEF Row
  <2>7. /\ e.prev = cell[c].state /\ e.new = "ready" /\ e.reason = "requeued"
        /\ e.attempt = cell[c].attempt
    BY DEF EventOf
  <2> HIDE DEF e, new
  <2>8. ~Grant(e) BY <2>7 DEF Grant
  <2>9. e.attempt = cell[c].attempt + (IF Grant(e) THEN 1 ELSE 0)
    BY <2>3, <2>7, <2>8 DEF Row
  <2>10. CellInv(c, new, Append(log[c], e))
    BY <2>2, <2>3, <2>4, <2>5, <2>6, <2>7, <2>9, AppendEvent
  <2> QED BY <2>2, <2>10, UpdateInv
<1>7. CASE ReclaimAny
  <2>1. PICK d \in 0..MaxWait : Reclaim(d) BY <1>7 DEF ReclaimAny
  <2>2. ASSUME NEW c \in Cells PROVE CellInv(c, cell'[c], log'[c])
    BY <2>1, ReclaimedInv DEF Reclaim
  <2> QED BY <1>0, <2>2
<1>8. CASE Tick
  <2>1. ASSUME NEW c \in Cells PROVE CellInv(c, cell'[c], log'[c])
    <3>1. cell'[c] = Older(cell[c]) /\ log'[c] = log[c] BY <1>8 DEF Tick
    <3>2. cell[c] \in Row /\ CellInv(c, cell[c], log[c]) BY <1>a
    <3>3. /\ Older(cell[c]).state = cell[c].state /\ Older(cell[c]).attempt = cell[c].attempt
          /\ Older(cell[c]).token = cell[c].token /\ Older(cell[c]).owner = cell[c].owner
      BY <3>2 DEF Older, Row
    <3> QED BY <3>1, <3>2, <3>3 DEF CellInv, Replays, Backed, Numbered, Holder, CompletedOnce
  <2> QED BY <1>0, <2>1
<1>9. CASE UNCHANGED vars
  BY <1>0, <1>9, <1>a DEF vars
<1> QED BY <1>1, <1>2, <1>3, <1>4, <1>5, <1>6, <1>7, <1>8, <1>9 DEF Next

(* The event log and the cells table always agree.                         *)
THEOREM LedgerInvariant == Spec => []LedgerInv
<1>1. ASSUME Init PROVE LedgerInv
  <2>1. ASSUME NEW c \in Cells PROVE CellInv(c, cell[c], log[c])
    <3>1. cell[c] = FreshRow(c) /\ log[c] = <<>> BY <1>1 DEF Init
    <3>2. FreshRow(c).state = InitialState[c] /\ FreshRow(c).attempt = 0
      BY DEF FreshRow
    <3>3. InitialState[c] # "leased" BY ManifestAssumption
    <3> QED BY <3>1, <3>2, <3>3 DEF CellInv, Replays, Backed, FencedLog, Numbered, CompletedOnce
  <2> QED BY <2>1 DEF LedgerInv
<1> QED BY <1>1, LedgerStep, TypeCorrect, PTL DEF Spec

(* Replaying a cell's events from its manifest state always gives the      *)
(* stored state, by legal transitions only: the state part of              *)
(* reconcile_campaign_store never fails on a store that only these         *)
(* operations wrote.                                                       *)
THEOREM ReplayNeverDrifts == Spec => []LedgerReplays
<1>1. LedgerInv => LedgerReplays BY DEF LedgerInv, CellInv, LedgerReplays
<1> QED BY <1>1, LedgerInvariant, PTL

(* A leased row is always the lease its last event granted or renewed.     *)
THEOREM LeasesBacked == Spec => []LeaseBacked
<1>1. LedgerInv => LeaseBacked BY DEF LedgerInv, CellInv, LeaseBacked
<1> QED BY <1>1, LedgerInvariant, PTL

(* No renewal, completion or expiry is ever recorded for another worker,   *)
(* token or attempt than the cell's latest grant.                          *)
THEOREM StaleTokensFenced == Spec => []Fenced
<1>1. LedgerInv => Fenced BY DEF LedgerInv, CellInv, Fenced
<1> QED BY <1>1, LedgerInvariant, PTL

(* Attempt numbers count grants and never repeat for a cell.               *)
THEOREM AttemptsCounted == Spec => []AttemptsNumbered
<1>1. LedgerInv => AttemptsNumbered BY DEF LedgerInv, CellInv, AttemptsNumbered
<1> QED BY <1>1, LedgerInvariant, PTL

-----------------------------------------------------------------------------
(* The per-model cap: the walk of lease_campaign_cells counts the live     *)
(* leases of a model and the cells it has already taken, so the last cell  *)
(* of a model that it takes still fits under the cap.                      *)

(* A nonempty set of cells has a last one.                                 *)
LEMMA LastCell ==
    ASSUME NEW S \in SUBSET Cells, S # {}
    PROVE  \E x \in S : \A y \in S : y <= x
<1> DEFINE After(x) == {y \in S : y > x}
           T == {After(x) : x \in S}
<1>1. IsFiniteSet(S)
  <2>1. IsFiniteSet(1..NumCells) BY CellsAssumption, FS_Interval
  <2> QED BY <2>1, FS_Subset
<1>2. \A x \in S : After(x) \in SUBSET S /\ IsFiniteSet(After(x))
  BY <1>1, FS_Subset
<1>3. T \subseteq FiniteSubsetsOf(S) /\ T # {}
  BY <1>2 DEF FiniteSubsetsOf
<1>4. PICK U \in T : \A V \in T : <<V, U>> \notin StrictSubsetOrdering(S)
  BY <1>3, FS_StrictSubsetOrderingWellFounded, WFMin
<1>5. PICK x \in S : U = After(x) BY <1>4
<1>6. ASSUME NEW y \in S, y > x PROVE FALSE
  <2>1. x \in Int /\ y \in Int /\ S \subseteq Int BY CellsAssumption
  <2>a. \A z \in S : z \in Int BY <2>1
  <2>b. \A z \in S : z > y => z > x BY <1>6, <2>1, <2>a
  <2>2. After(y) \subseteq After(x) BY <2>b
  <2>3. y \in After(x) /\ y \notin After(y) BY <1>6, <2>1
  <2>4. <<After(y), After(x)>> \in StrictSubsetOrdering(S)
    BY <1>2, <2>2, <2>3 DEF StrictSubsetOrdering
  <2> QED BY <1>4, <1>5, <2>4
<1>7. \A y \in S : y \in Int /\ x \in Int BY CellsAssumption
<1> QED BY <1>6, <1>7

\* The leased cells of model m, before and after a step.
LeasedOf(m) == {c \in Leased : ModelOf[c] = m}

LEMMA CellsFinite == \A S \in SUBSET Cells : IsFiniteSet(S)
<1>1. IsFiniteSet(1..NumCells) BY CellsAssumption, FS_Interval
<1> QED BY <1>1, FS_Subset

(* No step but a lease adds to the leased cells.                           *)
LEMMA OthersLeaseNothing ==
    ASSUME TypeOK, [Next]_vars, ~LeaseAny
    PROVE  Leased' \subseteq Leased
<1> SUFFICES ASSUME NEW c \in Cells, cell'[c].state = "leased"
             PROVE  cell[c].state = "leased"
  BY DEF Leased
<1>0. cell[c] \in Row BY DEF TypeOK
<1>1. CASE Initialise BY <1>1 DEF Initialise
<1>2. CASE Overwrite
  BY <1>2, ManifestAssumption DEF Overwrite, FreshRow
<1>3. CASE HeartbeatAny
  <2>1. PICK x \in Cells, w \in Workers, t \in Tokens, term \in Terms, d \in 0..MaxWait :
             Heartbeat(x, w, t, term, d)
    BY <1>3 DEF HeartbeatAny
  <2>2. c # x => cell'[c] = cell[c] BY <2>1 DEF Heartbeat, Update, TypeOK
  <2> QED BY <2>1, <2>2 DEF Heartbeat, Owns
<1>4. CASE CompleteAny
  <2>1. PICK x \in Cells, w \in Workers, t \in Tokens, d \in 0..MaxWait,
             st \in Outcomes, cost \in Costs, artifact \in BOOLEAN :
             Complete(x, w, t, st, cost, artifact, d)
    BY <1>4 DEF CompleteAny
  <2>2. c # x => cell'[c] = cell[c] BY <2>1 DEF Complete, Update, TypeOK
  <2> QED BY <2>1, <2>2 DEF Complete, Owns
<1>5. CASE RequeueAny
  <2>1. PICK x \in Cells, w \in Operators : Requeue(x, w) BY <1>5 DEF RequeueAny
  <2>2. cell[x] \in Row BY DEF TypeOK
  <2>3. cell'[x].state = "ready" BY <2>1, <2>2 DEF Requeue, Update, TypeOK, Row
  <2>4. c # x => cell'[c] = cell[c] BY <2>1 DEF Requeue, Update, TypeOK
  <2> QED BY <2>3, <2>4
<1>6. CASE ReclaimAny
  <2>1. PICK d \in 0..MaxWait : Reclaim(d) BY <1>6 DEF ReclaimAny
  <2>2. cell'[c] = ReclaimedRow(c, d) BY <2>1 DEF Reclaim
  <2> QED BY <2>2 DEF ReclaimedRow, Expired
<1>7. CASE Tick
  <2>1. cell'[c] = Older(cell[c]) BY <1>7 DEF Tick
  <2> QED BY <1>0, <2>1 DEF Older, Row
<1>8. CASE UNCHANGED vars BY <1>8 DEF vars
<1> QED BY <1>1, <1>2, <1>3, <1>4, <1>5, <1>6, <1>7, <1>8 DEF Next

(* A lease holds the live leases and what its walk took.                   *)
LEMMA LeaseHolds ==
    ASSUME TypeOK, NEW d \in 0..MaxWait, NEW S \in SUBSET Cells,
           \A c \in Cells : c \notin S => cell'[c] = ReclaimedRow(c, d)
    PROVE  Leased' \subseteq Live(d) \cup S
<1> SUFFICES ASSUME NEW c \in Cells, cell'[c].state = "leased", c \notin S
             PROVE  c \in Live(d)
  BY DEF Leased
<1>1. cell'[c] = ReclaimedRow(c, d) OBVIOUS
<1>2. CASE Expired(c, d)
  <2>1. cell[c] \in Row BY DEF TypeOK
  <2>2. ReclaimedRow(c, d).state = "ready"
    BY <1>2, <2>1, UnleasedFields DEF ReclaimedRow, CellStates
  <2> QED BY <1>1, <2>2
<1>3. CASE ~Expired(c, d)
  BY <1>1, <1>3 DEF ReclaimedRow, Live, Leased
<1> QED BY <1>2, <1>3

(* The per-model cap survives every step.                                  *)
LEMMA CapStep ==
    ASSUME TypeOK, ParallelCap, [Next]_vars
    PROVE  ParallelCap'
<1> DEFINE Now(m) == {c \in Leased : ModelOf[c] = m}
           After(m) == {c \in Leased' : ModelOf[c] = m}
<1>0. /\ Leased \in SUBSET Cells /\ Leased' \in SUBSET Cells
      /\ \A m : Now(m) \in SUBSET Cells /\ After(m) \in SUBSET Cells
  BY DEF Leased
<1>a. \A m \in Models : Cardinality(Now(m)) <= MaxParallel BY DEF ParallelCap
<1>b. \A S \in SUBSET Cells : Cardinality(S) \in Nat BY CellsFinite, FS_CardinalityType
<1>c. MaxParallel \in Nat BY ManifestAssumption
<1>1. ASSUME NEW m \in Models, NEW S \in SUBSET Cells, After(m) \subseteq S,
             Cardinality(S) <= MaxParallel
      PROVE  Cardinality(After(m)) <= MaxParallel
  <2>1. Cardinality(After(m)) <= Cardinality(S) BY <1>1, CellsFinite, FS_Subset
  <2> QED BY <1>0, <1>1, <1>b, <1>c, <2>1
<1>2. CASE ~LeaseAny
  <2>1. \A m \in Models : After(m) \subseteq Now(m) BY <1>2, OthersLeaseNothing
  <2>2. \A m \in Models : Cardinality(After(m)) <= MaxParallel
    BY <1>0, <1>1, <1>a, <2>1
  <2> QED BY <2>2 DEF ParallelCap, Models, Leased
<1>3. CASE LeaseAny
  <2>1. PICK w \in Workers, filter \in Filters, limit \in Limits, term \in Terms,
             d \in 0..MaxWait : Lease(w, filter, limit, term, d)
    BY <1>3 DEF LeaseAny
  <2>2. PICK S \in SUBSET Ready(filter, d) :
             /\ Chosen(S, filter, limit, d)
             /\ \E tok \in FreshTokens(S) : LeaseCells(S, tok, w, term, d)
    BY <2>1 DEF Lease
  <2>3. S \in SUBSET Cells BY <2>1, <2>2, ArgumentsAssumption DEF Ready
  <2>4. \A c \in Cells : c \notin S => cell'[c] = ReclaimedRow(c, d)
    BY <2>2 DEF LeaseCells
  <2>5. Leased' \subseteq Live(d) \cup S BY <2>3, <2>4, LeaseHolds
  <2>6. Live(d) \subseteq Leased BY DEF Live
  <2>7. ASSUME NEW m \in Models PROVE Cardinality(After(m)) <= MaxParallel
    <3> DEFINE mine == {c \in S : ModelOf[c] = m}
    <3>1. CASE mine = {}
      <4>1. After(m) \subseteq Now(m) BY <2>5, <2>6, <3>1
      <4> QED BY <1>0, <1>1, <1>a, <4>1
    <3>2. CASE mine # {}
      <4>1. mine \in SUBSET Cells BY <2>3
      <4>2. PICK c \in mine : \A y \in mine : y <= c BY <3>2, <4>1, LastCell
      <4> DEFINE held == Live(d) \cup {x \in S : x < c}
                 others == {x \in held : ModelOf[x] = m}
      <4>3. Fits(c, {x \in S : x < c}, limit, d) BY <2>2, <4>2 DEF Chosen
      <4>4. Cardinality(others) < MaxParallel BY <4>2, <4>3 DEF Fits
      <4>5. others \in SUBSET Cells BY <2>3, <2>6, <1>0
      <4>6. \A x \in mine : x < c \/ x = c BY <4>1, <4>2
      <4>7. After(m) \subseteq others \cup {c} BY <2>5, <4>6
      <4>8. IsFiniteSet(others) BY <4>5, CellsFinite
      <4>10. others \cup {c} \in SUBSET Cells BY <4>1, <4>2, <4>5
      <4> HIDE DEF others
      <4>a. Cardinality(others) \in Nat BY <1>b, <4>5
      <4>b. Cardinality(others \cup {c}) =
            IF c \in others THEN Cardinality(others) ELSE Cardinality(others) + 1
        BY <4>8, FS_AddElement
      <4>9. Cardinality(others \cup {c}) <= Cardinality(others) + 1
        BY <4>a, <4>b
      <4>11. Cardinality(others \cup {c}) <= MaxParallel
        BY <1>b, <1>c, <4>4, <4>5, <4>9, <4>10
      <4> QED BY <1>1, <4>7, <4>10, <4>11
    <3> QED BY <3>1, <3>2
  <2> QED BY <2>7 DEF ParallelCap, Models, Leased
<1> QED BY <1>2, <1>3

(* At most max_parallel_per_model cells of a model are ever leased at      *)
(* once, however many workers lease in whatever order, with whatever       *)
(* stale clocks and lapsed leases.                                         *)
THEOREM CapHolds == Spec => []ParallelCap
<1>1. ASSUME Init PROVE ParallelCap
  <2>1. Leased = {}
    <3>1. \A c \in Cells : cell[c].state # "leased"
      BY <1>1, ManifestAssumption DEF Init, FreshRow
    <3> QED BY <3>1 DEF Leased
  <2>2. \A m : {c \in Leased : ModelOf[c] = m} = {} BY <2>1
  <2> QED BY <2>2, FS_EmptySet, ManifestAssumption DEF ParallelCap
<1> QED BY <1>1, CapStep, TypeCorrect, PTL DEF Spec

-----------------------------------------------------------------------------
(* The lease service: no token is granted twice, and every step of the     *)
(* store is a transaction, a completion, a restart or a stutter of         *)
(* LeaseService.                                                           *)

GrantsOf(l) == {l[i].token : i \in {j \in DOMAIN l : Grant(l[j])}}

GrantedOnce(l) ==
    \A i, j \in DOMAIN l : Grant(l[i]) /\ Grant(l[j]) /\ l[i].token = l[j].token => i = j

(* The inductive form of TokensNeverReused: a token is granted once in a   *)
(* cell's log, never in two cells' logs, and a leased cell's token is one  *)
(* its log grants.                                                         *)
TokenInv ==
    /\ \A c \in Cells : GrantedOnce(log[c])
    /\ \A c, x \in Cells : c # x => GrantsOf(log[c]) \cap GrantsOf(log[x]) = {}
    /\ \A c \in Cells : cell[c].state = "leased" => cell[c].token \in GrantsOf(log[c])

\* What a step may do to one cell: grant it under t, or grant it to nobody.
GrantedTo(c, t) ==
    /\ t \in Tokens
    /\ \A x \in Cells : t \notin GrantsOf(log[x])
    /\ GrantsOf(log'[c]) = GrantsOf(log[c]) \cup {t}
    /\ GrantedOnce(log[c]) => GrantedOnce(log'[c])
    /\ cell'[c].state = "leased"
    /\ cell'[c].token = t
    /\ cell[c].state \in {"ready", "leased"}

Quiet(c) ==
    /\ GrantsOf(log'[c]) = GrantsOf(log[c])
    /\ GrantedOnce(log[c]) => GrantedOnce(log'[c])
    /\ cell'[c].state = "leased" => cell[c].state = "leased" /\ cell'[c].token = cell[c].token

-----------------------------------------------------------------------------

(* The grants of a log that one more event is appended to.                 *)
LEMMA AppendGrants ==
    ASSUME NEW l \in Seq(Event), NEW e \in Event
    PROVE  /\ ~Grant(e) => /\ GrantsOf(Append(l, e)) = GrantsOf(l)
                           /\ GrantedOnce(l) => GrantedOnce(Append(l, e))
           /\ Grant(e) => /\ GrantsOf(Append(l, e)) = GrantsOf(l) \cup {e.token}
                          /\ GrantedOnce(l) /\ e.token \notin GrantsOf(l) =>
                                 GrantedOnce(Append(l, e))
<1> DEFINE n == Len(l)
           m == Append(l, e)
<1>1. /\ n \in Nat /\ DOMAIN m = 1..(n + 1) /\ DOMAIN l = 1..n /\ m[n + 1] = e
      /\ \A i \in 1..n : m[i] = l[i]
      /\ \A i \in 1..(n + 1) : i \in 1..n \/ i = n + 1
      /\ n + 1 \notin 1..n
  OBVIOUS
<1> HIDE DEF n, m
<1>2. ~Grant(e) => GrantsOf(m) = GrantsOf(l)
  BY <1>1 DEF GrantsOf
<1>3. Grant(e) => GrantsOf(m) = GrantsOf(l) \cup {e.token}
  BY <1>1 DEF GrantsOf
<1>4. ASSUME GrantedOnce(l), ~Grant(e) PROVE GrantedOnce(m)
  BY <1>1, <1>4 DEF GrantedOnce
<1>5. ASSUME GrantedOnce(l), Grant(e), e.token \notin GrantsOf(l) PROVE GrantedOnce(m)
  <2>1. \A i \in 1..n : Grant(l[i]) => l[i].token # e.token
    BY <1>1, <1>5 DEF GrantsOf
  <2> QED BY <1>1, <1>5, <2>1 DEF GrantedOnce
<1> QED BY <1>2, <1>3, <1>4, <1>5 DEF m

(* A cell that its transaction only takes back, or leaves alone.           *)
LEMMA ReclaimedGrants ==
    ASSUME TypeOK, NEW c \in Cells, NEW d \in 0..MaxWait
    PROVE  LET row == ReclaimedRow(c, d)
               l == ReclaimedLog(c, d)
           IN  /\ GrantsOf(l) = GrantsOf(log[c])
               /\ GrantedOnce(log[c]) => GrantedOnce(l)
               /\ row.state = "leased" => row = cell[c]
               /\ row # cell[c] => row.state = "ready" /\ cell[c].state = "leased"
<1>1. cell[c] \in Row /\ log[c] \in Seq(Event) BY DEF TypeOK
<1>2. CASE ~Expired(c, d)
  BY <1>2 DEF ReclaimedRow, ReclaimedLog
<1>3. CASE Expired(c, d)
  <2> DEFINE e == EventOf(cell[c], cell[c].owner, cell[c].token, "ready", 0, "lease-expired")
             new == [Unleased(cell[c]) EXCEPT !.state = "ready"]
  <2>1. e \in Event /\ ~Grant(e)
    BY <1>1, <1>3 DEF EventOf, Row, Event, CellStates, Reasons, Grant
  <2>2. new.state = "ready" BY <1>1, UnleasedFields DEF CellStates
  <2>3. cell[c].state = "leased" BY <1>3 DEF Expired
  <2>4. ReclaimedRow(c, d) = new /\ ReclaimedLog(c, d) = Append(log[c], e)
    BY <1>3 DEF ReclaimedRow, ReclaimedLog
  <2> HIDE DEF e, new
  <2> QED BY <1>1, <2>1, <2>2, <2>3, <2>4, AppendGrants
<1> QED BY <1>2, <1>3

(* The other cells of a one-cell update, and the cell itself when the      *)
(* update is no grant.                                                     *)
LEMMA UpdateQuiet ==
    ASSUME TypeOK, NEW c \in Cells, NEW row, NEW e \in Event, Update(c, row, e), ~Grant(e),
           row.state = "leased" => cell[c].state = "leased" /\ row.token = cell[c].token
    PROVE  \A x \in Cells : Quiet(x)
<1> TAKE x \in Cells
<1>1. CASE x = c
  <2>1. cell'[c] = row /\ log'[c] = Append(log[c], e) /\ log[c] \in Seq(Event)
    BY DEF Update, TypeOK
  <2> QED BY <1>1, <2>1, AppendGrants DEF Quiet
<1>2. CASE x # c
  <2>1. cell'[x] = cell[x] /\ log'[x] = log[x] BY <1>2 DEF Update, TypeOK
  <2> QED BY <2>1 DEF Quiet
<1> QED BY <1>1, <1>2

(* Every step but the removal of the database grants the cells of some set *)
(* under different new tokens and grants no other cell.                    *)
LEMMA StepGrants ==
    ASSUME TypeOK, [Next]_vars, ~Overwrite
    PROVE  \E G \in SUBSET Cells : \E tok \in [G -> Tokens] :
               /\ \A c \in G : GrantedTo(c, tok[c])
               /\ \A c \in Cells \ G : Quiet(c)
               /\ \A c, x \in G : tok[c] = tok[x] => c = x
<1>0. ASSUME \A c \in Cells : Quiet(c)
      PROVE  \E G \in SUBSET Cells : \E tok \in [G -> Tokens] :
               /\ \A c \in G : GrantedTo(c, tok[c])
               /\ \A c \in Cells \ G : Quiet(c)
               /\ \A c, x \in G : tok[c] = tok[x] => c = x
  <2> DEFINE none == [c \in {} |-> CHOOSE t \in Tokens : TRUE]
  <2>1. none \in [{} -> Tokens] OBVIOUS
  <2> HIDE DEF none
  <2> QED BY <1>0, <2>1
<1>1. CASE Initialise
  BY <1>0, <1>1 DEF Initialise, Quiet
<1>2. CASE LeaseAny
  <2>1. PICK w \in Workers, filter \in Filters, limit \in Limits, term \in Terms,
             d \in 0..MaxWait : Lease(w, filter, limit, term, d)
    BY <1>2 DEF LeaseAny
  <2>2. PICK S \in SUBSET Ready(filter, d) :
             \E tok \in FreshTokens(S) : LeaseCells(S, tok, w, term, d)
    BY <2>1 DEF Lease
  <2>3. PICK tok \in FreshTokens(S) : LeaseCells(S, tok, w, term, d)
    BY <2>2
  <2>4. /\ tok \in [S -> Tokens]
        /\ \A c \in S : ~TokenUsed(tok[c])
        /\ \A c, x \in S : tok[c] = tok[x] => c = x
    BY <2>3 DEF FreshTokens
  <2>5. S \in SUBSET Cells
    BY <2>1, <2>2, ArgumentsAssumption DEF Ready
  <2>6. term - d \in Int BY ArgumentsAssumption, ClockAssumption
  <2>7. ASSUME NEW c \in S PROVE GrantedTo(c, tok[c])
    <3> DEFINE row == ReclaimedRow(c, d)
               l == ReclaimedLog(c, d)
               e == LeaseEvent(row, w, tok[c])
    <3>1. c \in Cells /\ tok[c] \in Tokens BY <2>4, <2>5
    <3>2. row \in Row /\ l \in Seq(Event) BY <3>1, ReclaimedType
    <3>3. cell'[c] = LeasedRow(row, w, tok[c], term - d) /\ log'[c] = Append(l, e)
      BY <2>3, <3>1 DEF LeaseCells
    <3>4. row.state = "ready" BY <2>2 DEF Ready
    <3>5. /\ GrantsOf(l) = GrantsOf(log[c])
          /\ GrantedOnce(log[c]) => GrantedOnce(l)
          /\ row # cell[c] => cell[c].state = "leased"
      BY <3>1, ReclaimedGrants
    <3>6. e \in Event /\ Grant(e) /\ e.token = tok[c]
      BY <3>1, <3>2, <2>6, LeasedType DEF LeaseEvent, Grant
    <3>7. \A x \in Cells : tok[c] \notin GrantsOf(log[x])
      BY <2>4 DEF TokenUsed, GrantsOf
    <3>8. cell'[c].state = "leased" /\ cell'[c].token = tok[c]
      BY <3>1, <3>2, <3>3, <2>6, LeasedFields
    <3>9. cell[c].state \in {"ready", "leased"} BY <3>4, <3>5
    <3> HIDE DEF row, l, e
    <3>10. GrantsOf(log'[c]) = GrantsOf(log[c]) \cup {tok[c]}
      BY <3>2, <3>3, <3>5, <3>6, AppendGrants
    <3>11. GrantedOnce(log[c]) => GrantedOnce(log'[c])
      BY <3>1, <3>2, <3>3, <3>5, <3>6, <3>7, AppendGrants
    <3> QED BY <3>1, <3>7, <3>8, <3>9, <3>10, <3>11 DEF GrantedTo
  <2>8. ASSUME NEW c \in Cells \ S PROVE Quiet(c)
    <3>1. cell'[c] = ReclaimedRow(c, d) /\ log'[c] = ReclaimedLog(c, d)
      BY <2>3 DEF LeaseCells
    <3> QED BY <3>1, ReclaimedGrants DEF Quiet
  <2> QED BY <2>4, <2>5, <2>7, <2>8
<1>3. CASE HeartbeatAny
  <2>1. PICK c \in Cells, w \in Workers, t \in Tokens, term \in Terms, d \in 0..MaxWait :
             Heartbeat(c, w, t, term, d)
    BY <1>3 DEF HeartbeatAny
  <2> DEFINE e == EventOf(cell[c], w, t, "leased", 0, "lease-heartbeat")
             new == [cell[c] EXCEPT !.ttl = IF term - d > @ THEN term - d ELSE @]
  <2>2. Owns(c, w, t, d) /\ Update(c, new, e) BY <2>1 DEF Heartbeat
  <2>3. cell[c] \in Row BY DEF TypeOK
  <2>4. e \in Event /\ ~Grant(e) BY <2>3 DEF EventOf, Row, Event, CellStates, Reasons, Grant
  <2>5. new.state = cell[c].state /\ new.token = cell[c].token BY <2>3 DEF Row
  <2> HIDE DEF e, new
  <2>6. \A x \in Cells : Quiet(x) BY <2>2, <2>4, <2>5, UpdateQuiet
  <2> QED BY <1>0, <2>6
<1>4. CASE CompleteAny
  <2>1. PICK c \in Cells, w \in Workers, t \in Tokens, d \in 0..MaxWait,
             st \in Outcomes, cost \in Costs, artifact \in BOOLEAN :
             Complete(c, w, t, st, cost, artifact, d)
    BY <1>4 DEF CompleteAny
  <2> DEFINE e == EventOf(cell[c], w, t, st, Rounded(cost), "completed")
             new == [Unleased(cell[c]) EXCEPT !.state = st, !.actual = @ + cost,
                                              !.artifact = artifact]
  <2>2. Update(c, new, e) BY <2>1 DEF Complete
  <2>3. cell[c] \in Row BY DEF TypeOK
  <2>4. cost \in Nat /\ st \in CellStates /\ st # "leased"
    BY ArgumentsAssumption DEF CompletionStates, CellStates
  <2>5. e \in Event /\ ~Grant(e)
    BY <2>3, <2>4, RoundedType DEF EventOf, Row, Event, Reasons, Grant
  <2>6. new.state = st BY <2>3, <2>4, CompletedFields
  <2> HIDE DEF e, new
  <2>7. \A x \in Cells : Quiet(x) BY <2>2, <2>4, <2>5, <2>6, UpdateQuiet
  <2> QED BY <1>0, <2>7
<1>5. CASE RequeueAny
  <2>1. PICK c \in Cells, w \in Operators : Requeue(c, w) BY <1>5 DEF RequeueAny
  <2> DEFINE e == EventOf(cell[c], w, None, "ready", 0, "requeued")
             new == [cell[c] EXCEPT !.state = "ready", !.artifact = FALSE]
  <2>2. Update(c, new, e) BY <2>1 DEF Requeue
  <2>3. cell[c] \in Row BY DEF TypeOK
  <2>4. e \in Event /\ ~Grant(e)
    BY <2>3, ArgumentsAssumption DEF EventOf, Row, Event, CellStates, Reasons, Grant
  <2>5. new.state = "ready" BY <2>3 DEF Row
  <2> HIDE DEF e, new
  <2>6. \A x \in Cells : Quiet(x) BY <2>2, <2>4, <2>5, UpdateQuiet
  <2> QED BY <1>0, <2>6
<1>6. CASE ReclaimAny
  <2>1. PICK d \in 0..MaxWait : Reclaim(d) BY <1>6 DEF ReclaimAny
  <2>2. ASSUME NEW c \in Cells PROVE Quiet(c)
    <3>1. cell'[c] = ReclaimedRow(c, d) /\ log'[c] = ReclaimedLog(c, d)
      BY <2>1 DEF Reclaim
    <3> QED BY <3>1, ReclaimedGrants DEF Quiet
  <2> QED BY <1>0, <2>2
<1>7. CASE Tick
  <2>1. ASSUME NEW c \in Cells PROVE Quiet(c)
    <3>1. cell'[c] = Older(cell[c]) /\ log'[c] = log[c] BY <1>7 DEF Tick
    <3>2. cell[c] \in Row BY DEF TypeOK
    <3>3. Older(cell[c]).state = cell[c].state /\ Older(cell[c]).token = cell[c].token
      BY <3>2 DEF Older, Row
    <3> QED BY <3>1, <3>3 DEF Quiet
  <2> QED BY <1>0, <2>1
<1>8. CASE UNCHANGED vars
  BY <1>0, <1>8 DEF vars, Quiet
<1> QED BY <1>1, <1>2, <1>3, <1>4, <1>5, <1>6, <1>7, <1>8 DEF Next

-----------------------------------------------------------------------------

(* The rows of a new database are neither held nor done.                   *)
LEMMA FreshUnfinished ==
    \A c \in Cells : FreshRow(c).state \notin FinalStates /\ FreshRow(c).state # "leased"
BY ManifestAssumption DEF FreshRow, FinalStates

(* A new database has granted nothing.                                     *)
LEMMA FreshTokenInv ==
    ASSUME cell = [c \in Cells |-> FreshRow(c)], log = [c \in Cells |-> <<>>]
    PROVE  TokenInv
<1>1. \A c \in Cells : cell[c].state # "leased"
  BY ManifestAssumption DEF FreshRow
<1>2. \A c \in Cells : log[c] = <<>> OBVIOUS
<1> QED BY <1>1, <1>2 DEF TokenInv, GrantsOf, GrantedOnce

(* Every action of the store keeps the token invariant.                    *)
LEMMA TokenStep ==
    ASSUME TypeOK, TokenInv, [Next]_vars
    PROVE  TokenInv'
<1>1. CASE Overwrite
  <2>1. \A c \in Cells : cell'[c] = FreshRow(c) /\ log'[c] = <<>> BY <1>1 DEF Overwrite
  <2>2. \A c \in Cells : cell'[c].state # "leased"
    BY <2>1, FreshUnfinished
  <2> QED BY <2>1, <2>2 DEF TokenInv, GrantsOf, GrantedOnce
<1>2. CASE ~Overwrite
  <2>1. PICK G \in SUBSET Cells : \E tok \in [G -> Tokens] :
               /\ \A c \in G : GrantedTo(c, tok[c])
               /\ \A c \in Cells \ G : Quiet(c)
               /\ \A c, x \in G : tok[c] = tok[x] => c = x
    BY <1>2, StepGrants
  <2>2. PICK tok \in [G -> Tokens] :
               /\ \A c \in G : GrantedTo(c, tok[c])
               /\ \A c \in Cells \ G : Quiet(c)
               /\ \A c, x \in G : tok[c] = tok[x] => c = x
    BY <2>1
  <2>3. \A c \in Cells : GrantedOnce(log'[c])
    BY <2>2 DEF TokenInv, GrantedTo, Quiet
  <2>4. \A c \in Cells : GrantsOf(log'[c]) =
                         IF c \in G THEN GrantsOf(log[c]) \cup {tok[c]} ELSE GrantsOf(log[c])
    BY <2>2 DEF GrantedTo, Quiet
  <2>5. \A c \in G : \A x \in Cells : tok[c] \notin GrantsOf(log[x])
    BY <2>2 DEF GrantedTo
  <2>6. ASSUME NEW c \in Cells, NEW x \in Cells, c # x
        PROVE  GrantsOf(log'[c]) \cap GrantsOf(log'[x]) = {}
    <3>1. GrantsOf(log[c]) \cap GrantsOf(log[x]) = {} BY <2>6 DEF TokenInv
    <3>2. c \in G => tok[c] \notin GrantsOf(log[x]) BY <2>5
    <3>3. x \in G => tok[x] \notin GrantsOf(log[c]) BY <2>5
    <3>4. c \in G /\ x \in G => tok[c] # tok[x] BY <2>2, <2>6
    <3> QED BY <2>4, <3>1, <3>2, <3>3, <3>4
  <2>7. \A c \in Cells : cell'[c].state = "leased" => cell'[c].token \in GrantsOf(log'[c])
    BY <2>2, <2>4 DEF TokenInv, GrantedTo, Quiet
  <2> QED BY <2>3, <2>6, <2>7 DEF TokenInv, GrantsOf, GrantedOnce
<1> QED BY <1>1, <1>2

(* Tokens are granted once: the inductive form.                            *)
THEOREM TokenInvariant == Spec => []TokenInv
<1>1. Init => TokenInv BY FreshTokenInv DEF Init
<1> QED BY <1>1, TokenStep, TypeCorrect, PTL DEF Spec

(* No lease token is ever granted twice, to one cell or to two, whatever   *)
(* retries, expiries and batches happen (_new_lease_token).                *)
THEOREM TokensGrantedOnce == Spec => []TokensNeverReused
<1>1. TokenInv => TokensNeverReused
  <2> SUFFICES ASSUME TokenInv, NEW c \in Cells, NEW x \in Cells,
                      NEW i \in Granted(c), NEW j \in Granted(x),
                      log[c][i].token = log[x][j].token
               PROVE  c = x /\ i = j
    BY DEF TokensNeverReused
  <2>1. log[c][i].token \in GrantsOf(log[c]) /\ log[x][j].token \in GrantsOf(log[x])
    BY DEF Granted, GrantsOf
  <2>2. c = x BY <2>1 DEF TokenInv
  <2> QED BY <2>2 DEF TokenInv, GrantedOnce, Granted
<1> QED BY <1>1, TokenInvariant, PTL

-----------------------------------------------------------------------------
(* Finished cells.                                                         *)

\* A finished row carries no lease: nothing in it runs with the clock.
FinishedBare == \A c \in Cells : cell[c].state \in FinalStates => cell[c].token = None

\* A row that is finished after the step was finished before, or is bare.
LEMMA FinishedStep ==
    ASSUME TypeOK, [Next]_vars, ~Overwrite, NEW c \in Cells
    PROVE  /\ cell[c].state \in FinalStates /\ cell[c].token = None => cell'[c] = cell[c]
           /\ cell'[c].state \in FinalStates => \/ cell[c].state \in FinalStates
                                                \/ cell'[c].token = None
           /\ ~CompleteAny /\ cell'[c].state \in FinalStates => cell[c].state \in FinalStates
<1>0. cell[c] \in Row BY DEF TypeOK
<1>a. \A d \in 0..MaxWait : LET row == ReclaimedRow(c, d) IN
           /\ row = cell[c] \/ (row.state = "ready" /\ cell[c].state = "leased")
  BY ReclaimedGrants
<1>b. \A x : x = "leased" \/ x = "ready" => x \notin FinalStates BY DEF FinalStates
<1>1. CASE Initialise BY <1>1 DEF Initialise
<1>2. CASE LeaseAny
  <2>1. PICK w \in Workers, filter \in Filters, limit \in Limits, term \in Terms,
             d \in 0..MaxWait : Lease(w, filter, limit, term, d)
    BY <1>2 DEF LeaseAny
  <2>2. PICK S \in SUBSET Ready(filter, d) :
             \E tok \in FreshTokens(S) : LeaseCells(S, tok, w, term, d)
    BY <2>1 DEF Lease
  <2>3. PICK tok \in FreshTokens(S) : LeaseCells(S, tok, w, term, d)
    BY <2>2
  <2>4. CASE c \in S
    <3> DEFINE row == ReclaimedRow(c, d)
    <3>1. cell'[c] = LeasedRow(row, w, tok[c], term - d) /\ tok[c] \in Tokens
      BY <2>3, <2>4 DEF LeaseCells, FreshTokens
    <3>2. row.state = "ready" BY <2>2, <2>4 DEF Ready
    <3>3. row \in Row /\ term - d \in Int
      BY ReclaimedType, ArgumentsAssumption, ClockAssumption
    <3>4. row = cell[c] \/ cell[c].state = "leased" BY <1>a
    <3> HIDE DEF row
    <3>5. cell'[c].state = "leased" BY <3>1, <3>3, LeasedFields
    <3> QED BY <1>b, <3>2, <3>4, <3>5
  <2>5. CASE c \notin S
    <3>1. cell'[c] = ReclaimedRow(c, d) BY <2>3, <2>5 DEF LeaseCells
    <3> QED BY <1>a, <1>b, <3>1
  <2> QED BY <2>4, <2>5
<1>3. CASE HeartbeatAny
  <2>1. PICK x \in Cells, w \in Workers, t \in Tokens, term \in Terms, d \in 0..MaxWait :
             Heartbeat(x, w, t, term, d)
    BY <1>3 DEF HeartbeatAny
  <2>2. cell[x].state = "leased" /\ cell[x] \in Row BY <2>1 DEF Heartbeat, Owns, TypeOK
  <2>3. cell'[x].state = "leased" BY <2>1, <2>2 DEF Heartbeat, Update, TypeOK, Row
  <2>4. c # x => cell'[c] = cell[c] BY <2>1 DEF Heartbeat, Update, TypeOK
  <2> QED BY <1>b, <2>2, <2>3, <2>4
<1>4. CASE CompleteAny
  <2>1. PICK x \in Cells, w \in Workers, t \in Tokens, d \in 0..MaxWait,
             st \in Outcomes, cost \in Costs, artifact \in BOOLEAN :
             Complete(x, w, t, st, cost, artifact, d)
    BY <1>4 DEF CompleteAny
  <2>2. cell[x].state = "leased" /\ cell[x] \in Row BY <2>1 DEF Complete, Owns, TypeOK
  <2>3. cell'[x].token = None
    <3> DEFINE new == [Unleased(cell[x]) EXCEPT !.state = st, !.actual = @ + cost,
                                                !.artifact = artifact]
    <3>1. cell'[x] = new BY <2>1 DEF Complete, Update, TypeOK
    <3>2. Unleased(cell[x]).token = None /\ Unleased(cell[x]) \in Row
      BY <2>2, UnleasedType DEF Unleased, Row
    <3>3. new.token = None BY <3>2 DEF Row
    <3> QED BY <3>1, <3>3
  <2>4. c # x => cell'[c] = cell[c] BY <2>1 DEF Complete, Update, TypeOK
  <2> QED BY <1>4, <1>b, <2>2, <2>3, <2>4
<1>5. CASE RequeueAny
  <2>1. PICK x \in Cells, w \in Operators : Requeue(x, w) BY <1>5 DEF RequeueAny
  <2>2. cell[x].state \notin FinalStates /\ cell[x] \in Row
    BY <2>1 DEF Requeue, AllowedTransitions, FinalStates, TypeOK
  <2>3. cell'[x].state = "ready" BY <2>1, <2>2 DEF Requeue, Update, TypeOK, Row
  <2>4. c # x => cell'[c] = cell[c] BY <2>1 DEF Requeue, Update, TypeOK
  <2> QED BY <1>b, <2>2, <2>3, <2>4
<1>6. CASE ReclaimAny
  <2>1. PICK d \in 0..MaxWait : Reclaim(d) BY <1>6 DEF ReclaimAny
  <2>2. cell'[c] = ReclaimedRow(c, d) BY <2>1 DEF Reclaim
  <2> QED BY <1>a, <1>b, <2>2
<1>7. CASE Tick
  <2>1. cell'[c] = Older(cell[c]) BY <1>7 DEF Tick
  <2>2. cell[c].token = None => Older(cell[c]) = cell[c] BY DEF Older
  <2>3. Older(cell[c]).state = cell[c].state BY <1>0 DEF Older, Row
  <2> QED BY <2>1, <2>2, <2>3
<1>8. CASE UNCHANGED vars BY <1>8 DEF vars
<1> QED BY <1>1, <1>2, <1>3, <1>4, <1>5, <1>6, <1>7, <1>8 DEF Next

THEOREM FinishedRowsBare == Spec => []FinishedBare
<1>1. Init => FinishedBare BY FreshUnfinished DEF Init, FinishedBare
<1>2. ASSUME TypeOK, FinishedBare, [Next]_vars PROVE FinishedBare'
  <2>1. CASE Overwrite
    BY <2>1, FreshUnfinished DEF Overwrite, FinishedBare
  <2>2. CASE ~Overwrite
    BY <1>2, <2>2, FinishedStep DEF FinishedBare
  <2> QED BY <2>1, <2>2
<1> QED BY <1>1, <1>2, TypeCorrect, PTL DEF Spec

(* A succeeded, quarantined or cancelled cell keeps its state, cost and    *)
(* artifact as long as the database exists.                                *)
THEOREM FinishedCellsStay == Spec => FinalStatesStay
<1>1. ASSUME TypeOK, FinishedBare, [Next]_vars
      PROVE  [\A c \in Cells :
                 cell[c].state \in FinalStates => cell'[c] = cell[c] \/ Erased]_vars
  <2>1. Overwrite => Erased BY DEF Overwrite, Erased
  <2>2. CASE ~Overwrite BY <1>1, <2>2, FinishedStep DEF FinishedBare
  <2> QED BY <2>1, <2>2
<1> QED BY <1>1, TypeCorrect, FinishedRowsBare, PTL DEF Spec, FinalStatesStay

-----------------------------------------------------------------------------
(* The refinement.                                                         *)

LEMMA UsedAreGrants == UsedTokens = UNION {GrantsOf(log[c]) : c \in Cells}
BY DEF UsedTokens, GrantsOf, Granted

LEMMA UsedAreGrantsNext == UsedTokens' = UNION {GrantsOf(log'[c]) : c \in Cells}
BY DEF UsedTokens, GrantsOf, Granted

(* A completion into a final state finishes the cell; every other step     *)
(* that keeps the finished cells is one transaction of the service.        *)
LEMMA TransactStep ==
    ASSUME TypeOK, TokenInv, TokenInv', [Next]_vars, ~Overwrite, Finished' = Finished
    PROVE  \E G \in SUBSET Cells : Service!Transact(G)
<1>1. PICK G \in SUBSET Cells : \E tok \in [G -> Tokens] :
               /\ \A c \in G : GrantedTo(c, tok[c])
               /\ \A c \in Cells \ G : Quiet(c)
               /\ \A c, x \in G : tok[c] = tok[x] => c = x
  BY StepGrants
<1>2. PICK tok \in [G -> Tokens] :
               /\ \A c \in G : GrantedTo(c, tok[c])
               /\ \A c \in Cells \ G : Quiet(c)
               /\ \A c, x \in G : tok[c] = tok[x] => c = x
  BY <1>1
<1>a. TypeOK' BY TypeStep
<1>b. \A c \in Cells : Holders'[c] = IF cell'[c].state = "leased" THEN cell'[c].token ELSE None
  BY DEF Holders
<1>c. \A c \in Cells : Holders[c] = IF cell[c].state = "leased" THEN cell[c].token ELSE None
  BY DEF Holders
<1>d. \A c \in Cells : cell'[c].token \in Tokens \cup {None} BY <1>a DEF TypeOK, Row
<1>e. \A c \in G : Holders'[c] = tok[c] /\ cell[c].state \notin FinalStates
  BY <1>2, <1>b DEF GrantedTo, FinalStates
<1>3. Holders' \in [Cells -> Tokens \cup {None}]
  <2>1. Holders' = [c \in Cells |-> IF cell'[c].state = "leased" THEN cell'[c].token ELSE None]
    BY DEF Holders
  <2> QED BY <2>1, <1>d
<1>4. G \cap Finished = {} BY <1>e DEF Finished
<1>5. \A c \in Cells \ G : Holders'[c] \in {Holders[c], None}
  BY <1>2, <1>b, <1>c DEF Quiet
<1>6. \A c \in G : Holders'[c] \in Tokens \ UsedTokens
  BY <1>2, <1>e, UsedAreGrants DEF GrantedTo
<1>7. ASSUME NEW c \in Cells, NEW x \in Cells, Holders'[c] # None, Holders'[c] = Holders'[x]
      PROVE  c = x
  <2>1. cell'[c].state = "leased" /\ cell'[x].state = "leased" /\ cell'[c].token = cell'[x].token
    BY <1>7, <1>b
  <2>2. cell'[c].token \in GrantsOf(log'[c]) /\ cell'[x].token \in GrantsOf(log'[x])
    BY <2>1 DEF TokenInv, GrantsOf
  <2>3. c # x => GrantsOf(log'[c]) \cap GrantsOf(log'[x]) = {} BY DEF TokenInv, GrantsOf
  <2> QED BY <2>1, <2>2, <2>3
<1>8. UsedTokens' = UsedTokens \cup {Holders'[c] : c \in G}
  <2>1. \A c \in Cells : GrantsOf(log'[c]) =
                         IF c \in G THEN GrantsOf(log[c]) \cup {Holders'[c]} ELSE GrantsOf(log[c])
    BY <1>2, <1>e DEF GrantedTo, Quiet
  <2>2. \A t : t \in UsedTokens <=> \E c \in Cells : t \in GrantsOf(log[c])
    BY UsedAreGrants
  <2>3. \A t : t \in UsedTokens' <=> \E c \in Cells : t \in GrantsOf(log'[c])
    BY UsedAreGrantsNext
  <2>4. \A t : t \in UsedTokens' <=> t \in UsedTokens \/ \E c \in G : t = Holders'[c]
    <3> TAKE t
    <3>1. ASSUME NEW c \in Cells, t \in GrantsOf(log'[c])
          PROVE  t \in UsedTokens \/ \E x \in G : t = Holders'[x]
      BY <2>1, <2>2, <3>1
    <3>2. ASSUME NEW c \in Cells, t \in GrantsOf(log[c])
          PROVE  t \in GrantsOf(log'[c])
      BY <2>1, <3>2
    <3>3. ASSUME NEW x \in G, t = Holders'[x]
          PROVE  t \in GrantsOf(log'[x])
      BY <2>1, <3>3
    <3> QED BY <2>2, <2>3, <3>1, <3>2, <3>3
  <2> QED BY <2>4
<1>9. Service!Transact(G)
  BY <1>3, <1>4, <1>5, <1>6, <1>7, <1>8 DEF Service!Transact, Service!Held
<1> QED BY <1>9

LEMMA FinishStep ==
    ASSUME TypeOK, TokenInv, [Next]_vars, ~Overwrite, Finished' # Finished, FinishedBare
    PROVE  \E c \in Cells : Service!Finish(c)
<1>1. CompleteAny
  <2> SUFFICES ASSUME ~CompleteAny PROVE FALSE
    OBVIOUS
  <2>1. \A c \in Cells : cell'[c].state \in FinalStates <=> cell[c].state \in FinalStates
    BY FinishedStep DEF FinishedBare
  <2> QED BY <2>1 DEF Finished
<1>2. PICK c \in Cells, w \in Workers, t \in Tokens, d \in 0..MaxWait,
           st \in Outcomes, cost \in Costs, artifact \in BOOLEAN :
           Complete(c, w, t, st, cost, artifact, d)
  BY <1>1 DEF CompleteAny
<1> DEFINE e == EventOf(cell[c], w, t, st, Rounded(cost), "completed")
           new == [Unleased(cell[c]) EXCEPT !.state = st, !.actual = @ + cost,
                                            !.artifact = artifact]
<1>3. Update(c, new, e) /\ cell[c].state = "leased" /\ cell[c].token = t
  BY <1>2 DEF Complete, Owns
<1>4. cell[c] \in Row /\ log[c] \in Seq(Event) BY DEF TypeOK
<1>5. cost \in Nat /\ st \in CellStates /\ st # "leased"
  BY ArgumentsAssumption DEF CompletionStates, CellStates
<1>6. new.state = st BY <1>4, <1>5, CompletedFields
<1>7. e \in Event /\ ~Grant(e)
  BY <1>4, <1>5, RoundedType DEF EventOf, Row, Event, Reasons, Grant
<1> HIDE DEF new, e
<1>8. \A x \in Cells : Quiet(x) BY <1>3, <1>5, <1>6, <1>7, UpdateQuiet
<1>9. cell'[c].state = st /\ \A x \in Cells : x # c => cell'[x] = cell[x]
  BY <1>3, <1>6 DEF Update, TypeOK
<1>10. Holders[c] # None BY <1>3, NoneAssumption DEF Holders
<1>11. Holders' = [Holders EXCEPT ![c] = None]
  BY <1>5, <1>9 DEF Holders
<1>12. Finished' = Finished \cup {c}
  <2>1. cell[c].state \notin FinalStates BY <1>3 DEF FinalStates
  <2>2. st \in FinalStates BY <1>9, <2>1 DEF Finished
  <2> QED BY <1>9, <2>2 DEF Finished
<1>13. UsedTokens' = UsedTokens
  <2>1. \A x \in Cells : GrantsOf(log'[x]) = GrantsOf(log[x]) BY <1>8 DEF Quiet
  <2> QED BY <2>1, UsedAreGrants, UsedAreGrantsNext
<1>14. Service!Finish(c) BY <1>10, <1>11, <1>12, <1>13 DEF Service!Finish
<1> QED BY <1>14

LEMMA RestartStep ==
    ASSUME Overwrite
    PROVE  Service!Restart
<1>1. \A c \in Cells : cell'[c] = FreshRow(c) /\ log'[c] = <<>> BY DEF Overwrite
<1>2. Holders' = [c \in Cells |-> None]
  BY <1>1, FreshUnfinished DEF Holders
<1>3. Finished' = {} BY <1>1, FreshUnfinished DEF Finished
<1>4. UsedTokens' = {} BY <1>1 DEF UsedTokens, Granted
<1> QED BY <1>2, <1>3, <1>4 DEF Service!Restart

(* The store implements the lease service: a cell has at most one holder,  *)
(* a token holds one cell once, only a holder finishes a cell and finished *)
(* cells are never held again.                                             *)
THEOREM StoreImplementsLeaseService == Spec => ImplementsLeaseService
<1>1. Init => Service!Init
  <2> SUFFICES ASSUME Init PROVE Service!Init
    OBVIOUS
  <2>1. \A c \in Cells : cell[c] = FreshRow(c) /\ log[c] = <<>> BY DEF Init
  <2>2. Holders = [c \in Cells |-> None] BY <2>1, FreshUnfinished DEF Holders
  <2>3. Finished = {} BY <2>1, FreshUnfinished DEF Finished
  <2>4. UsedTokens = {} BY <2>1 DEF UsedTokens, Granted
  <2> QED BY <2>2, <2>3, <2>4 DEF Service!Init
<1>2. ASSUME TypeOK, TokenInv, FinishedBare, [Next]_vars
      PROVE  [Service!Next]_(Service!vars)
  <2>1. CASE Overwrite BY <2>1, RestartStep DEF Service!Next
  <2>2. CASE ~Overwrite
    <3>1. TokenInv' BY <1>2, TokenStep
    <3>2. CASE Finished' = Finished BY <1>2, <2>2, <3>1, <3>2, TransactStep DEF Service!Next
    <3>3. CASE Finished' # Finished BY <1>2, <2>2, <3>3, FinishStep DEF Service!Next
    <3> QED BY <3>2, <3>3
  <2> QED BY <2>1, <2>2
<1> QED BY <1>1, <1>2, TypeCorrect, TokenInvariant, FinishedRowsBare, PTL
    DEF Spec, ImplementsLeaseService, Service!Spec

-----------------------------------------------------------------------------

(* A lease that has not expired is ended only by its holder's completion   *)
(* or by an operator's retry, however old the time that another worker's   *)
(* transaction reads.                                                      *)
THEOREM LiveLeasesStay == Spec => LiveLeaseNotTaken
<1>1. ASSUME TypeOK, [Next]_vars, NEW c \in Leased, cell[c].ttl > 0,
             Holder(cell'[c]) # Holder(cell[c])
      PROVE  \/ Erased
             \/ log'[c][Len(log[c]) + 1].reason \in {"completed", "requeued"}
  <2>0. c \in Cells /\ cell[c].state = "leased" /\ cell[c] \in Row /\ log[c] \in Seq(Event)
    BY <1>1 DEF Leased, TypeOK
  <2>a. \A d \in 0..MaxWait : ~Expired(c, d)
    BY <1>1, <2>0, ClockAssumption DEF Expired, Row
  <2>b. ASSUME NEW x \in Cells, NEW row, NEW e, Update(x, row, e)
        PROVE  log'[c] = Append(log[c], e) \/ cell'[c] = cell[c]
    <3>1. CASE x = c
      <4>1. log' = [log EXCEPT ![c] = Append(log[c], e)] BY <2>b, <3>1 DEF Update
      <4>2. c \in DOMAIN log BY <1>1, <2>0 DEF TypeOK
      <4> QED BY <4>1, <4>2, Zenon
    <3>2. CASE x # c BY <2>0, <2>b, <3>2 DEF Update, TypeOK
    <3> QED BY <3>1, <3>2
  <2>c. \A e : e.reason \in {"completed", "requeued"} /\ log'[c] = Append(log[c], e) =>
             log'[c][Len(log[c]) + 1].reason \in {"completed", "requeued"}
    BY <2>0
  <2>1. CASE Initialise BY <1>1, <2>1 DEF Initialise
  <2>2. CASE Overwrite BY <2>2 DEF Overwrite, Erased
  <2>3. CASE LeaseAny
    <3>1. PICK w \in Workers, filter \in Filters, limit \in Limits, term \in Terms,
               d \in 0..MaxWait : Lease(w, filter, limit, term, d)
      BY <2>3 DEF LeaseAny
    <3>2. PICK S \in SUBSET Ready(filter, d) :
               \E tok \in FreshTokens(S) : LeaseCells(S, tok, w, term, d)
      BY <3>1 DEF Lease
    <3>3. ReclaimedRow(c, d) = cell[c] BY <2>a DEF ReclaimedRow
    <3>4. c \notin S BY <2>0, <3>2, <3>3 DEF Ready
    <3>5. cell'[c] = cell[c] BY <2>0, <3>2, <3>3, <3>4 DEF LeaseCells
    <3> QED BY <1>1, <3>5
  <2>4. CASE HeartbeatAny
    <3>1. PICK x \in Cells, w \in Workers, t \in Tokens, term \in Terms, d \in 0..MaxWait :
               Heartbeat(x, w, t, term, d)
      BY <2>4 DEF HeartbeatAny
    <3> DEFINE new == [cell[x] EXCEPT !.ttl = IF term - d > @ THEN term - d ELSE @]
    <3>2. cell'[c] = cell[c] \/ (x = c /\ cell'[c] = new)
      BY <2>0, <3>1 DEF Heartbeat, Update, TypeOK
    <3>3. x = c => new.token = cell[c].token /\ new.attempt = cell[c].attempt
      BY <2>0 DEF Row
    <3> HIDE DEF new
    <3>4. Holder(cell'[c]) = Holder(cell[c]) BY <3>2, <3>3 DEF Holder
    <3> QED BY <1>1, <3>4
  <2>5. CASE CompleteAny
    <3>1. PICK x \in Cells, w \in Workers, t \in Tokens, d \in 0..MaxWait,
               st \in Outcomes, cost \in Costs, artifact \in BOOLEAN :
               Complete(x, w, t, st, cost, artifact, d)
      BY <2>5 DEF CompleteAny
    <3> DEFINE e == EventOf(cell[x], w, t, st, Rounded(cost), "completed")
    <3>2. e.reason = "completed" BY DEF EventOf
    <3>3. log'[c] = Append(log[c], e) \/ cell'[c] = cell[c]
      BY <2>b, <3>1 DEF Complete
    <3> HIDE DEF e
    <3> QED BY <1>1, <2>c, <3>2, <3>3
  <2>6. CASE RequeueAny
    <3>1. PICK x \in Cells, w \in Operators : Requeue(x, w) BY <2>6 DEF RequeueAny
    <3> DEFINE e == EventOf(cell[x], w, None, "ready", 0, "requeued")
    <3>2. e.reason = "requeued" BY DEF EventOf
    <3>3. log'[c] = Append(log[c], e) \/ cell'[c] = cell[c]
      BY <2>b, <3>1 DEF Requeue
    <3> HIDE DEF e
    <3> QED BY <1>1, <2>c, <3>2, <3>3
  <2>7. CASE ReclaimAny
    <3>1. PICK d \in 0..MaxWait : Reclaim(d) BY <2>7 DEF ReclaimAny
    <3>2. cell'[c] = cell[c] BY <2>0, <2>a, <3>1 DEF Reclaim, ReclaimedRow
    <3> QED BY <1>1, <3>2
  <2>8. CASE Tick
    <3>1. cell'[c] = Older(cell[c]) BY <2>0, <2>8 DEF Tick
    <3>2. Older(cell[c]).token = cell[c].token /\ Older(cell[c]).attempt = cell[c].attempt
      BY <2>0 DEF Older, Row
    <3> QED BY <1>1, <3>1, <3>2 DEF Holder
  <2>9. CASE UNCHANGED vars BY <1>1, <2>9 DEF vars
  <2> QED BY <1>1, <2>1, <2>2, <2>3, <2>4, <2>5, <2>6, <2>7, <2>8, <2>9 DEF Next
<1>2. ASSUME TypeOK, [Next]_vars
      PROVE  [\A c \in Leased :
                 cell[c].ttl > 0 /\ Holder(cell'[c]) # Holder(cell[c]) =>
                     \/ Erased
                     \/ log'[c][Len(log[c]) + 1].reason \in {"completed", "requeued"}]_vars
  BY <1>1, <1>2
<1> QED BY <1>2, TypeCorrect, PTL DEF Spec, LiveLeaseNotTaken

-----------------------------------------------------------------------------
(* The money: what a row adds up is what its events say, and the budget is *)
(* exceeded by overruns only.                                              *)

HIDE DEF Cells

(* A log that one more event is appended to.                               *)
LEMMA AppendCosts ==
    ASSUME NEW c \in Cells, NEW l \in Seq(Event), NEW e \in Event
    PROVE  /\ LoggedCost(Append(l, e)) = LoggedCost(l) + e.cost
           /\ Overrun(c, Append(l, e)) = Overrun(c, l) + Extra(c, e)
<1> DEFINE n == Len(l)
           m == Append(l, e)
           f == [i \in DOMAIN l |-> l[i].cost]
           g == [i \in DOMAIN m |-> m[i].cost]
           p == [i \in DOMAIN l |-> Extra(c, l[i])]
           q == [i \in DOMAIN m |-> Extra(c, m[i])]
<1>1. /\ n \in Nat /\ DOMAIN m = 1..(n + 1) /\ DOMAIN l = 1..n /\ m[n + 1] = e
      /\ \A i \in 1..n : m[i] = l[i] /\ l[i] \in Event
  OBVIOUS
<1>2. \A x \in Event : x.cost \in Int BY DEF Event
<1>3. \A x \in Event : Extra(c, x) \in Int
  BY ManifestAssumption DEF Event, Extra
<1> HIDE DEF n, m
<1>4. DOMAIN f = 1..n /\ DOMAIN g = 1..(n + 1) /\ DOMAIN p = 1..n /\ DOMAIN q = 1..(n + 1)
  BY <1>1
<1>5. /\ \A i \in 1..n : f[i] \in Int /\ g[i] = f[i]
      /\ g[n + 1] \in Int /\ g[n + 1] = e.cost
  BY <1>1, <1>2
<1>6. /\ \A i \in 1..n : p[i] \in Int /\ q[i] = p[i]
      /\ q[n + 1] \in Int /\ q[n + 1] = Extra(c, e)
  BY <1>1, <1>3
<1>7. LoggedCost(l) = SumFunction(f) /\ LoggedCost(m) = SumFunction(g) BY DEF LoggedCost
<1>8. Overrun(c, l) = SumFunction(p) /\ Overrun(c, m) = SumFunction(q) BY DEF Overrun
<1> HIDE DEF f, g, p, q
<1>9. SumFunctionOnSet(g, 1..(n + 1)) = SumFunctionOnSet(f, 1..n) + g[n + 1]
  BY <1>1, <1>5, SumAppended
<1>10. SumFunctionOnSet(q, 1..(n + 1)) = SumFunctionOnSet(p, 1..n) + q[n + 1]
  BY <1>1, <1>6, SumAppended
<1> QED BY <1>4, <1>5, <1>6, <1>7, <1>8, <1>9, <1>10, SumOfFunction DEF m

(* Costs and overruns are natural numbers.                                 *)
LEMMA CostsType ==
    ASSUME NEW c \in Cells, NEW l \in Seq(Event)
    PROVE  /\ LoggedCost(l) \in Nat
           /\ Overrun(c, l) \in Nat
<1> DEFINE f == [i \in DOMAIN l |-> l[i].cost]
           p == [i \in DOMAIN l |-> Extra(c, l[i])]
<1>1. DOMAIN l = 1..Len(l) /\ Len(l) \in Nat /\ \A i \in 1..Len(l) : l[i] \in Event
  OBVIOUS
<1>2. \A x \in Event : x.cost \in Nat /\ Extra(c, x) \in Nat
  BY ManifestAssumption DEF Event, Extra
<1>3. /\ DOMAIN f = 1..Len(l) /\ \A i \in 1..Len(l) : f[i] \in Nat
      /\ DOMAIN p = 1..Len(l) /\ \A i \in 1..Len(l) : p[i] \in Nat
  BY <1>1, <1>2
<1>4. IsFiniteSet(1..Len(l)) BY <1>1, FS_Interval
<1>5. LoggedCost(l) = SumFunction(f) /\ Overrun(c, l) = SumFunction(p)
  BY DEF LoggedCost, Overrun
<1> HIDE DEF f, p
<1>6. SumFunctionOnSet(f, 1..Len(l)) \in Nat /\ SumFunctionOnSet(p, 1..Len(l)) \in Nat
  BY <1>3, <1>4, SumNatural
<1> QED BY <1>3, <1>5, <1>6, SumOfFunction

(* An empty log costs nothing.                                             *)
LEMMA NoCosts ==
    ASSUME NEW c \in Cells
    PROVE  LoggedCost(<<>>) = 0 /\ Overrun(c, <<>>) = 0
<1>1. DOMAIN <<>> = {} OBVIOUS
<1>2. /\ DOMAIN [i \in DOMAIN <<>> |-> <<>>[i].cost] = {}
      /\ DOMAIN [i \in DOMAIN <<>> |-> Extra(c, <<>>[i])] = {}
  BY <1>1
<1> QED BY <1>2, SumOfFunction, SumEmpty DEF LoggedCost, Overrun

\* What a step that spends nothing leaves alone.
SameBooks(c) ==
    /\ cell'[c].actual = cell[c].actual
    /\ LoggedCost(log'[c]) = LoggedCost(log[c])
    /\ Overrun(c, log'[c]) = Overrun(c, log[c])

(* An event that is no completion costs nothing.                           *)
LEMMA FreeEvent ==
    ASSUME NEW c \in Cells, NEW l \in Seq(Event), NEW e \in Event,
           e.cost = 0, e.reason # "completed"
    PROVE  /\ LoggedCost(Append(l, e)) = LoggedCost(l)
           /\ Overrun(c, Append(l, e)) = Overrun(c, l)
<1>1. Extra(c, e) = 0 BY DEF Extra
<1>2. LoggedCost(l) \in Nat /\ Overrun(c, l) \in Nat BY CostsType
<1>3. /\ LoggedCost(Append(l, e)) = LoggedCost(l) + 0
      /\ Overrun(c, Append(l, e)) = Overrun(c, l) + 0
  BY <1>1, AppendCosts
<1> DEFINE a == LoggedCost(l)
           b == Overrun(c, l)
<1> HIDE DEF a, b
<1>4. a \in Nat /\ b \in Nat => a + 0 = a /\ b + 0 = b OBVIOUS
<1> QED BY <1>2, <1>3, <1>4 DEF a, b

(* Taking a lapsed lease back costs nothing.                               *)
LEMMA ReclaimedBooks ==
    ASSUME TypeOK, NEW c \in Cells, NEW d \in 0..MaxWait
    PROVE  /\ ReclaimedRow(c, d).actual = cell[c].actual
           /\ LoggedCost(ReclaimedLog(c, d)) = LoggedCost(log[c])
           /\ Overrun(c, ReclaimedLog(c, d)) = Overrun(c, log[c])
           /\ ReclaimedRow(c, d) \in Row
           /\ ReclaimedLog(c, d) \in Seq(Event)
<1>1. cell[c] \in Row /\ log[c] \in Seq(Event) BY DEF TypeOK
<1>2. CASE ~Expired(c, d) BY <1>1, <1>2 DEF ReclaimedRow, ReclaimedLog
<1>3. CASE Expired(c, d)
  <2> DEFINE e == EventOf(cell[c], cell[c].owner, cell[c].token, "ready", 0, "lease-expired")
  <2>1. e \in Event BY <1>1 DEF EventOf, Event, Row, Reasons, CellStates
  <2>2. e.cost = 0 /\ e.reason = "lease-expired" BY DEF EventOf
  <2> HIDE DEF e
  <2>3. ReclaimedLog(c, d) = Append(log[c], e) BY <1>3 DEF ReclaimedLog, e
  <2>4. ReclaimedRow(c, d) = [Unleased(cell[c]) EXCEPT !.state = "ready"]
    BY <1>3 DEF ReclaimedRow
  <2>5. Unleased(cell[c]) \in Row BY <1>1, UnleasedType
  <2>6. Unleased(cell[c]).actual = cell[c].actual BY <1>1 DEF Unleased, Row
  <2>7. ReclaimedRow(c, d).actual = Unleased(cell[c]).actual /\ ReclaimedRow(c, d) \in Row
    BY <2>4, <2>5 DEF Row, CellStates
  <2>8. Append(log[c], e) \in Seq(Event) BY <1>1, <2>1
  <2> QED BY <1>1, <2>1, <2>2, <2>3, <2>6, <2>7, <2>8, FreeEvent
<1> QED BY <1>2, <1>3

(* Only a completion spends, and only an overwrite forgets.                *)
LEMMA OthersSpendNothing ==
    ASSUME TypeOK, [Next]_vars, ~CompleteAny, ~Overwrite, NEW c \in Cells
    PROVE  SameBooks(c)
<1>0. cell[c] \in Row /\ log[c] \in Seq(Event) BY DEF TypeOK
<1>1. CASE Initialise BY <1>1 DEF Initialise, SameBooks
<1>2. CASE LeaseAny
  <2>1. PICK w \in Workers, filter \in Filters, limit \in Limits, term \in Terms,
             d \in 0..MaxWait : Lease(w, filter, limit, term, d)
    BY <1>2 DEF LeaseAny
  <2>a. PICK S \in SUBSET Ready(filter, d) :
             \E tok \in FreshTokens(S) : LeaseCells(S, tok, w, term, d)
    BY <2>1 DEF Lease
  <2>2. PICK tok \in FreshTokens(S) : LeaseCells(S, tok, w, term, d) BY <2>a
  <2> DEFINE row == ReclaimedRow(c, d)
             l == ReclaimedLog(c, d)
  <2>3. /\ row.actual = cell[c].actual /\ row \in Row /\ l \in Seq(Event)
        /\ LoggedCost(l) = LoggedCost(log[c]) /\ Overrun(c, l) = Overrun(c, log[c])
    BY ReclaimedBooks
  <2>4. CASE c \notin S
    <3>1. cell'[c] = row /\ log'[c] = l BY <2>2, <2>4 DEF LeaseCells
    <3> QED BY <2>3, <3>1 DEF SameBooks
  <2>5. CASE c \in S
    <3> DEFINE e == LeaseEvent(row, w, tok[c])
    <3>1. tok[c] \in Tokens BY <2>2, <2>5 DEF FreshTokens
    <3>2. cell'[c] = LeasedRow(row, w, tok[c], term - d) /\ log'[c] = Append(l, e)
      BY <2>2, <2>5 DEF LeaseCells
    <3> HIDE DEF row, l
    <3>3. e \in Event /\ e.cost = 0 /\ e.reason = "worker-lease"
      BY <2>3, <3>1 DEF LeaseEvent, Event, Row, Reasons, CellStates
    <3>4. LeasedRow(row, w, tok[c], term - d).actual = row.actual
      BY <2>3 DEF LeasedRow, Row
    <3> HIDE DEF e
    <3>5. /\ LoggedCost(Append(l, e)) = LoggedCost(l)
          /\ Overrun(c, Append(l, e)) = Overrun(c, l)
      BY <2>3, <3>3, FreeEvent
    <3> QED BY <2>3, <3>2, <3>4, <3>5 DEF SameBooks
  <2> QED BY <2>4, <2>5
<1>3. CASE HeartbeatAny
  <2>1. PICK x \in Cells, w \in Workers, t \in Tokens, term \in Terms, d \in 0..MaxWait :
             Heartbeat(x, w, t, term, d)
    BY <1>3 DEF HeartbeatAny
  <2>2. CASE c # x BY <2>1, <2>2 DEF Heartbeat, Update, TypeOK, SameBooks
  <2>3. CASE c = x
    <3> DEFINE e == EventOf(cell[c], w, t, "leased", 0, "lease-heartbeat")
    <3>1. e \in Event /\ e.cost = 0 /\ e.reason = "lease-heartbeat"
      BY <1>0 DEF EventOf, Event, Row, Reasons, CellStates
    <3>2. log'[c] = Append(log[c], e) /\ cell'[c].actual = cell[c].actual
      BY <1>0, <2>1, <2>3 DEF Heartbeat, Update, TypeOK, Row
    <3> HIDE DEF e
    <3> QED BY <1>0, <3>1, <3>2, FreeEvent DEF SameBooks
  <2> QED BY <2>2, <2>3
<1>4. CASE RequeueAny
  <2>1. PICK x \in Cells, w \in Operators : Requeue(x, w) BY <1>4 DEF RequeueAny
  <2>2. CASE c # x BY <2>1, <2>2 DEF Requeue, Update, TypeOK, SameBooks
  <2>3. CASE c = x
    <3> DEFINE e == EventOf(cell[c], w, None, "ready", 0, "requeued")
    <3>1. e \in Event /\ e.cost = 0 /\ e.reason = "requeued"
      BY <1>0, ArgumentsAssumption DEF EventOf, Event, Row, Reasons, CellStates
    <3>2. log'[c] = Append(log[c], e) /\ cell'[c].actual = cell[c].actual
      BY <1>0, <2>1, <2>3 DEF Requeue, Update, TypeOK, Row
    <3> HIDE DEF e
    <3> QED BY <1>0, <3>1, <3>2, FreeEvent DEF SameBooks
  <2> QED BY <2>2, <2>3
<1>5. CASE ReclaimAny
  <2>1. PICK d \in 0..MaxWait : Reclaim(d) BY <1>5 DEF ReclaimAny
  <2>2. cell'[c] = ReclaimedRow(c, d) /\ log'[c] = ReclaimedLog(c, d) BY <2>1 DEF Reclaim
  <2> QED BY <2>2, ReclaimedBooks DEF SameBooks
<1>6. CASE Tick
  <2>1. cell'[c] = Older(cell[c]) /\ log' = log BY <1>6 DEF Tick
  <2>2. Older(cell[c]).actual = cell[c].actual BY <1>0 DEF Older, Row
  <2> QED BY <2>1, <2>2 DEF SameBooks
<1>7. CASE UNCHANGED vars BY <1>7 DEF vars, SameBooks
<1> QED BY <1>1, <1>2, <1>3, <1>4, <1>5, <1>6, <1>7 DEF Next

\* The sums of the campaign.
Reserved == EstimateOf(Leased)

Overruns == SumFunction([c \in Cells |-> Overrun(c, log[c])])

(* The sums are natural numbers.                                           *)
LEMMA SumsType ==
    ASSUME TypeOK
    PROVE  /\ Spent \in Nat
           /\ Overruns \in Nat
           /\ \A S \in SUBSET Cells : EstimateOf(S) \in Nat
<1> DEFINE f == [c \in Cells |-> cell[c].actual]
           g == [c \in Cells |-> Overrun(c, log[c])]
<1>1. IsFiniteSet(Cells) BY CellsFinite
<1>2. \A c \in Cells : f[c] \in Nat /\ g[c] \in Nat
  BY CostsType DEF TypeOK, Row
<1>3. DOMAIN f = Cells /\ DOMAIN g = Cells OBVIOUS
<1>4. Spent = SumFunction(f) /\ Overruns = SumFunction(g) BY DEF Spent, Overruns
<1> HIDE DEF f, g
<1>5. SumFunctionOnSet(f, Cells) \in Nat /\ SumFunctionOnSet(g, Cells) \in Nat
  BY <1>1, <1>2, SumNatural
<1>6. ASSUME NEW S \in SUBSET Cells PROVE SumFunctionOnSet(Estimate, S) \in Nat
  <2>1. IsFiniteSet(S) /\ \A c \in S : Estimate[c] \in Nat
    BY CellsFinite, ManifestAssumption
  <2> QED BY <2>1, SumNatural
<1> QED BY <1>3, <1>4, <1>5, <1>6, SumOfFunction DEF EstimateOf

(* Fewer cells reserve no more.                                            *)
LEMMA FewerReserveLess ==
    ASSUME NEW S \in SUBSET Cells, NEW T \in SUBSET S
    PROVE  EstimateOf(T) <= EstimateOf(S)
<1>1. IsFiniteSet(S) /\ \A c \in S : Estimate[c] \in Nat BY CellsFinite, ManifestAssumption
<1> QED BY <1>1, SumPart DEF EstimateOf

(* The sums do not change where the books do not.                          *)
LEMMA SameSums ==
    ASSUME TypeOK, TypeOK', \A c \in Cells : SameBooks(c)
    PROVE  Spent' = Spent /\ Overruns' = Overruns
<1>1. [c \in Cells |-> cell'[c].actual] = [c \in Cells |-> cell[c].actual]
  BY DEF SameBooks
<1>2. [c \in Cells |-> Overrun(c, log'[c])] = [c \in Cells |-> Overrun(c, log[c])]
  BY DEF SameBooks
<1> QED BY <1>1, <1>2 DEF Spent, Overruns

(* A completion adds its cost to its cell, and to what its cell's events   *)
(* say, and gives the reservation back.                                    *)
LEMMA CompletionSpends ==
    ASSUME TypeOK, TypeOK', NEW x \in Cells, NEW w \in Workers, NEW t \in Tokens,
           NEW d \in 0..MaxWait, NEW new \in Outcomes, NEW cost \in Costs,
           NEW artifact \in BOOLEAN, Complete(x, w, t, new, cost, artifact, d)
    PROVE  /\ Spent' = Spent + cost
           /\ Reserved = Reserved' + Estimate[x]
           /\ Rounded(cost) > Estimate[x] =>
                  Overruns' = Overruns + (Rounded(cost) - Estimate[x])
           /\ Rounded(cost) <= Estimate[x] => Overruns' = Overruns
           /\ cell'[x].actual = cell[x].actual + cost
           /\ LoggedCost(log'[x]) = LoggedCost(log[x]) + Rounded(cost)
           /\ \A c \in Cells : c # x => SameBooks(c)
<1> DEFINE e == EventOf(cell[x], w, t, new, Rounded(cost), "completed")
           row == [Unleased(cell[x]) EXCEPT !.state = new, !.actual = @ + cost,
                                            !.artifact = artifact]
<1>0. cell[x] \in Row /\ log[x] \in Seq(Event) BY DEF TypeOK
<1>a. cost \in Nat /\ Rounded(cost) \in Nat /\ Estimate[x] \in Nat /\ new \in CompletionStates
  BY ArgumentsAssumption, ManifestAssumption, RoundedType
<1>b. new \in CellStates /\ new # "leased" BY <1>a DEF CompletionStates, CellStates
<1>1. e \in Event /\ e.cost = Rounded(cost) /\ e.reason = "completed"
  BY <1>0, <1>a, <1>b DEF EventOf, Event, Row, Reasons
<1>2. cell' = [cell EXCEPT ![x] = row] /\ log' = [log EXCEPT ![x] = Append(@, e)]
  BY DEF Complete, Update
<1>3. row.actual = cell[x].actual + cost /\ row.state = new
  <2>1. Unleased(cell[x]).actual = cell[x].actual /\ Unleased(cell[x]) \in Row
    BY <1>0, UnleasedType DEF Unleased, Row
  <2> QED BY <2>1 DEF Row
<1> HIDE DEF e, row
<1>4. cell'[x] = row /\ log'[x] = Append(log[x], e) BY <1>2 DEF TypeOK
<1>5. \A c \in Cells : c # x => cell'[c] = cell[c] /\ log'[c] = log[c] BY <1>2 DEF TypeOK
<1>6. \A c \in Cells : c # x => SameBooks(c) BY <1>5 DEF SameBooks
<1>7. LoggedCost(log'[x]) = LoggedCost(log[x]) + Rounded(cost)
  BY <1>0, <1>1, <1>4, AppendCosts
<1>8. Overrun(x, log'[x]) = Overrun(x, log[x]) + Extra(x, e)
  BY <1>0, <1>1, <1>4, AppendCosts
<1>9. Spent' = Spent + cost
  <2> DEFINE f == [c \in Cells |-> cell[c].actual]
             g == [c \in Cells |-> cell'[c].actual]
  <2>1. DOMAIN f = Cells /\ DOMAIN g = Cells OBVIOUS
  <2>2. \A c \in Cells : f[c] \in Int /\ g[c] \in Int BY DEF TypeOK, Row
  <2>3. \A c \in Cells : c # x => f[c] = g[c] BY <1>5
  <2>4. g[x] = f[x] + cost BY <1>3, <1>4
  <2>5. Spent = SumFunction(f) /\ Spent' = SumFunction(g) BY DEF Spent
  <2> HIDE DEF f, g
  <2>6. SumFunctionOnSet(g, Cells) = SumFunctionOnSet(f, Cells) + (g[x] - f[x])
    BY <2>2, <2>3, CellsFinite, SumChange
  <2>7. g[x] - f[x] = cost BY <1>a, <2>2, <2>4
  <2> QED BY <2>1, <2>5, <2>6, <2>7, SumOfFunction
<1>10. Reserved = Reserved' + Estimate[x]
  <2>1. Leased \in SUBSET Cells /\ x \in Leased BY DEF Complete, Owns, Leased
  <2>2. Leased' = Leased \ {x} BY <1>3, <1>4, <1>5, <1>b DEF Leased
  <2>3. IsFiniteSet(Leased) /\ \A c \in Leased : Estimate[c] \in Int
    BY <2>1, CellsFinite, ManifestAssumption
  <2>4. SumFunctionOnSet(Estimate, Leased) = Estimate[x] + SumFunctionOnSet(Estimate, Leased')
    BY <2>1, <2>2, <2>3, SumRemove
  <2>5. Reserved = SumFunctionOnSet(Estimate, Leased)
        /\ Reserved' = SumFunctionOnSet(Estimate, Leased')
    BY DEF Reserved, EstimateOf
  <2>6. Leased' \in SUBSET Cells BY <2>1, <2>2
  <2>7. Reserved' \in Nat BY <2>5, <2>6, SumsType DEF EstimateOf
  <2> DEFINE a == Reserved
             b == Reserved'
  <2>8. a = Estimate[x] + b /\ b \in Nat BY <2>4, <2>5, <2>7
  <2> HIDE DEF a, b
  <2>9. a = b + Estimate[x] BY <1>a, <2>8
  <2> QED BY <2>9 DEF a, b
<1>11. Overruns' = Overruns + Extra(x, e)
  <2> DEFINE f == [c \in Cells |-> Overrun(c, log[c])]
             g == [c \in Cells |-> Overrun(c, log'[c])]
  <2>1. DOMAIN f = Cells /\ DOMAIN g = Cells OBVIOUS
  <2>2. \A c \in Cells : f[c] \in Int /\ g[c] \in Int BY CostsType DEF TypeOK
  <2>3. \A c \in Cells : c # x => f[c] = g[c] BY <1>5
  <2>4. g[x] = f[x] + Extra(x, e) BY <1>8
  <2>5. Overruns = SumFunction(f) /\ Overruns' = SumFunction(g) BY DEF Overruns
  <2>a. Extra(x, e) \in Int BY <1>1, <1>a DEF Extra
  <2> HIDE DEF f, g
  <2>6. SumFunctionOnSet(g, Cells) = SumFunctionOnSet(f, Cells) + (g[x] - f[x])
    BY <2>2, <2>3, CellsFinite, SumChange
  <2>7. g[x] - f[x] = Extra(x, e) BY <2>a, <2>2, <2>4
  <2> QED BY <2>1, <2>5, <2>6, <2>7, SumOfFunction
<1>12. /\ Rounded(cost) > Estimate[x] => Extra(x, e) = Rounded(cost) - Estimate[x]
       /\ Rounded(cost) <= Estimate[x] => Extra(x, e) = 0
  BY <1>1, <1>a DEF Extra
<1>13. Overruns \in Nat BY SumsType
<1>14. Rounded(cost) <= Estimate[x] => Overruns' = Overruns
  <2> DEFINE o == Overruns
  <2>1. o \in Nat => o + 0 = o OBVIOUS
  <2> QED BY <1>11, <1>12, <1>13, <2>1
<1> QED BY <1>3, <1>4, <1>6, <1>7, <1>9, <1>10, <1>11, <1>12, <1>14

(* Costs of at most eight decimals, which round(actual_cost, 8) keeps.     *)
CostsExact == \A cost \in Costs : Rounded(cost) = cost

(* The inductive form of SpendingExplained: a row's cost is exactly what   *)
(* its events add up to.                                                   *)
SpendInv ==
    /\ \A c \in Cells : cell[c].actual = LoggedCost(log[c])
    /\ Spent + Reserved <= HardBudget + Overruns

(* Nothing is spent in a new database.                                     *)
LEMMA NothingSpent ==
    /\ \A c \in Cells : FreshRow(c).actual = 0 /\ LoggedCost(<<>>) = 0 /\ Overrun(c, <<>>) = 0
    /\ SumFunction([c \in Cells |-> 0]) = 0
    /\ EstimateOf({}) = 0
<1> DEFINE f == [c \in Cells |-> 0]
<1>1. DOMAIN f = Cells /\ \A c \in Cells : f[c] = 0 OBVIOUS
<1> HIDE DEF f
<1>2. SumFunction(f) = 0 BY <1>1, CellsFinite, SumZero, SumOfFunction
<1>3. EstimateOf({}) = 0 BY SumEmpty DEF EstimateOf
<1> QED BY <1>2, <1>3, NoCosts DEF f, FreshRow

(* Cells are numbers.                                                      *)
LEMMA CellsInt == \A c \in Cells : c \in Int
BY CellsAssumption DEF Cells

(* A lease stays within the budget: its walk counts what is spent, the     *)
(* live leases and the cells it has already taken, so that the last cell   *)
(* it takes still fits.                                                    *)
LEMMA LeaseFits ==
    ASSUME TypeOK, TypeOK', SpendInv, NEW w \in Workers, NEW filter \in Filters,
           NEW limit \in Limits, NEW term \in Terms, NEW d \in 0..MaxWait,
           Lease(w, filter, limit, term, d)
    PROVE  Spent + Reserved' <= HardBudget + Overruns
<1>1. PICK S \in SUBSET Ready(filter, d) :
           /\ Chosen(S, filter, limit, d)
           /\ \E tok \in FreshTokens(S) : LeaseCells(S, tok, w, term, d)
  BY DEF Lease
<1>2. S \in SUBSET Cells BY <1>1, ArgumentsAssumption DEF Ready
<1>3. \A c \in Cells : c \notin S => cell'[c] = ReclaimedRow(c, d)
  BY <1>1 DEF LeaseCells
<1>4. Leased' \subseteq Live(d) \cup S BY <1>2, <1>3, LeaseHolds
<1>5. Live(d) \subseteq Leased /\ Leased \in SUBSET Cells /\ Leased' \in SUBSET Cells
  BY DEF Live, Leased
<1>6. /\ Spent \in Nat /\ Overruns \in Nat /\ HardBudget \in Nat
      /\ \A T \in SUBSET Cells : EstimateOf(T) \in Nat
  BY SumsType, ManifestAssumption
<1>7. CASE S = {}
  <2>1. EstimateOf(Leased') <= EstimateOf(Leased) BY <1>4, <1>5, <1>7, FewerReserveLess
  <2>2. EstimateOf(Leased') \in Nat /\ EstimateOf(Leased) \in Nat BY <1>5, <1>6
  <2>3. Reserved = EstimateOf(Leased) /\ Reserved' = EstimateOf(Leased') BY DEF Reserved, EstimateOf
  <2> QED BY <1>6, <2>1, <2>2, <2>3 DEF SpendInv
<1>8. CASE S # {}
  <2>1. PICK c \in S : \A y \in S : y <= c BY <1>2, <1>8, LastCell
  <2> DEFINE held == Live(d) \cup {x \in S : x < c}
  <2>2. Fits(c, {x \in S : x < c}, limit, d) BY <1>1, <2>1 DEF Chosen
  <2>3. Spent + EstimateOf(held) + Estimate[c] <= HardBudget BY <2>2 DEF Fits
  <2>a. \A x \in S : x \in Int /\ c \in Int BY <1>2, CellsInt
  <2>4. \A x \in S : x < c \/ x = c BY <2>1, <2>a
  <2>5. held \in SUBSET Cells /\ Leased' \subseteq held \cup {c} /\ c \in Cells
    BY <1>2, <1>4, <1>5, <2>4
  <2> HIDE DEF held
  <2>6. held \cup {c} \in SUBSET Cells BY <2>5
  <2>7. EstimateOf(Leased') <= EstimateOf(held \cup {c}) BY <2>5, <2>6, FewerReserveLess
  <2>8. EstimateOf(held \cup {c}) <= EstimateOf(held) + Estimate[c]
    <3>1. CASE c \in held
      <4>1. held \cup {c} = held BY <3>1
      <4>2. EstimateOf(held) \in Nat /\ Estimate[c] \in Nat BY <1>6, <2>5, ManifestAssumption
      <4>3. EstimateOf(held) <= EstimateOf(held) + Estimate[c] BY <4>2
      <4> QED BY <4>1, <4>3
    <3>2. CASE c \notin held
      <4>1. IsFiniteSet(held) /\ \A y \in held \cup {c} : Estimate[y] \in Int
        BY <2>5, CellsFinite, ManifestAssumption
      <4>2. EstimateOf(held \cup {c}) = Estimate[c] + EstimateOf(held)
        BY <3>2, <4>1, SumAdd DEF EstimateOf
      <4>3. EstimateOf(held) \in Nat /\ Estimate[c] \in Nat BY <1>6, <2>5, ManifestAssumption
      <4> QED BY <4>2, <4>3
    <3> QED BY <3>1, <3>2
  <2>9. /\ EstimateOf(Leased') \in Nat /\ EstimateOf(held) \in Nat /\ Estimate[c] \in Nat
        /\ EstimateOf(held \cup {c}) \in Nat
    BY <1>5, <1>6, <2>5, <2>6, ManifestAssumption
  <2>10. Reserved' = EstimateOf(Leased') BY DEF Reserved, EstimateOf
  <2> QED BY <1>6, <2>3, <2>7, <2>8, <2>9, <2>10
<1> QED BY <1>7, <1>8

(* The money stays accounted for in every step.                            *)
LEMMA SpendStep ==
    ASSUME CostsExact, TypeOK, TypeOK', SpendInv, [Next]_vars
    PROVE  SpendInv'
<1>0. /\ Spent \in Nat /\ Overruns \in Nat /\ HardBudget \in Nat
      /\ Leased \in SUBSET Cells /\ Leased' \in SUBSET Cells
      /\ \A T \in SUBSET Cells : EstimateOf(T) \in Nat
  BY SumsType, ManifestAssumption DEF Leased
<1>a. /\ Reserved = EstimateOf(Leased) /\ Reserved' = EstimateOf(Leased')
      /\ Reserved \in Nat /\ Reserved' \in Nat
  BY <1>0 DEF Reserved, EstimateOf
<1>1. CASE Overwrite
  <2>1. /\ \A c \in Cells : cell'[c] = FreshRow(c) /\ log'[c] = <<>>
    BY <1>1 DEF Overwrite
  <2>2. /\ \A c \in Cells : cell'[c].actual = 0 /\ LoggedCost(log'[c]) = 0
        /\ \A c \in Cells : Overrun(c, log'[c]) = 0
        /\ \A c \in Cells : cell'[c].state # "leased"
    BY <2>1, NothingSpent, FreshUnfinished
  <2>3. /\ [c \in Cells |-> cell'[c].actual] = [c \in Cells |-> 0]
        /\ [c \in Cells |-> Overrun(c, log'[c])] = [c \in Cells |-> 0]
        /\ {c \in Cells : cell'[c].state = "leased"} = {}
    BY <2>2
  <2>4. Spent' = 0 /\ Overruns' = 0 /\ Reserved' = 0
    BY <2>3, NothingSpent DEF Spent, Overruns, Reserved, Leased
  <2>5. Spent' + Reserved' <= HardBudget + Overruns' BY <1>0, <2>4
  <2> QED BY <2>2, <2>5 DEF SpendInv
<1>2. CASE CompleteAny
  <2>1. PICK x \in Cells, w \in Workers, t \in Tokens, d \in 0..MaxWait,
             st \in Outcomes, cost \in Costs, artifact \in BOOLEAN :
             Complete(x, w, t, st, cost, artifact, d)
    BY <1>2 DEF CompleteAny
  <2>2. /\ Spent' = Spent + cost
        /\ Reserved = Reserved' + Estimate[x]
        /\ cost > Estimate[x] => Overruns' = Overruns + (cost - Estimate[x])
        /\ cost <= Estimate[x] => Overruns' = Overruns
        /\ cell'[x].actual = cell[x].actual + cost
        /\ LoggedCost(log'[x]) = LoggedCost(log[x]) + cost
        /\ \A c \in Cells : c # x => SameBooks(c)
    <3>1. Rounded(cost) = cost BY DEF CostsExact
    <3> QED BY <2>1, <3>1, CompletionSpends
  <2>3. cost \in Nat /\ Estimate[x] \in Nat BY ArgumentsAssumption, ManifestAssumption
  <2>4. \A c \in Cells : cell'[c].actual = LoggedCost(log'[c])
    BY <2>2 DEF SpendInv, SameBooks
  <2>5. Spent + Reserved <= HardBudget + Overruns BY DEF SpendInv
  <2>6. Spent' + Reserved' <= HardBudget + Overruns'
    <3> DEFINE a == Spent
               b == Reserved
               o == Overruns
               a2 == Spent'
               b2 == Reserved'
               o2 == Overruns'
    <3>1. /\ a \in Nat /\ b2 \in Nat /\ o \in Nat /\ HardBudget \in Nat
          /\ a2 = a + cost /\ b = b2 + Estimate[x] /\ a + b <= HardBudget + o
          /\ cost > Estimate[x] => o2 = o + (cost - Estimate[x])
          /\ cost <= Estimate[x] => o2 = o
      BY <1>0, <1>a, <2>2, <2>5
    <3> HIDE DEF a, b, o, a2, b2, o2
    <3>2. a2 + b2 <= HardBudget + o2 BY <2>3, <3>1
    <3> QED BY <3>2 DEF a2, b2, o2
  <2> QED BY <2>4, <2>6 DEF SpendInv
<1>3. CASE ~Overwrite /\ ~CompleteAny
  <2>1. \A c \in Cells : SameBooks(c) BY <1>3, OthersSpendNothing
  <2>2. Spent' = Spent /\ Overruns' = Overruns BY <2>1, SameSums
  <2>3. \A c \in Cells : cell'[c].actual = LoggedCost(log'[c])
    BY <2>1 DEF SpendInv, SameBooks
  <2>4. Spent + Reserved' <= HardBudget + Overruns
    <3>1. CASE LeaseAny BY <3>1, LeaseFits DEF LeaseAny
    <3>2. CASE ~LeaseAny
      <4>1. Leased' \subseteq Leased BY <3>2, OthersLeaseNothing
      <4>2. EstimateOf(Leased') <= EstimateOf(Leased) BY <1>0, <4>1, FewerReserveLess
      <4> QED BY <1>0, <1>a, <4>2 DEF SpendInv
    <3> QED BY <3>1, <3>2
  <2>5. Spent' + Reserved' <= HardBudget + Overruns' BY <2>2, <2>4
  <2> QED BY <2>3, <2>5 DEF SpendInv
<1> QED BY <1>1, <1>2, <1>3

(* The inductive invariant holds of every behaviour.                       *)
THEOREM SpendInvariant ==
    ASSUME CostsExact
    PROVE  Spec => []SpendInv
<1>1. ASSUME Init PROVE SpendInv
  <2>1. /\ \A c \in Cells : cell[c] = FreshRow(c) /\ log[c] = <<>>
    BY <1>1 DEF Init
  <2>2. /\ \A c \in Cells : cell[c].actual = 0 /\ LoggedCost(log[c]) = 0
        /\ \A c \in Cells : Overrun(c, log[c]) = 0
        /\ \A c \in Cells : cell[c].state # "leased"
    BY <2>1, NothingSpent, FreshUnfinished
  <2>3. /\ [c \in Cells |-> cell[c].actual] = [c \in Cells |-> 0]
        /\ [c \in Cells |-> Overrun(c, log[c])] = [c \in Cells |-> 0]
        /\ {c \in Cells : cell[c].state = "leased"} = {}
    BY <2>2
  <2>4. Spent = 0 /\ Overruns = 0 /\ Reserved = 0
    BY <2>3, NothingSpent DEF Spent, Overruns, Reserved, Leased
  <2>5. Spent + Reserved <= HardBudget + Overruns BY ManifestAssumption, <2>4
  <2> QED BY <2>2, <2>5 DEF SpendInv
<1>2. ASSUME TypeOK, TypeOK', SpendInv, [Next]_vars PROVE SpendInv' BY <1>2, SpendStep
<1> QED BY <1>1, <1>2, TypeCorrect, PTL DEF Spec

(* For costs that have at most eight decimals: whatever is leased,         *)
(* completed, lapsed or retried, in whatever order, the cost a row holds   *)
(* is what its events add up to, and the budget is exceeded by no more     *)
(* than the completed attempts cost beyond their estimates.                *)
THEOREM SpendingAccounted ==
    ASSUME CostsExact
    PROVE  Spec => []SpendingExplained
<1>1. ASSUME TypeOK, SpendInv PROVE SpendingExplained
  <2>1. ASSUME NEW c \in Cells
        PROVE  /\ cell[c].actual - LoggedCost(log[c]) <= Quantum
               /\ LoggedCost(log[c]) - cell[c].actual <= Quantum
    <3>1. LoggedCost(log[c]) \in Nat /\ cell[c].actual = LoggedCost(log[c])
      BY <1>1, CostsType DEF TypeOK, SpendInv
    <3> QED BY <3>1, QuantumAssumption
  <2>2. OverspendOnlyByOverrun
    BY <1>1 DEF SpendInv, OverspendOnlyByOverrun, Reserved, Overruns
  <2> QED BY <2>1, <2>2 DEF SpendingExplained, CostsReconcile
<1> QED BY <1>1, SpendInvariant, TypeCorrect, PTL

=============================================================================
