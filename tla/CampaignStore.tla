--------------------------- MODULE CampaignStore ---------------------------
(***************************************************************************)
(* The transactional campaign store, src/pelicanbench/campaign_store.py.   *)
(* A campaign is a fixed set of evaluation cells kept in one SQLite        *)
(* database.  Workers lease ready cells, renew and complete their leases   *)
(* with an ownership token, and expired leases go back to ready.  Every    *)
(* change of a cell inserts an event in the same transaction.              *)
(*                                                                         *)
(* Each function of the module is one SQL transaction that begins with     *)
(* BEGIN IMMEDIATE and ends with COMMIT or ROLLBACK, so it is one action   *)
(* here; an exception rolls everything back and is a step that does not    *)
(* happen.  What is NOT atomic is the clock: a caller reads `now' before   *)
(* it waits for the write lock (busy_timeout), so a transaction works with *)
(* a time that is d seconds old, for any d in 0..MaxWait.                  *)
(*                                                                         *)
(* Time is kept relative: ttl is lease_expires_at minus the current time,  *)
(* held at -MaxWait once it is so old that every transaction sees it as    *)
(* expired.  No comparison of the code tells two such leases apart.        *)
(*                                                                         *)
(* The events of one cell are kept as a sequence.  How the events of       *)
(* different cells interleave (the sequence column, previous_event_hash)   *)
(* is fixed by the write lock, and no property compares them.              *)
(***************************************************************************)
EXTENDS Integers, Sequences, FiniteSets, FiniteSetsExt

CONSTANTS
    NumCells,       \* cells, numbered in (stage, model, task, replicate) order
    ModelOf,        \* the model_id of each cell
    InitialState,   \* the state of each cell in the manifest
    Estimate,       \* estimated_cost of each cell (0 where there is no price)
    HardBudget,     \* manifest.hard_budget
    ReservePercent, \* policy.reserve_fraction, in percent
    MaxParallel,    \* manifest.max_parallel_per_model
    Filters,        \* the cell sets that stage_id and model_id arguments select
    Limits,         \* limit arguments of lease_campaign_cells
    Terms,          \* lease_seconds and extend_seconds arguments
    MaxWait,        \* oldest `now' a transaction can hold (busy_timeout)
    Outcomes,       \* new_state arguments of complete_campaign_lease
    Costs,          \* actual_cost arguments of complete_campaign_lease
    Quantum,        \* cost units in 1e-8, the precision of a recorded event
    Workers,        \* worker_id values
    Operators,      \* worker_id arguments of requeue_failed_cell, None included
    Tokens,         \* lease tokens the token factory can return
    None,           \* SQL NULL
    MaxLog          \* bound: heartbeats stop when a cell has this many events

Cells == 1..NumCells

Models == {ModelOf[c] : c \in Cells}

CellStates == {"blocked-qualification", "blocked-price", "ready", "leased",
               "succeeded", "failed", "quarantined", "cancelled"}

\* The states a completion may ask for.
CompletionStates == {"ready", "succeeded", "failed", "quarantined", "cancelled"}

TerminalStates == {"succeeded", "failed", "quarantined", "cancelled"}

\* No operation leaves these states: failed is terminal but may be retried.
FinalStates == {"succeeded", "quarantined", "cancelled"}

AllowedTransitions ==
    ({"ready"} \X {"leased", "cancelled"})
    \cup ({"leased"} \X {"leased", "ready", "succeeded", "failed", "quarantined", "cancelled"})
    \cup {<<"failed", "ready">>}

ASSUME CellsAssumption == NumCells \in Nat
ASSUME ManifestAssumption ==
    /\ InitialState \in [Cells -> {"blocked-qualification", "blocked-price", "ready"}]
    /\ Estimate \in [Cells -> Nat]
    /\ HardBudget \in Nat
    /\ ReservePercent \in Nat
    /\ MaxParallel \in Nat \ {0}
ASSUME ArgumentsAssumption ==
    /\ Filters \subseteq SUBSET Cells
    /\ Limits \subseteq Nat \ {0}
    /\ Terms \subseteq Nat \ {0}
    /\ Outcomes \subseteq CompletionStates
    /\ Costs \subseteq Nat
    /\ Operators \subseteq Workers \cup {None}
ASSUME ClockAssumption == MaxWait \in Nat
ASSUME QuantumAssumption == Quantum \in Nat \ {0}
ASSUME NoneAssumption == None \notin Workers /\ None \notin Tokens

VARIABLES
    initialised,    \* the metadata rows are committed
    cell,           \* the cells table
    log             \* the events table, one sequence per cell

vars == <<initialised, cell, log>>

-----------------------------------------------------------------------------
(* Rows and events.                                                        *)

Row == [state    : CellStates,
        attempt  : Nat,
        owner    : Workers \cup {None},
        token    : Tokens \cup {None},
        ttl      : Int,
        actual   : Nat,
        artifact : BOOLEAN]

\* What led to an event: the reason column, up to its wording.
Reasons == {"worker-lease", "lease-heartbeat", "lease-expired", "completed", "requeued"}

Event == [prev    : CellStates,
          new     : CellStates,
          worker  : Workers \cup {None},
          token   : Tokens \cup {None},
          attempt : Nat,
          cost    : Nat,
          reason  : Reasons]

\* A row as initialise_campaign_store inserts it.
FreshRow(c) == [state |-> InitialState[c], attempt |-> 0, owner |-> None, token |-> None,
                ttl |-> 0, actual |-> 0, artifact |-> FALSE]

\* The row with its four lease columns set to NULL.
Unleased(row) == [row EXCEPT !.owner = None, !.token = None, !.ttl = 0]

\* _insert_event: worker w, presenting token t, moves row to state new.
EventOf(row, w, t, new, cost, reason) ==
    [prev |-> row.state, new |-> new, worker |-> w, token |-> t,
     attempt |-> row.attempt, cost |-> cost, reason |-> reason]

\* round(actual_cost, 8), applied to events but not to the cells table.
Rounded(cost) == Quantum * ((cost + (Quantum \div 2)) \div Quantum)

Spent == SumFunction([c \in Cells |-> cell[c].actual])

EstimateOf(S) == SumFunctionOnSet(Estimate, S)

\* build_campaign_manifest: budget_gate is "pass" for a priced manifest.
GatePasses == EstimateOf(Cells) * (100 + ReservePercent) <= 100 * HardBudget

Init ==
    /\ initialised = FALSE
    /\ cell = [c \in Cells |-> FreshRow(c)]
    /\ log = [c \in Cells |-> <<>>]

(* initialise_campaign_store.  The tables are created first; the store     *)
(* exists once the metadata and the rows are committed.  On an existing    *)
(* store the call changes nothing, unless overwrite removes the database:  *)
(* then there is no store until a call, this one or after a crash another, *)
(* commits the rows, and every other transaction fails meanwhile.          *)
Initialise ==
    /\ ~initialised
    /\ initialised' = TRUE
    /\ UNCHANGED <<cell, log>>

Overwrite ==
    /\ initialised
    /\ cell' = [c \in Cells |-> FreshRow(c)]
    /\ log' = [c \in Cells |-> <<>>]
    /\ initialised' = FALSE

-----------------------------------------------------------------------------
(* Expired leases.  The transaction's time is d seconds old.               *)

Leased == {c \in Cells : cell[c].state = "leased"}

\* Fault: the query asks for leases without an owner.
ExpiredOwnerless(c, d) ==
    cell[c].state = "leased" /\ cell[c].owner = None /\ cell[c].ttl <= -d

\* Fault: the last second of a lease counts as expired.
ExpiredEarly(c, d) == cell[c].state = "leased" /\ cell[c].ttl <= 1 - d

Expired(c, d) == cell[c].state = "leased" /\ cell[c].ttl <= -d

Live(d) == {c \in Leased : ~Expired(c, d)}

\* _reclaim_expired_in_transaction, for one cell.
ReclaimedRow(c, d) ==
    IF Expired(c, d) THEN [Unleased(cell[c]) EXCEPT !.state = "ready"] ELSE cell[c]

ReclaimedLog(c, d) ==
    IF Expired(c, d)
    THEN Append(log[c], EventOf(cell[c], cell[c].owner, cell[c].token,
                                "ready", 0, "lease-expired"))
    ELSE log[c]

Reclaim(d) ==
    /\ initialised
    /\ cell' = [c \in Cells |-> ReclaimedRow(c, d)]
    /\ log' = [c \in Cells |-> ReclaimedLog(c, d)]
    /\ UNCHANGED initialised

-----------------------------------------------------------------------------
(* lease_campaign_cells: reclaim, then walk the ready cells in order and   *)
(* take each one that still fits.  Chosen(S) says that S is what the walk  *)
(* takes: the test of a cell counts the live leases and the cells taken    *)
(* before it.                                                              *)

Ready(filter, d) == {c \in filter : ReclaimedRow(c, d).state = "ready"}

\* Fault: the active counter is not advanced while the walk takes cells.
FitsIgnoringBatch(c, taken, limit, d) ==
    /\ Cardinality(taken) < limit
    /\ Cardinality({x \in Live(d) : ModelOf[x] = ModelOf[c]}) < MaxParallel
    /\ Spent + EstimateOf(Live(d) \cup taken) + Estimate[c] <= HardBudget

\* Fault: only the money already spent is compared with the budget.
FitsIgnoringReserve(c, taken, limit, d) ==
    /\ Cardinality(taken) < limit
    /\ Cardinality({x \in Live(d) \cup taken : ModelOf[x] = ModelOf[c]}) < MaxParallel
    /\ Spent + Estimate[c] <= HardBudget

Fits(c, taken, limit, d) ==
    LET held == Live(d) \cup taken IN
    /\ Cardinality(taken) < limit
    /\ Cardinality({x \in held : ModelOf[x] = ModelOf[c]}) < MaxParallel
    /\ Spent + EstimateOf(held) + Estimate[c] <= HardBudget

Chosen(S, filter, limit, d) ==
    S = {c \in Ready(filter, d) : Fits(c, {x \in S : x < c}, limit, d)}

\* Fault: only active leases are searched for the new token.
TokenActive(t) == \E c \in Cells : cell[c].token = t

\* _new_lease_token: neither on a row nor in an event.  An old token stays
\* on a row only until it is reclaimed in the same transaction, and its
\* events keep it taken.
TokenUsed(t) ==
    \E c \in Cells : cell[c].token = t \/ \E i \in DOMAIN log[c] : log[c][i].token = t

FreshTokens(S) ==
    {f \in [S -> {t \in Tokens : ~TokenUsed(t)}] : \A x, y \in S : f[x] = f[y] => x = y}

\* Fault: attempt_count is left as it was.
LeasedRowSameAttempt(row, w, t, ttl) ==
    [row EXCEPT !.state = "leased", !.owner = w, !.token = t, !.ttl = ttl]

LeasedRow(row, w, t, ttl) ==
    [row EXCEPT !.state = "leased", !.attempt = @ + 1, !.owner = w, !.token = t, !.ttl = ttl]

LeaseEvent(row, w, t) ==
    [prev |-> "ready", new |-> "leased", worker |-> w, token |-> t,
     attempt |-> row.attempt + 1, cost |-> 0, reason |-> "worker-lease"]

LeaseCells(S, tok, w, term, d) ==
    /\ cell' = [c \in Cells |->
                  IF c \in S THEN LeasedRow(ReclaimedRow(c, d), w, tok[c], term - d)
                             ELSE ReclaimedRow(c, d)]
    /\ log' = [c \in Cells |->
                  IF c \in S
                  THEN Append(ReclaimedLog(c, d), LeaseEvent(ReclaimedRow(c, d), w, tok[c]))
                  ELSE ReclaimedLog(c, d)]

Lease(w, filter, limit, term, d) ==
    /\ initialised
    /\ GatePasses
    /\ \E S \in SUBSET Ready(filter, d) :
          /\ Chosen(S, filter, limit, d)
          /\ \E tok \in FreshTokens(S) : LeaseCells(S, tok, w, term, d)
    /\ UNCHANGED initialised

-----------------------------------------------------------------------------
(* The operations of a lease holder, and the operator's retry.             *)

\* The checks shared by heartbeat_campaign_lease and complete_campaign_lease.
Owns(c, w, t, d) ==
    /\ cell[c].state = "leased"
    /\ cell[c].owner = w
    /\ cell[c].token = t
    /\ ~Expired(c, d)

\* One cell's row and log change; the rest of the store does not.
Update(c, row, event) ==
    /\ cell' = [cell EXCEPT ![c] = row]
    /\ log' = [log EXCEPT ![c] = Append(@, event)]
    /\ UNCHANGED initialised

Heartbeat(c, w, t, term, d) ==
    /\ initialised
    /\ Owns(c, w, t, d)
    /\ Len(log[c]) < MaxLog
    /\ Update(c,
              [cell[c] EXCEPT !.ttl = IF term - d > @ THEN term - d ELSE @],
              EventOf(cell[c], w, t, "leased", 0, "lease-heartbeat"))

Complete(c, w, t, new, cost, artifact, d) ==
    /\ initialised
    /\ Owns(c, w, t, d)
    /\ new \in {"succeeded", "quarantined"} => artifact
    /\ Update(c,
              [Unleased(cell[c]) EXCEPT !.state = new, !.actual = @ + cost,
                                        !.artifact = artifact],
              EventOf(cell[c], w, t, new, Rounded(cost), "completed"))

\* Fault: the event says failed whatever the cell's state was.
RequeueSayingFailed(c, w) ==
    /\ initialised
    /\ <<cell[c].state, "ready">> \in AllowedTransitions
    /\ Update(c,
              [cell[c] EXCEPT !.state = "ready", !.artifact = FALSE],
              [EventOf(cell[c], w, None, "ready", 0, "requeued") EXCEPT !.prev = "failed"])

(* requeue_failed_cell accepts every state with a transition to ready, and *)
(* leaves the lease columns as they are.                                   *)
Requeue(c, w) ==
    /\ initialised
    /\ <<cell[c].state, "ready">> \in AllowedTransitions
    /\ Update(c,
              [cell[c] EXCEPT !.state = "ready", !.artifact = FALSE],
              EventOf(cell[c], w, None, "ready", 0, "requeued"))

-----------------------------------------------------------------------------
(* A second passes.                                                        *)

Older(row) ==
    IF row.token # None /\ row.ttl > -MaxWait THEN [row EXCEPT !.ttl = @ - 1] ELSE row

Tick ==
    /\ cell' = [c \in Cells |-> Older(cell[c])]
    /\ UNCHANGED <<initialised, log>>

LeaseAny ==
    \E w \in Workers, filter \in Filters, limit \in Limits, term \in Terms, d \in 0..MaxWait :
        Lease(w, filter, limit, term, d)

HeartbeatAny ==
    \E c \in Cells, w \in Workers, t \in Tokens, term \in Terms, d \in 0..MaxWait :
        Heartbeat(c, w, t, term, d)

CompleteAny ==
    \E c \in Cells, w \in Workers, t \in Tokens, d \in 0..MaxWait :
        \E new \in Outcomes, cost \in Costs, artifact \in BOOLEAN :
            Complete(c, w, t, new, cost, artifact, d)

RequeueAny == \E c \in Cells, w \in Operators : Requeue(c, w)

ReclaimAny == \E d \in 0..MaxWait : Reclaim(d)

Next ==
    \/ Initialise
    \/ Overwrite
    \/ LeaseAny
    \/ HeartbeatAny
    \/ CompleteAny
    \/ RequeueAny
    \/ ReclaimAny
    \/ Tick

Spec == Init /\ [][Next]_vars

-----------------------------------------------------------------------------
(* Properties.                                                             *)

TypeOK ==
    /\ initialised \in BOOLEAN
    /\ cell \in [Cells -> Row]
    /\ log \in [Cells -> Seq(Event)]

Holder(r) == <<r.token, r.attempt>>

Grant(e) == e.reason = "worker-lease"

Held(e) == e.reason \in {"worker-lease", "lease-heartbeat"}

Granted(c) == {i \in DOMAIN log[c] : Grant(log[c][i])}

\* The parts of the ledger's correctness that concern one row and its events.

Replays(c, row, l) ==
    /\ \A i \in DOMAIN l :
          /\ l[i].prev = IF i = 1 THEN InitialState[c] ELSE l[i-1].new
          /\ <<l[i].prev, l[i].new>> \in AllowedTransitions
    /\ row.state = IF l = <<>> THEN InitialState[c] ELSE l[Len(l)].new

Backed(row, l) ==
    row.state = "leased" =>
        /\ l # <<>>
        /\ Held(l[Len(l)])
        /\ Holder(l[Len(l)]) = Holder(row)
        /\ l[Len(l)].worker = row.owner
        /\ row.owner # None
        /\ row.token # None

FencedLog(l) ==
    \A i \in DOMAIN l :
        l[i].reason \in {"lease-heartbeat", "lease-expired", "completed"} =>
            /\ i > 1
            /\ Held(l[i-1])
            /\ Holder(l[i]) = Holder(l[i-1])
            /\ l[i].worker = l[i-1].worker

Numbered(row, l) ==
    /\ \A i \in DOMAIN l :
          l[i].attempt = (IF i = 1 THEN 0 ELSE l[i-1].attempt) + (IF Grant(l[i]) THEN 1 ELSE 0)
    /\ row.attempt = IF l = <<>> THEN 0 ELSE l[Len(l)].attempt

(* reconcile_campaign_store's replay: the events of a cell start in its    *)
(* manifest state, every event continues from the state the one before it  *)
(* left by a legal transition, and the last one leads to the stored state. *)
LedgerReplays == \A c \in Cells : Replays(c, cell[c], log[c])

(* A leased row belongs to exactly the lease its cell's last event granted *)
(* or renewed: owner, token and attempt agree (lease_campaign_cells,       *)
(* heartbeat_campaign_lease).                                              *)
LeaseBacked == \A c \in Cells : Backed(cell[c], log[c])

(* Fencing: whoever renews, completes or loses a lease is the holder of    *)
(* the latest grant of that cell.  A worker whose lease was reclaimed and  *)
(* granted again can change nothing with its old token.                    *)
Fenced == \A c \in Cells : FencedLog(log[c])

(* Attempts are counted by grants: every grant of a cell takes the next    *)
(* attempt number, every other event keeps it, and the row agrees with the *)
(* last event.                                                             *)
AttemptsNumbered == \A c \in Cells : Numbered(cell[c], log[c])

(* No two grants of the campaign, of one cell or of two, carry the same    *)
(* token (_new_lease_token).                                               *)
TokensNeverReused ==
    \A c, x \in Cells : \A i \in Granted(c), j \in Granted(x) :
        log[c][i].token = log[x][j].token => c = x /\ i = j

(* At most max_parallel_per_model cells of a model are leased at once.     *)
ParallelCap ==
    \A m \in Models : Cardinality({c \in Leased : ModelOf[c] = m}) <= MaxParallel

\* What a completed attempt has cost beyond the cell's estimate.
Extra(c, e) ==
    IF e.reason = "completed" /\ e.cost > Estimate[c] THEN e.cost - Estimate[c] ELSE 0

Overrun(c, l) == SumFunction([i \in DOMAIN l |-> Extra(c, l[i])])

(* What is spent and reserved exceeds the hard budget by no more than the  *)
(* completed attempts cost beyond their estimates.  (Stated for costs that *)
(* round(actual_cost, 8) keeps: where it does not, events are inexact.)    *)
OverspendOnlyByOverrun ==
    Spent + EstimateOf(Leased)
        <= HardBudget + SumFunction([c \in Cells |-> Overrun(c, log[c])])

LoggedCost(l) == SumFunction([i \in DOMAIN l |-> l[i].cost])

(* reconcile_campaign_store's cost check: the stored cost of a cell is the *)
(* sum of its recorded costs, within one unit of the recorded precision.   *)
CostsReconcile ==
    \A c \in Cells :
        /\ cell[c].actual - LoggedCost(log[c]) <= Quantum
        /\ LoggedCost(log[c]) - cell[c].actual <= Quantum

(* The money is accounted for: what a row adds up is what its events say,  *)
(* and the budget is exceeded by overruns only.                            *)
SpendingExplained == OverspendOnlyByOverrun /\ CostsReconcile

(* reconcile_campaign_store's lease check: a cell that is not leased holds *)
(* no lease metadata.                                                      *)
LeaseMetadataOnlyWhenLeased ==
    \A c \in Cells : cell[c].state # "leased" => cell[c].token = None /\ cell[c].owner = None

Erased == \A c \in Cells : log'[c] = <<>>

(* A succeeded, quarantined or cancelled cell keeps its state, its cost    *)
(* and its artifact for as long as the database exists.                    *)
FinalStatesStay ==
    [][\A c \in Cells :
          cell[c].state \in FinalStates => cell'[c] = cell[c] \/ Erased]_vars

(* A lease that has not expired ends by its holder's completion or by an   *)
(* operator's retry; no other worker's call takes it away, however old the *)
(* time it works with.                                                     *)
LiveLeaseNotTaken ==
    [][\A c \in Leased :
          cell[c].ttl > 0 /\ Holder(cell'[c]) # Holder(cell[c]) =>
              \/ Erased
              \/ log'[c][Len(log[c]) + 1].reason \in {"completed", "requeued"}]_vars

-----------------------------------------------------------------------------
(* What the store is for: it implements the lease service.                 *)

Holders == [c \in Cells |-> IF cell[c].state = "leased" THEN cell[c].token ELSE None]

UsedTokens == UNION {{log[c][i].token : i \in Granted(c)} : c \in Cells}

Finished == {c \in Cells : cell[c].state \in FinalStates}

Service == INSTANCE LeaseService WITH holder <- Holders, used <- UsedTokens, done <- Finished

(* Every behaviour of the store is one of the lease service: a cell has    *)
(* one holder, a token holds one cell once, only a holder finishes a cell, *)
(* and a finished cell is never held again.                                *)
ImplementsLeaseService == Service!Spec

=============================================================================
