--------------------------- MODULE CampaignLedger ---------------------------
(***************************************************************************)
(* From the prospective plan to the end of a campaign that is kept in an   *)
(* event file (prospective.py, campaign.py): the models that qualified,    *)
(* the priced and budgeted manifest, and the append-only ledger whose      *)
(* replay is the only state.  The file has one writer at a time, as the    *)
(* code's contract says; the hash chain that shows tampering is the order  *)
(* of the events here.                                                     *)
(*                                                                         *)
(* A cell's identity, a hash of stage, model, task and replicate, is that  *)
(* tuple.                                                                  *)
(***************************************************************************)
EXTENDS Qualification, SequencesExt, FiniteSetsExt, Functions

CONSTANTS
    Stages,       \* execution_stages: a sequence of [models, tasks], as sets
    Replicates,
    Policies,     \* the policies a campaign may have
    PriceLists,   \* the run-date prices: the estimate of a cell of each model
    Limits,       \* the limits of lease requests
    Results,      \* the states that callers append, next to the leases they request
    Costs,        \* the costs they report
    MaxReturns    \* bound: events that return a cell to ready

ASSUME LedgerAssumption ==
    /\ Replicates \in Nat \ {0}
    /\ Limits \subseteq Nat \ {0}
    /\ Costs \subseteq Nat
    /\ \A p \in Policies :
          /\ p.cap \in Nat \ {0} /\ p.shard \in Nat \ {0}
          /\ p.reserve \in 0 .. 100
          /\ p.budget = Absent \/ p.budget \in Nat \ {0}
    /\ \A list \in PriceLists : \A m \in Models : list[m] = Absent \/ list[m] \in Nat

VARIABLES
    campaign,     \* the campaign manifest
    ledger        \* the event file

ledgerVars == <<campaign, ledger>>
campaignVars == <<qualificationVars, ledgerVars>>

----------------------------------------------------------------------------
(* build_prospective_pilot_plan                                            *)

Planned ==
    UNION {{s} \X Stages[s].models \X Stages[s].tasks \X (1 .. Replicates) :
              s \in DOMAIN Stages}

ASSUME PlanAssumption ==
    IsFiniteSet(Planned) /\ Planned \subseteq Nat \X Models \X Nat \X Nat

ModelOf(c) == c[2]

\* By stage, model, task and replicate.
Before(c, d) ==
    \E k \in 1 .. 4 : c[k] < d[k] /\ \A j \in 1 .. (k - 1) : c[j] = d[j]

InOrder(cells) == SetToSortSeq(cells, Before)

----------------------------------------------------------------------------
(* build_campaign_manifest                                                 *)

Terminal == {"succeeded", "failed", "quarantined", "cancelled"}

AllowedTransitions(from) ==
    CASE from = "ready"  -> {"leased", "cancelled"}
      [] from = "leased" -> {"ready"} \cup Terminal
      [] from = "failed" -> {"ready"}
      [] OTHER           -> {}

InitialState(model, qualified, prices, policy) ==
    IF ~qualified[model] THEN "blocked-qualification"
    ELSE IF policy.requirePrice /\ prices[model] = Absent THEN "blocked-price"
    ELSE "ready"

OrZero(estimate) == IF estimate = Absent THEN 0 ELSE estimate

\* Fault: the reserve is left out.
GateWithoutReserve(known, unknown, policy) ==
    IF unknown > 0 THEN "blocked-unknown-prices"
    ELSE IF policy.budget # Absent /\ known > policy.budget THEN "blocked-budget-exceeded"
    ELSE IF policy.budget = Absent /\ policy.requireBudget THEN "blocked-no-hard-budget"
    ELSE IF policy.budget = Absent THEN "advisory-no-hard-budget"
    ELSE "pass"

BudgetGate(known, unknown, policy) ==
    IF unknown > 0 THEN "blocked-unknown-prices"
    ELSE IF policy.budget # Absent /\ known * (100 + policy.reserve) > 100 * policy.budget
    THEN "blocked-budget-exceeded"
    ELSE IF policy.budget = Absent /\ policy.requireBudget THEN "blocked-no-hard-budget"
    ELSE IF policy.budget = Absent THEN "advisory-no-hard-budget"
    ELSE "pass"

\* The ready cells of one stage and model in pieces of the shard's size.
Shards(states, size) ==
    UNION {LET cells == InOrder({c \in Planned : states[c] = "ready"
                                               /\ c[1] = s /\ ModelOf(c) = m})
               End(k) == IF k * size < Len(cells) THEN k * size ELSE Len(cells)
           IN  {SubSeq(cells, (k - 1) * size + 1, End(k)) :
                   k \in {i \in 1 .. Len(cells) : (i - 1) * size < Len(cells)}} :
              s \in DOMAIN Stages, m \in Models}

\* What the reports say of the models, which the caller passes on.
Qualified == [m \in Models |-> report[m] # Absent /\ report[m].qualified]

\* The manifest is built when no qualification is under way.
Build(policy, prices) ==
    /\ campaign = Absent /\ qrun = NoQualification
    /\ LET states == [c \in Planned |->
                        InitialState(ModelOf(c), Qualified, prices, policy)]
           estimate == [c \in Planned |-> prices[ModelOf(c)]]
           known == SumFunction([c \in Planned |-> OrZero(estimate[c])])
           unknown == Cardinality({c \in Planned : states[c] = "ready" /\ estimate[c] = Absent})
       IN  campaign' = [states |-> states, estimate |-> estimate, known |-> known,
                        gate |-> BudgetGate(known, unknown, policy),
                        budget |-> policy.budget, reserve |-> policy.reserve,
                        cap |-> policy.cap, shards |-> Shards(states, policy.shard)]
    /\ UNCHANGED <<qualificationVars, ledger>>

----------------------------------------------------------------------------
(* replay_campaign_events and campaign_status                              *)

EventsOf(events, c) == {i \in DOMAIN events : events[i].cell = c}

StateIn(events, c) ==
    IF EventsOf(events, c) = {} THEN campaign.states[c]
    ELSE events[Max(EventsOf(events, c))].to

\* Every event continues the state of its cell by a transition; the replay refuses
\* other files.
Legal(events) ==
    \A i \in DOMAIN events :
        LET from == StateIn(SubSeq(events, 1, i - 1), events[i].cell)
        IN  events[i].from = from /\ events[i].to \in AllowedTransitions(from)

Replay(events) ==
    [states |-> [c \in Planned |-> StateIn(events, c)],
     charged |-> [c \in Planned |->
                    SumFunction([i \in EventsOf(events, c) |-> events[i].cost])]]

Now == Replay(ledger)

In(replay, state) == {c \in Planned : replay.states[c] = state}

Unfinished(replay) == {c \in Planned : replay.states[c] \notin Terminal}

Spent(replay) == SumFunction([c \in Planned |-> replay.charged[c]])

Estimated(cells) == SumFunction([c \in cells |-> OrZero(campaign.estimate[c])])

\* What campaign_status calls complete.
Complete ==
    /\ Unfinished(Now) = {}
    /\ campaign.budget = Absent \/ Spent(Now) <= campaign.budget

----------------------------------------------------------------------------
(* append_campaign_event and lease_ready_cells                             *)

Returns == Cardinality({i \in DOMAIN ledger : ledger[i].to = "ready"})

EventFor(replay, cell, new, cost) ==
    [cell |-> cell, from |-> replay.states[cell], to |-> new, cost |-> cost]

\* A success needs an artifact, which a caller that has one names.
AppendEvent(cell, new, cost) ==
    /\ campaign # Absent /\ Legal(ledger)
    /\ new \in AllowedTransitions(Now.states[cell])
    /\ new = "ready" => Returns < MaxReturns
    /\ ledger' = Append(ledger, EventFor(Now, cell, new, cost))
    /\ UNCHANGED <<qualificationVars, campaign>>

\* Fault: open leases are not counted against the budget.
FitsUnreserved(replay, limit, taken, c) ==
    LET leased == In(replay, "leased") \cup taken IN
    /\ Cardinality(taken) < limit
    /\ Cardinality({d \in leased : ModelOf(d) = ModelOf(c)}) < campaign.cap
    /\ campaign.estimate[c] # Absent
    /\ Spent(replay) + campaign.estimate[c] <= campaign.budget

\* Fault: what a cell's earlier attempts reserved is counted once more.
FitsReservedTwice(replay, limit, taken, c) ==
    LET leased == In(replay, "leased") \cup taken IN
    /\ Cardinality(taken) < limit
    /\ Cardinality({d \in leased : ModelOf(d) = ModelOf(c)}) < campaign.cap
    /\ campaign.estimate[c] # Absent
    /\ Spent(replay) + Estimated(Planned \ In(replay, "ready"))
         + Estimated(leased) + campaign.estimate[c] <= campaign.budget

\* What a round of the loop asks of a cell when others have been taken before it.
Fits(replay, limit, taken, c) ==
    LET leased == In(replay, "leased") \cup taken IN
    /\ Cardinality(taken) < limit
    /\ Cardinality({d \in leased : ModelOf(d) = ModelOf(c)}) < campaign.cap
    /\ campaign.estimate[c] # Absent
    /\ Spent(replay) + Estimated(leased) + campaign.estimate[c] <= campaign.budget

\* The loop goes through the cells in their order and takes each one that fits.
IsChosen(chosen, replay, limit, cells) ==
    /\ \A i, j \in DOMAIN chosen : i < j => Before(chosen[i], chosen[j])
    /\ \A c \in cells :
          c \in Range(chosen)
              <=> Fits(replay, limit, {d \in Range(chosen) : Before(d, c)}, c)

Blocked == {"blocked-unknown-prices", "blocked-budget-exceeded", "blocked-no-hard-budget"}

\* filter: the stages and models that are asked for.
LeaseReady(limit, filter) ==
    /\ campaign # Absent /\ campaign.budget # Absent /\ Legal(ledger)
    /\ campaign.gate \notin Blocked
    /\ LET cells == In(Now, "ready") \cap filter
       IN  \E n \in 1 .. limit : \E chosen \in [1 .. n -> cells] :
              /\ IsChosen(chosen, Now, limit, cells)
              /\ ledger' = ledger \o [i \in 1 .. n |-> EventFor(Now, chosen[i], "leased", 0)]
    /\ UNCHANGED <<qualificationVars, campaign>>

----------------------------------------------------------------------------
CampaignInit == QualificationInit /\ campaign = Absent /\ ledger = <<>>

Filters == {Planned} \cup {{c \in Planned : ModelOf(c) = m} : m \in Models}

Finish == \E c \in Planned, new \in Terminal \cap Results, cost \in Costs :
              AppendEvent(c, new, cost)

CampaignNext ==
    \/ campaign = Absent /\ QualificationNext /\ UNCHANGED ledgerVars
    \/ \E policy \in Policies, prices \in PriceLists : Build(policy, prices)
    \/ \E c \in Planned, new \in Results, cost \in Costs : AppendEvent(c, new, cost)
    \/ \E limit \in Limits, filter \in Filters : LeaseReady(limit, filter)

CampaignSpec == CampaignInit /\ [][CampaignNext]_campaignVars

\* Callers go on leasing what they may and finishing what they leased.
CampaignFairness ==
    /\ WF_campaignVars(\E limit \in Limits : LeaseReady(limit, Planned))
    /\ WF_campaignVars(Finish)

----------------------------------------------------------------------------
(* Properties                                                              *)

\* Only cells are leased whose model has, on disk, the evidence that the gates
\* ask for, whatever runs were resumed or interrupted on the way to the report,
\* and for which a price was recorded.
OnlyQualifiedLeased ==
    \A i \in DOMAIN ledger :
        ledger[i].to = "leased" =>
            /\ Evidence(ModelOf(ledger[i].cell))
            /\ campaign.estimate[ledger[i].cell] # Absent

Positive(n, m) == IF n > m THEN n - m ELSE 0

\* What an event charges beyond the reservation that the charge replaces.
Excess(event) ==
    Positive(event.cost,
             IF event.from = "leased" THEN OrZero(campaign.estimate[event.cell]) ELSE 0)

Overrun == SumFunction([i \in DOMAIN ledger |-> Excess(ledger[i])])

\* Leases stay within the cap of their model, and what was spent or is reserved
\* exceeds the budget at most by what callers charged beyond reservations.
ReservationsHold ==
    campaign # Absent /\ campaign.budget # Absent /\ In(Now, "leased") # {} =>
        /\ \A m \in Models :
              Cardinality({c \in In(Now, "leased") : ModelOf(c) = m}) <= campaign.cap
        /\ Spent(Now) + Estimated(In(Now, "leased")) <= campaign.budget + Overrun

\* The reserve that retries and overruns have used up.
ReserveUsed(replay) ==
    SumFunction([c \in Planned |->
                    IF c \in Unfinished(replay) THEN replay.charged[c]
                    ELSE Positive(replay.charged[c], OrZero(campaign.estimate[c]))])

WithinReserve == ReserveUsed(Now) <= (campaign.reserve * campaign.known) \div 100

\* The gate that passed when the manifest was built is enough for the end: as
\* long as retries and overruns stay within the reserve, the budget refuses no
\* cell.
ReserveCoversRetries ==
    campaign # Absent /\ campaign.gate = "pass" /\ WithinReserve =>
        \A c \in In(Now, "ready") :
            campaign.estimate[c] # Absent =>
                Spent(Now) + Estimated(In(Now, "leased") \cup {c}) <= campaign.budget

\* A campaign that passed its gate with all models qualified and priced becomes
\* complete, unless retries and overruns use up more than the reserve.
CampaignCompletes ==
    campaign # Absent /\ campaign.gate = "pass" /\ campaign.states \in [Planned -> {"ready"}]
        ~> (campaign # Absent /\ (Complete \/ ~WithinReserve))

=============================================================================
