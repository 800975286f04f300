----------------------------- MODULE StoreAudit -----------------------------
(***************************************************************************)
(* campaign_store_status and reconcile_campaign_store, next to the store   *)
(* they look at.                                                           *)
(*                                                                         *)
(* Both open one connection and run several SELECTs on it without a        *)
(* transaction around them, so every SELECT sees the database as it is     *)
(* then, and the transactions of workers and operators commit in between.  *)
(* A database that is overwritten meanwhile is unlinked, not changed: the  *)
(* connection goes on reading the old one.                                 *)
(***************************************************************************)
EXTENDS CampaignStore

VARIABLES
    kind,       \* the call under way: "none", "status" or "reconcile"
    got,        \* what its SELECTs have returned so far
    marks,      \* history: the length of each cell's log at each SELECT
    orphan      \* the unlinked database that the connection still reads, if any: << >> or <<it>>

auditVars == <<kind, got, marks, orphan>>

watchedVars == <<vars, auditVars>>

-----------------------------------------------------------------------------
(* The reads.                                                              *)

Database == IF orphan = <<>> THEN [cell |-> cell, log |-> log] ELSE orphan[1]

\* Fault: the open reservations are summed before the money spent.
StatusReadsReservedFirst == <<"states", "reserved", "event_count", "spent", "expired">>

StatusReads == <<"states", "spent", "event_count", "reserved", "expired">>

ReconcileReads == <<"events", "cells">>

Reads == IF kind = "status" THEN StatusReads ELSE ReconcileReads

LeasedRows(rows) == {c \in Cells : rows[c].state = "leased"}

\* What a SELECT returns; now is d seconds old when the last one runs.
Selected(read, db, d) ==
    CASE read = "states" ->
            [s \in CellStates |-> Cardinality({c \in Cells : db.cell[c].state = s})]
      [] read = "spent" -> SumFunction([c \in Cells |-> db.cell[c].actual])
      [] read = "event_count" -> SumFunction([c \in Cells |-> Len(db.log[c])])
      [] read = "reserved" -> EstimateOf(LeasedRows(db.cell))
      [] read = "expired" ->
            Cardinality({c \in LeasedRows(db.cell) : db.cell[c].ttl <= -d})
      [] read = "events" -> db.log
      [] read = "cells" -> db.cell

Place(read) == CHOOSE i \in DOMAIN Reads : Reads[i] = read

Answer(read) == got[Place(read)]

Asked == kind # "none" /\ Len(got) < Len(Reads)

Answered(call) == kind = call /\ Len(got) = Len(Reads)

\* _connect and _verify_manifest: the manifest is the one of the store.
Open(call) ==
    /\ initialised
    /\ kind = "none"
    /\ kind' = call
    /\ UNCHANGED <<vars, got, marks, orphan>>

Select ==
    /\ Asked
    /\ \E d \in 0..MaxWait :
          got' = Append(got, Selected(Reads[Len(got) + 1], Database, d))
    /\ marks' = Append(marks, [c \in Cells |-> Len(Database.log[c])])
    /\ UNCHANGED <<vars, kind, orphan>>

\* The report is handed to the caller and the connection closed.
Close ==
    /\ kind # "none"
    /\ ~Asked
    /\ kind' = "none"
    /\ got' = <<>>
    /\ marks' = <<>>
    /\ orphan' = <<>>
    /\ UNCHANGED vars

-----------------------------------------------------------------------------
(* StoreStatus, from the answers of the five reads.                        *)

InStates(S) == SumFunctionOnSet(Answer("states"), S)

ReportedComplete ==
    /\ InStates(TerminalStates) = NumCells
    /\ InStates(CellStates \ TerminalStates) = 0
    /\ Answer("spent") <= HardBudget

ReportedRemaining == HardBudget - Answer("spent") - Answer("reserved")

(* StoreReconciliation, from the events and the cells: the cells that its  *)
(* errors name, by the kind of error.                                      *)

\* Fault: the cost of an event replaces the cost summed so far.
ReplayedCostLast(l) == IF l = <<>> THEN 0 ELSE l[Len(l)].cost

ReplayedCost(l) == SumFunction([i \in DOMAIN l |-> l[i].cost])

ReplayedState(c, l) == IF l = <<>> THEN InitialState[c] ELSE l[Len(l)].new

StateDrift == {c \in Cells : Answer("cells")[c].state # ReplayedState(c, Answer("events")[c])}

CostDrift ==
    {c \in Cells : LET off == Answer("cells")[c].actual - ReplayedCost(Answer("events")[c])
                   IN  off > Quantum \/ -off > Quantum}

IncompleteLeases ==
    {c \in LeasedRows(Answer("cells")) : Answer("cells")[c].owner = None \/ Answer("cells")[c].token = None}

StaleLeases ==
    {c \in Cells \ LeasedRows(Answer("cells")) : Answer("cells")[c].owner # None \/ Answer("cells")[c].token # None}

-----------------------------------------------------------------------------
(* The store goes on while it is looked at.                                *)

AuditInit ==
    /\ Init
    /\ kind = "none"
    /\ got = <<>>
    /\ marks = <<>>
    /\ orphan = <<>>

StoreStep ==
    /\ Initialise \/ LeaseAny \/ HeartbeatAny \/ CompleteAny \/ RequeueAny \/ ReclaimAny \/ Tick
    /\ UNCHANGED auditVars

Replaced ==
    /\ Overwrite
    /\ orphan' = IF kind = "none" THEN <<>> ELSE <<Database>>
    /\ UNCHANGED <<kind, got, marks>>

AuditNext == StoreStep \/ Replaced \/ Open("status") \/ Open("reconcile") \/ Select \/ Close

AuditSpec == AuditInit /\ [][AuditNext]_watchedVars

-----------------------------------------------------------------------------
(* Properties.  The log of the database that was read tells what was true  *)
(* of it at each read.                                                     *)

Mark(c, read) == marks[Place(read)][c]

Upto(c, read) == SubSeq(Database.log[c], 1, Mark(c, read))

Between(c, first, last) == SubSeq(Database.log[c], Mark(c, first) + 1, Mark(c, last))

After(c, read) == SubSeq(Database.log[c], Mark(c, read) + 1, Len(Database.log[c]))

CostUpto(read) == SumFunction([c \in Cells |-> LoggedCost(Upto(c, read))])

LeftAt(read) ==
    HardBudget - CostUpto(read)
        - EstimateOf({c \in Cells : ReplayedState(c, Upto(c, read)) = "leased"})

(* campaign_store_status, whatever committed between its reads: a campaign *)
(* reported complete was complete and within its budget at the first read, *)
(* and nothing has happened to a cell since then but by a retry.  The      *)
(* remaining budget is never reported too small for the moment the         *)
(* reservations were read, and too large by no more than what leases       *)
(* completed between the two sums have cost.                               *)
StatusWasTrue ==
    Answered("status") =>
        /\ ReportedComplete =>
              /\ \A c \in Cells : ReplayedState(c, Upto(c, "states")) \in TerminalStates
              /\ CostUpto("states") <= HardBudget
              /\ \A c \in Cells :
                    After(c, "states") # <<>> => After(c, "states")[1].reason = "requeued"
        /\ ReportedRemaining >= LeftAt("reserved")
        /\ ReportedRemaining - LeftAt("reserved") <=
              SumFunction([c \in Cells |-> LoggedCost(Between(c, "spent", "reserved"))])

(* reconcile_campaign_store raises no alarm about a store that is sound:   *)
(* a cell it reports for its state or its cost was changed between the two *)
(* reads, and one it reports for its lease columns was retried while it    *)
(* was leased, and nothing else has happened to it since.                  *)
AlarmsExplained ==
    Answered("reconcile") =>
        /\ \A c \in StateDrift : Between(c, "events", "cells") # <<>>
        /\ \A c \in CostDrift : \E i \in DOMAIN Between(c, "events", "cells") :
              Between(c, "events", "cells")[i].reason = "completed"
        /\ IncompleteLeases = {}
        /\ \A c \in StaleLeases :
              LET l == Upto(c, "cells") IN
              l # <<>> /\ l[Len(l)].reason = "requeued" /\ l[Len(l)].prev = "leased"

=============================================================================
