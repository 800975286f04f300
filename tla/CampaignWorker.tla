--------------------------- MODULE CampaignWorker ---------------------------
(***************************************************************************)
(* The resumable worker, src/pelicanbench/campaign_worker.py, on top of    *)
(* the transactional store.                                                *)
(*                                                                         *)
(* A worker process calls execute_campaign_batch: it leases a batch, and   *)
(* for one lease after the other it calls the provider while a daemon      *)
(* thread renews that lease, completes the lease in the store, and only    *)
(* then writes the attempt's execution record.  The other leases of the    *)
(* batch wait without renewal.  An exception of the completion leaves the  *)
(* function, and with it the rest of the batch.                            *)
(*                                                                         *)
(* A crash is the end of the process at any point: the store and the       *)
(* record files stay, the batch and the heartbeat thread are gone.  An     *)
(* error of SQLite or of the file system that leaves the function is the   *)
(* same step.                                                              *)
(***************************************************************************)
EXTENDS CampaignStore

CONSTANTS
    Missing,        \* cells whose task is not in the worker's corpus
    Flaky,          \* heartbeat threads may die of an error (a locked database)
    Punctual,       \* heartbeats and provider starts keep ahead of the clock
    MaxCrashes      \* bound on crashes

ASSUME WorkerAssumption ==
    /\ \A f \in Filters : \A c, d \in f : ModelOf[c] = ModelOf[d]
    /\ Missing \subseteq Cells
    /\ Flaky \in BOOLEAN
    /\ Punctual \in BOOLEAN
    /\ MaxCrashes \in Nat

VARIABLES
    pc,         \* where each worker is in execute_campaign_batch
    batch,      \* the leases it still has to work on
    beat,       \* the heartbeat thread of the current lease
    result,     \* what the provider's run came to, and the pending record
    records,    \* the immutable execution record files
    crashes

workerVars == <<pc, batch, beat, result, records, crashes>>

allVars == <<vars, workerVars>>

-----------------------------------------------------------------------------

NoResult == [state |-> "failed", cost |-> 0, artifact |-> FALSE]

\* The loop goes through the leases in the order of their cells.
Current(w) == CHOOSE l \in batch[w] : \A m \in batch[w] : l.cell <= m.cell

(* _terminal_outcome and _cost_for_result: a failed run retains no         *)
(* artifact, a retained one does; the cost is what the adapter reports or  *)
(* else the estimate.                                                      *)
ResultsOf(c) ==
    {r \in [state : Outcomes \cap {"succeeded", "failed", "quarantined"},
            cost : Costs \cup {Estimate[c]}, artifact : BOOLEAN] :
        r.artifact <=> r.state # "failed"}

RecordOf(w) ==
    [cell |-> Current(w).cell, token |-> Current(w).token, attempt |-> Current(w).attempt,
     worker |-> w, state |-> result[w].state, cost |-> Rounded(result[w].cost)]

WorkerInit ==
    /\ Init
    /\ pc = [w \in Workers |-> "idle"]
    /\ batch = [w \in Workers |-> {}]
    /\ beat = [w \in Workers |-> "off"]
    /\ result = [w \in Workers |-> NoResult]
    /\ records = {}
    /\ crashes = 0

\* The leases that the transaction granted; all but the first have to wait.
NewLeases ==
    LET got == {c \in Cells : cell'[c].state = "leased" /\ cell'[c].attempt # cell[c].attempt}
    IN  {[cell |-> c, token |-> cell'[c].token, attempt |-> cell'[c].attempt,
          waited |-> \E x \in got : x < c] : c \in got}

(* The call to lease_campaign_cells.  A batch without a lease ends at once *)
(* with an empty receipt.                                                  *)
StartBatch(w) ==
    /\ pc[w] = "idle"
    /\ \E filter \in Filters, limit \in Limits, term \in Terms, d \in 0..MaxWait :
          Lease(w, filter, limit, term, d)
    /\ NewLeases # {}
    /\ batch' = [batch EXCEPT ![w] = NewLeases]
    /\ pc' = [pc EXCEPT ![w] = "loop"]
    /\ UNCHANGED <<beat, result, records, crashes>>

\* A task that is not in the corpus is failed without a provider call.
SkipMissing(w) ==
    /\ pc[w] = "loop"
    /\ Current(w).cell \in Missing
    /\ pc' = [pc EXCEPT ![w] = "ended"]
    /\ result' = [result EXCEPT ![w] = NoResult]
    /\ UNCHANGED <<vars, batch, beat, records, crashes>>

\* heartbeat.start() and run_benchmark: nothing asks whether the lease is
\* still held.
StartRun(w) ==
    /\ pc[w] = "loop"
    /\ Current(w).cell \notin Missing
    /\ pc' = [pc EXCEPT ![w] = "running"]
    /\ beat' = [beat EXCEPT ![w] = "on"]
    /\ UNCHANGED <<vars, batch, result, records, crashes>>

(* The heartbeat thread.  It may still be in its last renewal when stop()  *)
(* gives up waiting for it.  Any error ends the thread, not the worker.    *)
Beat(w) ==
    /\ beat[w] = "on"
    /\ pc[w] \in {"running", "ended"}
    /\ \E term \in Terms, d \in 0..MaxWait :
          Heartbeat(Current(w).cell, w, Current(w).token, term, d)
    /\ UNCHANGED workerVars

BeatDies(w) ==
    /\ beat[w] = "on"
    /\ pc[w] \in {"running", "ended"}
    /\ \/ Flaky
       \/ \E d \in 0..MaxWait : ~Owns(Current(w).cell, w, Current(w).token, d)
    /\ beat' = [beat EXCEPT ![w] = "off"]
    /\ UNCHANGED <<vars, pc, batch, result, records, crashes>>

EndRun(w) ==
    /\ pc[w] = "running"
    /\ \E r \in ResultsOf(Current(w).cell) : result' = [result EXCEPT ![w] = r]
    /\ pc' = [pc EXCEPT ![w] = "ended"]
    /\ \E late \in {beat[w], "off"} : beat' = [beat EXCEPT ![w] = late]
    /\ UNCHANGED <<vars, batch, records, crashes>>

CompleteRun(w) ==
    /\ pc[w] = "ended"
    /\ \E d \in 0..MaxWait :
          Complete(Current(w).cell, w, Current(w).token, result[w].state,
                   Rounded(result[w].cost), result[w].artifact, d)
    /\ pc' = [pc EXCEPT ![w] = "writing"]
    /\ beat' = [beat EXCEPT ![w] = "off"]
    /\ UNCHANGED <<batch, result, records, crashes>>

\* Fault: the exception is swallowed and the record written all the same.
CompleteRaisesUnnoticed(w) ==
    /\ pc[w] = "ended"
    /\ \E d \in 0..MaxWait : ~Owns(Current(w).cell, w, Current(w).token, d)
    /\ pc' = [pc EXCEPT ![w] = "writing"]
    /\ UNCHANGED <<vars, batch, beat, result, records, crashes>>

\* TimeoutError, PermissionError or ValueError leaves the whole batch.
CompleteRaises(w) ==
    /\ pc[w] = "ended"
    /\ \E d \in 0..MaxWait : ~Owns(Current(w).cell, w, Current(w).token, d)
    /\ pc' = [pc EXCEPT ![w] = "idle"]
    /\ batch' = [batch EXCEPT ![w] = {}]
    /\ beat' = [beat EXCEPT ![w] = "off"]
    /\ UNCHANGED <<vars, result, records, crashes>>

\* Fault: records are named by cell, so an older attempt's file is kept.
WriteRecordPerCell(w) ==
    /\ pc[w] = "writing"
    /\ records' = IF \E r \in records : r.cell = Current(w).cell
                  THEN records ELSE records \cup {RecordOf(w)}
    /\ batch' = [batch EXCEPT ![w] = @ \ {Current(w)}]
    /\ pc' = [pc EXCEPT ![w] = IF batch'[w] = {} THEN "idle" ELSE "loop"]
    /\ UNCHANGED <<vars, beat, result, crashes>>

\* _write_immutable_json, then the next lease of the batch or its receipt.
WriteRecord(w) ==
    /\ pc[w] = "writing"
    /\ records' = records \cup {RecordOf(w)}
    /\ batch' = [batch EXCEPT ![w] = @ \ {Current(w)}]
    /\ pc' = [pc EXCEPT ![w] = IF batch'[w] = {} THEN "idle" ELSE "loop"]
    /\ UNCHANGED <<vars, beat, result, crashes>>

Crash(w) ==
    /\ crashes < MaxCrashes
    /\ pc[w] # "idle"
    /\ pc' = [pc EXCEPT ![w] = "idle"]
    /\ batch' = [batch EXCEPT ![w] = {}]
    /\ beat' = [beat EXCEPT ![w] = "off"]
    /\ crashes' = crashes + 1
    /\ UNCHANGED <<vars, result, records>>

-----------------------------------------------------------------------------
(* The operator, the clock and the next-state relation.                    *)

Operator == (Initialise \/ RequeueAny \/ ReclaimAny) /\ UNCHANGED workerVars

(* With Punctual, the last second of a lease does not pass while its own    *)
(* heartbeat thread would renew it (the interval is shorter than the lease) *)
(* or while its worker is between two calls of the loop.  A lease that      *)
(* waits behind the current one is not protected.                           *)
WouldRenew(w) ==
    /\ pc[w] \in {"loop", "ended"} \/ (pc[w] = "running" /\ beat[w] = "on")
    /\ Owns(Current(w).cell, w, Current(w).token, 0)

Clock ==
    /\ Punctual => \A w \in Workers : WouldRenew(w) => cell[Current(w).cell].ttl > 1
    /\ Tick
    /\ UNCHANGED workerVars

WorkerStep(w) ==
    SkipMissing(w) \/ StartRun(w) \/ EndRun(w) \/ CompleteRun(w) \/ CompleteRaises(w) \/ WriteRecord(w)

WorkerNext ==
    \/ \E w \in Workers :
          StartBatch(w) \/ WorkerStep(w) \/ Beat(w) \/ BeatDies(w) \/ Crash(w)
    \/ Operator
    \/ Clock

WorkerSpec == WorkerInit /\ [][WorkerNext]_allVars

(* A provider call returns and a running worker goes on; the clock runs;   *)
(* someone calls reclaim_expired_leases (or leases, which reclaims) again  *)
(* and again.  Nothing is assumed of heartbeats, retries or new batches.   *)
FairWorkerSpec ==
    /\ WorkerSpec
    /\ WF_allVars(Clock)
    /\ WF_allVars(ReclaimAny /\ UNCHANGED workerVars)
    /\ \A w \in Workers : WF_allVars(WorkerStep(w))

-----------------------------------------------------------------------------
(* Properties.                                                             *)

Completions(c) == {i \in DOMAIN log[c] : log[c][i].reason = "completed"}

Matches(r, e) ==
    /\ <<r.token, r.attempt, r.worker, r.state, r.cost>> =
       <<e.token, e.attempt, e.worker, e.new, e.cost>>

(* reconcile_campaign_execution_records, one direction: every record file  *)
(* joins exactly one terminal event, with the same worker, outcome and     *)
(* cost, and no attempt has two records.                                   *)
RecordsMatchEvents ==
    /\ \A r \in records :
          Cardinality({i \in Completions(r.cell) : Matches(r, log[r.cell][i])}) = 1
    /\ \A r, s \in records : r.cell = s.cell /\ r.attempt = s.attempt => r = s

BeingWritten(c, e) ==
    \E w \in Workers : /\ pc[w] = "writing"
                       /\ Current(w).cell = c
                       /\ Current(w).token = e.token

Recorded(c, e) == \E r \in records : r.cell = c /\ r.token = e.token /\ r.attempt = e.attempt

Unrecorded(c) ==
    {i \in Completions(c) : ~BeingWritten(c, log[c][i]) /\ ~Recorded(c, log[c][i])}

(* The other direction: a terminal event without a record is one whose     *)
(* worker is about to write it, or was stopped by a crash between the      *)
(* completion and the record; each crash costs at most one record.         *)
MissingRecordsAreCrashes ==
    Cardinality(UNION {{c} \X Unrecorded(c) : c \in Cells}) <= crashes

\* An operator retried the cell while it was leased.
Abandoned(c) ==
    \E i \in DOMAIN log[c] : log[c][i].reason = "requeued" /\ log[c][i].prev = "leased"

(* With punctual heartbeats two workers call the provider for one cell at   *)
(* the same time only if a retry abandoned the running lease, if the lease  *)
(* of one of them waited in its batch, where nothing renews it, or if its   *)
(* heartbeat thread died; the code's only guard is the store's lease.       *)
ExclusiveExecution ==
    \A w, v \in Workers :
        pc[w] = "running" /\ pc[v] = "running" /\ Current(w).cell = Current(v).cell =>
            \/ w = v
            \/ Abandoned(Current(w).cell)
            \/ \E x \in {w, v} : Current(x).waited \/ beat[x] = "off"

\* A token leases one cell.
UnderLease(t) == \E c \in Cells : cell[c].state = "leased" /\ cell[c].token = t

(* Whatever becomes of its worker, a lease ends: nobody holds a cell       *)
(* forever.                                                                *)
LeasesEnd == \A t \in Tokens : UnderLease(t) ~> ~UnderLease(t)

=============================================================================
