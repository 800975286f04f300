------------------------------ MODULE IssueSync ------------------------------
(***************************************************************************)
(* The work graph of the project on GitHub (workgraph.py,                  *)
(* generate_issue_manifest.py, sync_github_issues.py,                      *)
(* create_github_project.py): a manifest is generated from the records of  *)
(* the repository, and a sync walks it and looks up, creates, updates and  *)
(* links one issue per item over the network.  The numbers that a sync     *)
(* learns are written back only at its end, and only where its checkout    *)
(* is kept: the workflow's is thrown away.  Nothing keeps syncs apart: a   *)
(* push starts the workflow's, and both bootstraps go on with their own.   *)
(*                                                                         *)
(* External: GitHub, whose search is assumed to see every issue, and whose *)
(* issues nobody else writes; Push, which also stands for the commit; and  *)
(* the workflow, whose old runs are not started again.  Labels other than  *)
(* the status are left out, and so is ensure_labels.                       *)
(***************************************************************************)
EXTENDS Naturals, FiniteSets, Sequences

CONSTANTS
    Order,        \* the items in the order of a sync, children first
    Parent,       \* phase of a package, track of a phase, None
    Tracks,       \* the items whose status is that of their phases
    Titles,       \* 1 .. number of titles an item may have
    Statuses,     \* the statuses that the records may have
    Runners,      \* the checkouts a sync may run in
    Kept,         \* those whose files are kept
    MaxEdits,     \* bound: edits of the records
    MaxSyncs,     \* bound: syncs
    MaxCrashes,   \* bound: syncs that break off
    None

Items == {Order[k] : k \in DOMAIN Order}

ASSUME IssueAssumption ==
    /\ Order \in Seq(Items) /\ None \notin Nat
    /\ Parent \in [Items -> Items \cup {None}]
    /\ Tracks \subseteq Items /\ Kept \subseteq Runners
    /\ Titles \subseteq Nat /\ 1 \in Titles
    /\ "planned" \in Statuses
    /\ Statuses \subseteq {"planned", "partial", "blocked", "reopened", "complete"}
    /\ MaxEdits \in Nat /\ MaxSyncs \in Nat /\ MaxCrashes \in Nat

VARIABLES
    source,       \* title and status of the records under conductor/
    manifest,     \* .github/issues/manifest.json
    pushed,       \* that file, as it was last pushed
    issues,       \* the issues on GitHub, by number
    project,      \* the issues in the GitHub project
    sync,         \* the sync that runs in each checkout
    exposed,      \* history: items renamed while their issue was not recorded
    raced,        \* history: items that two syncs found missing at once
    edits, syncs, crashes

vars == <<source, manifest, pushed, issues, project, sync, exposed, raced, edits, syncs, crashes>>

histories == <<exposed, raced>>

----------------------------------------------------------------------------
Children(item) == {c \in Items : Parent[c] = item}

Place(item) == CHOOSE k \in DOMAIN Order : Order[k] = item

\* The children are linked in their order.
First(S) == {c \in S : \A d \in S : Place(c) <= Place(d)}

\* parent_status of the phases' statuses.
ParentStatus(values) ==
    IF values = {"complete"} THEN "complete"
    ELSE IF "blocked" \in values THEN "blocked"
    ELSE IF values \cap {"complete", "partial", "reopened"} # {} THEN "partial"
    ELSE "planned"

StatusOf(plan, item) ==
    IF item \in Tracks
    THEN ParentStatus({plan[c].status : c \in Children(item)})
    ELSE plan[item].status

\* The checklist in an issue's body.
Checklist(plan, item) ==
    {<<plan[c].number, plan[c].status>> : c \in Children(item)}

Wanted(plan, item) ==
    [title |-> <<item, plan[item].title>>, status |-> StatusOf(plan, item),
     checklist |-> Checklist(plan, item)]

Numbers(title) == {n \in DOMAIN issues : issues[n].title = title}

NotRunning == [pos |-> 0]

Active(r) == sync[r] # NotRunning

\* A sync does each item, and then links its children.
Item(r) == Order[sync[r].pos]

----------------------------------------------------------------------------
(* The records and the manifest                                            *)

Edit(item, record) ==
    /\ edits < MaxEdits
    /\ record # source[item]
    /\ source' = [source EXCEPT ![item] = record]
    /\ edits' = edits + 1
    /\ UNCHANGED <<manifest, pushed, issues, project, sync, histories, syncs, crashes>>

\* build_issue_manifest: new contents, and the numbers of the old manifest.
Generated ==
    [i \in Items |-> [title |-> source[i].title, status |-> source[i].status,
                      number |-> manifest[i].number]]

\* A copy of the manifest that a sync starts from, now or later, has no number.
Unrecorded(item) ==
    \/ manifest[item].number = None \/ pushed[item].number = None
    \/ \E r \in Runners : Active(r) /\ sync[r].plan[item].number = None

GenerateManifest ==
    /\ manifest # Generated
    /\ manifest' = Generated
    /\ exposed' = exposed \cup
          {i \in Items : manifest[i].title # source[i].title /\ Unrecorded(i)}
    /\ UNCHANGED <<source, pushed, issues, project, sync, raced, edits, syncs, crashes>>

Push ==
    /\ pushed # manifest
    /\ pushed' = manifest
    /\ UNCHANGED <<source, manifest, issues, project, sync, histories, edits, syncs, crashes>>

----------------------------------------------------------------------------
(* A sync                                                                  *)

\* A sync reads the manifest of its checkout, fresh or not, whatever else runs.
Begin(r) ==
    /\ ~Active(r) /\ syncs < MaxSyncs
    /\ syncs' = syncs + 1
    /\ sync' = [q \in Runners |->
          IF q = r
          THEN [pos |-> 1, plan |-> IF r \in Kept THEN manifest ELSE pushed,
                stage |-> "lookup", found |-> None, left |-> {},
                alone |-> \A p \in Runners : ~Active(p)]
          ELSE IF Active(q) THEN [sync[q] EXCEPT !.alone = FALSE] ELSE NotRunning]
    /\ UNCHANGED <<source, manifest, pushed, issues, project, histories, edits, crashes>>

\* Fault: only open issues are searched.
FindOpenIssue(title) ==
    LET open == {n \in Numbers(title) : ~issues[n].closed}
    IN  IF open = {} THEN {None} ELSE open

\* find_issue: any issue of that title, open or closed.
FindIssue(title) == IF Numbers(title) = {} THEN {None} ELSE Numbers(title)

\* The sync has found no issue of its item, and will create one.
Seeking(r) == Active(r) /\ sync[r].stage = "write" /\ sync[r].found = None

SoughtItems == {Item(r) : r \in {q \in Runners : Seeking(q)}}

\* The first call of ensure_issue: by its number, or by a search.
Lookup(r) ==
    /\ Active(r) /\ sync[r].pos <= Len(Order) /\ sync[r].stage = "lookup"
    /\ LET item == Item(r)
           number == sync[r].plan[item].number
       IN  \E n \in IF number # None THEN {number}
                    ELSE FindIssue(Wanted(sync[r].plan, item).title) :
              /\ sync' = [sync EXCEPT ![r] = [@ EXCEPT !.stage = "write", !.found = n]]
              /\ raced' = IF n = None /\ item \in SoughtItems
                          THEN raced \cup {item} ELSE raced
    /\ UNCHANGED <<source, manifest, pushed, issues, project, exposed, edits, syncs, crashes>>

\* What is left of the item's children comes first, then the next item.
Onward(run, left) ==
    IF left = {}
    THEN [run EXCEPT !.pos = @ + 1, !.stage = "lookup", !.found = None, !.left = {}]
    ELSE [run EXCEPT !.stage = "link", !.found = None, !.left = left]

\* The item is done: its number is noted and the sync goes on.
Noted(run, item, number) ==
    Onward([run EXCEPT !.plan = [@ EXCEPT ![item].number = number]], Children(item))

\* A new issue is open; one that has to be closed takes another call.
Create(r) ==
    /\ Seeking(r)
    /\ LET item == Item(r)
           wanted == Wanted(sync[r].plan, item)
           number == Len(issues) + 1
       IN  /\ issues' = Append(issues, [wanted |-> wanted, title |-> wanted.title,
                                        closed |-> FALSE, subs |-> {}])
           /\ sync' = [sync EXCEPT ![r] =
                         IF wanted.status = "complete"
                         THEN [@ EXCEPT !.stage = "close", !.found = number]
                         ELSE Noted(@, item, number)]
    /\ UNCHANGED <<source, manifest, pushed, project, histories, edits, syncs, crashes>>

Close(r) ==
    /\ Active(r) /\ sync[r].stage = "close"
    /\ issues' = [issues EXCEPT ![sync[r].found].closed = TRUE]
    /\ sync' = [sync EXCEPT ![r] = Noted(@, Item(r), sync[r].found)]
    /\ UNCHANGED <<source, manifest, pushed, project, histories, edits, syncs, crashes>>

\* Fault: the state of an issue that exists is left as it is.
PatchedState(issue, wanted) ==
    [wanted |-> wanted, title |-> wanted.title, closed |-> issue.closed, subs |-> issue.subs]

\* Title, body, labels and state of an issue that exists.
Patched(issue, wanted) ==
    [wanted |-> wanted, title |-> wanted.title, closed |-> wanted.status = "complete",
     subs |-> issue.subs]

Update(r) ==
    /\ Active(r) /\ sync[r].stage = "write" /\ sync[r].found # None
    /\ LET item == Item(r)
           n == sync[r].found
       IN  /\ issues' = [issues EXCEPT ![n] = Patched(@, Wanted(sync[r].plan, item))]
           /\ sync' = [sync EXCEPT ![r] = Noted(@, item, n)]
    /\ UNCHANGED <<source, manifest, pushed, project, histories, edits, syncs, crashes>>

Linking(r) == Active(r) /\ sync[r].stage = "link"

Linked(run, child) == Onward(run, run.left \ {child})

\* The sub-issue is linked unless it is already.
Attach(r) ==
    /\ Linking(r)
    /\ \E child \in First(sync[r].left) :
          /\ LET plan == sync[r].plan
             IN  issues' = [issues EXCEPT ![plan[Item(r)].number].subs =
                                              @ \cup {plan[child].number}]
          /\ sync' = [sync EXCEPT ![r] = Linked(@, child)]
    /\ UNCHANGED <<source, manifest, pushed, project, histories, edits, syncs, crashes>>

\* An error of the sub-issue calls is passed over.
AttachUnavailable(r) ==
    /\ Linking(r)
    /\ \E child \in First(sync[r].left) : sync' = [sync EXCEPT ![r] = Linked(@, child)]
    /\ UNCHANGED <<source, manifest, pushed, issues, project, histories, edits, syncs, crashes>>

\* The manifest is written as the sync read it, with the numbers.
Finish(r) ==
    /\ Active(r) /\ sync[r].pos > Len(Order)
    /\ manifest' = IF r \in Kept THEN sync[r].plan ELSE manifest
    /\ sync' = [sync EXCEPT ![r] = NotRunning]
    /\ UNCHANGED <<source, pushed, issues, project, histories, edits, syncs, crashes>>

\* Any other call fails, or the process is killed.
Abort(r) ==
    /\ Active(r) /\ crashes < MaxCrashes
    /\ sync' = [sync EXCEPT ![r] = NotRunning]
    /\ crashes' = crashes + 1
    /\ UNCHANGED <<source, manifest, pushed, issues, project, histories, edits, syncs>>

\* create_github_project adds the issues that the manifest names.
AddToProject ==
    /\ project' = project \cup ({manifest[i].number : i \in Items} \ {None})
    /\ UNCHANGED <<source, manifest, pushed, issues, sync, histories, edits, syncs, crashes>>

----------------------------------------------------------------------------
Init ==
    /\ \E status \in [Items -> Statuses] :
          /\ \A i \in Tracks : status[i] = "planned"
          /\ source = [i \in Items |-> [title |-> 1, status |-> status[i]]]
          /\ manifest = [i \in Items |-> [title |-> 1, status |-> status[i], number |-> None]]
    /\ pushed = manifest
    /\ issues = <<>> /\ project = {} /\ exposed = {} /\ raced = {}
    /\ sync = [r \in Runners |-> NotRunning]
    /\ edits = 0 /\ syncs = 0 /\ crashes = 0

Step(r) ==
    Lookup(r) \/ Create(r) \/ Close(r) \/ Update(r) \/ Attach(r) \/ AttachUnavailable(r)
      \/ Finish(r)

Next ==
    \/ \E i \in Items, title \in Titles : Edit(i, [source[i] EXCEPT !.title = title])
    \/ \E i \in Items \ Tracks, status \in Statuses :
          Edit(i, [source[i] EXCEPT !.status = status])
    \/ GenerateManifest \/ Push
    \/ \E r \in Runners : Begin(r) \/ Step(r) \/ Abort(r)
    \/ AddToProject

Spec == Init /\ [][Next]_vars

----------------------------------------------------------------------------
(* Properties                                                              *)

\* Syncs that break off anywhere, those whose manifest is thrown away and those
\* that start from an old one leave no second issue of an item, unless the item
\* was renamed while its issue was not recorded, or two syncs that overlapped
\* both searched before either of them had created the issue.
TwinsExplained ==
    \A m, n \in DOMAIN issues :
        m # n /\ issues[m].title[1] = issues[n].title[1] =>
            issues[m].title[1] \in exposed \cup raced

\* Whatever earlier syncs left half done, a sync that no other overlapped ends
\* with every issue as its manifest says: title, body with the numbers of the
\* children, status, and closed exactly if the item is complete.
FinishedShows ==
    \A r \in Runners : Active(r) /\ sync[r].pos > Len(Order) /\ sync[r].alone =>
        \A i \in Items :
            LET issue == issues[sync[r].plan[i].number]
                wanted == Wanted(sync[r].plan, i)
            IN  /\ issue.wanted = wanted /\ issue.title = wanted.title
                /\ issue.closed <=> wanted.status = "complete"

\* What the documents call idempotent: an item never has two issues.
OneIssuePerItem ==
    \A m, n \in DOMAIN issues : issues[m].title[1] = issues[n].title[1] => m = n

=============================================================================
