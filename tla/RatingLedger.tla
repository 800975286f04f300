---------------------------- MODULE RatingLedger ----------------------------
(***************************************************************************)
(* The frozen rating session: the local web interface of                   *)
(* scripts/t14_frozen_steward_app.py over the append-only, hash-chained    *)
(* ledger of src/pelicanbench/t14_rating.py.                               *)
(*                                                                         *)
(* A server process handles one request at a time.  A browser tab loads    *)
(* the page, which tells it the next assignment, and posts one response    *)
(* after the other.  A post reads the ledger, appends one line, reads the  *)
(* ledger again and, after the last assignment, creates the final response *)
(* file, which must not exist.  The process may crash between any two of   *)
(* these steps and be started again on the same files; a write may be      *)
(* short.                                                                  *)
(*                                                                         *)
(* An event's hash covers its content and the hash of the event before it, *)
(* so it is represented by the contents of the chain that it ends.         *)
(***************************************************************************)
EXTENDS Integers, Sequences, FiniteSets

CONSTANTS
    NumAssignments, \* the assignments of the authorised session, in frozen order
    Servers,        \* server processes on the same ledger and output paths
    Tabs,           \* browser tabs
    NoTab,          \* no tab: the process handles no request
    Ratings,        \* valid rating rows, without the alias
    NoContent,      \* no response
    MaxCrashes,     \* bound on crashes
    ShortWrites     \* os.write may write less than it was given

ASSUME SessionAssumption ==
    /\ NumAssignments \in Nat \ {0}
    /\ MaxCrashes \in Nat
    /\ ShortWrites \in BOOLEAN
    /\ NoTab \notin Tabs
    /\ NoContent \notin [alias : 1..NumAssignments, rating : Ratings]

VARIABLES
    ledger,     \* the lines of the ledger file
    output,     \* the final response file
    server,     \* each process and the request it handles
    tab,        \* each tab: the assignment it shows, and whether it waits
    acked,      \* history: the responses answered with status 200
    crashes

vars == <<ledger, output, server, tab, acked, crashes>>

Assignments == 1..NumAssignments

Content == [alias : Assignments, rating : Ratings]

(* The text of a line: whole; cut short; whole but without its newline;    *)
(* or such a line with another one written behind it.                      *)
Texts == {"whole", "cut", "unended", "merged"}

Line == [content : Content, seq : Nat, chain : Seq(Content), text : Texts]

Steps == {"down", "idle", "accepted", "checked", "written", "complete", "opened"}

Contents(lines) == [i \in DOMAIN lines |-> lines[i].content]

\* Fault: the text of the lines is not parsed.
ReadableUnparsed(lines) ==
    \A i \in DOMAIN lines :
        lines[i].seq = i /\ lines[i].chain = SubSeq(Contents(lines), 1, i - 1)

\* HashChainedRatingLedger.read returns, rather than raises.
Readable(lines) ==
    \A i \in DOMAIN lines :
        /\ lines[i].text = "whole" \/ (lines[i].text = "unended" /\ i = Len(lines))
        /\ lines[i].seq = i
        /\ lines[i].chain = SubSeq(Contents(lines), 1, i - 1)

Free(s) == [step |-> s, tab |-> NoTab, content |-> NoContent, seen |-> <<>>]

Init ==
    /\ ledger = <<>>
    /\ output = [made |-> FALSE, rows |-> <<>>]
    /\ server = [s \in Servers |-> Free("down")]
    /\ tab = [t \in Tabs |-> [next |-> NumAssignments + 1, at |-> "closed",
                              content |-> NoContent]]
    /\ acked = {}
    /\ crashes = 0

-----------------------------------------------------------------------------
(* The processes and the browser.                                          *)

Start(s) ==
    /\ server[s].step = "down"
    /\ server' = [server EXCEPT ![s] = Free("idle")]
    /\ UNCHANGED <<ledger, output, tab, acked, crashes>>

\* The request in hand and the waiting ones fail without a response.
Crash(s) ==
    /\ crashes < MaxCrashes
    /\ server[s].step # "down"
    /\ server' = [server EXCEPT ![s] = Free("down")]
    /\ tab' = [t \in Tabs |-> IF tab[t].at = "waiting" THEN [tab[t] EXCEPT !.at = "open"] ELSE tab[t]]
    /\ crashes' = crashes + 1
    /\ UNCHANGED <<ledger, output, acked>>

\* do_GET of the page: its script starts behind the recorded responses.
Load(s, t) ==
    /\ server[s].step = "idle"
    /\ tab[t].at # "waiting"
    /\ Readable(ledger)
    /\ tab' = [tab EXCEPT ![t] = [next |-> Len(ledger) + 1, at |-> "open", content |-> NoContent]]
    /\ UNCHANGED <<ledger, output, server, acked, crashes>>

\* The form is shown while assignments remain.
Submit(t, r) ==
    /\ tab[t].at = "open"
    /\ tab[t].next \in Assignments
    /\ tab' = [tab EXCEPT ![t].at = "waiting",
                          ![t].content = [alias |-> tab[t].next, rating |-> r]]
    /\ UNCHANGED <<ledger, output, server, acked, crashes>>

-----------------------------------------------------------------------------
(* do_POST.                                                                *)

\* The response of status 400: the tab stays where it is.
Refuse(s, t) ==
    /\ tab' = [tab EXCEPT ![t].at = "open"]
    /\ server' = [server EXCEPT ![s] = Free("idle")]
    /\ UNCHANGED <<ledger, output, acked, crashes>>

\* The response of status 200, which counts the recorded responses.
Acknowledge(s, t, n) ==
    /\ tab' = [tab EXCEPT ![t].at = "open", ![t].next = n + 1]
    /\ server' = [server EXCEPT ![s] = Free("idle")]
    /\ acked' = acked \cup {server[s].content}
    /\ UNCHANGED <<ledger, crashes>>

(* The next request is read and compared with the next frozen assignment.  *)
(* After the last one there is no next assignment (IndexError).            *)
Accept(s, t) ==
    /\ server[s].step = "idle"
    /\ tab[t].at = "waiting"
    /\ \A x \in Servers : server[x].tab # t
    /\ IF Readable(ledger) /\ tab[t].content.alias = Len(ledger) + 1
       THEN /\ server' = [server EXCEPT ![s] = [Free("accepted") EXCEPT
                              !.tab = t, !.content = tab[t].content]]
            /\ UNCHANGED <<ledger, output, tab, acked, crashes>>
       ELSE Refuse(s, t)

\* HashChainedRatingLedger.append, first half: read, refuse a second response.
CheckAppend(s) ==
    /\ server[s].step = "accepted"
    /\ IF Readable(ledger) /\ \A i \in DOMAIN ledger :
              ledger[i].content.alias # server[s].content.alias
       THEN /\ server' = [server EXCEPT ![s].step = "checked", ![s].seen = Contents(ledger)]
            /\ UNCHANGED <<ledger, output, tab, acked, crashes>>
       ELSE Refuse(s, server[s].tab)

\* One line behind lines; a line without a newline swallows it.
Appended(lines, line) ==
    IF lines # <<>> /\ lines[Len(lines)].text = "unended"
    THEN [lines EXCEPT ![Len(lines)].text = "merged"]
    ELSE Append(lines, line)

\* append, second half: one os.write of what was computed from the first half.
WriteLine(s) ==
    /\ server[s].step = "checked"
    /\ \E text \in {"whole"} \cup (IF ShortWrites THEN {"cut", "unended"} ELSE {}) :
          ledger' = Appended(ledger, [content |-> server[s].content,
                                      seq     |-> Len(server[s].seen) + 1,
                                      chain   |-> server[s].seen,
                                      text    |-> text])
    /\ server' = [server EXCEPT ![s].step = "written"]
    /\ UNCHANGED <<output, tab, acked, crashes>>

\* Fault: the response counts its own line without reading it back.
CountUnread(s) ==
    /\ server[s].step = "written"
    /\ IF Len(server[s].seen) + 1 = NumAssignments
       THEN /\ server' = [server EXCEPT ![s].step = "complete",
                                        ![s].seen = Append(@, server[s].content)]
            /\ UNCHANGED <<ledger, output, tab, acked, crashes>>
       ELSE /\ Acknowledge(s, server[s].tab, Len(server[s].seen) + 1)
            /\ UNCHANGED output

\* Fault: the last assignment does not complete the session.
CountOneLate(s) ==
    /\ server[s].step = "written"
    /\ CASE ~Readable(ledger) -> Refuse(s, server[s].tab)
         [] Readable(ledger) /\ Len(ledger) > NumAssignments ->
                /\ server' = [server EXCEPT ![s].step = "complete", ![s].seen = Contents(ledger)]
                /\ UNCHANGED <<ledger, output, tab, acked, crashes>>
         [] OTHER -> /\ Acknowledge(s, server[s].tab, Len(ledger))
                     /\ UNCHANGED output

\* latest_rows once more: the session is complete, or the tab goes on.
Count(s) ==
    /\ server[s].step = "written"
    /\ CASE ~Readable(ledger) -> Refuse(s, server[s].tab)
         [] Readable(ledger) /\ Len(ledger) = NumAssignments ->
                /\ server' = [server EXCEPT ![s].step = "complete", ![s].seen = Contents(ledger)]
                /\ UNCHANGED <<ledger, output, tab, acked, crashes>>
         [] OTHER -> /\ Acknowledge(s, server[s].tab, Len(ledger))
                     /\ UNCHANGED output

\* open("xb"): the final response is created, never replaced.
OpenOutput(s) ==
    /\ server[s].step = "complete"
    /\ IF output.made
       THEN Refuse(s, server[s].tab)
       ELSE /\ output' = [made |-> TRUE, rows |-> <<>>]
            /\ server' = [server EXCEPT ![s].step = "opened"]
            /\ UNCHANGED <<ledger, tab, acked, crashes>>

WriteOutput(s) ==
    /\ server[s].step = "opened"
    /\ output' = [output EXCEPT !.rows = server[s].seen]
    /\ Acknowledge(s, server[s].tab, Len(server[s].seen))

Handle(s) ==
    \/ \E t \in Tabs : Accept(s, t)
    \/ CheckAppend(s)
    \/ WriteLine(s)
    \/ Count(s)
    \/ OpenOutput(s)
    \/ WriteOutput(s)

Next ==
    \/ \E s \in Servers : Start(s) \/ Crash(s) \/ Handle(s)
    \/ \E s \in Servers, t \in Tabs : Load(s, t)
    \/ \E t \in Tabs, r \in Ratings : Submit(t, r)

Spec == Init /\ [][Next]_vars

(* The process is started again after a crash and handles its requests;    *)
(* the rater keeps answering, and reloads a page that keeps being refused. *)
(* (A page reloaded while its post is under way is another tab's load.)    *)
Fairness ==
    /\ \A s \in Servers : WF_vars(Start(s)) /\ WF_vars(Handle(s))
    /\ \A t \in Tabs : /\ WF_vars(\E r \in Ratings : Submit(t, r))
                       /\ SF_vars(\E s \in Servers : Load(s, t))

FairSpec == Spec /\ Fairness

-----------------------------------------------------------------------------
(* Properties.                                                             *)

(* The ledger holds one response per assignment, in the frozen order, each *)
(* chained to all before it; damage of a short write is confined to the    *)
(* last line, because nothing is ever appended behind a line that cannot   *)
(* be read.                                                                *)
LedgerInOrder ==
    \A i \in DOMAIN ledger :
        /\ ledger[i].content.alias = i
        /\ ledger[i].seq = i
        /\ ledger[i].chain = SubSeq(Contents(ledger), 1, i - 1)
        /\ i < Len(ledger) => ledger[i].text = "whole"

(* A response that was acknowledged is in its place with the acknowledged  *)
(* rating and no later one replaces it (a line that lost its newline may   *)
(* become unreadable behind the next, but is still there).                 *)
AcknowledgedKept ==
    \A a \in acked :
        /\ a.alias <= Len(ledger)
        /\ ledger[a.alias].content = a
        /\ ledger[a.alias].text # "cut"

(* The final response is empty until it is written, and then holds the     *)
(* responses of all assignments exactly as the ledger recorded them.       *)
FinalResponseFaithful ==
    output.rows # <<>> =>
        /\ Len(output.rows) = NumAssignments
        /\ output.rows = Contents(ledger)

Damaged == \E i \in DOMAIN ledger : ledger[i].text # "whole"

(* Two tabs that refuse each other's stale assignments do not keep the     *)
(* session from its end: unless the process crashes or a write is short,   *)
(* the final response is written.                                          *)
SessionEnds == <>(output.rows # <<>> \/ crashes > 0 \/ Damaged)

(* The final response is created after the last assignment, as the docs    *)
(* of the interface say.  It is not if the process ends between the last   *)
(* append and open("xb"): no later request completes the session.          *)
CompleteIsWritten ==
    (Readable(ledger) /\ Len(ledger) = NumAssignments) ~> output.rows # <<>>

=============================================================================
