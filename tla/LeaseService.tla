---------------------------- MODULE LeaseService ----------------------------
(***************************************************************************)
(* What the campaign store promises to whoever works with leases, without  *)
(* its tables, clock, budget or event log: a cell has at most one holder,  *)
(* named by a lease token; a token holds one cell once and never again;    *)
(* only a held cell is finished, and a finished cell is never held again.  *)
(* One transaction of the store may end some leases and grant others.      *)
(***************************************************************************)
CONSTANTS Cells, Tokens, None

VARIABLES
    holder,     \* the token under which each cell is held, or None
    used,       \* every token that was ever granted
    done        \* finished cells

vars == <<holder, used, done>>

Init ==
    /\ holder = [c \in Cells |-> None]
    /\ used = {}
    /\ done = {}

Held(h) == {c \in Cells : h[c] # None}

(* Some leases end, and the cells of G are granted under new tokens.       *)
Transact(G) ==
    /\ holder' \in [Cells -> Tokens \cup {None}]
    /\ G \cap done = {}
    /\ \A c \in Cells \ G : holder'[c] \in {holder[c], None}
    /\ \A c \in G : holder'[c] \in Tokens \ used
    /\ \A c, x \in Held(holder') : holder'[c] = holder'[x] => c = x
    /\ used' = used \cup {holder'[c] : c \in G}
    /\ done' = done

Finish(c) ==
    /\ holder[c] # None
    /\ holder' = [holder EXCEPT ![c] = None]
    /\ done' = done \cup {c}
    /\ used' = used

(* The database is removed and created anew.                               *)
Restart == holder' = [c \in Cells |-> None] /\ used' = {} /\ done' = {}

Next ==
    \/ \E G \in SUBSET Cells : Transact(G)
    \/ \E c \in Cells : Finish(c)
    \/ Restart

Spec == Init /\ [][Next]_vars

=============================================================================
