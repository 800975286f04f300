--------------------------- MODULE RatingSession ---------------------------
(***************************************************************************)
(* A frozen rating session from custody to its final response:             *)
(* t14_custody.py makes the aliases and the schedule, a decision packet    *)
(* freezes them with the candidate manifest, t14_rating.py checks all of   *)
(* it against the packet, and t14_frozen_steward_app.py serves the pairs   *)
(* and records the ratings.  How a post writes its line is in RatingLedger *)
(* and is one step here.                                                   *)
(*                                                                         *)
(* A file stands for its hash.  An episode's two images are one asset; its *)
(* content is a number.  What is rated does not matter, only what was seen *)
(* by the rater who gave the rating.                                       *)
(***************************************************************************)
EXTENDS Naturals, Sequences, FiniteSets, SequencesExt

CONSTANTS
    EpisodeCount,   \* 96 episodes, numbered by their repair id
    DuplicateCount, \* 10 of them are rated twice
    Secrets,        \* custody secrets
    \* What the HMAC of a secret gives in its three domains: numbers.
    EpisodeDigest,  \* of an episode, truncated to an alias
    SelectionKey,   \* of an episode, to select the duplicates
    DutyDigest,     \* of an episode and an occurrence, truncated to an alias
    OrderKey,       \* of an episode and an occurrence, to order them
    Short,          \* the limits a qualification may have, 8 to 12
    RaterTabs,          \* browser tabs
    Missing,        \* no file
    MaxTurns,       \* bound: what people do to files
    MaxFolders,     \* bound: directories that custody files go to
    MaxLaunches     \* bound: starts of the server

Episodes == 1 .. EpisodeCount

Duties == Episodes \X {"primary", "duplicate-1"}

Routes == {"qualification", "complete"}

Everything == EpisodeCount + DuplicateCount

ASSUME RatingSessionAssumption ==
    /\ EpisodeCount \in Nat /\ DuplicateCount \in 0 .. EpisodeCount
    /\ EpisodeDigest \in [Secrets -> [Episodes -> Nat]]
    /\ SelectionKey \in [Secrets -> [Episodes -> Nat]]
    /\ DutyDigest \in [Secrets -> [Duties -> Nat]]
    /\ OrderKey \in [Secrets -> [Duties -> Nat]]
    /\ Short \subseteq 1 .. Everything
    /\ {MaxTurns, MaxFolders, MaxLaunches} \subseteq Nat

VARIABLES
    asset,        \* the images of each episode as they are on disk
    candidate,    \* the candidate manifest: the hashes it has of them
    custody,      \* the directories outside the repository, with their files
    packet,       \* the decision packet with its freeze receipt
    authority,    \* the rating authorization
    host,         \* the server
    page,         \* each browser tab
    ratings,      \* the ledger
    response,     \* the final response file of each route
    turns, launches, freezeCount,
    \* History:
    disturbed,    \* episodes edited while a server was running
    reissued,     \* the authorization was written again while a server started
    refrozen      \* a freeze was made after a page had been opened, or after the
                  \* packet had been read by a server

sessionVars == <<asset, candidate, custody, packet, authority, host, page, ratings,
                 response, turns, launches, freezeCount, disturbed, reissued, refrozen>>

----------------------------------------------------------------------------
(* Custody                                                                 *)

\* The first DuplicateCount episodes in the order of their selection keys.
Selected(s) ==
    {e \in Episodes :
        Cardinality({f \in Episodes : SelectionKey[s][f] < SelectionKey[s][e]})
            < DuplicateCount}

Scheduled(s) == {d \in Duties : d[2] = "primary" \/ d[1] \in Selected(s)}

InOrder(s) == SetToSortSeq(Scheduled(s), LAMBDA c, d : OrderKey[s][c] < OrderKey[s][d])

\* build_restricted_custody_artifacts raises if aliases collide.
NoCollision(s) ==
    /\ \A e, f \in Episodes : EpisodeDigest[s][e] = EpisodeDigest[s][f] => e = f
    /\ \A c, d \in Scheduled(s) : DutyDigest[s][c] = DutyDigest[s][d] => c = d

AliasManifest(s, c) == [candidate |-> c, entries |-> EpisodeDigest[s]]

DuplicateSchedule(s, c) ==
    [candidate   |-> c,
     assignments |-> [i \in 1 .. Everything |->
                        [alias   |-> DutyDigest[s][InOrder(s)[i]],
                         episode |-> InOrder(s)[i][1],
                         episodeAlias |-> EpisodeDigest[s][InOrder(s)[i][1]]]]]

\* The three files in the order they are written.
CustodyFiles(s, c) ==
    <<AliasManifest(s, c), DuplicateSchedule(s, c),
      [candidate |-> c, aliases |-> AliasManifest(s, c), schedule |-> DuplicateSchedule(s, c)]>>

----------------------------------------------------------------------------
Off == [at |-> "off"]

Closed == [at |-> "closed"]

Running == host.at \notin {"off", "packet", "candidate", "custody", "compare"}

SessionInit ==
    /\ asset = [e \in Episodes |-> e]
    /\ candidate = asset
    /\ custody = <<>>
    /\ packet = Missing
    /\ authority = Missing
    /\ host = Off
    /\ page = [t \in RaterTabs |-> Closed]
    /\ ratings = <<>>
    /\ response = [r \in Routes |-> Missing]
    /\ turns = 0 /\ launches = 0 /\ freezeCount = 0
    /\ disturbed = {} /\ reissued = FALSE /\ refrozen = FALSE

----------------------------------------------------------------------------
(* People                                                                  *)

Turn ==
    /\ turns < MaxTurns
    /\ turns' = turns + 1
    /\ UNCHANGED <<host, page, ratings, response, launches>>

EditAsset(e) ==
    /\ Turn
    /\ asset' = [asset EXCEPT ![e] = @ + EpisodeCount]
    /\ disturbed' = IF Running THEN disturbed \cup {e} ELSE disturbed
    /\ UNCHANGED <<candidate, custody, packet, authority, freezeCount, reissued, refrozen>>

\* The manifest is built again from the assets there are.
RebuildCandidate ==
    /\ Turn
    /\ candidate # asset
    /\ candidate' = asset
    /\ UNCHANGED <<asset, custody, packet, authority, freezeCount,
                   disturbed, reissued, refrozen>>

\* prepare_t14_custody_artifacts: the output directory has to be absent or empty,
\* so no file is written over; k files are written when it is interrupted.
GenerateCustody(s, k) ==
    /\ Turn
    /\ Len(custody) < MaxFolders
    /\ NoCollision(s)
    /\ custody' = Append(custody,
                      [i \in 1 .. 3 |-> IF i <= k THEN CustodyFiles(s, candidate)[i] ELSE Missing])
    /\ UNCHANGED <<asset, candidate, packet, authority, freezeCount,
                   disturbed, reissued, refrozen>>

\* The packet's manifest is the one in the repository,
CandidateCommitted(p) == p.candidate = candidate

\* it agrees with the receipt of the custody it is based on,
CustodyCommitted(p, receipt) ==
    /\ receipt.candidate = p.candidate
    /\ receipt.aliases = p.aliases
    /\ receipt.schedule = p.schedule

\* and the custodian has made the three files again from the secret.
CustodyVerified(d, p) == \E s \in Secrets : custody[d] = CustodyFiles(s, p.candidate)

\* The steward's freeze decision is about one custody receipt.
Freeze(d) ==
    /\ Turn
    /\ custody[d][3] # Missing
    /\ LET receipt == custody[d][3]
           decided == [candidate |-> candidate, aliases |-> receipt.aliases,
                       schedule |-> receipt.schedule, freeze |-> freezeCount + 1]
       IN  /\ CandidateCommitted(decided)
           /\ CustodyCommitted(decided, receipt)
           /\ CustodyVerified(d, decided)
           /\ packet' = decided
    /\ freezeCount' = freezeCount + 1
    /\ refrozen' = (\/ refrozen
                    \/ host.at \notin {"off", "packet"}
                    \/ ratings # <<>>
                    \/ \E t \in RaterTabs : page[t] # Closed)
    /\ UNCHANGED <<asset, candidate, custody, authority, disturbed, reissued>>

\* The steward's authorization names the freeze receipt.
Authorise(route, limit) ==
    /\ Turn
    /\ packet # Missing
    /\ authority' = [freeze |-> packet.freeze, route |-> route, limit |-> limit]
    /\ authority' # authority
    /\ reissued' = (reissued \/ host.at = "digest")
    /\ UNCHANGED <<asset, candidate, custody, packet, freezeCount, disturbed, refrozen>>

----------------------------------------------------------------------------
(* The server                                                              *)

people == <<asset, candidate, custody, packet, authority, turns, freezeCount,
            disturbed, reissued, refrozen>>

Refused == host' = Off

Keeps(field, value, next) ==
    IF value = Missing THEN Refused
    ELSE host' = [host EXCEPT !.at = next, ![field] = value]

\* The directories of the two restricted files come from the command line.
Launch(d, f) ==
    /\ host = Off
    /\ launches < MaxLaunches
    /\ launches' = launches + 1
    /\ host' = [at |-> "packet", folders |-> <<d, f>>, packet |-> Missing,
                candidate |-> Missing, aliases |-> Missing, schedule |-> Missing,
                checked |-> 0, authority |-> Missing, digest |-> Missing]
    /\ UNCHANGED <<people, page, ratings, response>>

\* load_frozen_rating_session reads file after file (nobody writes to the two
\* restricted ones again, and their reading is one step),
ReadFile ==
    /\ \/ host.at = "packet" /\ Keeps("packet", packet, "candidate")
       \/ host.at = "candidate" /\ Keeps("candidate", candidate, "custody")
       \/ /\ host.at = "custody"
          /\ LET aliases == custody[host.folders[1]][1]
                 schedule == custody[host.folders[2]][2]
             IN  IF Missing \in {aliases, schedule} THEN Refused
                 ELSE host' = [host EXCEPT !.at = "compare", !.aliases = aliases,
                                           !.schedule = schedule]
    /\ UNCHANGED <<people, page, ratings, response, launches>>

\* compares what it has read with the packet and with each other,
CommitmentsHold ==
    /\ host.candidate = host.packet.candidate
    /\ host.aliases = host.packet.aliases
    /\ host.schedule = host.packet.schedule
    /\ host.aliases.candidate = host.candidate
    /\ host.schedule.candidate = host.candidate
    /\ LET assignments == host.schedule.assignments IN
       /\ DOMAIN assignments = 1 .. Everything
       /\ \A i, j \in DOMAIN assignments :
             assignments[i].alias = assignments[j].alias => i = j
       /\ \A i \in DOMAIN assignments :
             /\ assignments[i].episodeAlias = host.aliases.entries[assignments[i].episode]
             /\ assignments[i].episode \in DOMAIN host.candidate

CompareFiles ==
    /\ host.at = "compare"
    /\ IF CommitmentsHold THEN host' = [host EXCEPT !.at = "assets"] ELSE Refused
    /\ UNCHANGED <<people, page, ratings, response, launches>>

Assignment(i) == host.schedule.assignments[i]

\* Fault: only the first assignment's asset is compared with its hash.
AssetDriftsFirst(i) ==
    i = 1 /\ asset[Assignment(i).episode] # host.candidate[Assignment(i).episode]

AssetDrifts(i) == asset[Assignment(i).episode] # host.candidate[Assignment(i).episode]

\* and then the asset of every assignment with the manifest.
CheckAsset ==
    /\ host.at = "assets"
    /\ LET i == host.checked + 1 IN
       IF AssetDrifts(i) THEN Refused
       ELSE host' = [host EXCEPT !.checked = i,
                                 !.at = IF i = Everything THEN "authorise" ELSE @]
    /\ UNCHANGED <<people, page, ratings, response, launches>>

\* validate_rating_authorization
Authorised(a) ==
    /\ a.freeze = host.packet.freeze
    /\ IF a.route = "qualification" THEN a.limit \in Short ELSE a.limit = Everything

ValidateAuthority ==
    /\ host.at = "authorise"
    /\ IF authority # Missing /\ Authorised(authority)
       THEN host' = [host EXCEPT !.at = "digest", !.authority = authority]
       ELSE Refused
    /\ UNCHANGED <<people, page, ratings, response, launches>>

\* The file is read a second time for its hash.
ReadDigest ==
    /\ host.at = "digest"
    /\ host' = [host EXCEPT !.at = "serving", !.digest = authority]
    /\ UNCHANGED <<people, page, ratings, response, launches>>

Stop ==
    /\ host # Off
    /\ Refused
    /\ UNCHANGED <<people, page, ratings, response, launches>>

----------------------------------------------------------------------------
(* The browser                                                             *)

Limit == host.authority.limit

\* The page holds the aliases of the assignments, and where to begin.
OpenPage(t) ==
    /\ host.at = "serving"
    /\ page' = [page EXCEPT ![t] =
                   [at |-> "open", aliases |-> [i \in 1 .. Limit |-> Assignment(i).alias],
                    index |-> Len(ratings) + 1, seen |-> Missing]]
    /\ UNCHANGED <<people, host, ratings, response, launches>>

Asking(t) == page[t].at = "open" /\ page[t].index \in DOMAIN page[t].aliases

\* The images are asked for by their place and read from the disk then.
ShowImages(t) ==
    /\ host.at = "serving"
    /\ Asking(t) /\ page[t].seen = Missing
    /\ page[t].index <= Limit
    /\ page' = [page EXCEPT ![t].seen = asset[Assignment(page[t].index).episode]]
    /\ UNCHANGED <<people, host, ratings, response, launches>>

Row(t) == [alias |-> page[t].aliases[page[t].index], seen |-> page[t].seen]

HasRating(alias) == \E i \in DOMAIN ratings : ratings[i].alias = alias

\* Fault: the rating is taken for the next assignment, whichever it was for.
AcceptsAny(row) ==
    /\ Len(ratings) < Limit
    /\ row.alias \in {Assignment(i).alias : i \in 1 .. Limit}

\* It has to be for the next assignment, allowed and not recorded yet.
Accepts(row) ==
    /\ Len(ratings) < Limit
    /\ row.alias = Assignment(Len(ratings) + 1).alias
    /\ row.alias \in {Assignment(i).alias : i \in 1 .. Limit}
    /\ ~HasRating(row.alias)

\* _final_payload
FinalPayload(rows) ==
    [route |-> host.authority.route, limit |-> Limit, digest |-> host.digest,
     freeze |-> host.packet.freeze, candidate |-> host.candidate,
     schedule |-> host.schedule, rows |-> rows]

\* A rating is posted by a rater who has seen the images.  It is appended; the
\* last one creates the final response, which is never written over.
PostRating(t) ==
    /\ host.at = "serving"
    /\ Asking(t) /\ page[t].seen # Missing
    /\ Accepts(Row(t))
    /\ ratings' = Append(ratings, Row(t))
    /\ LET last == Len(ratings) + 1 = Limit
           route == host.authority.route
       IN  IF last /\ response[route] # Missing
           THEN UNCHANGED <<response, page>>
           ELSE /\ response' = IF last
                               THEN [response EXCEPT ![route] = FinalPayload(ratings')]
                               ELSE response
                /\ page' = [page EXCEPT ![t].index = Len(ratings) + 2, ![t].seen = Missing]
    /\ UNCHANGED <<people, host, launches>>

People ==
    \/ \E e \in Episodes : EditAsset(e)
    \/ RebuildCandidate
    \/ \E s \in Secrets, k \in 1 .. 3 : GenerateCustody(s, k)
    \/ \E d \in DOMAIN custody : Freeze(d)
    \/ \E route \in Routes, limit \in Short \cup {Everything} : Authorise(route, limit)

Server ==
    \/ \E d, f \in DOMAIN custody : Launch(d, f)
    \/ ReadFile \/ CompareFiles \/ CheckAsset \/ ValidateAuthority \/ ReadDigest
    \/ Stop

Rater == \E t \in RaterTabs : OpenPage(t) \/ ShowImages(t) \/ PostRating(t)

SessionNext == People \/ Server \/ Rater

SessionSpec == SessionInit /\ [][SessionNext]_sessionVars

----------------------------------------------------------------------------
(* Properties                                                              *)

\* A final response holds what its freeze froze: as many ratings as its
\* authorization allows, the i-th given to the i-th assignment of the schedule
\* and on the bytes the candidate manifest has for its episode, whatever tabs
\* were left open, however often the server was stopped and routes changed.
\* What escapes are images edited while a server ran, an authorization written
\* again between its two readings, and a freeze made after a server had read
\* the packet or a page had been opened: neither the ledger nor a page is bound
\* to a freeze, and a server goes on with the packet it has read.
ResponseIsFrozenSession ==
    \A r \in {r \in Routes : response[r] # Missing} :
        LET final == response[r] IN
        /\ final.route = r
        /\ Len(final.rows) = final.limit
        /\ ~reissued => final.digest =
              [freeze |-> final.freeze, route |-> r, limit |-> final.limit]
        /\ ~refrozen => \A i \in DOMAIN final.rows :
              LET a == final.schedule.assignments[i] IN
              /\ final.rows[i].alias = a.alias
              /\ a.episode \in disturbed \/ final.rows[i].seen = final.candidate[a.episode]

=============================================================================
