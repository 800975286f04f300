------------------------------ MODULE Blinding ------------------------------
(***************************************************************************)
(* Blinding of model identities and their controlled restoration           *)
(* (blinding.py and its commands in cli.py).                               *)
(*                                                                         *)
(* Model identifiers are numbers in the order of the sorted strings.  The  *)
(* keyed digest of a model is a sequence of parts; an alias is a prefix of *)
(* it.  A commitment to a mapping is keyed and stands for the key and the  *)
(* entries.  The panel, the key in a command's environment and the moment  *)
(* a command is run are up to people, who do not know of each other.       *)
(***************************************************************************)
EXTENDS Naturals, Sequences, FiniteSetsExt

CONSTANTS
    Models,       \* numbered in the order of their sorted identifiers
    Panels,       \* the cohorts that may be in the panel file
    Produced,     \* the models that occur in the records
    Keys,         \* values of PELICANBENCH_BLINDING_KEY
    Digest,       \* Digest[key][model], a sequence of at least one part
    None

ASSUME ModelsAssumption ==
    /\ Models \subseteq Nat /\ IsFiniteSet(Models)
    /\ Panels \subseteq (SUBSET Models) \ {{}}
    /\ Produced \subseteq Models
    /\ \A key \in Keys, m \in Models :
          Digest[key][m] \in Seq(Nat) /\ Len(Digest[key][m]) > 0

VARIABLES
    panel,        \* the models of the prospective panel
    public,       \* the public manifest on disk: the commitment and the aliases
    private,      \* the restricted map on disk
    receipt,      \* the authorisation on disk: the commitment and the MAC's key
    records,      \* the blinded records on disk: the alias of each record
    revealed,     \* the unblinded records on disk: the model of each record
    blinder,      \* the map that blind-model-records has loaded
    steward,      \* the steward's command
    basis         \* history: the maps that the revealed records went through

disk == <<public, private, receipt, records, revealed>>
blindingVars == <<panel, disk, blinder, steward, basis>>

----------------------------------------------------------------------------
(* Aliases                                                                 *)

AliasPrefixes(digest) == {SubSeq(digest, 1, k) : k \in 1 .. Len(digest)}

\* Fault: aliases are given out in the order of the models.
ByRank(key, models) ==
    {[m \in models |-> <<key, Cardinality({n \in models : n < m})>>]}

\* The shortest prefix of the digest that no model before this one has.
FreeAliases(alias, key, m) ==
    AliasPrefixes(Digest[key][m]) \ {alias[n] : n \in {k \in DOMAIN alias : k < m}}

\* The one assignment in that order, or none when a digest runs out of parts.
Aliases(key, models) ==
    {alias \in [models -> UNION {AliasPrefixes(Digest[key][m]) : m \in models}] :
        \A m \in models : /\ alias[m] \in FreeAliases(alias, key, m)
                          /\ \A a \in FreeAliases(alias, key, m) : Len(alias[m]) <= Len(a)}

AliasesOf(map) == {map.alias[m] : m \in DOMAIN map.alias}

OneToOne(map) == Cardinality(AliasesOf(map)) = Cardinality(DOMAIN map.alias)

----------------------------------------------------------------------------
BlindingInit ==
    /\ panel \in Panels
    /\ public = None /\ private = None /\ receipt = None
    /\ records = None /\ revealed = None
    /\ blinder = None /\ steward = None
    /\ basis = None

\* The cohort in benchmark/models/prospective-panel.json is changed.
ChangePanel ==
    /\ panel' \in Panels \ {panel}
    /\ UNCHANGED <<disk, blinder, steward, basis>>

----------------------------------------------------------------------------
(* build-model-blinding                                                    *)

\* A digest that runs out of parts, or aliases that are not one to one, raise;
\* then the public manifest is written ...
WritePublic(key) ==
    /\ steward = None
    /\ \E alias \in Aliases(key, panel) :
          LET map == [key |-> key, alias |-> alias]
          IN  /\ OneToOne(map)
              /\ public' = map
              /\ steward' = [op |-> "build", map |-> map]
    /\ UNCHANGED <<panel, private, receipt, records, revealed, blinder, basis>>

\* ... and the restricted map.
WritePrivate ==
    /\ steward # None /\ steward.op = "build"
    /\ private' = steward.map
    /\ steward' = None
    /\ UNCHANGED <<panel, public, receipt, records, revealed, blinder, basis>>

----------------------------------------------------------------------------
(* blind-model-records                                                     *)

LoadToBlind ==
    /\ blinder = None /\ private # None
    /\ blinder' = private
    /\ UNCHANGED <<panel, disk, steward, basis>>

\* A record of a model that the map lacks raises, and nothing is written.
WriteBlinded ==
    /\ blinder # None
    /\ records' = IF Produced \subseteq DOMAIN blinder.alias
                  THEN [by |-> blinder, alias |-> [m \in Produced |-> blinder.alias[m]]]
                  ELSE records
    /\ blinder' = None
    /\ UNCHANGED <<panel, public, private, receipt, revealed, steward, basis>>

----------------------------------------------------------------------------
(* Authorisation                                                           *)

\* The end of authorize-model-unblinding-from-freezes, whose freezes are in
\* module StudyFreeze: the key has to be that of the map.
AuthoriseUnblinding(key) ==
    /\ steward = None
    /\ private # None /\ private.key = key
    /\ receipt' = [mapping |-> private, mac |-> key]
    /\ UNCHANGED <<panel, public, private, records, revealed, blinder, steward, basis>>

----------------------------------------------------------------------------
(* unblind-model-records                                                   *)

LoadToUnblind ==
    /\ steward = None /\ private # None
    /\ steward' = [op |-> "unblind", map |-> private]
    /\ UNCHANGED <<panel, disk, blinder, basis>>

\* Fault: any receipt under the key will do.
ApprovedForAny(map, key) == receipt # None /\ receipt.mac = key

\* verify_unblinding_authorization.
Approved(map, key) ==
    /\ receipt # None
    /\ receipt.mapping = map
    /\ receipt.mac = key

\* The reverse of the map.
ModelOf(map, alias) == CHOOSE m \in DOMAIN map.alias : map.alias[m] = alias

\* The receipt is verified, then every alias is looked up; one that the map
\* lacks raises, and nothing is written.
WriteUnblinded(key) ==
    /\ steward # None /\ steward.op = "unblind"
    /\ IF /\ records # None
          /\ Approved(steward.map, key)
          /\ OneToOne(steward.map)
          /\ \A m \in Produced : records.alias[m] \in AliasesOf(steward.map)
       THEN /\ revealed' = [m \in Produced |-> ModelOf(steward.map, records.alias[m])]
            /\ basis' = [blinded |-> records.by, restored |-> steward.map,
                         approved |-> receipt.mapping]
       ELSE UNCHANGED <<revealed, basis>>
    /\ steward' = None
    /\ UNCHANGED <<panel, public, private, receipt, records, blinder>>

----------------------------------------------------------------------------
\* A steward's command is interrupted between its reads and writes.
CommandEnds ==
    /\ steward # None
    /\ steward' = None
    /\ UNCHANGED <<panel, disk, blinder, basis>>

BlindingNext ==
    \/ \E key \in Keys : WritePublic(key) \/ AuthoriseUnblinding(key) \/ WriteUnblinded(key)
    \/ WritePrivate \/ LoadToUnblind \/ CommandEnds
    \/ LoadToBlind \/ WriteBlinded
    \/ ChangePanel

BlindingSpec == BlindingInit /\ [][BlindingNext]_blindingVars

----------------------------------------------------------------------------
(* Properties                                                              *)

IsMap(map) == map.key \in Keys /\ DOMAIN map.alias \in Panels

\* Every map on disk or in a command is of a nonempty panel and one key, and
\* records are restored to models that exist.
TypeOK ==
    /\ \A map \in {public, private, blinder} \ {None} : IsMap(map)
    /\ receipt # None => IsMap(receipt.mapping) /\ receipt.mac = receipt.mapping.key
    /\ revealed # None => revealed \in [Produced -> Models]

\* Records that were blinded with the approved mapping come back under the
\* models that produced them, whatever was rebuilt, replaced or authorised in
\* between.
RestoredAreOriginal ==
    revealed # None /\ basis.blinded = basis.approved
        => \A m \in Produced : revealed[m] = m

\* Even when a panel or a key was changed after the records were blinded, they
\* are restored to a wrong model only if two digests begin with the same part
\* (48 bits of the HMAC); otherwise the command refuses.
WrongOnlyByCollision ==
    revealed # None
        => \A m \in Produced : revealed[m] # m
              => Digest[basis.blinded.key][m][1]
                   = Digest[basis.restored.key][revealed[m]][1]

=============================================================================
