---------------------------- MODULE RankingCache ----------------------------
(***************************************************************************)
(* The lists of songs kept in Redis under keys that hold the version of the *)
(* catalogue: an answer kept whole, and the ranking of ids it is made from, *)
(* each built by one request while others wait.  A change of a song raises  *)
(* the version after its commit, or, in a transaction, before it.           *)
(***************************************************************************)
EXTENDS Naturals, FiniteSets

CONSTANTS
    Songs,
    Readers,     \* requests and refreshes under way at once
    MaxBegun,    \* requests and refreshes of a behaviour (a bound)
    MaxChanges,  \* changes of the catalogue (a bound)
    NoVersion,
    MaxFaults    \* waits given up, locks expired, versions expired or not raised (a bound)

VARIABLES
    view,        \* the list that is asked for
    published,   \* the songs committed as published
    writer,      \* the change under way
    version,     \* the catalogue's version in Redis, 0 if there is none
    cache,       \* level -> version -> {} or {the songs kept}
    building,    \* the locks [level, version] taken
    reader,      \* Readers -> the request under way
    announced,   \* songs whose last change was followed by a raise of the version
    slow,        \* a wait was given up or a lock has expired
    begun, changes, faults

vars == <<view, published, writer, version, cache, building, reader, announced, slow, begun, changes, faults>>

Levels == {"answer", "ranking"}
Versions == 0..MaxChanges

\* How each level is kept: not at all, built by all who miss it, or by one that claims it.
\* A chart ranks every song; its rows are filtered when they are read.
View == [answer : {"none", "kept", "claimed"}, ranking : {"kept", "claimed"}, ranks : {"published", "all"}]
GuestHome == [answer |-> "claimed", ranking |-> "claimed", ranks |-> "published"]
GuestTrending == [answer |-> "claimed", ranking |-> "kept", ranks |-> "published"]
SedaBoxPreview == [answer |-> "kept", ranking |-> "claimed", ranks |-> "published"]
RecentPlays == [answer |-> "none", ranking |-> "claimed", ranks |-> "published"]
Recipes == RecentPlays
CandidatePool == RecentPlays
RankedIds == RecentPlays
SimilarSongs == RecentPlays
SimilarArtists == RecentPlays
Chart == [RecentPlays EXCEPT !.ranks = "all"]
Search == RecentPlays
Discoveries == [answer |-> "none", ranking |-> "kept", ranks |-> "published"]
Trending == Discoveries
Views == {GuestHome, GuestTrending, SedaBoxPreview, RecentPlays, Recipes, CandidatePool, RankedIds,
          SimilarSongs, SimilarArtists, Chart, Search, Discoveries, Trending}

\* key: the version each level was asked under; mine: the levels it has claimed;
\* steady: the songs announced when it began that have not changed since, nor an old version come again.
Reader == [pc : {"idle", "get", "claim", "wait", "build", "store", "hydrate", "answer"}, level : Levels,
           key : [Levels -> Versions \cup {NoVersion}], mine : SUBSET Levels, got : SUBSET Songs, steady : SUBSET Songs,
           forced : BOOLEAN]
Idle == [pc |-> "idle", level |-> "answer", key |-> [l \in Levels |-> NoVersion], mine |-> {}, got |-> {},
         steady |-> {}, forced |-> FALSE]
Writer == [pc : {"idle", "saved", "bumped"}, songs : SUBSET Songs]

At(q, pc) == reader[q].pc = pc
Level(q) == reader[q].level
Key(q) == reader[q].key[Level(q)]
Go(q, r) == reader' = [reader EXCEPT ![q] = r]
SameCatalogue == UNCHANGED <<view, published, writer, version, announced, changes>>

-----------------------------------------------------------------------------
(* The catalogue.                                                             *)
Toggled(s) == IF s \in published THEN published \ {s} ELSE published \cup {s}

\* The requests under way are promised nothing about these songs any more.
Unsettle(songs) == reader' = [q \in Readers |-> [reader[q] EXCEPT !.steady = @ \ songs]]

Changed(s) ==
    /\ published' = Toggled(s)
    /\ announced' = announced \ {s}
    /\ Unsettle({s})

\* cache_increment: a key that is not there is added first.
NextVersion == version + 1
\* Nothing older is kept, or being built, under the next version.
FreshVersion ==
    /\ \A l \in Levels : cache[l][NextVersion] = {}
    /\ \A q \in Readers, l \in Levels : ~At(q, "idle") => reader[q].key[l] # NextVersion
Bump ==
    /\ version' = NextVersion
    /\ announced' = IF FreshVersion THEN Songs ELSE {}
    /\ Unsettle(IF FreshVersion THEN {} ELSE Songs)

\* A row saved by itself is committed when the receiver runs.
Save(s) ==
    /\ writer.pc = "idle" /\ changes < MaxChanges
    /\ Changed(s)
    /\ writer' = [pc |-> "saved", songs |-> {s}] /\ changes' = changes + 1
    /\ UNCHANGED <<begun, view, version, cache, building, slow, faults>>

SavedBump ==
    /\ writer.pc = "saved"
    /\ Bump
    /\ writer' = [pc |-> "idle", songs |-> {}]
    /\ UNCHANGED <<begun, view, published, cache, building, changes, slow, faults>>

\* Redis is away, or the process stops.
LoseBump ==
    /\ writer.pc = "saved" /\ faults < MaxFaults
    /\ faults' = faults + 1
    /\ writer' = [pc |-> "idle", songs |-> {}]
    /\ UNCHANGED <<begun, view, published, version, cache, building, reader, announced, changes, slow>>

\* In a transaction the receiver runs before the commit.
EarlyBump(s) ==
    /\ writer.pc = "idle" /\ changes < MaxChanges
    /\ Bump
    /\ writer' = [pc |-> "bumped", songs |-> {s}] /\ changes' = changes + 1
    /\ UNCHANGED <<begun, view, published, cache, building, slow, faults>>

Commit ==
    /\ writer.pc = "bumped"
    /\ \E s \in writer.songs : Changed(s)
    /\ writer' = [pc |-> "idle", songs |-> {}]
    /\ UNCHANGED <<begun, view, version, cache, building, changes, slow, faults>>

Rollback ==
    /\ writer.pc = "bumped"
    /\ writer' = [pc |-> "idle", songs |-> {}]
    /\ UNCHANGED <<begun, view, published, version, cache, building, reader, announced, changes, slow, faults>>

\* Seven days after it was added; what was kept under no version is long gone.
VersionExpires ==
    /\ version > 0 /\ faults < MaxFaults
    /\ \A q \in Readers, l \in Levels : ~At(q, "idle") => reader[q].key[l] # 0
    /\ version' = 0 /\ faults' = faults + 1
    /\ cache' = [l \in Levels |-> [cache[l] EXCEPT ![0] = {}]]
    /\ UNCHANGED <<begun, view, published, writer, building, reader, announced, changes, slow>>

-----------------------------------------------------------------------------
(* A request.                                                                 *)
Begin(q) ==
    LET level == IF view.answer # "none" THEN "answer" ELSE "ranking" IN
    /\ At(q, "idle") /\ begun < MaxBegun
    /\ begun' = begun + 1
    /\ Go(q, [Idle EXCEPT !.pc = "get", !.level = level, !.key[level] = version, !.steady = announced])
    /\ SameCatalogue /\ UNCHANGED <<cache, building, slow, faults>>

\* The ranking worker builds without looking, and answers nobody.
Refresh(q) ==
    /\ At(q, "idle") /\ begun < MaxBegun /\ view.ranking = "kept"
    /\ begun' = begun + 1
    /\ Go(q, [Idle EXCEPT !.pc = "build", !.level = "ranking", !.key.ranking = version, !.forced = TRUE])
    /\ SameCatalogue /\ UNCHANGED <<cache, building, slow, faults>>

\* What is kept: a whole answer, or ids whose rows are read again.
Found(q, songs) ==
    [reader[q] EXCEPT !.pc = IF Level(q) = "answer" THEN "answer" ELSE "hydrate", !.got = songs,
                      !.key[Level(q)] = NoVersion]

Hit(q) ==
    /\ At(q, "get") \/ At(q, "wait")
    /\ \E songs \in cache[Level(q)][Key(q)] : Go(q, Found(q, songs))
    /\ SameCatalogue /\ UNCHANGED <<begun, cache, building, slow, faults>>

\* Also of what has expired.
Miss(q) ==
    /\ At(q, "get")
    /\ Go(q, [reader[q] EXCEPT !.pc = IF view[Level(q)] = "claimed" THEN "claim" ELSE "build"])
    /\ cache' = [cache EXCEPT ![Level(q)][Key(q)] = {}]
    /\ SameCatalogue /\ UNCHANGED <<begun, building, slow, faults>>

Free(q) == <<Level(q), Key(q)>> \notin building

Claim(q) ==
    /\ At(q, "claim")
    /\ IF Free(q)
       THEN /\ building' = building \cup {<<Level(q), Key(q)>>}
            /\ Go(q, [reader[q] EXCEPT !.pc = "build", !.mine = @ \cup {Level(q)}])
       ELSE Go(q, [reader[q] EXCEPT !.pc = "wait"]) /\ UNCHANGED building
    /\ SameCatalogue /\ UNCHANGED <<begun, cache, slow, faults>>

GiveUp(q) ==
    /\ At(q, "wait") /\ faults < MaxFaults
    /\ Go(q, [reader[q] EXCEPT !.pc = "build"])
    /\ slow' = TRUE /\ faults' = faults + 1
    /\ SameCatalogue /\ UNCHANGED <<begun, cache, building>>

\* An answer is built from a ranking, whose key has the version of this moment.
BuildAnswer(q) ==
    /\ At(q, "build") /\ Level(q) = "answer"
    /\ Go(q, [reader[q] EXCEPT !.pc = "get", !.level = "ranking", !.key.ranking = version])
    /\ SameCatalogue /\ UNCHANGED <<begun, cache, building, slow, faults>>

Build(q) ==
    /\ At(q, "build") /\ Level(q) = "ranking"
    /\ Go(q, [reader[q] EXCEPT !.pc = "store", !.got = IF view.ranks = "all" THEN Songs ELSE published])
    /\ SameCatalogue /\ UNCHANGED <<begun, cache, building, slow, faults>>

\* Mutant: the key has the version of the moment of the store.
StoredUnderNow(q) == version
StoredUnder(q) == Key(q)

AfterStore(q) ==
    IF reader[q].forced THEN Idle
    ELSE [Found(q, reader[q].got) EXCEPT !.mine = @ \ {Level(q)}]

\* cache_set deletes the lock of the key, whoever holds it.
Store(q) ==
    /\ At(q, "store")
    /\ cache' = [cache EXCEPT ![Level(q)][StoredUnder(q)] = {reader[q].got}]
    /\ building' = building \ {<<Level(q), StoredUnder(q)>>}
    /\ Go(q, AfterStore(q))
    /\ SameCatalogue /\ UNCHANGED <<begun, slow, faults>>

\* Songs that are not published any more are left out.
Hydrated(q) == reader[q].got \cap published

HydrateAnswer(q) ==
    /\ At(q, "hydrate") /\ view.answer # "none"
    /\ Go(q, [reader[q] EXCEPT !.pc = "store", !.level = "answer", !.got = Hydrated(q)])
    /\ SameCatalogue /\ UNCHANGED <<begun, cache, building, slow, faults>>

Shown(q) == IF At(q, "answer") THEN reader[q].got ELSE Hydrated(q)
Answers(q) == At(q, "answer") \/ (At(q, "hydrate") /\ view.answer = "none")

Answer(q) ==
    /\ Answers(q)
    /\ Go(q, Idle)
    /\ SameCatalogue /\ UNCHANGED <<begun, cache, building, slow, faults>>

LockExpires ==
    /\ faults < MaxFaults
    /\ \E lock \in building : building' = building \ {lock}
    /\ slow' = TRUE /\ faults' = faults + 1
    /\ SameCatalogue /\ UNCHANGED <<begun, cache, reader>>

-----------------------------------------------------------------------------
Init ==
    /\ view \in Views
    /\ published \in SUBSET Songs
    /\ writer = [pc |-> "idle", songs |-> {}]
    /\ version = 0
    /\ cache = [l \in Levels |-> [v \in Versions |-> {}]]
    /\ building = {}
    /\ reader = [q \in Readers |-> Idle]
    /\ announced = Songs
    /\ begun = 0 /\ changes = 0 /\ slow = FALSE /\ faults = 0

Next ==
    \/ \E s \in Songs : Save(s) \/ EarlyBump(s)
    \/ SavedBump \/ LoseBump \/ Commit \/ Rollback \/ VersionExpires \/ LockExpires
    \/ \E q \in Readers :
        \/ Begin(q) \/ Refresh(q) \/ Hit(q) \/ Miss(q) \/ Claim(q) \/ GiveUp(q)
        \/ BuildAnswer(q) \/ Build(q) \/ Store(q) \/ HydrateAnswer(q) \/ Answer(q)

Spec == Init /\ [][Next]_vars

-----------------------------------------------------------------------------
(* Every variable keeps its type. *)
TypeOK ==
    /\ view \in View
    /\ published \subseteq Songs /\ announced \subseteq Songs
    /\ writer \in Writer
    /\ version \in Versions
    /\ cache \in [Levels -> [Versions -> SUBSET SUBSET Songs]]
    /\ building \subseteq Levels \X Versions
    /\ reader \in [Readers -> Reader]
    /\ begun \in 0..MaxBegun /\ changes \in 0..MaxChanges /\ faults \in 0..MaxFaults /\ slow \in BOOLEAN

(* An answer, kept, nested or built, shows a song just as the catalogue has it *)
(* if its last change was announced by a new version before the request began *)
(* and neither has it changed since nor an old version come again, after the   *)
(* key expired (signals.py:853 keep cached rankings fresh).                     *)
AnswerCurrent ==
    \A q \in Readers : Answers(q) => \A s \in reader[q].steady : s \in Shown(q) <=> s \in published

(* While no wait was given up and no lock has expired, no two requests build   *)
(* the same entry (views.py:5796 one heavy ranking query per Daphne worker).    *)
OneBuilds ==
    ~slow => \A q, r \in Readers, l \in Levels :
        l \in reader[q].mine \cap reader[r].mine /\ reader[q].key[l] = reader[r].key[l] => q = r
=============================================================================
