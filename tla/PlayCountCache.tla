--------------------------- MODULE PlayCountCache ---------------------------
(***************************************************************************)
(* The Redis mirror of the number of plays of each song.  PostgreSQL owns  *)
(* the PlayCount rows; Redis keeps, under a namespace, the counts readers  *)
(* have warmed, and the largest play id it knows of.  A play is counted in *)
(* Redis after its transaction commits, a deletion moves the namespace on, *)
(* and a reader that finds PostgreSQL ahead moves it on too.               *)
(*                                                                         *)
(* Each Lua script is one atomic step.  Everything between two scripts,    *)
(* and between a script and a query, interleaves.  A namespace of 0 is a   *)
(* missing key.                                                            *)
(***************************************************************************)
EXTENDS Naturals, FiniteSets

CONSTANTS
    Songs,
    Readers,       \* reads in progress at once (a bound)
    Queries,       \* the sets of songs a reader may ask for
    NoCount,       \* a count key that does not exist
    MaxPlay,       \* last PlayCount id (a bound)
    MaxOpen,       \* play transactions open at once
    MaxNamespace,  \* last namespace (a bound)
    MaxCrashes,    \* Redis restarts (a bound)
    Outages        \* whether a call to Redis may fail

ASSUME QueryAssumption == Queries \subseteq (SUBSET Songs) \ {{}}
ASSUME BoundAssumption == {MaxPlay, MaxOpen, MaxNamespace, MaxCrashes} \subseteq Nat
ASSUME SongAssumption == Songs # {}
ASSUME CountAssumption == NoCount \notin Nat /\ Outages \in BOOLEAN

VARIABLES
    play,          \* 1..MaxPlay -> PlayCount row and the song it is linked to
    owed,          \* committed plays whose on_commit callback has not run
    resent,        \* those of them whose call timed out after it ran
    invalidation,  \* the on_commit callback of a deletion
    redis,         \* the keys of the mirror
    disk,          \* what the append-only file would restore
    reader,        \* Readers -> progress of get_tracked_song_play_counts
    crashes

vars == <<play, owed, resent, invalidation, redis, disk, reader, crashes>>

Ids == 1..MaxPlay
Namespaces == 1..MaxNamespace
Counts == Nat \cup {NoCount}

Mirror == [ns : 0..MaxNamespace, last : 0..MaxPlay, count : [Namespaces -> [Songs -> Counts]]]

Reader ==
    [pc : {"idle", "ensure", "mget", "count", "warm", "reply"}, ids : SUBSET Songs,
     ns : 0..MaxNamespace, last : 0..MaxPlay, counts : [Songs -> Counts],
     missing : SUBSET Songs, settled : SUBSET Ids]

Unknown == [s \in Songs |-> NoCount]
NoMirror == [ns |-> 0, last |-> 0, count |-> [n \in Namespaces |-> Unknown]]
Idle == [pc |-> "idle", ids |-> {}, ns |-> 0, last |-> 0, counts |-> Unknown,
         missing |-> {}, settled |-> {}]
Quiet == [pc |-> "idle", last |-> 0]

-----------------------------------------------------------------------------
Committed == {p \in Ids : play[p].life = "committed"}
PlaysOf(s) == {p \in Committed : play[p].song = s}
DbCount(s) == Cardinality(PlaysOf(s))

\* _latest_play_id: the largest committed primary key, 0 when there is none.
IsLatest(n) == n \in Committed \cup {0} /\ \A p \in Committed : p <= n

Named(r) == [r EXCEPT !.ns = IF @ = 0 THEN 1 ELSE @]

\* Moves the namespace on.  Keys of a namespace no reader is about to read can
\* never be read again: the model drops them at once, Redis when they expire.
Moved(r) ==
    LET held == {reader[q].ns : q \in {x \in Readers : reader[x].pc = "mget"}}
    IN  [ns |-> r.ns + 1, last |-> r.last,
         count |-> [n \in Namespaces |-> IF n \in held THEN r.count[n] ELSE Unknown]]

\* Mutant: the script remembers the id without moving the namespace on.
EnsureKept(r, latest) ==
    [Named(r) EXCEPT !.last = IF latest > @ THEN latest ELSE @]

\* _ENSURE_NAMESPACE_LUA
Ensure(r, latest) ==
    IF latest > r.last THEN [Moved(Named(r)) EXCEPT !.last = latest] ELSE Named(r)

Counted(r, s) ==
    [r EXCEPT !.count[r.ns][s] = IF @ = NoCount THEN NoCount ELSE @ + 1]

\* Mutant: a gap in the play ids goes unnoticed.
RecordNoGap(r, p, s) ==
    [Counted(Named(r), s) EXCEPT !.last = IF p > @ THEN p ELSE @]

\* Mutant: the next id expected is remembered, not the last one seen.
RecordNextId(r, p, s) ==
    [Counted(Named(r), s) EXCEPT !.last = IF p > @ THEN p + 1 ELSE @]

\* _RECORD_PLAY_LUA: a gap moves the namespace on, where the song has no key yet.
Record(r, p, s) ==
    LET named == IF p > r.last + 1 THEN Moved(Named(r)) ELSE Named(r)
    IN  [Counted(named, s) EXCEPT !.last = IF p > @ THEN p ELSE @]

\* _ROTATE_NAMESPACE_LUA: INCR of a missing key gives 1.
Rotate(r, latest) == [Moved(r) EXCEPT !.last = latest]

Coherent(r, ns, last) == Named(r).ns = ns /\ r.last = last

\* _SET_IF_COHERENT_LUA
Warmed(r, q) ==
    IF Coherent(r, q.ns, q.last)
    THEN [r EXCEPT !.count[q.ns] =
             [s \in Songs |-> IF s \in q.missing THEN q.counts[s] ELSE @[s]]]
    ELSE r

\* The model stops counting namespaces at MaxNamespace.
InBound(r) == r.ns <= MaxNamespace

Init ==
    /\ play = [p \in Ids |-> [life |-> "unborn", song |-> CHOOSE s \in Songs : TRUE]]
    /\ owed = {}
    /\ resent = {}
    /\ invalidation = Quiet
    /\ redis = NoMirror
    /\ disk = NoMirror
    /\ reader = [q \in Readers |-> Idle]
    /\ crashes = 0

-----------------------------------------------------------------------------
(* Plays and deletions in PostgreSQL                                       *)

Open == {p \in Ids : play[p].life = "open"}
Unborn == {p \in Ids : play[p].life = "unborn"}

\* PlayCount.objects.create and play_counts.add, inside transaction.atomic():
\* the sequence gives the next id, and nobody sees the row yet.
PlayInsert ==
    \E p \in Unborn, s \in Songs :
        /\ \A o \in Unborn : p <= o
        /\ Cardinality(Open) < MaxOpen
        /\ play' = [play EXCEPT ![p] = [life |-> "open", song |-> s]]
        /\ UNCHANGED <<owed, resent, invalidation, redis, disk, reader, crashes>>

PlayCommit ==
    \E p \in Open :
        /\ play' = [play EXCEPT ![p].life = "committed"]
        /\ owed' = owed \cup {p}
        /\ UNCHANGED <<resent, invalidation, redis, disk, reader, crashes>>

PlayRollback ==
    \E p \in Open :
        /\ play' = [play EXCEPT ![p].life = "gone"]
        /\ UNCHANGED <<owed, resent, invalidation, redis, disk, reader, crashes>>

\* A deleted account, or a deleted song, takes its PlayCount rows with it.
PlayDelete ==
    \E p \in Committed :
        /\ invalidation = Quiet
        /\ play' = [play EXCEPT ![p].life = "gone"]
        /\ invalidation' = [invalidation EXCEPT !.pc = "latest"]
        /\ UNCHANGED <<owed, resent, redis, disk, reader, crashes>>

-----------------------------------------------------------------------------
(* The on_commit callbacks                                                 *)

RecordPlay ==
    \E p \in owed :
        /\ InBound(Record(redis, p, play[p].song))
        /\ redis' = Record(redis, p, play[p].song)
        \* A call that timed out although it ran is sent once more (retry_on_timeout).
        /\ \/ owed' = owed \ {p} /\ resent' = resent \ {p}
           \/ Outages /\ p \notin resent /\ owed' = owed /\ resent' = resent \cup {p}
        /\ UNCHANGED <<play, invalidation, disk, reader, crashes>>

\* The exception is logged, or the process died after the commit.
RecordLost ==
    \E p \in owed :
        /\ Outages
        /\ owed' = owed \ {p}
        /\ resent' = resent \ {p}
        /\ UNCHANGED <<play, invalidation, redis, disk, reader, crashes>>

InvalidateRead ==
    /\ invalidation.pc = "latest"
    /\ \E n \in 0..MaxPlay : IsLatest(n) /\ invalidation' = [pc |-> "rotate", last |-> n]
    /\ UNCHANGED <<play, owed, resent, redis, disk, reader, crashes>>

InvalidateRotate ==
    /\ invalidation.pc = "rotate"
    /\ InBound(Rotate(redis, invalidation.last))
    /\ redis' = Rotate(redis, invalidation.last)
    /\ invalidation' = Quiet
    /\ UNCHANGED <<play, owed, resent, disk, reader, crashes>>

InvalidateLost ==
    /\ invalidation.pc # "idle"
    /\ Outages
    /\ invalidation' = Quiet
    /\ UNCHANGED <<play, owed, resent, redis, disk, reader, crashes>>

-----------------------------------------------------------------------------
(* get_tracked_song_play_counts                                            *)

Step(q, next) == reader' = [reader EXCEPT ![q] = next]

\* The latest id is read first; settled remembers, for the properties, the plays
\* that were committed when the read began.
ReadLatest(q) ==
    /\ reader[q] = Idle
    /\ \E ids \in Queries, n \in 0..MaxPlay :
        /\ IsLatest(n)
        /\ Step(q, [Idle EXCEPT !.pc = "ensure", !.ids = ids, !.last = n, !.missing = ids,
                                !.settled = Committed])
    /\ UNCHANGED <<play, owed, resent, invalidation, redis, disk, crashes>>

ReadEnsure(q) ==
    /\ reader[q].pc = "ensure"
    /\ InBound(Ensure(redis, reader[q].last))
    /\ redis' = Ensure(redis, reader[q].last)
    /\ Step(q, [reader[q] EXCEPT !.pc = "mget", !.ns = redis'.ns])
    /\ UNCHANGED <<play, owed, resent, invalidation, disk, crashes>>

ReadCached(q) ==
    LET cached == redis.count[reader[q].ns]
        missing == {s \in reader[q].ids : cached[s] = NoCount}
    IN  /\ reader[q].pc = "mget"
        /\ Step(q, [reader[q] EXCEPT
                      !.pc = IF missing = {} THEN "reply" ELSE "count",
                      !.missing = missing,
                      !.counts = [s \in Songs |-> IF s \in reader[q].ids THEN cached[s] ELSE NoCount]])
        /\ UNCHANGED <<play, owed, resent, invalidation, redis, disk, crashes>>

\* Redis is down: every song is counted in PostgreSQL and nothing is warmed.
ReadWithoutRedis(q) ==
    /\ Outages
    /\ reader[q].pc \in {"ensure", "mget"}
    /\ Step(q, [reader[q] EXCEPT !.pc = "count", !.ns = 0, !.missing = reader[q].ids])
    /\ UNCHANGED <<play, owed, resent, invalidation, redis, disk, crashes>>

ReadDatabase(q) ==
    /\ reader[q].pc = "count"
    /\ Step(q, [reader[q] EXCEPT
                  !.pc = IF reader[q].ns = 0 THEN "reply" ELSE "warm",
                  !.counts = [s \in Songs |-> IF s \in reader[q].missing THEN DbCount(s) ELSE @[s]]])
    /\ UNCHANGED <<play, owed, resent, invalidation, redis, disk, crashes>>

ReadWarm(q) ==
    /\ reader[q].pc = "warm"
    /\ redis' \in {Warmed(redis, reader[q])} \cup (IF Outages THEN {redis} ELSE {})
    /\ Step(q, [reader[q] EXCEPT !.pc = "reply"])
    /\ UNCHANGED <<play, owed, resent, invalidation, disk, crashes>>

ReadReply(q) ==
    /\ reader[q].pc = "reply"
    /\ Step(q, Idle)
    /\ UNCHANGED <<play, owed, resent, invalidation, redis, disk, crashes>>

-----------------------------------------------------------------------------
(* The Redis server                                                        *)

Expire ==
    \E n \in Namespaces, s \in Songs :
        /\ redis.count[n][s] # NoCount
        /\ redis' = [redis EXCEPT !.count[n][s] = NoCount]
        /\ UNCHANGED <<play, owed, resent, invalidation, disk, reader, crashes>>

\* --appendfsync everysec: what is written reaches the disk later, and a
\* restart goes back to what did.  Only in the first second of an installation
\* could it go back to nothing: the model leaves that restart out.
Fsync ==
    /\ crashes < MaxCrashes
    /\ disk # redis
    /\ disk' = redis
    /\ UNCHANGED <<play, owed, resent, invalidation, redis, reader, crashes>>

Crash ==
    /\ crashes < MaxCrashes
    /\ disk.ns # 0
    /\ redis' = disk
    /\ crashes' = crashes + 1
    /\ UNCHANGED <<play, owed, resent, invalidation, disk, reader>>

Next ==
    \/ PlayInsert \/ PlayCommit \/ PlayRollback \/ PlayDelete
    \/ RecordPlay \/ RecordLost
    \/ InvalidateRead \/ InvalidateRotate \/ InvalidateLost
    \/ \E q \in Readers :
        \/ ReadLatest(q) \/ ReadEnsure(q) \/ ReadCached(q) \/ ReadWithoutRedis(q)
        \/ ReadDatabase(q) \/ ReadWarm(q) \/ ReadReply(q)
    \/ Expire \/ Fsync \/ Crash

Spec == Init /\ [][Next]_vars

-----------------------------------------------------------------------------
TypeOK ==
    /\ play \in [Ids -> [life : {"unborn", "open", "committed", "gone"}, song : Songs]]
    /\ owed \in SUBSET Ids /\ resent \in SUBSET owed
    /\ invalidation \in [pc : {"idle", "latest", "rotate"}, last : 0..MaxPlay]
    /\ redis \in Mirror /\ disk \in Mirror
    /\ reader \in [Readers -> Reader]
    /\ crashes \in 0..MaxCrashes

\* The count the next reader would take from Redis without looking further.
Served(s) == IF redis.ns = 0 THEN NoCount ELSE redis.count[redis.ns][s]
Trusted == \A p \in Committed : p <= redis.last

\* A count Redis would be trusted for, when the last id it knows of is the latest
\* there is, leaves out no committed play: a call that is late or lost is noticed,
\* by the gap in the ids or by the latest id, before the count is used (the
\* comment in record_committed_song_play).
NoUndercount ==
    \A s \in Songs : Trusted /\ Served(s) # NoCount => Served(s) >= DbCount(s)

\* Of the same, once every callback has run: "Do not populate an old snapshot if
\* a play committed while the PostgreSQL count query was running" (the comment
\* at the warm-up in get_tracked_song_play_counts).
NoOldSnapshot == owed = {} => NoUndercount

\* A reader answers with every play that was committed when it began and still
\* exists: neither the cache nor a warm-up by another reader takes it back, as
\* long as Redis does not restart from an older file in the middle of the read.
AnswerFresh ==
    \A q \in Readers : reader[q].pc = "reply" /\ crashes = 0 =>
        \A s \in reader[q].ids :
            reader[q].counts[s] >= Cardinality(reader[q].settled \cap PlaysOf(s))
=============================================================================
