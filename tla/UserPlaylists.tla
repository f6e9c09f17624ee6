---------------------------- MODULE UserPlaylists ----------------------------
(***************************************************************************)
(* A playlist of a user: its songs are links, their order a list in the    *)
(* row that is read, changed and written back whole.  Older clients left   *)
(* cards in the list where there are ids now.  The user's requests         *)
(* overlap: add, remove, update, delete and show.                          *)
(***************************************************************************)
EXTENDS Integers, Sequences, FiniteSetsExt

CONSTANTS
    Songs,
    NoOrder,    \* an update that sends no order
    Requests,   \* requests under way at once
    MaxOrder,   \* entries of the stored order (a bound)
    MaxWrites   \* updates of a behaviour (a bound)

VARIABLES
    playlist,   \* the row [live, order], order a list of [song, form]
    members,    \* the songs linked
    request,    \* Requests -> the handler under way
    kept,       \* songs an addition linked or found, and no request takes out since
    writes

vars == <<playlist, members, request, kept, writes>>

Forms == {"id", "card"}
Entry == Songs \X Forms
Orders == UNION {[1..n -> Entry] : n \in 0..MaxOrder}
Id(s) == <<s, "id">>
NoSong == "none"
NoSongs == {"keep"}

Request ==
    [pc : {"idle", "check", "link", "order", "unlink", "validate", "save", "links", "set", "songs", "answer"},
     kind : {"none", "add", "remove", "update", "show"}, song : Songs \cup {NoSong},
     copy : Orders, wish : Orders \cup {NoOrder}, songs : (SUBSET Songs) \cup {NoSongs}, seen : SUBSET Songs]
Idle == [pc |-> "idle", kind |-> "none", song |-> NoSong, copy |-> <<>>, wish |-> NoOrder, songs |-> NoSongs, seen |-> {}]

At(q, pc) == request[q].pc = pc
Goto(q, pc) == request' = [request EXCEPT ![q].pc = pc]
End(q) == request' = [request EXCEPT ![q] = Idle]
\* Requests under way that may take song s out.
TakesOut(s) == {q \in Requests : \/ request[q].kind = "remove" /\ request[q].song = s
                                 \/ request[q].kind = "update" /\ request[q].songs # NoSongs}
Keep(q) == kept' = IF TakesOut(request[q].song) = {} THEN kept \cup {request[q].song} ELSE kept

\* A list built entry by entry from another one, first to last.
Folded(next(_, _), list) ==
    MapThenFoldSet(LAMBDA e, taken : next(taken, e), <<>>, LAMBDA n : list[n], Max, DOMAIN list)

\* normalize_user_playlist_order: ids, each once.
Ids(order) == [n \in DOMAIN order |-> order[n][1]]
NextId(ids, e) == IF e[1] \in Range(ids) THEN ids ELSE Append(ids, e[1])
NormalIds(order) == Folded(NextId, order)

\* What of a list is in S, in the order of the list.
NextOf(S, taken, e) == IF e \in S THEN Append(taken, e) ELSE taken
Only(S, list) == Folded(LAMBDA taken, e : NextOf(S, taken, e), list)

-----------------------------------------------------------------------------
(* UserPlaylistAddSongView *)
Start(q, kind, pc, song) ==
    /\ At(q, "idle") /\ playlist.live
    /\ request' = [request EXCEPT ![q] = [Idle EXCEPT !.pc = pc, !.kind = kind, !.song = song, !.copy = playlist.order]]

GetForAdd(q, s) ==
    /\ Start(q, "add", "check", s)
    /\ UNCHANGED <<playlist, members, kept, writes>>

CheckAdd(q) ==
    /\ At(q, "check")
    /\ IF request[q].song \in members THEN End(q) /\ Keep(q) ELSE Goto(q, "link") /\ UNCHANGED kept
    /\ UNCHANGED <<playlist, members, writes>>

\* The link fails when the row is gone.
Link(q) ==
    /\ At(q, "link")
    /\ IF playlist.live THEN members' = members \cup {request[q].song} /\ Goto(q, "order") /\ Keep(q)
                        ELSE UNCHANGED <<members, kept>> /\ End(q)
    /\ UNCHANGED <<playlist, writes>>

\* The list that was read is written back; a card is not taken for the id.
Without(order, entry) == Only(Entry \ {entry}, order)
AppendId(order, s) == IF Id(s) \in Range(order) THEN order ELSE Append(order, Id(s))
WriteBack(order) == playlist' = IF playlist.live THEN [playlist EXCEPT !.order = order] ELSE playlist

OrderAdded(q) ==
    /\ At(q, "order") /\ request[q].kind = "add"
    /\ LET order == AppendId(request[q].copy, request[q].song)
       IN  /\ Len(order) <= MaxOrder
           /\ IF order = request[q].copy THEN UNCHANGED playlist ELSE WriteBack(order)
    /\ End(q)
    /\ UNCHANGED <<members, kept, writes>>

(* UserPlaylistRemoveSongView *)
GetForRemove(q, s) ==
    /\ Start(q, "remove", "unlink", s)
    /\ kept' = kept \ {s}
    /\ UNCHANGED <<playlist, members, writes>>

Unlink(q) ==
    /\ At(q, "unlink")
    /\ members' = members \ {request[q].song}
    /\ Goto(q, "order")
    /\ UNCHANGED <<playlist, kept, writes>>

OrderRemoved(q) ==
    /\ At(q, "order") /\ request[q].kind = "remove"
    /\ IF Id(request[q].song) \in Range(request[q].copy)
       THEN WriteBack(Without(request[q].copy, Id(request[q].song))) ELSE UNCHANGED playlist
    /\ End(q)
    /\ UNCHANGED <<members, kept, writes>>

-----------------------------------------------------------------------------
(* UserPlaylistDetailView.put: the client may send an order, songs, or only   *)
(* other columns.  The order is checked against the songs, then the whole row *)
(* is saved as it was read, then the songs are replaced.                      *)
GetForUpdate(q, wish, songs) ==
    /\ At(q, "idle") /\ playlist.live /\ writes < MaxWrites
    /\ request' = [request EXCEPT ![q] = [Idle EXCEPT !.pc = "validate", !.kind = "update", !.copy = playlist.order,
                                              !.wish = wish, !.songs = songs]]
    /\ kept' = IF songs = NoSongs THEN kept ELSE {}
    /\ writes' = writes + 1
    /\ UNCHANGED <<playlist, members>>

Accepted(q) == request[q].wish = NoOrder \/ Range(NormalIds(request[q].wish)) \subseteq members

Validate(q) ==
    /\ At(q, "validate")
    /\ IF Accepted(q) THEN Goto(q, "save") ELSE End(q)
    /\ UNCHANGED <<playlist, members, kept, writes>>

\* Mutant: an update that names no songs replaces them by none.
SongsAlways(q) == "links"
ThenSongs(q) == IF request[q].songs = NoSongs THEN "idle" ELSE "links"
Saved(q) == IF request[q].wish = NoOrder THEN request[q].copy
            ELSE LET ids == NormalIds(request[q].wish) IN [n \in DOMAIN ids |-> Id(ids[n])]

\* A row that is gone is inserted again.
Save(q) ==
    /\ At(q, "save")
    /\ playlist' = [live |-> TRUE, order |-> Saved(q)]
    /\ IF ThenSongs(q) = "idle" THEN End(q) ELSE Goto(q, "links")
    /\ UNCHANGED <<members, kept, writes>>

\* songs.set: what is linked is read, then the difference is written.
NewSongs(q) == IF request[q].songs = NoSongs THEN {} ELSE request[q].songs

ReadLinks(q) ==
    /\ At(q, "links")
    /\ request' = [request EXCEPT ![q].pc = "set", ![q].seen = members]
    /\ UNCHANGED <<playlist, members, kept, writes>>

SetSongs(q) ==
    /\ At(q, "set")
    /\ members' = IF playlist.live THEN (members \ (request[q].seen \ NewSongs(q))) \cup (NewSongs(q) \ request[q].seen)
                  ELSE members
    /\ End(q)
    /\ UNCHANGED <<playlist, kept, writes>>

(* UserPlaylistDetailView.delete: the row and its links. *)
Delete ==
    /\ playlist.live
    /\ playlist' = [live |-> FALSE, order |-> <<>>]
    /\ members' = {} /\ kept' = {}
    /\ UNCHANGED <<request, writes>>

-----------------------------------------------------------------------------
(* A playlist is shown from the row and, one query later, its songs.          *)
GetForShow(q) ==
    /\ Start(q, "show", "songs", NoSong)
    /\ UNCHANGED <<playlist, members, kept, writes>>

ReadSongs(q) ==
    /\ At(q, "songs")
    /\ request' = [request EXCEPT ![q].pc = "answer", ![q].seen = members]
    /\ UNCHANGED <<playlist, members, kept, writes>>

Answer(q) ==
    /\ At(q, "answer")
    /\ End(q)
    /\ UNCHANGED <<playlist, members, kept, writes>>

\* The rows of a query that states no order.
Rows(S) == CHOOSE rows \in [1..Cardinality(S) -> S] : IsInjective(rows)
Rest(q, listed) == Rows(request[q].seen \ Range(listed))
Shown(q) ==
    LET listed == Only(request[q].seen, NormalIds(request[q].copy))
    IN  listed \o Rest(q, listed)

-----------------------------------------------------------------------------
\* A new playlist may have a first song, and an order that names any songs.
Init ==
    /\ playlist \in [live : {TRUE}, order : {<<>>} \cup {<<e>> : e \in Entry}]
    /\ members \in {{}} \cup {{s} : s \in Songs}
    /\ request = [q \in Requests |-> Idle]
    /\ kept = {} /\ writes = 0

Wishes == {NoOrder} \cup {<<Id(s)>> : s \in Songs}
          \cup {<<<<s, f>>, Id(t)>> : s \in Songs, t \in Songs, f \in Forms}

Next ==
    \/ \E q \in Requests :
        \/ \E s \in Songs : GetForAdd(q, s) \/ GetForRemove(q, s)
        \/ \E wish \in Wishes, songs \in (SUBSET Songs) \cup {NoSongs} : GetForUpdate(q, wish, songs)
        \/ CheckAdd(q) \/ Link(q) \/ OrderAdded(q) \/ Unlink(q) \/ OrderRemoved(q)
        \/ Validate(q) \/ Save(q) \/ ReadLinks(q) \/ SetSongs(q)
        \/ GetForShow(q) \/ ReadSongs(q) \/ Answer(q)
    \/ Delete

Spec == Init /\ [][Next]_vars

-----------------------------------------------------------------------------
(* Every variable keeps its type. *)
TypeOK ==
    /\ playlist \in [live : BOOLEAN, order : Orders]
    /\ members \subseteq Songs
    /\ request \in [Requests -> Request]
    /\ kept \subseteq Songs
    /\ writes \in 0..MaxWrites

(* What is shown is every song that is linked, once, the songs of the list     *)
(* first and in its order (serializers.py:2336), whatever overlapping writes   *)
(* and older clients left in the list.                                        *)
Listed(q, s) == s \in Range(Ids(request[q].copy))
First(order, s) == CHOOSE n \in DOMAIN order : order[n][1] = s /\ \A k \in 1..(n - 1) : order[k][1] # s
FirstIn(q, s) == First(request[q].copy, s)

ShownWhole ==
    \A q \in Requests : At(q, "answer") =>
        /\ Range(Shown(q)) = request[q].seen /\ Len(Shown(q)) = Cardinality(request[q].seen)
        /\ \A m, n \in DOMAIN Shown(q) : m < n /\ Listed(q, Shown(q)[n]) =>
               Listed(q, Shown(q)[m]) /\ FirstIn(q, Shown(q)[m]) < FirstIn(q, Shown(q)[n])

(* A song that was added stays in the playlist until a request takes it out    *)
(* (views.py:4352): overlapping writes may lose its place in the list but not  *)
(* the song, nor does an update saved from an older copy.                     *)
AddedStays == kept \subseteq members
=============================================================================
