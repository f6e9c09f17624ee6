------------------------------- MODULE Albums -------------------------------
(***************************************************************************)
(* The albums of an artist and the recordings assigned to them.  Albums are *)
(* made and edited in several steps with uploads between a check and a     *)
(* write; removals lock the album's row, which additions wait for.         *)
(***************************************************************************)
EXTENDS FiniteSets, Naturals

CONSTANTS
    Collections,   \* albums there can be (a bound)
    Recordings,    \* rows of songs there can be (a bound)
    Requests,      \* requests under way at once
    NoAlbum,
    MaxBegun       \* requests of a behaviour (a bound)

VARIABLES
    exists,    \* the albums there are
    song,      \* Recordings -> row
    request,   \* Requests -> the request under way
    hollow,    \* albums made, edited or left empty other than by a removal
    begun

vars == <<exists, song, request, hollow, begun>>

Row == [album : Collections \cup {NoAlbum}, status : {"none", "active", "deleted"}]
NoRow == [album |-> NoAlbum, status |-> "none"]

Steps == {"idle", "create", "assign", "songs", "update", "add", "delete_song", "admin_remove"}
Request ==
    [pc : Steps, album : Collections \cup {NoAlbum}, songs : SUBSET Recordings, replaces : BOOLEAN,
     seen : {"none", "active", "deleted"}]
Idle == [pc |-> "idle", album |-> NoAlbum, songs |-> {}, replaces |-> FALSE, seen |-> "none"]

At(q, pc) == request[q].pc = pc
Go(q, r) == request' = [request EXCEPT ![q] = r]
Begin(q, pc, a, S, replaces) ==
    /\ At(q, "idle") /\ begun < MaxBegun
    /\ begun' = begun + 1
    /\ Go(q, [pc |-> pc, album |-> a, songs |-> S, replaces |-> replaces, seen |-> "none"])
    /\ UNCHANGED <<exists, song, hollow>>

Of(a, rows) == {s \in Recordings : rows[s].album = a}
Active(a, rows) == {s \in Of(a, rows) : rows[s].status = "active"}
Available(a) == {s \in Recordings : song[s].status = "active" /\ song[s].album \in {NoAlbum, a}}

\* _album_is_deleted: all its songs are.
IsDeleted(a) == Of(a, song) # {} /\ Active(a, song) = {}

Moved(S, a) == [s \in Recordings |-> IF s \in S THEN [song[s] EXCEPT !.album = a] ELSE song[s]]

\* Those that have no song at all.
Emptied(rows, albums) == {a \in albums : Of(a, rows) = {}}

-----------------------------------------------------------------------------
(* A new album: checked, saved, then its songs.                               *)
Create(q, a, S) ==
    /\ a \notin exists /\ \A r \in Requests : request[r].album # a
    /\ S \subseteq Available(NoAlbum)
    /\ Begin(q, "create", a, S, FALSE)

SaveAlbum(q) ==
    /\ At(q, "create")
    /\ exists' = exists \cup {request[q].album}
    /\ hollow' = hollow \cup {request[q].album}
    /\ Go(q, [request[q] EXCEPT !.pc = "assign"])
    /\ UNCHANGED <<song, begun>>

\* The condition of the UPDATE is looked at again when it runs.
Takes(S, a) == {s \in S : song[s].status # "none" /\ song[s].album \in {NoAlbum, a}}

\* A song that is assigned to an album that is gone breaks a foreign key.
Assign(q) ==
    LET a == request[q].album
        taken == Takes(request[q].songs, a) IN
    /\ At(q, "assign")
    /\ IF a \in exists \/ taken = {}
       THEN /\ song' = Moved(taken, a)
            /\ hollow' = IF taken = {} THEN hollow ELSE hollow \ {a}
            /\ Go(q, [request[q] EXCEPT !.pc = "songs", !.songs = {}])
       ELSE UNCHANGED <<song, hollow>> /\ Go(q, Idle)
    /\ UNCHANGED <<exists, begun>>

\* A recording uploaded with the album; one that is not valid is passed over.
NewSong(q, s) ==
    /\ At(q, "songs") /\ song[s] = NoRow /\ request[q].album \in exists
    /\ song' = [song EXCEPT ![s] = [album |-> request[q].album, status |-> "active"]]
    /\ hollow' = hollow \ {request[q].album}
    /\ UNCHANGED <<exists, request, begun>>

\* All are saved, or an upload fails and the album stays as it is.
EndCreate(q) ==
    /\ At(q, "songs")
    /\ Go(q, Idle)
    /\ UNCHANGED <<exists, song, hollow, begun>>

-----------------------------------------------------------------------------
(* An edit: its songs may be replaced.                                        *)
BeginUpdate(q, a, S, replaces) ==
    /\ a \in exists /\ ~IsDeleted(a)
    /\ S \subseteq Available(a) /\ (~replaces => S = {})
    /\ Begin(q, "update", a, S, replaces)

\* One transaction; an album that was deleted meanwhile is inserted again.
Update(q) ==
    LET a == request[q].album
        S == request[q].songs
        taken == Takes(S, a)
        left == Active(a, song) \ S
        rows == IF request[q].replaces
                THEN [s \in Recordings |->
                        IF s \in left THEN [song[s] EXCEPT !.album = NoAlbum]
                        ELSE IF s \in taken THEN [song[s] EXCEPT !.album = a] ELSE song[s]]
                ELSE song IN
    /\ At(q, "update")
    /\ exists' = exists \cup {a}
    /\ song' = rows
    /\ hollow' = (hollow \ {a}) \cup Emptied(rows, {a})
    /\ Go(q, Idle)
    /\ UNCHANGED begun

-----------------------------------------------------------------------------
(* Assigning songs, and taking them away.                                     *)
BeginAdd(q, a, S) ==
    /\ a \in exists /\ ~IsDeleted(a) /\ S # {}
    /\ Begin(q, "add", a, S, FALSE)

Add(q) ==
    LET a == request[q].album
        taken == {s \in Takes(request[q].songs, a) : song[s].status = "active"} IN
    /\ At(q, "add")
    /\ IF a \in exists
       THEN song' = Moved(taken, a) /\ hollow' = IF taken = {} THEN hollow ELSE hollow \ {a}
       ELSE UNCHANGED <<song, hollow>>
    /\ Go(q, Idle)
    /\ UNCHANGED <<exists, begun>>

\* Mutant: an album that has lost its last song stays.
RemainsAlways(a, rows) == exists
\* Without an active song it goes, unless deleted ones keep it.
Remains(a, rows) == IF Of(a, rows) = {} THEN exists \ {a} ELSE exists

Remove(a, S) ==
    LET rows == Moved(S \cap Of(a, song), NoAlbum) IN
    /\ a \in exists /\ begun < MaxBegun
    /\ begun' = begun + 1
    /\ song' = rows
    /\ exists' = Remains(a, rows)
    /\ hollow' = hollow \cap exists'
    /\ UNCHANGED request

\* _delete_artist_song_locked: what was out or has plays is kept as deleted.
Deleted(s, kept) == IF kept \/ song[s].status = "deleted" THEN [song[s] EXCEPT !.status = "deleted"] ELSE NoRow

DeleteAlbum(a, kept) ==
    LET rows == [s \in Recordings |-> IF s \in Of(a, song) THEN Deleted(s, s \in kept) ELSE song[s]] IN
    /\ a \in exists /\ begun < MaxBegun
    /\ begun' = begun + 1
    /\ song' = rows
    /\ exists' = Remains(a, rows)
    /\ hollow' = hollow \cap exists'
    /\ UNCHANGED request

\* The song's album is read before it is locked.
BeginDeleteSong(q, s) ==
    /\ song[s].status # "none"
    /\ Begin(q, "delete_song", song[s].album, {s}, FALSE)

\* One album is looked at, the one that was read.
DeleteSong(q, s, kept) ==
    LET a == request[q].album
        rows == [song EXCEPT ![s] = Deleted(s, kept)] IN
    /\ At(q, "delete_song") /\ s \in request[q].songs
    /\ IF song[s].status = "none" THEN UNCHANGED <<exists, song, hollow>>
       ELSE /\ song' = rows
            /\ exists' = IF a \in exists THEN Remains(a, rows) ELSE exists
            /\ hollow' = (hollow \cup (IF song[s].album = a THEN {} ELSE Emptied(rows, {song[s].album}))) \cap exists'
    /\ Go(q, Idle)
    /\ UNCHANGED begun

\* An administrator's deletion, soft or hard, does not look at the album.
AdminDeleteSong(s, kept) ==
    LET rows == [song EXCEPT ![s] = Deleted(s, kept)] IN
    /\ song[s].status # "none" /\ begun < MaxBegun
    /\ begun' = begun + 1
    /\ song' = rows
    /\ hollow' = hollow \cup Emptied(rows, exists \cap {song[s].album})
    /\ UNCHANGED <<exists, request>>

-----------------------------------------------------------------------------
(* An administrator's edit and removals look at the album, or at one song.   *)
BeginAdminUpdate(q, a) == a \in exists /\ Begin(q, "update", a, {}, FALSE)

\* Hard: the album goes, its songs are singles.
AdminDeleteAlbum(a) ==
    /\ a \in exists /\ begun < MaxBegun
    /\ begun' = begun + 1
    /\ song' = Moved(Of(a, song), NoAlbum)
    /\ exists' = exists \ {a}
    /\ hollow' = hollow \ {a}
    /\ UNCHANGED request

\* Soft: the songs are deleted, the album stays.
AdminTakeDown(a) ==
    /\ a \in exists /\ begun < MaxBegun
    /\ begun' = begun + 1
    /\ song' = [s \in Recordings |-> IF s \in Of(a, song) THEN [song[s] EXCEPT !.status = "deleted"] ELSE song[s]]
    /\ UNCHANGED <<exists, request, hollow>>

\* The song is read with the album, then the whole row is saved without it.
BeginAdminRemove(q, s) ==
    /\ song[s].album # NoAlbum /\ At(q, "idle") /\ begun < MaxBegun
    /\ begun' = begun + 1
    /\ Go(q, [Idle EXCEPT !.pc = "admin_remove", !.songs = {s}, !.seen = song[s].status])
    /\ UNCHANGED <<exists, song, hollow>>

AdminRemove(q, s) ==
    LET rows == [song EXCEPT ![s] = [album |-> NoAlbum, status |-> request[q].seen]] IN
    /\ At(q, "admin_remove") /\ s \in request[q].songs
    /\ song' = rows
    /\ hollow' = hollow \cup Emptied(rows, exists \cap {song[s].album})
    /\ Go(q, Idle)
    /\ UNCHANGED <<exists, begun>>

-----------------------------------------------------------------------------
\* One album has some of the songs; the others are in none.
Init ==
    /\ exists \in {{a} : a \in Collections}
    /\ \E S \in SUBSET Recordings :
        /\ S # {}
        /\ \E a \in exists : song = [s \in Recordings |-> [album |-> IF s \in S THEN a ELSE NoAlbum, status |-> "active"]]
    /\ request = [q \in Requests |-> Idle]
    /\ hollow = {}
    /\ begun = 0

Next ==
    \/ \E q \in Requests :
        \/ SaveAlbum(q) \/ Assign(q) \/ EndCreate(q) \/ Update(q) \/ Add(q)
        \/ \E a \in Collections, S \in SUBSET Recordings :
            Create(q, a, S) \/ BeginAdd(q, a, S) \/ \E replaces \in BOOLEAN : BeginUpdate(q, a, S, replaces)
        \/ \E s \in Recordings :
            \/ NewSong(q, s) \/ BeginAdminRemove(q, s) \/ AdminRemove(q, s)
            \/ BeginDeleteSong(q, s) \/ \E kept \in BOOLEAN : DeleteSong(q, s, kept)
        \/ \E a \in Collections : BeginAdminUpdate(q, a)
    \/ \E a \in Collections : AdminDeleteAlbum(a) \/ AdminTakeDown(a)
    \/ \E a \in Collections, S \in SUBSET Recordings : Remove(a, S) \/ DeleteAlbum(a, S)
    \/ \E s \in Recordings : \E kept \in BOOLEAN : AdminDeleteSong(s, kept)

Spec == Init /\ [][Next]_vars

-----------------------------------------------------------------------------
(* Every variable keeps its type. *)
TypeOK ==
    /\ exists \subseteq Collections
    /\ song \in [Recordings -> Row]
    /\ request \in [Requests -> Request]
    /\ hollow \subseteq Collections
    /\ begun \in Nat

(* A song that is on an album is not put on another by a request that saw it  *)
(* on none (views.py:9053 existing_song_ids).                                 *)
NotTaken ==
    \A s \in Recordings : song[s].album # NoAlbum /\ song'[s].album # NoAlbum => song[s].album = song'[s].album
AlbumsKept == [][NotTaken]_vars

(* An album whose last song is removed or deleted is gone (views.py:9443); an  *)
(* empty one was made or edited so, or lost a song that had just been moved or  *)
(* that an administrator took off or deleted.                                   *)
EmptiedGone == \A a \in exists \ hollow : Of(a, song) # {}
=============================================================================
