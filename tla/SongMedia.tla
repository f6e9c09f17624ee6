------------------------------ MODULE SongMedia ------------------------------
(***************************************************************************)
(* The files of recordings in object storage (R2) and the rows that name   *)
(* them: uploads with an id that can be asked about and repeated, edits    *)
(* that replace a file and remove the old one, copies that share it, and    *)
(* deletions.  Files and rows change in separate steps, under no lock.     *)
(* One file stands for a recording's audio, conversion, preview and cover; *)
(* the names are those that one artist and title lead to.                  *)
(***************************************************************************)
EXTENDS Integers

CONSTANTS
    Songs,       \* rows there can be (a bound)
    Requests,    \* requests under way at once
    MaxNames,    \* names under which files are kept (a bound)
    MaxBegun,    \* requests of a behaviour (a bound)
    MaxStops     \* crashes, failed removals and expired states (a bound)

VARIABLES
    stored,    \* name -> the upload whose bytes the file has, or NoBytes
    song,      \* Songs -> row
    state,     \* what is kept of the upload id
    request,   \* Requests -> the request under way
    clash,     \* a name was given while another request knew it
    stale,     \* a row was saved with a name it had lost, or after its deletion
    lapsed,    \* the upload id was not, or not any more, claimed
    leaked,    \* a file was left behind
    begun, stops

vars == <<stored, song, state, request, clash, stale, lapsed, leaked, begun, stops>>

Names == 0..MaxNames - 1
NoName == -1
Uploads == 0..MaxBegun      \* 0: before
NoBytes == -1

\* meant: the upload the row is about; own: it was made under the upload id.
Row == [name : Names \cup {NoName}, meant : Uploads, own : BOOLEAN]
NoRow == [name |-> NoName, meant |-> 0, own |-> FALSE]
States == {"none", "processing", "failed", "done"}

Kinds == {"none", "upload", "create", "admin_create", "edit", "admin_edit", "copy", "delete"}
\* file: the name chosen; bytes: this upload; row: the row it is about, as it was read.
Request == [pc : {"idle", "claim", "name", "put", "save", "report", "check", "clean"}, kind : Kinds,
            of : SUBSET Songs, read : Row, file : Names \cup {NoName}, bytes : Uploads]
Idle == [pc |-> "idle", kind |-> "none", of |-> {}, read |-> NoRow, file |-> NoName, bytes |-> 0]

At(q, pc) == request[q].pc = pc
Is(q, kinds) == request[q].kind \in kinds
Go(q, r) == request' = [request EXCEPT ![q] = r]
Present(s) == song[s] # NoRow
Gone(s) == song[s] = NoRow
\* A new row's id is one that no request has read.
Unused(s) == Gone(s) /\ \A r \in Requests : s \notin request[r].of
Others(q) == {r \in Requests \ {q} : ~At(r, "idle")}

\* The names another request has chosen, has read, or is about to remove.
Known(q) == {request[r].file : r \in Others(q)} \cup {request[r].read.name : r \in Others(q)}

-----------------------------------------------------------------------------
(* The beginning of a request.                                                *)
Begins(q, kind, pc, S, row) ==
    /\ At(q, "idle") /\ begun < MaxBegun
    /\ begun' = begun + 1
    /\ Go(q, [pc |-> pc, kind |-> kind, of |-> S, read |-> row, file |-> NoName, bytes |-> begun + 1])
    /\ UNCHANGED <<stored, song, state, clash, stale, lapsed, leaked, stops>>

\* The songs that were made under the upload id.
Own == {s \in Songs : song[s].own}

\* What is told of it: it has failed if its song is gone.
Told == IF state = "done" /\ Own = {} THEN "failed" ELSE state

\* One that is processed is refused; one that is done answers the song it made.
MayUpload == state # "processing" /\ ~(state = "done" /\ Own # {})

Upload(q) == MayUpload /\ Begins(q, "upload", "claim", {}, NoRow)

\* The state was read before the request's fields were checked.
Claim(q) ==
    /\ At(q, "claim")
    /\ state' = "processing"
    /\ lapsed' = (lapsed \/ \E r \in Others(q) : Is(r, {"upload"}))
    /\ Go(q, [request[q] EXCEPT !.pc = "name"])
    /\ UNCHANGED <<begun, stored, song, clash, stale, leaked, stops>>

\* The old form and the panel's: no upload id.
Create(q) == Begins(q, "create", "name", {}, NoRow)
AdminCreate(q) == Begins(q, "admin_create", "name", {}, NoRow)

Edit(q, s) == Present(s) /\ Begins(q, "edit", "name", {s}, song[s])

\* With a new file or without.
AdminEdit(q, s) ==
    /\ Present(s)
    /\ \E pc \in {"name", "save"} : Begins(q, "admin_edit", pc, {s}, song[s])

\* duplicate_song: the copy names the same files.
Copy(q, s) == Present(s) /\ Begins(q, "copy", "save", {}, [song[s] EXCEPT !.own = FALSE])

\* A row without plays or releases that were out; of others only the status changes.
Delete(q, s) ==
    /\ Present(s) /\ At(q, "idle") /\ begun < MaxBegun
    /\ begun' = begun + 1
    /\ song' = [song EXCEPT ![s] = NoRow]
    /\ Go(q, [Idle EXCEPT !.pc = "check", !.kind = "delete", !.read = song[s]])
    /\ UNCHANGED <<stored, state, clash, stale, lapsed, leaked, stops>>

\* An administrator's leaves the files.
AdminDelete(s) ==
    /\ Present(s) /\ begun < MaxBegun
    /\ begun' = begun + 1
    /\ song' = [song EXCEPT ![s] = NoRow]
    /\ leaked' = TRUE
    /\ UNCHANGED <<stored, state, request, clash, stale, lapsed, stops>>

-----------------------------------------------------------------------------
(* upload_file_to_r2: the first name nothing is kept under, then the upload.  *)
Free(n) == stored[n] = NoBytes /\ \A m \in 0..n - 1 : stored[m] # NoBytes

Choose(q) ==
    /\ At(q, "name")
    /\ \E n \in Names :
        /\ Free(n)
        /\ Go(q, [request[q] EXCEPT !.pc = "put", !.file = n])
        /\ clash' = (clash \/ n \in Known(q))
    /\ UNCHANGED <<begun, stored, song, state, stale, lapsed, leaked, stops>>

Put(q) ==
    /\ At(q, "put")
    /\ stored' = [stored EXCEPT ![request[q].file] = request[q].bytes]
    /\ Go(q, [request[q] EXCEPT !.pc = "save"])
    /\ UNCHANGED <<begun, song, state, clash, stale, lapsed, leaked, stops>>

\* The artist's views remove what they uploaded.
CleansUp(q) == Is(q, {"upload", "edit"})

\* The upload fails, the row is refused, or it is gone.
Fail(q) ==
    /\ At(q, "put") \/ At(q, "save")
    /\ stored' = IF At(q, "save") /\ request[q].file # NoName /\ CleansUp(q)
                 THEN [stored EXCEPT ![request[q].file] = NoBytes] ELSE stored
    /\ leaked' = (leaked \/ ~Is(q, {"upload", "edit"}))
    /\ state' = IF Is(q, {"upload"}) THEN "failed" ELSE state
    /\ Go(q, Idle)
    /\ UNCHANGED <<begun, song, clash, stale, lapsed, stops>>

-----------------------------------------------------------------------------
(* The row.                                                                   *)
Uploaded(q) == [name |-> request[q].file, meant |-> request[q].bytes, own |-> Is(q, {"upload"})]

SaveNew(q, s) ==
    /\ At(q, "save") /\ Is(q, {"upload", "create", "admin_create"}) /\ Unused(s)
    /\ song' = [song EXCEPT ![s] = Uploaded(q)]
    /\ Go(q, IF Is(q, {"upload"}) THEN [Idle EXCEPT !.pc = "report", !.kind = "upload"] ELSE Idle)
    /\ UNCHANGED <<begun, stored, state, clash, stale, lapsed, leaked, stops>>

Report(q) ==
    /\ At(q, "report")
    /\ state' = "done"
    /\ Go(q, Idle)
    /\ UNCHANGED <<begun, stored, song, clash, stale, lapsed, leaked, stops>>

\* The row is locked; what it names by now may not be what was read.
SaveEdit(q, s) ==
    /\ At(q, "save") /\ Is(q, {"edit"}) /\ s \in request[q].of /\ Present(s)
    /\ song' = [song EXCEPT ![s] = [Uploaded(q) EXCEPT !.own = song[s].own]]
    /\ leaked' = (leaked \/ song[s].name # request[q].read.name)
    /\ Go(q, [Idle EXCEPT !.pc = "check", !.kind = "edit", !.read = request[q].read])
    /\ UNCHANGED <<begun, stored, state, clash, stale, lapsed, stops>>

\* The row has lost the file that was read.
Losing(q, s) == song[s].name # request[q].read.name

\* Every column as it was read; a row that is gone is inserted again.
SaveAdminEdit(q, s) ==
    LET row == IF request[q].file = NoName THEN request[q].read
               ELSE [Uploaded(q) EXCEPT !.own = request[q].read.own] IN
    /\ At(q, "save") /\ Is(q, {"admin_edit"}) /\ s \in request[q].of
    /\ song' = [song EXCEPT ![s] = row]
    /\ stale' = (stale \/ Gone(s) \/ (request[q].file = NoName /\ Losing(q, s)))
    /\ leaked' = (leaked \/ row.name # song[s].name)
    /\ Go(q, Idle)
    /\ UNCHANGED <<begun, stored, state, clash, lapsed, stops>>

\* No lock holds the row that was read.
SaveCopy(q, s) ==
    /\ At(q, "save") /\ Is(q, {"copy"}) /\ Unused(s)
    /\ song' = [song EXCEPT ![s] = request[q].read]
    /\ stale' = (stale \/ ~\E o \in Songs : song[o].name = request[q].read.name /\ song[o].meant = request[q].read.meant)
    /\ Go(q, Idle)
    /\ UNCHANGED <<begun, stored, state, clash, lapsed, leaked, stops>>

-----------------------------------------------------------------------------
(* _cleanup_unreferenced_song_media, after the commit.                        *)
\* Mutant: the file is removed without a look at the other rows.
UnreferencedAlways(n) == TRUE
Unreferenced(n) == \A s \in Songs : song[s].name # n

Check(q) ==
    /\ At(q, "check")
    /\ Go(q, IF Unreferenced(request[q].read.name) THEN [request[q] EXCEPT !.pc = "clean"] ELSE Idle)
    /\ UNCHANGED <<begun, stored, song, state, clash, stale, lapsed, leaked, stops>>

Clean(q) ==
    /\ At(q, "clean")
    /\ stored' = [stored EXCEPT ![request[q].read.name] = NoBytes]
    /\ Go(q, Idle)
    /\ UNCHANGED <<begun, song, state, clash, stale, lapsed, leaked, stops>>

\* The process stops, or a removal fails, which is only logged.
Stop(q) ==
    /\ ~At(q, "idle") /\ stops < MaxStops
    /\ stops' = stops + 1
    /\ leaked' = TRUE
    /\ Go(q, Idle)
    /\ UNCHANGED <<begun, stored, song, state, clash, stale, lapsed>>

\* An hour after it was written.
Expire ==
    /\ state # "none" /\ stops < MaxStops
    /\ stops' = stops + 1
    /\ state' = "none" /\ lapsed' = TRUE
    /\ UNCHANGED <<begun, stored, song, request, clash, stale, leaked>>

-----------------------------------------------------------------------------
Init ==
    /\ stored = [n \in Names |-> IF n = 0 THEN 0 ELSE NoBytes]
    /\ \E s \in Songs : song = [o \in Songs |-> IF o = s THEN [name |-> 0, meant |-> 0, own |-> FALSE] ELSE NoRow]
    /\ state = "none"
    /\ request = [q \in Requests |-> Idle]
    /\ clash = FALSE /\ stale = FALSE /\ lapsed = FALSE /\ leaked = FALSE
    /\ begun = 0 /\ stops = 0

Next ==
    \/ Expire \/ \E s \in Songs : AdminDelete(s)
    \/ \E q \in Requests :
        \/ Upload(q) \/ Claim(q) \/ Create(q) \/ AdminCreate(q) \/ Choose(q) \/ Put(q) \/ Fail(q) \/ Report(q)
        \/ Check(q) \/ Clean(q) \/ Stop(q)
        \/ \E s \in Songs :
            \/ Edit(q, s) \/ AdminEdit(q, s) \/ Copy(q, s) \/ Delete(q, s)
            \/ SaveNew(q, s) \/ SaveEdit(q, s) \/ SaveAdminEdit(q, s) \/ SaveCopy(q, s)

Spec == Init /\ [][Next]_vars

-----------------------------------------------------------------------------
(* Every variable keeps its type. *)
TypeOK ==
    /\ stored \in [Names -> Uploads \cup {NoBytes}]
    /\ song \in [Songs -> Row]
    /\ state \in States
    /\ request \in [Requests -> Request]
    /\ clash \in BOOLEAN /\ stale \in BOOLEAN /\ lapsed \in BOOLEAN /\ leaked \in BOOLEAN
    /\ begun \in 0..MaxBegun /\ stops \in 0..MaxStops

(* Unless one name was given twice, or a row was saved as it had once been,   *)
(* every row's file is there and holds what was uploaded for the    *)
(* row: no edit, deletion or failure removes a file a row names               *)
(* (views.py:501 _cleanup_unreferenced_song_media).                           *)
FilesKept ==
    ~clash /\ ~stale => \A s \in Songs : Present(s) => stored[song[s].name] = song[s].meant

(* Unless something stopped, or changed what an edit had read, what is stored *)
(* when nothing is under way is named by a row: failures remove their upload, *)
(* edits and deletions the file they replace (views.py:8841).                 *)
NothingLeft ==
    ~leaked /\ (\A q \in Requests : At(q, "idle")) =>
        \A n \in Names : stored[n] # NoBytes => ~Unreferenced(n)

(* A repeated upload makes no second song (views.py:8468), and what is told of *)
(* it is true: none was made if it failed (views.py:8263 recover an upload      *)
(* result), unless its state expired or two requests read it before either     *)
(* wrote it.                                                                    *)
OneSong ==
    ~lapsed /\ ~stale => (\A a, b \in Own : a = b) /\ (Told = "failed" => Own = {})
=============================================================================
