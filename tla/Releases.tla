------------------------------ MODULE Releases ------------------------------
(***************************************************************************)
(* The release workflow of one artist: workspaces (ArtistRelease rows) and *)
(* the recordings linked to them move through drafting, review, scheduling *)
(* and publication; the listeners read only the recordings' own status.    *)
(*                                                                         *)
(* Every handler runs in one transaction under its release's row lock, and *)
(* is one action here.  Three span transactions or read unlocked rows: the *)
(* addition of a recording, the artist's edit of a recording, which        *)
(* uploads files between its read and its commit, and the pass of the      *)
(* scheduler, which locks one release at a time.                           *)
(*                                                                         *)
(* Metadata is abstracted to broken: whether it names a genre, mood or tag *)
(* that no longer exists, which makes sync_release_tracks raise.  Albums,  *)
(* positions, covers and the optional lock_version are left out.           *)
(***************************************************************************)
EXTENDS Naturals, Sequences, FiniteSets

CONSTANTS
    Releases, Songs,   \* rows there can be (a bound)
    NoSong,
    MaxTime,           \* last instant (a bound)
    Limit,             \* releases a pass of the scheduler takes
    MaxBroken,         \* releases whose metadata may be broken at once (a bound)
    MaxLost,           \* passes of the scheduler that may be lost (a bound)
    MaxAdditions,      \* additions of a recording under way (a bound)
    MaxEdits           \* edits of a recording under way, at most one (a bound)

ASSUME BoundAssumption ==
    /\ MaxTime \in Nat /\ MaxBroken \in Nat /\ MaxLost \in Nat /\ MaxAdditions \in Nat /\ MaxEdits \in 0..1
    /\ Limit \in Nat \ {0}
ASSUME NoneAssumption == NoSong \notin Songs

VARIABLES
    release,   \* Releases -> ArtistRelease row
    song,      \* Songs -> status of the Song row
    tracks,    \* Releases -> the songs its ArtistReleaseTrack rows link
    broken,    \* releases whose metadata sync_release_tracks refuses
    adding,    \* Releases -> the addition that holds the release's lock
    editing,   \* the artist's edit of a recording that is uploading
    clock,
    pass,      \* the scheduler: releases still to publish, instant of the scan
    lost       \* passes lost so far

vars == <<release, song, tracks, broken, adding, editing, clock, pass, lost>>
catalogue == <<release, song, tracks>>
background == <<adding, editing, clock, pass, lost>>

Statuses == {"draft", "in_review", "changes_requested", "approved", "scheduled",
             "live", "rejected", "taken_down"}
Origins == {"none", "admin", "deletion"}    \* of a release taken down
Never == MaxTime + 1

\* at is the scheduled_at of a scheduled release, out that published_at is set.
Release == [status : Statuses \cup {"none"}, at : 0..Never, out : BOOLEAN, origin : Origins]

SongStatuses == {"none", "draft", "pending", "approved", "published", "rejected", "deleted"}

Addition == [song : Songs \cup {NoSong}, copies : BOOLEAN]
Edit == [song : Songs \cup {NoSong}, confirmed : BOOLEAN, reviewed : BOOLEAN]

Row(status, at, out, by) == [status |-> status, at |-> at, out |-> out, origin |-> by]
NewRelease == Row("draft", Never, FALSE, "none")
NoRelease == Row("none", Never, FALSE, "none")
NoAddition == [song |-> NoSong, copies |-> FALSE]
NoEdit == [song |-> NoSong, confirmed |-> FALSE, reviewed |-> FALSE]
Resting == [queue |-> <<>>, now |-> 0]

-----------------------------------------------------------------------------
Exists(r) == release[r].status # "none"
In(r, S) == release[r].status \in S
Present(s) == song[s] # "none"
Linked(s) == {r \in Releases : s \in tracks[r]}
Free(r) == adding[r] = NoAddition           \* no transaction holds its row
AllFree(R) == \A r \in R : Free(r)

\* Names of rows: an erased row's may be given again once no request knows it.
NewSongs == {s \in Songs : /\ ~Present(s) /\ editing.song # s
                           /\ \A r \in Releases : adding[r].song # s}
IsNew(r) == ~Exists(r) /\ \A i \in DOMAIN pass.queue : pass.queue[i] # r

Active(r, sg) == {s \in tracks[r] : sg[s] # "deleted"}

Labelled(S, to) == [s \in Songs |-> IF s \in S THEN to ELSE song[s]]
Relabelled(r, to) == Labelled(Active(r, song), to)

\* materialize_release publishes every linked recording, whatever its status.
Materialized(r) == Labelled(tracks[r], "published")

\* The row with another status; what it says of a schedule or of a take-down
\* is not read in another status, and left out.
WithStatus(r, to) == Row(to, Never, release[r].out, "none")
Scheduled(r, t) == Row("scheduled", t, release[r].out, "none")
Published(r) == Row("live", Never, TRUE, "none")
Down(r, by) == Row("taken_down", Never, release[r].out, by)

Write(r, row) == release' = [release EXCEPT ![r] = row]

\* validation_payload: tracks, none of them deleted, references that exist.
Valid(r) == tracks[r] # {} /\ Active(r, song) = tracks[r] /\ r \notin broken

\* mark_release_for_review spares a recording another live release shows.
SharedLive(r, s) ==
    song[s] = "published" /\ \E o \in Linked(s) \ {r} : In(o, {"live"})
Reviewed(r) == Labelled({s \in Active(r, song) : ~SharedLive(r, s)}, "pending")

MarkForReview(r) == Write(r, WithStatus(r, "in_review")) /\ song' = Reviewed(r)

\* release_removal_state: can_restore.  The notes of a deletion by the artist and
\* of one by an administrator both rule it out.
CanRestore(r) ==
    release[r].origin = "admin" /\ tracks[r] # {} /\ Active(r, song) = tracks[r]

-----------------------------------------------------------------------------
(* The artist's panel: workspaces. *)
Create(r) ==
    /\ IsNew(r)
    /\ Write(r, NewRelease)
    /\ UNCHANGED <<song, tracks, broken, background>>

Clone(source, r) ==
    /\ Exists(source) /\ IsNew(r)
    /\ \E S \in SUBSET NewSongs :
        /\ Cardinality(S) = Cardinality(tracks[source])
        /\ song' = Labelled(S, "draft")
        /\ tracks' = [tracks EXCEPT ![r] = S]
    /\ Write(r, NewRelease)
    /\ broken' = IF source \in broken THEN broken \cup {r} ELSE broken
    /\ UNCHANGED background

\* A content edit whose references exist mends the metadata.
Patch(r, editable, resubmitted) ==
    /\ Free(r) /\ In(r, editable)
    /\ song' = IF In(r, resubmitted) THEN Relabelled(r, "pending") ELSE song
    /\ broken' = broken \ {r}
    /\ UNCHANGED <<release, tracks, background>>

ArtistPatch(r) == Patch(r, {"draft", "in_review"}, {"in_review"})
AdminPatch(r) == Patch(r, {"draft", "in_review", "changes_requested", "approved"},
                       {"in_review", "changes_requested"})

\* reopen_for_edit, and the upload of a cover, both confirmed.
Reopen(r) ==
    /\ Free(r) /\ Exists(r) /\ ~In(r, {"draft", "in_review"})
    /\ MarkForReview(r)
    /\ UNCHANGED <<tracks, broken, background>>

Artwork(r) ==
    /\ Free(r) /\ Exists(r)
    /\ IF In(r, {"draft"}) THEN UNCHANGED <<release, song>>
       ELSE IF In(r, {"in_review"}) THEN song' = Relabelled(r, "pending") /\ UNCHANGED release
       ELSE /\ Write(r, WithStatus(r, "in_review"))
            /\ song' = Relabelled(r, "pending")
    /\ UNCHANGED <<tracks, broken, background>>

Submit(r) ==
    /\ Free(r) /\ In(r, {"draft"}) /\ Valid(r)
    /\ song' = Relabelled(r, "pending")
    /\ Write(r, WithStatus(r, "in_review"))
    /\ UNCHANGED <<tracks, broken, background>>

\* The release is kept, out of reach, when a recording has to be preserved;
\* accounted are the recordings with plays on record.
DeleteRelease(r, accounted) ==
    LET alone == {s \in tracks[r] : Linked(s) = {r}}
        kept == {s \in alone : \/ ~In(r, {"draft"})
                               \/ song[s] \in {"published", "deleted"}
                               \/ s \in accounted}
    IN /\ Free(r) /\ Exists(r)
       /\ song' = [s \in Songs |-> IF s \in kept THEN "deleted"
                                   ELSE IF s \in alone THEN "none" ELSE song[s]]
       /\ tracks' = [tracks EXCEPT ![r] = kept]
       /\ Write(r, IF kept = {} THEN NoRelease
                   ELSE IF In(r, {"taken_down"}) THEN release[r] ELSE Down(r, "deletion"))
       /\ broken' = IF kept = {} THEN broken \ {r} ELSE broken
       /\ UNCHANGED background

-----------------------------------------------------------------------------
(* The artist's panel: tracks.  An addition reads the recording, decides   *)
(* whether to link it or a copy of it, and links it, all under the lock of *)
(* its own release only.                                                   *)
Additions == {r \in Releases : ~Free(r)}

\* Mutant: a draft is taken as it is although another release links it.
NeedsCopyByStatus(r, s) == song[s] # "draft"

\* ensure_editable_song: only a draft that no other release links is taken as it is.
NeedsCopy(r, s) == song[s] # "draft" \/ Linked(s) \ {r} # {}

AddRead(r, s, statuses) ==
    /\ Cardinality(Additions) < MaxAdditions
    /\ Free(r) /\ In(r, statuses)
    /\ Present(s) /\ song[s] # "deleted" /\ s \notin tracks[r]
    /\ adding' = [adding EXCEPT ![r] = [song |-> s, copies |-> NeedsCopy(r, s)]]
    /\ UNCHANGED <<catalogue, broken, editing, clock, pass, lost>>

ArtistAdd(r, s) == AddRead(r, s, {"draft", "in_review"})
AdminAdd(r, s) == AddRead(r, s, {"draft"})

AddLink(r) ==
    LET s == adding[r].song
        label == IF In(r, {"in_review"}) THEN "pending" ELSE "draft"
    IN /\ ~Free(r) /\ Present(s) /\ r \notin broken
       /\ \/ /\ adding[r].copies
             /\ \E c \in NewSongs : /\ tracks' = [tracks EXCEPT ![r] = @ \cup {c}]
                                  /\ song' = Labelled({c}, label)
          \/ /\ ~adding[r].copies
             /\ tracks' = [tracks EXCEPT ![r] = @ \cup {s}]
             /\ song' = IF In(r, {"in_review"}) THEN Labelled({s}, "pending") ELSE song
       /\ adding' = [adding EXCEPT ![r] = NoAddition]
       /\ UNCHANGED <<release, broken, editing, clock, pass, lost>>

\* Metadata refused, a recording erased meanwhile, or the connection lost.
AddFail(r) ==
    /\ ~Free(r)
    /\ adding' = [adding EXCEPT ![r] = NoAddition]
    /\ UNCHANGED <<catalogue, broken, editing, clock, pass, lost>>

\* delete_empty_album applies to drafts of the album type: erased is free here.
RemoveTracks(r, S) ==
    LET left == tracks[r] \ S
        none == \A s \in left : song[s] = "deleted"
    IN /\ Free(r) /\ Exists(r)
       /\ song' = IF In(r, {"draft"})
                  THEN Labelled({s \in S : song[s] # "deleted" /\ Linked(s) = {r}}, "draft")
                  ELSE song
       /\ \/ /\ tracks' = [tracks EXCEPT ![r] = left]
             /\ Write(r, IF none /\ ~In(r, {"draft", "taken_down"}) THEN Down(r, "deletion")
                         ELSE release[r])
             /\ UNCHANGED broken
          \/ /\ none /\ In(r, {"draft"})
             /\ tracks' = [tracks EXCEPT ![r] = {}]
             /\ Write(r, NoRelease)
             /\ broken' = broken \ {r}
       /\ UNCHANGED background

AdminRemoveTracks(r, S) ==
    /\ Free(r) /\ In(r, {"draft"})
    /\ tracks' = [tracks EXCEPT ![r] = @ \ S]
    /\ UNCHANGED <<release, song, broken, background>>

UploadTrack(r) ==
    /\ Free(r) /\ In(r, {"draft"}) /\ r \notin broken
    /\ \E c \in NewSongs : /\ tracks' = [tracks EXCEPT ![r] = @ \cup {c}]
                         /\ song' = Labelled({c}, "draft")
    /\ UNCHANGED <<release, broken, background>>

-----------------------------------------------------------------------------
(* Recordings. *)
Upload(s, to) ==
    /\ s \in NewSongs
    /\ song' = Labelled({s}, to)
    /\ UNCHANGED <<release, tracks, broken, background>>

Emptied(R, tr, sg) ==
    {r \in R : \A t \in tr[r] : sg[t] = "deleted"}

ArtistDeleteSong(s, accounted) ==
    LET linked == Linked(s)
        drafts == {r \in linked : In(r, {"draft"})}
        keep == song[s] \in {"published", "deleted"} \/ accounted \/ linked # drafts
        sg == Labelled({s}, IF keep THEN "deleted" ELSE "none")
        tr == [r \in Releases |-> IF r \in drafts THEN tracks[r] \ {s} ELSE tracks[r]]
        empty == Emptied(linked, tr, sg)
    IN /\ Present(s) /\ AllFree(linked)
       /\ song' = sg
       /\ \E erased \in SUBSET (empty \cap drafts) :     \* empty drafts of the album type
           /\ tracks' = [r \in Releases |-> IF r \in erased THEN {} ELSE tr[r]]
           /\ release' = [r \in Releases |->
                 IF r \in erased THEN NoRelease
                 ELSE IF r \in empty /\ ~In(r, {"draft", "taken_down"}) THEN Down(r, "deletion")
                 ELSE release[r]]
           /\ broken' = broken \ erased
       /\ UNCHANGED background

AdminDeleteSong(s, hard) ==
    LET linked == Linked(s)
        sg == Labelled({s}, IF hard THEN "none" ELSE "deleted")
        tr == [r \in Releases |-> IF hard THEN tracks[r] \ {s} ELSE tracks[r]]
        empty == Emptied(linked, tr, sg)
    IN /\ Present(s) /\ AllFree(linked)
       /\ song' = sg
       /\ tracks' = tr
       /\ release' = [r \in Releases |->
             IF r \in empty /\ ~In(r, {"draft", "taken_down"}) THEN Down(r, "deletion")
             ELSE release[r]]
       /\ UNCHANGED <<broken, background>>

\* The edit reads the status, uploads the files, and decides with what it read.
Unreviewed == {"draft", "in_review"}
Approved(s) == song[s] \in {"approved", "published"}
AffectsReviewed(s) == \E r \in Linked(s) : ~In(r, Unreviewed)

EditStart(s, confirmed) ==
    /\ editing = NoEdit /\ MaxEdits > 0
    /\ Present(s) /\ song[s] # "deleted"
    /\ Approved(s) \/ AffectsReviewed(s) => confirmed
    /\ editing' = [song |-> s, confirmed |-> confirmed, reviewed |-> Approved(s)]
    /\ UNCHANGED <<catalogue, broken, adding, clock, pass, lost>>

EditCommit(to) ==
    LET s == editing.song
        linked == Linked(s)
        saved == Labelled({s}, to)
        spared(t) == saved[t] = "published"
                     /\ \E o \in Linked(t) \ linked : In(o, {"live"})
        again == {t \in Songs : /\ saved[t] # "deleted"
                                /\ \E r \in linked \cap Linked(t) :
                                     In(r, {"in_review"}) \/ ~(In(r, {"draft"}) \/ spared(t))}
    IN /\ editing # NoEdit /\ Present(s) /\ AllFree(linked)
       /\ editing.reviewed \/ AffectsReviewed(s) => editing.confirmed
       /\ song' = [t \in Songs |-> IF t \in again THEN "pending"
                                   ELSE saved[t]]
       /\ release' = [r \in Releases |-> IF r \in linked /\ ~In(r, Unreviewed) THEN WithStatus(r, "in_review")
                                         ELSE release[r]]
       /\ editing' = NoEdit
       /\ UNCHANGED <<tracks, broken, adding, clock, pass, lost>>

EditFail ==
    /\ editing # NoEdit
    /\ editing' = NoEdit
    /\ UNCHANGED <<catalogue, broken, adding, clock, pass, lost>>

\* Mutant: the bulk actions do not look at the links.
BulkLinked(s, to) ==
    /\ Present(s)
    /\ song' = [song EXCEPT ![s] = to]
    /\ UNCHANGED <<release, tracks, broken, background>>

\* The bulk actions of the song list leave linked recordings alone.
Bulk(s, to) ==
    /\ Present(s) /\ Linked(s) = {}
    /\ song' = [song EXCEPT ![s] = to]
    /\ UNCHANGED <<release, tracks, broken, background>>

-----------------------------------------------------------------------------
(* The administrators' panel. *)
Restorable(r) == In(r, {"taken_down"}) => CanRestore(r)

Later == {t \in 0..MaxTime : t > clock}

Moderate(r, from) == Free(r) /\ In(r, from) /\ UNCHANGED <<tracks, broken, background>>

RequestChanges(r) ==
    /\ Moderate(r, {"in_review"})
    /\ Write(r, WithStatus(r, "changes_requested"))
    /\ UNCHANGED song

Reject(r) ==
    /\ Moderate(r, {"in_review", "changes_requested"})
    /\ song' = Relabelled(r, "rejected")
    /\ Write(r, WithStatus(r, "rejected"))

\* approve_release: a release that was public before is public again.
Accept(r) ==
    IF release[r].out
    THEN song' = Materialized(r) /\ Write(r, Published(r))
    ELSE song' = Relabelled(r, "approved") /\ Write(r, WithStatus(r, "approved"))

Approve(r) == Moderate(r, {"in_review"}) /\ Valid(r) /\ Accept(r)

Schedule(r) ==
    /\ Moderate(r, {"draft", "in_review", "approved"}) /\ Valid(r)
    /\ song' = Relabelled(r, "approved")
    /\ \E t \in Later : Write(r, Scheduled(r, t))

Publish(r) ==
    /\ Moderate(r, {"draft", "in_review", "approved", "scheduled", "taken_down"})
    /\ Restorable(r) /\ Valid(r)
    /\ song' = Materialized(r)
    /\ Write(r, Published(r))

TakeDown(r) ==
    /\ Moderate(r, {"live"})
    /\ song' = Relabelled(r, "approved")
    /\ Write(r, Down(r, "admin"))

AdminReopen(r) ==
    /\ Moderate(r, {"changes_requested", "rejected", "taken_down"}) /\ Restorable(r)
    /\ song' = Relabelled(r, "draft")
    /\ Write(r, WithStatus(r, "draft"))

ReturnToReview(r) ==
    /\ Moderate(r, {"changes_requested", "rejected", "approved"})
    /\ song' = Relabelled(r, "pending")
    /\ Write(r, WithStatus(r, "in_review"))

\* Mutant: the links of an erased release stay.
EraseKeepingLinks(r) ==
    /\ Free(r) /\ Exists(r)
    /\ song' = Labelled({s \in tracks[r] : Linked(s) = {r}}, "none")
    /\ Write(r, NoRelease)
    /\ broken' = broken \ {r}
    /\ UNCHANGED <<tracks, background>>

\* Recordings that another release links survive the release.
Erase(r) ==
    /\ Free(r) /\ Exists(r)
    /\ song' = Labelled({s \in tracks[r] : Linked(s) = {r}}, "none")
    /\ tracks' = [tracks EXCEPT ![r] = {}]
    /\ Write(r, NoRelease)
    /\ broken' = broken \ {r}
    /\ UNCHANGED background

\* set_release_status_from_admin: any status, from any other.
SetStatus(r, to) ==
    /\ Moderate(r, Statuses \ {to}) /\ r \notin broken
    /\ to \in {"approved", "scheduled", "live"} => Valid(r)
    /\ CASE to = "draft" -> song' = Relabelled(r, "draft") /\ Write(r, WithStatus(r, to))
         [] to = "in_review" -> MarkForReview(r)
         [] to = "changes_requested" -> song' = Relabelled(r, "pending") /\ Write(r, WithStatus(r, to))
         [] to = "rejected" -> song' = Relabelled(r, "rejected") /\ Write(r, WithStatus(r, to))
         [] to = "approved" -> Accept(r)
         [] to = "scheduled" -> song' = Relabelled(r, "approved")
                                  /\ \E t \in Later : Write(r, Scheduled(r, t))
         [] to = "live" -> song' = Materialized(r) /\ Write(r, Published(r))
         [] to = "taken_down" -> song' = Relabelled(r, "approved") /\ Write(r, Down(r, "admin"))

\* synchronize_release_state
Label == [draft |-> "draft", in_review |-> "pending", changes_requested |-> "pending",
          approved |-> "approved", scheduled |-> "approved", rejected |-> "rejected",
          taken_down |-> "approved"]

Synchronize(r) ==
    /\ Moderate(r, Statuses) /\ r \notin broken
    /\ IF In(r, {"live"}) THEN song' = Materialized(r) /\ Write(r, Published(r))
       ELSE song' = Relabelled(r, Label[release[r].status]) /\ UNCHANGED release

\* An administrator deletes a genre, mood or tag the metadata names.
Break(r) ==
    /\ Exists(r) /\ Cardinality(broken) < MaxBroken
    /\ broken' = broken \cup {r}
    /\ UNCHANGED <<catalogue, background>>

-----------------------------------------------------------------------------
(* The scheduler: publish_scheduled_releases --watch.                      *)
Due(t) == {r \in Releases : In(r, {"scheduled"}) /\ release[r].at <= t}

Orders(S) ==
    {q \in [1..Cardinality(S) -> S] :
        \A i, j \in DOMAIN q : i < j => q[i] # q[j] /\ release[q[i]].at <= release[q[j]].at}

First(q) == SubSeq(q, 1, IF Len(q) < Limit THEN Len(q) ELSE Limit)

Scan ==
    /\ pass = Resting /\ Due(clock) # {}
    /\ \E q \in Orders(Due(clock)) : pass' = [queue |-> First(q), now |-> clock]
    /\ UNCHANGED <<catalogue, broken, adding, editing, clock, lost>>

\* Mutants: the scan is believed; a release due at this very instant is not due.
StillDueUnchecked(r) == TRUE
StillDueStrictly(r) == In(r, {"scheduled"}) /\ release[r].at < pass.now

\* What the scan saw is looked at again under the lock.
StillDue(r) == r \in Due(pass.now)

Proceed == pass' = IF Tail(pass.queue) = <<>> THEN Resting ELSE [pass EXCEPT !.queue = Tail(@)]

\* An exception of sync_release_tracks ends the whole pass.
PublishNext ==
    LET r == Head(pass.queue)
    IN /\ pass.queue # <<>> /\ Free(r)
       /\ \/ StillDue(r) /\ r \notin broken /\ Proceed
             /\ song' = Materialized(r) /\ Write(r, Published(r))
          \/ StillDue(r) /\ r \in broken /\ pass' = Resting /\ UNCHANGED <<song, release>>
          \/ ~StillDue(r) /\ Proceed /\ UNCHANGED <<song, release>>
       /\ UNCHANGED <<tracks, broken, adding, editing, clock, lost>>

\* A deadlock with a deletion, a lost connection or a restart ends a pass too.
PassLost ==
    /\ pass.queue # <<>> /\ lost < MaxLost
    /\ pass' = Resting /\ lost' = lost + 1
    /\ UNCHANGED <<catalogue, broken, adding, editing, clock>>

Tick ==
    /\ clock < MaxTime /\ clock' = clock + 1
    /\ UNCHANGED <<catalogue, broken, adding, editing, pass, lost>>

-----------------------------------------------------------------------------
Init ==
    /\ release = [r \in Releases |-> NoRelease]
    /\ song = [s \in Songs |-> "none"]
    /\ tracks = [r \in Releases |-> {}]
    /\ broken = {}
    /\ adding = [r \in Releases |-> NoAddition]
    /\ editing = NoEdit
    /\ clock = 0
    /\ pass = Resting
    /\ lost = 0

Artist ==
    \/ \E r \in Releases :
        \/ Create(r) \/ ArtistPatch(r) \/ Reopen(r) \/ Artwork(r) \/ Submit(r)
        \/ AddLink(r) \/ AddFail(r)
        \/ \E accounted \in SUBSET tracks[r] : DeleteRelease(r, accounted)
        \/ \E o \in Releases : Clone(o, r)
        \/ \E s \in Songs : ArtistAdd(r, s)
        \/ \E S \in SUBSET tracks[r] : RemoveTracks(r, S)
    \/ \E s \in Songs :
        \/ \E to \in {"draft", "pending"} : Upload(s, to)
        \/ \E accounted \in BOOLEAN : ArtistDeleteSong(s, accounted)
        \/ \E confirmed \in BOOLEAN : EditStart(s, confirmed)
    \/ \E to \in {"draft", "pending"} : EditCommit(to)
    \/ EditFail

Administrator ==
    \/ \E r \in Releases :
        \/ AdminPatch(r) \/ UploadTrack(r) \/ RequestChanges(r) \/ Reject(r) \/ Approve(r)
        \/ Publish(r) \/ TakeDown(r) \/ AdminReopen(r) \/ ReturnToReview(r) \/ Erase(r)
        \/ Synchronize(r) \/ Break(r)
        \/ Schedule(r)
        \/ \E to \in Statuses : SetStatus(r, to)
        \/ \E s \in Songs : AdminAdd(r, s)
        \/ \E S \in SUBSET tracks[r] : AdminRemoveTracks(r, S)
    \/ \E s \in Songs :
        \/ \E hard \in BOOLEAN : AdminDeleteSong(s, hard)
        \/ \E to \in {"published", "draft", "pending"} : Bulk(s, to)

Scheduler == Scan \/ PublishNext \/ PassLost

Next == Artist \/ Administrator \/ Scheduler \/ Tick

Spec == Init /\ [][Next]_vars

\* The scheduler runs on.  Weak fairness is enough while no addition holds a
\* row that a pass waits for (MaxAdditions = 0).
FairSpec == Spec /\ WF_vars(Scan) /\ WF_vars(PublishNext)

-----------------------------------------------------------------------------
\* Every column and request keeps its type; a release that is gone links nothing.
TypeOK ==
    /\ release \in [Releases -> Release]
    /\ song \in [Songs -> SongStatuses]
    /\ tracks \in [Releases -> SUBSET {s \in Songs : Present(s)}]
    /\ \A r \in Releases : Exists(r) \/ (tracks[r] = {} /\ r \notin broken /\ Free(r))
    /\ broken \subseteq Releases
    /\ adding \in [Releases -> Addition]
    /\ editing \in Edit
    /\ clock \in 0..MaxTime /\ lost \in 0..MaxLost
    /\ pass \in [queue : Seq(Releases), now : 0..MaxTime]

\* The recordings of a live release are public, but for those that were
\* deleted: no handler of another release, of a recording or of the song list
\* hides them behind its back (take_down_release, ensure_editable_song).
LivePublished ==
    \A r \in Releases : In(r, {"live"}) =>
        \A s \in tracks[r] : song[s] \in {"published", "deleted"}

\* A recording of a release becomes public only with that release: "only
\* materializes into those legacy catalog models after approval/publication"
\* (api/models.py:1494).
Materializes ==
    \A s \in Songs :
        (song[s] # "published" /\ song'[s] = "published" /\ Linked(s) # {})
        => \E r \in Linked(s) : release'[r].status = "live"

\* A release that stops being live takes its recordings out of the catalogue
\* in the same step, whichever handler, and whichever status, it was.
Dematerializes ==
    \A r \in Releases :
        (release[r].status = "live" /\ release'[r].status # "live")
        => \A s \in tracks'[r] : song'[s] # "published"

\* Recordings come and go with the release that shows them.
PublicWithRelease == [][Materializes /\ Dematerializes]_vars

\* The scheduler publishes a release only while it is scheduled and due, not
\* one that was sent back to review or taken down since the scan.
OnlyDuePublished ==
    [][\A r \in Releases :
        (pass.queue # <<>> /\ pass' # pass
         /\ release[r].status # "live" /\ release'[r].status = "live")
        => release[r].status = "scheduled" /\ release[r].at <= clock]_vars

\* A due release is published, or leaves the schedule, unless one whose
\* metadata is broken is due no later than it, which ends every pass.
Blocked(r) == \E o \in broken : o \in Due(clock) /\ release[o].at <= release[r].at
DuePublished == \A r \in Releases : []<>(r \notin Due(clock) \/ Blocked(r))
=============================================================================
