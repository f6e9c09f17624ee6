--------------------------- MODULE ReleasesProofs ---------------------------
(***************************************************************************)
(* A live release shows its recordings, and recordings come and go with     *)
(* the release that shows them, for any number of releases, recordings and  *)
(* instants, as long as one addition of a recording is under way at a time: *)
(* of two that are, both may link one draft (see the README).               *)
(***************************************************************************)
EXTENDS Releases, FiniteSetTheorems, TLAPS

(* What a step about release r alone may do: the other releases keep their  *)
(* row and their links, and other recordings their status.                  *)
Own(r) ==
    /\ Free(r)
    /\ release' \in [Releases -> Release]
    /\ \A o \in Releases \ {r} : release'[o] = release[o] /\ tracks'[o] = tracks[o]
    /\ song' \in [Songs -> SongStatuses]
    /\ \A s \in Songs \ tracks[r] : song'[s] = song[s]
    /\ tracks' \in [Releases -> SUBSET Songs] /\ tracks'[r] \subseteq tracks[r]
    /\ \A o \in Releases : \A s \in tracks'[o] : song'[s] # "none"
    /\ release'[r].status = "none" => tracks'[r] = {} /\ r \notin broken'
    /\ broken' \subseteq broken
    /\ UNCHANGED <<adding, editing, clock, lost>>

(* No recording is linked twice. *)
Exclusive == \A r, o \in Releases : tracks[r] \cap tracks[o] = {} \/ r = o

(* What such a step has to say of the catalogue: the recordings are public    *)
(* when the release is live afterwards, and only then do they become so.     *)
Shown(r) ==
    /\ release'[r].status = "live" =>
        \A s \in tracks'[r] : \/ song'[s] \in {"published", "deleted"}
                              \/ release[r].status = "live" /\ song'[s] = song[s]
    /\ release'[r].status # "live" =>
        \A s \in tracks[r] : song'[s] = "published" => song[s] = "published"
    /\ release[r].status = "live" /\ release'[r].status # "live" =>
        \A s \in tracks'[r] : song'[s] # "published"

Queues == [queue : Seq(Releases), now : 0..MaxTime]

-----------------------------------------------------------------------------
(* The rows and labels that operators make.                                  *)
LEMMA RowFields ==
    ASSUME TypeOK, NEW r \in Releases
    PROVE  /\ release[r] \in Release
           /\ release[r].status \in Statuses \cup {"none"}
           /\ release[r].out \in BOOLEAN
BY DEF TypeOK, Release

LEMMA RowTyped ==
    ASSUME NEW st \in Statuses \cup {"none"}, NEW at \in 0..Never, NEW out \in BOOLEAN, NEW by \in Origins
    PROVE  Row(st, at, out, by) \in Release /\ Row(st, at, out, by).status = st
BY DEF Row, Release

LEMMA Instants == Never \in 0..Never /\ 0..MaxTime \subseteq 0..Never
BY BoundAssumption DEF Never

LEMMA RowsMade ==
    ASSUME TypeOK, NEW r \in Releases
    PROVE  /\ \A to \in Statuses : WithStatus(r, to) \in Release /\ WithStatus(r, to).status = to
           /\ \A t \in 0..MaxTime : Scheduled(r, t) \in Release /\ Scheduled(r, t).status = "scheduled"
           /\ Published(r) \in Release /\ Published(r).status = "live"
           /\ \A by \in Origins : Down(r, by) \in Release /\ Down(r, by).status = "taken_down"
<1>1. release[r].out \in BOOLEAN /\ TRUE \in BOOLEAN
  BY RowFields
<1>2. "none" \in Origins /\ "scheduled" \in Statuses /\ "live" \in Statuses /\ "taken_down" \in Statuses
  BY DEF Origins, Statuses
<1>3. ASSUME NEW to \in Statuses PROVE WithStatus(r, to) \in Release /\ WithStatus(r, to).status = to
  BY <1>1, <1>2, RowTyped, Instants DEF WithStatus
<1>4. ASSUME NEW t \in 0..MaxTime PROVE Scheduled(r, t) \in Release /\ Scheduled(r, t).status = "scheduled"
  BY <1>1, <1>2, RowTyped, Instants DEF Scheduled
<1>5. Published(r) \in Release /\ Published(r).status = "live"
  BY <1>1, <1>2, RowTyped, Instants DEF Published
<1>6. ASSUME NEW by \in Origins PROVE Down(r, by) \in Release /\ Down(r, by).status = "taken_down"
  BY <1>1, <1>2, RowTyped, Instants DEF Down
<1> QED
  BY <1>3, <1>4, <1>5, <1>6

LEMMA FirstRows ==
    /\ NewRelease \in Release /\ NewRelease.status = "draft"
    /\ NoRelease \in Release /\ NoRelease.status = "none"
<1>1. "none" \in Origins /\ "draft" \in Statuses
  BY DEF Origins, Statuses
<1> QED
  BY <1>1, RowTyped, Instants DEF NewRelease, NoRelease

LEMMA Labels ==
    ASSUME song \in [Songs -> SongStatuses], NEW S, NEW to \in SongStatuses
    PROVE  /\ Labelled(S, to) \in [Songs -> SongStatuses]
           /\ \A s \in Songs : Labelled(S, to)[s] = IF s \in S THEN to ELSE song[s]
BY DEF Labelled

LEMMA Links ==
    ASSUME TypeOK, NEW r \in Releases
    PROVE  /\ tracks[r] \subseteq Songs
           /\ \A s \in tracks[r] : song[s] # "none"
           /\ Active(r, song) \subseteq tracks[r]
           /\ \A s \in tracks[r] \ Active(r, song) : song[s] = "deleted"
BY DEF TypeOK, Present, Active

(* A row written to one release.                                             *)
LEMMA Written ==
    ASSUME TypeOK, NEW r \in Releases, NEW row \in Release, Write(r, row)
    PROVE  /\ release' \in [Releases -> Release]
           /\ release'[r] = row
           /\ \A o \in Releases \ {r} : release'[o] = release[o]
BY DEF TypeOK, Write
-----------------------------------------------------------------------------
(* The handlers of one release that keep its links.                          *)
LEMMA Relabels ==
    ASSUME TypeOK, NEW r \in Releases, Free(r), NEW row \in Release, Write(r, row), row.status # "none",
           NEW to \in SongStatuses \ {"none", "published"},
           song' = Relabelled(r, to) /\ row.status # "live",
           broken' \subseteq broken, UNCHANGED <<tracks, background>>
    PROVE  Own(r) /\ Shown(r)
<1>1. /\ song' \in [Songs -> SongStatuses]
      /\ \A s \in Songs : song'[s] = IF s \in Active(r, song) THEN to ELSE song[s]
  BY Labels DEF Relabelled, TypeOK
<1>2. \A o \in Releases : \A s \in tracks'[o] : song'[s] # "none"
  BY <1>1, Links DEF background
<1>3. tracks' \in [Releases -> SUBSET Songs]
  BY DEF TypeOK
<1>4. Own(r)
  BY <1>1, <1>2, <1>3, Written, Links DEF Own, background
<1>5. Shown(r)
  BY <1>1, Written, Links DEF Shown
<1> QED
  BY <1>4, <1>5

LEMMA Rests ==
    ASSUME TypeOK, NEW r \in Releases, Free(r), NEW row \in Release, Write(r, row), row.status # "none",
           song' = song, ~In(r, {"live"}) /\ row.status # "live",
           broken' \subseteq broken, UNCHANGED <<tracks, background>>
    PROVE  Own(r) /\ Shown(r)
<1>1. tracks' \in [Releases -> SUBSET Songs] /\ song' \in [Songs -> SongStatuses]
  BY DEF TypeOK
<1>2. Own(r)
  BY <1>1, Written, Links DEF Own, background
<1>3. Shown(r)
  BY Written DEF Shown, In
<1> QED
  BY <1>2, <1>3

LEMMA Publishes ==
    ASSUME TypeOK, NEW r \in Releases, Free(r), song' = Materialized(r), Write(r, Published(r)),
           UNCHANGED <<tracks, broken, adding, editing, clock, lost>>
    PROVE  Own(r) /\ Shown(r) /\ release'[r].status = "live"
<1>0. "published" \in SongStatuses
  BY DEF SongStatuses
<1>1. /\ song' \in [Songs -> SongStatuses]
      /\ \A s \in Songs : song'[s] = IF s \in tracks[r] THEN "published" ELSE song[s]
  BY <1>0, Labels DEF Materialized, TypeOK
<1>2. \A o \in Releases : \A s \in tracks'[o] : song'[s] # "none"
  BY <1>1, Links
<1>3. tracks' \in [Releases -> SUBSET Songs]
  BY DEF TypeOK
<1>4. release'[r].status = "live"
  BY Written, RowsMade
<1>5. Own(r)
  BY <1>1, <1>2, <1>3, <1>4, Written, RowsMade, Links DEF Own
<1>6. Shown(r)
  BY <1>1, <1>4, Links DEF Shown
<1> QED
  BY <1>4, <1>5, <1>6

LEMMA Marks ==
    ASSUME TypeOK, NEW r \in Releases, Free(r), MarkForReview(r), UNCHANGED <<tracks, broken, background>>
    PROVE  Own(r) /\ (Exclusive => Shown(r))
<1>0. "pending" \in SongStatuses /\ "in_review" \in Statuses
  BY DEF SongStatuses, Statuses
<1> DEFINE hidden == {s \in Active(r, song) : ~SharedLive(r, s)}
<1>1. /\ song' \in [Songs -> SongStatuses]
      /\ \A s \in Songs : song'[s] = IF s \in hidden THEN "pending" ELSE song[s]
  BY <1>0, Labels DEF MarkForReview, Reviewed, TypeOK
<1>2. hidden \subseteq tracks[r]
  BY Links
<1>3. Exclusive => hidden = Active(r, song)
  BY Links DEF Exclusive, SharedLive, Linked
<1> HIDE DEF hidden
<1>4. release'[r].status = "in_review"
  BY <1>0, Written, RowsMade DEF MarkForReview
<1>5. \A o \in Releases : \A s \in tracks'[o] : song'[s] # "none"
  BY <1>1, Links
<1>6. tracks' \in [Releases -> SUBSET Songs]
  BY DEF TypeOK
<1>7. Own(r)
  BY <1>0, <1>1, <1>2, <1>4, <1>5, <1>6, Written, RowsMade, Links DEF Own, background, MarkForReview
<1>8. Exclusive => Shown(r)
  BY <1>1, <1>3, <1>4, Links DEF Shown
<1> QED
  BY <1>7, <1>8

LEMMA Stays ==
    ASSUME TypeOK, NEW r \in Releases, Free(r),
           UNCHANGED <<release, song, tracks, broken, adding, editing, clock, lost>>
    PROVE  Own(r) /\ Shown(r)
<1>1. tracks \in [Releases -> SUBSET Songs]
  BY DEF TypeOK
<1>2. release[r].status = "none" => tracks[r] = {} /\ r \notin broken
  BY DEF TypeOK, Exists
<1>3. Own(r)
  BY <1>1, <1>2, Links DEF Own, TypeOK
<1>4. Shown(r)
  BY DEF Shown
<1> QED
  BY <1>3, <1>4
-----------------------------------------------------------------------------
(* The artist's handlers of one release.                                     *)
LEMMA Names ==
    /\ {"draft", "pending", "approved", "rejected", "deleted"} \subseteq SongStatuses \ {"none", "published"}
    /\ {"draft", "in_review", "changes_requested", "approved", "rejected", "taken_down", "live"} \subseteq Statuses
    /\ "deletion" \in Origins /\ "admin" \in Origins /\ "none" \notin Statuses
BY DEF SongStatuses, Statuses, Origins

LEMMA Edited ==
    ASSUME TypeOK, NEW r \in Releases, NEW editable \in SUBSET (Statuses \ {"live"}), NEW resubmitted,
           Patch(r, editable, resubmitted)
    PROVE  Own(r) /\ Shown(r)
<1>1. release[r] \in Release /\ Write(r, release[r])
  BY DEF Patch, Write, TypeOK
<1>2. release[r].status \notin {"none", "live"}
  BY Names DEF Patch, In
<1>3. CASE In(r, resubmitted)
  <2>1. song' = Relabelled(r, "pending")
    BY <1>3 DEF Patch
  <2> QED
    BY <1>1, <1>2, <2>1, Relabels, Names DEF Patch
<1>4. CASE ~In(r, resubmitted)
  <2>1. song' = song
    BY <1>4 DEF Patch
  <2> QED
    BY <1>1, <1>2, <2>1, Rests DEF Patch, In
<1> QED
  BY <1>3, <1>4

LEMMA OwnArtwork == ASSUME TypeOK, NEW r \in Releases, Artwork(r) PROVE Own(r) /\ Shown(r)
<1>1. release[r] \in Release
  BY RowFields
<1>2. CASE In(r, {"draft"})
  <2>1. Write(r, release[r]) /\ song' = song
    BY <1>2 DEF Artwork, Write, TypeOK
  <2> QED
    BY <1>1, <1>2, <2>1, Rests DEF Artwork, In
<1>3. CASE In(r, {"in_review"})
  <2>1. Write(r, release[r]) /\ song' = Relabelled(r, "pending")
    BY <1>3 DEF Artwork, Write, TypeOK, In
  <2> QED
    BY <1>1, <1>3, <2>1, Relabels, Names DEF Artwork, In
<1>4. CASE ~In(r, {"draft"}) /\ ~In(r, {"in_review"})
  <2>1. Write(r, WithStatus(r, "in_review")) /\ song' = Relabelled(r, "pending")
    BY <1>4 DEF Artwork
  <2>2. WithStatus(r, "in_review") \in Release /\ WithStatus(r, "in_review").status = "in_review"
    BY RowsMade, Names
  <2> QED
    BY <2>1, <2>2, Relabels, Names DEF Artwork
<1> QED
  BY <1>2, <1>3, <1>4

LEMMA OwnDelete ==
    ASSUME TypeOK, NEW r \in Releases, NEW accounted, DeleteRelease(r, accounted)
    PROVE  Own(r) /\ Shown(r)
<1> DEFINE alone == {s \in tracks[r] : Linked(s) = {r}}
           kept == {s \in alone : \/ ~In(r, {"draft"})
                                  \/ song[s] \in {"published", "deleted"}
                                  \/ s \in accounted}
<1>1. /\ Free(r) /\ Exists(r)
      /\ song' = [s \in Songs |-> IF s \in kept THEN "deleted" ELSE IF s \in alone THEN "none" ELSE song[s]]
      /\ tracks' = [tracks EXCEPT ![r] = kept]
      /\ Write(r, IF kept = {} THEN NoRelease
                  ELSE IF In(r, {"taken_down"}) THEN release[r] ELSE Down(r, "deletion"))
      /\ broken' = IF kept = {} THEN broken \ {r} ELSE broken
      /\ UNCHANGED background
  BY DEF DeleteRelease
<1>2. kept \subseteq alone /\ alone \subseteq tracks[r] /\ tracks[r] \subseteq Songs
  BY Links
<1>3. \A o \in Releases \ {r} : alone \cap tracks[o] = {}
  BY <1>2 DEF Linked
<1> HIDE DEF kept, alone
<1>4. song' \in [Songs -> SongStatuses]
  BY <1>1, Names DEF TypeOK, SongStatuses
<1>5. /\ tracks' \in [Releases -> SUBSET Songs] /\ tracks'[r] = kept
      /\ \A o \in Releases \ {r} : tracks'[o] = tracks[o]
  BY <1>1, <1>2 DEF TypeOK
<1>6. \A o \in Releases : \A s \in tracks'[o] : song'[s] # "none"
  BY <1>1, <1>2, <1>3, <1>5, Links
<1>7. \A s \in Songs \ tracks[r] : song'[s] = song[s]
  BY <1>1, <1>2
<1>8. /\ release' \in [Releases -> Release]
      /\ \A o \in Releases \ {r} : release'[o] = release[o]
      /\ release'[r].status # "live"
      /\ release'[r].status = "none" => kept = {}
  <2>1. CASE kept = {}
    BY <1>1, <2>1, Written, FirstRows
  <2>2. CASE kept # {} /\ In(r, {"taken_down"})
    BY <1>1, <2>2, Written, RowFields DEF In
  <2>3. CASE kept # {} /\ ~In(r, {"taken_down"})
    BY <1>1, <2>3, Written, RowsMade, Names
  <2> QED
    BY <2>1, <2>2, <2>3
<1>9. broken' \subseteq broken /\ (kept = {} => r \notin broken')
  BY <1>1
<1>10. Own(r)
  BY <1>1, <1>2, <1>4, <1>5, <1>6, <1>7, <1>8, <1>9 DEF Own, background
<1>11. Shown(r)
  BY <1>1, <1>2, <1>5, <1>8 DEF Shown
<1> QED
  BY <1>10, <1>11

LEMMA OwnRemove ==
    ASSUME TypeOK, NEW r \in Releases, NEW S, RemoveTracks(r, S)
    PROVE  Own(r) /\ Shown(r)
<1> DEFINE left == tracks[r] \ S
           own == {s \in S : song[s] # "deleted" /\ Linked(s) = {r}}
<1>1. /\ Free(r) /\ Exists(r)
      /\ song' = IF In(r, {"draft"}) THEN Labelled(own, "draft") ELSE song
      /\ UNCHANGED background
  BY DEF RemoveTracks
<1>2. \/ /\ tracks' = [tracks EXCEPT ![r] = left] /\ broken' = broken
         /\ \/ Write(r, release[r])
            \/ /\ \A s \in left : song[s] = "deleted"
               /\ ~In(r, {"draft"}) /\ Write(r, Down(r, "deletion"))
      \/ In(r, {"draft"}) /\ tracks' = [tracks EXCEPT ![r] = {}] /\ Write(r, NoRelease) /\ broken' = broken \ {r}
  BY DEF RemoveTracks, In
<1>3. left \subseteq tracks[r] /\ tracks[r] \subseteq Songs /\ own \cap Songs \subseteq tracks[r]
  BY Links DEF Linked
<1> HIDE DEF left, own
<1>4. /\ song' \in [Songs -> SongStatuses]
      /\ \A s \in Songs : song'[s] = IF In(r, {"draft"}) /\ s \in own THEN "draft" ELSE song[s]
  BY <1>1, Labels, Names DEF TypeOK
<1>5. /\ tracks' \in [Releases -> SUBSET Songs] /\ tracks'[r] \subseteq tracks[r]
      /\ \A o \in Releases \ {r} : tracks'[o] = tracks[o]
  BY <1>2, <1>3 DEF TypeOK
<1>6. \A o \in Releases : \A s \in tracks'[o] : song'[s] # "none"
  BY <1>4, <1>5, Links
<1>7. release[r] \in Release /\ release[r].status # "none"
  BY <1>1, RowFields DEF Exists
<1>8. /\ release' \in [Releases -> Release]
      /\ \A o \in Releases \ {r} : release'[o] = release[o]
  BY <1>2, <1>7, Written, RowsMade, FirstRows, Names
<1>9. \/ release'[r] = release[r]
      \/ /\ release'[r].status = "taken_down" /\ ~In(r, {"draft"})
         /\ \A s \in tracks'[r] : song[s] = "deleted"
      \/ release'[r].status = "none" /\ tracks'[r] = {} /\ r \notin broken' /\ In(r, {"draft"})
  <2>1. CASE Write(r, release[r])
    BY <1>7, <2>1, Written
  <2>2. CASE /\ tracks' = [tracks EXCEPT ![r] = left] /\ ~In(r, {"draft"})
             /\ \A s \in left : song[s] = "deleted"
             /\ Write(r, Down(r, "deletion"))
    BY <2>2, Written, RowsMade, Names DEF TypeOK
  <2>3. CASE In(r, {"draft"}) /\ tracks' = [tracks EXCEPT ![r] = {}] /\ Write(r, NoRelease) /\ broken' = broken \ {r}
    BY <2>3, Written, FirstRows DEF TypeOK
  <2> QED
    BY <1>2, <2>1, <2>2, <2>3
<1>10. broken' \subseteq broken
  BY <1>2
<1>11. \A s \in Songs \ tracks[r] : song'[s] = song[s]
  BY <1>3, <1>4
<1>12. Own(r)
  BY <1>1, <1>4, <1>5, <1>6, <1>7, <1>8, <1>9, <1>10, <1>11 DEF Own, background
<1>13. Shown(r)
  BY <1>4, <1>5, <1>9, Links DEF Shown, In
<1> QED
  BY <1>12, <1>13

LEMMA OwnSimple ==
    ASSUME TypeOK, NEW r \in Releases, Create(r) \/ Submit(r) \/ ArtistPatch(r) \/ AdminPatch(r)
    PROVE  Own(r) /\ Shown(r)
<1>1. CASE Create(r)
  <2>1. ~Exists(r) /\ Free(r)
    BY <1>1 DEF Create, IsNew, TypeOK
  <2> QED
    BY <1>1, <2>1, FirstRows, Rests DEF Create, Exists, In
<1>2. CASE Submit(r)
  <2>1. WithStatus(r, "in_review") \in Release /\ WithStatus(r, "in_review").status = "in_review"
    BY RowsMade, Names
  <2> QED
    BY <1>2, <2>1, Relabels, Names DEF Submit
<1>3. CASE ArtistPatch(r)
  BY <1>3, Edited, Names DEF ArtistPatch
<1>4. CASE AdminPatch(r)
  BY <1>4, Edited, Names DEF AdminPatch
<1> QED
  BY <1>1, <1>2, <1>3, <1>4

LEMMA OwnReopen ==
    ASSUME TypeOK, NEW r \in Releases, Reopen(r)
    PROVE  Own(r) /\ (Exclusive => Shown(r))
BY Marks DEF Reopen
-----------------------------------------------------------------------------
(* The administrators' handlers of one release.                              *)
LEMMA OwnRemoveLinks ==
    ASSUME TypeOK, NEW r \in Releases, NEW S, AdminRemoveTracks(r, S)
    PROVE  Own(r) /\ Shown(r)
<1>1. /\ tracks' \in [Releases -> SUBSET Songs] /\ tracks'[r] \subseteq tracks[r]
      /\ \A o \in Releases \ {r} : tracks'[o] = tracks[o]
  BY DEF AdminRemoveTracks, Moderate, TypeOK
<1>2. \A o \in Releases : \A s \in tracks'[o] : song'[s] # "none"
  BY <1>1, Links DEF AdminRemoveTracks
<1>3. release[r].status = "draft"
  BY DEF AdminRemoveTracks, In
<1>4. Own(r)
  BY <1>1, <1>2, <1>3 DEF AdminRemoveTracks, Own, background, TypeOK
<1>5. Shown(r)
  BY <1>3 DEF AdminRemoveTracks, Shown
<1> QED
  BY <1>4, <1>5

LEMMA OwnErase == ASSUME TypeOK, NEW r \in Releases, Erase(r) PROVE Own(r) /\ Shown(r)
<1> DEFINE alone == {s \in tracks[r] : Linked(s) = {r}}
<1>0. "none" \in SongStatuses
  BY DEF SongStatuses
<1>1. /\ song' \in [Songs -> SongStatuses]
      /\ \A s \in Songs : song'[s] = IF s \in alone THEN "none" ELSE song[s]
  BY <1>0, Labels DEF Erase, TypeOK
<1>2. /\ tracks' \in [Releases -> SUBSET Songs] /\ tracks'[r] = {}
      /\ \A o \in Releases \ {r} : tracks'[o] = tracks[o]
  BY DEF Erase, TypeOK
<1>3. alone \subseteq tracks[r] /\ \A o \in Releases \ {r} : alone \cap tracks[o] = {}
  BY Links DEF Linked
<1> HIDE DEF alone
<1>4. \A o \in Releases : \A s \in tracks'[o] : song'[s] # "none"
  BY <1>1, <1>2, <1>3, Links
<1>5. /\ release' \in [Releases -> Release] /\ release'[r].status = "none"
      /\ \A o \in Releases \ {r} : release'[o] = release[o]
  BY Written, FirstRows DEF Erase
<1>6. broken' \subseteq broken /\ r \notin broken'
  BY DEF Erase
<1>7. \A s \in Songs \ tracks[r] : song'[s] = song[s]
  BY <1>1, <1>3
<1>8. Own(r)
  BY <1>1, <1>2, <1>4, <1>5, <1>6, <1>7 DEF Own, background, Erase
<1>9. Shown(r)
  BY <1>1, <1>2, <1>5, Links DEF Shown
<1> QED
  BY <1>8, <1>9

LEMMA OwnAccept ==
    ASSUME TypeOK, NEW r \in Releases, Free(r), Accept(r), UNCHANGED <<tracks, broken, background>>
    PROVE  Own(r) /\ Shown(r)
<1>1. CASE release[r].out
  BY <1>1, Publishes DEF Accept, background
<1>2. CASE ~release[r].out
  <2>1. song' = Relabelled(r, "approved") /\ Write(r, WithStatus(r, "approved"))
    BY <1>2 DEF Accept
  <2> QED
    BY <2>1, RowsMade, Relabels, Names
<1> QED
  BY <1>1, <1>2

(* Changes of the status that relabel the recordings.                        *)
LEMMA OwnRelabelled ==
    ASSUME TypeOK, NEW r \in Releases, Free(r), NEW to \in {"draft", "pending", "approved", "rejected"},
           song' = Relabelled(r, to), UNCHANGED <<tracks, broken, background>>,
           \/ \E st \in Statuses \ {"live"} : Write(r, WithStatus(r, st))
           \/ \E t \in Later : Write(r, Scheduled(r, t))
           \/ Write(r, Down(r, "admin"))
    PROVE  Own(r) /\ Shown(r)
<1>1. to \in SongStatuses \ {"none", "published"}
  BY Names
<1>2. \E row \in Release : Write(r, row) /\ row.status \notin {"none", "live"}
  <2>1. CASE \E st \in Statuses \ {"live"} : Write(r, WithStatus(r, st))
    BY <2>1, RowsMade, Names
  <2>2. CASE \E t \in Later : Write(r, Scheduled(r, t))
    BY <2>2, RowsMade DEF Later
  <2>3. CASE Write(r, Down(r, "admin"))
    BY <2>3, RowsMade, Names
  <2> QED
    BY <2>1, <2>2, <2>3
<1> QED
  BY <1>1, <1>2, Relabels

LEMMA OwnModerate ==
    ASSUME TypeOK, NEW r \in Releases,
           \/ RequestChanges(r) \/ Reject(r) \/ Approve(r) \/ Schedule(r) \/ Publish(r)
           \/ TakeDown(r) \/ AdminReopen(r) \/ ReturnToReview(r)
    PROVE  Own(r) /\ Shown(r)
<1>1. Free(r) /\ UNCHANGED <<tracks, broken, background>>
  BY DEF Moderate, RequestChanges, Reject, Approve, Schedule, Publish, TakeDown, AdminReopen, ReturnToReview
<1>2. CASE RequestChanges(r)
  <2>1. ~In(r, {"live"}) /\ song' = song /\ Write(r, WithStatus(r, "changes_requested"))
    BY <1>2 DEF RequestChanges, Moderate, In
  <2> QED
    BY <1>1, <2>1, RowsMade, Rests, Names
<1>3. CASE Approve(r)
  BY <1>1, <1>3, OwnAccept DEF Approve
<1>4. CASE Publish(r)
  BY <1>1, <1>4, Publishes DEF Publish, background
<1>5. CASE Reject(r)
  BY <1>1, <1>5, OwnRelabelled, Names DEF Reject
<1>6. CASE Schedule(r)
  BY <1>1, <1>6, OwnRelabelled DEF Schedule
<1>7. CASE TakeDown(r)
  BY <1>1, <1>7, OwnRelabelled DEF TakeDown
<1>8. CASE AdminReopen(r)
  BY <1>1, <1>8, OwnRelabelled, Names DEF AdminReopen
<1>9. CASE ReturnToReview(r)
  BY <1>1, <1>9, OwnRelabelled, Names DEF ReturnToReview
<1> QED
  BY <1>2, <1>3, <1>4, <1>5, <1>6, <1>7, <1>8, <1>9

LEMMA OwnSetStatus ==
    ASSUME TypeOK, NEW r \in Releases, NEW to \in Statuses, SetStatus(r, to)
    PROVE  Own(r) /\ (Exclusive => Shown(r))
<1>1. Free(r) /\ UNCHANGED <<tracks, broken, background>>
  BY DEF Moderate, SetStatus
<1>2. CASE to = "draft"
  <2>1. song' = Relabelled(r, "draft") /\ Write(r, WithStatus(r, "draft"))
    BY <1>2 DEF SetStatus
  <2> QED
    BY <1>1, <2>1, OwnRelabelled, Names
<1>3. CASE to = "in_review"
  <2>1. MarkForReview(r)
    BY <1>3 DEF SetStatus
  <2> QED
    BY <1>1, <2>1, Marks
<1>4. CASE to = "changes_requested"
  <2>1. song' = Relabelled(r, "pending") /\ Write(r, WithStatus(r, "changes_requested"))
    BY <1>4 DEF SetStatus
  <2> QED
    BY <1>1, <2>1, OwnRelabelled, Names
<1>5. CASE to = "rejected"
  <2>1. song' = Relabelled(r, "rejected") /\ Write(r, WithStatus(r, "rejected"))
    BY <1>5 DEF SetStatus
  <2> QED
    BY <1>1, <2>1, OwnRelabelled, Names
<1>6. CASE to = "approved"
  <2>1. Accept(r)
    BY <1>6 DEF SetStatus
  <2> QED
    BY <1>1, <2>1, OwnAccept
<1>7. CASE to = "scheduled"
  <2>1. song' = Relabelled(r, "approved") /\ \E t \in Later : Write(r, Scheduled(r, t))
    BY <1>7 DEF SetStatus
  <2> QED
    BY <1>1, <2>1, OwnRelabelled
<1>8. CASE to = "live"
  <2>1. song' = Materialized(r) /\ Write(r, Published(r))
    BY <1>8 DEF SetStatus
  <2> QED
    BY <1>1, <2>1, Publishes DEF background
<1>9. CASE to = "taken_down"
  <2>1. song' = Relabelled(r, "approved") /\ Write(r, Down(r, "admin"))
    BY <1>9 DEF SetStatus
  <2> QED
    BY <1>1, <2>1, OwnRelabelled
<1> QED
  BY <1>2, <1>3, <1>4, <1>5, <1>6, <1>7, <1>8, <1>9 DEF Statuses

LEMMA OwnSynchronize == ASSUME TypeOK, NEW r \in Releases, Synchronize(r) PROVE Own(r) /\ Shown(r)
<1>1. Free(r) /\ UNCHANGED <<tracks, broken, background>> /\ release[r].status \in Statuses
  BY DEF Moderate, Synchronize, In
<1>2. CASE In(r, {"live"})
  BY <1>1, <1>2, Publishes DEF Synchronize, background
<1>3. CASE ~In(r, {"live"})
  <2>1. song' = Relabelled(r, Label[release[r].status]) /\ release' = release
    BY <1>3 DEF Synchronize
  <2>2. Label[release[r].status] \in SongStatuses \ {"none", "published"}
    BY <1>1, <1>3, Names DEF Label, Statuses, In
  <2>3. release[r] \in Release /\ Write(r, release[r])
    BY <2>1 DEF Write, TypeOK
  <2> QED
    BY <1>1, <1>3, <2>1, <2>2, <2>3, Relabels, Names DEF In
<1> QED
  BY <1>2, <1>3

(* The scheduler's step about a release.                                     *)
LEMMA OwnPublishNext ==
    ASSUME TypeOK, PublishNext
    PROVE  LET r == Head(pass.queue) IN
           /\ r \in Releases /\ Own(r) /\ Shown(r)
           /\ pass' \in Queues /\ (pass' = Resting \/ pass'.now = pass.now)
           /\ release' # release => StillDue(r)
<1> DEFINE r == Head(pass.queue)
<1>1. pass \in Queues /\ pass.queue # <<>>
  BY DEF TypeOK, Queues, PublishNext
<1>2. pass.queue \in Seq(Releases) /\ pass.now \in 0..MaxTime /\ r \in Releases /\ Tail(pass.queue) \in Seq(Releases)
  BY <1>1 DEF Queues
<1>3. Resting \in Queues
  BY BoundAssumption DEF Resting, Queues
<1>4. Proceed => pass' \in Queues /\ (pass' = Resting \/ pass'.now = pass.now)
  BY <1>1, <1>2, <1>3 DEF Proceed, Queues
<1>5. Free(r) /\ UNCHANGED <<tracks, broken, adding, editing, clock, lost>>
  BY DEF PublishNext
<1>6. \/ StillDue(r) /\ Proceed /\ song' = Materialized(r) /\ Write(r, Published(r))
      \/ pass' = Resting /\ UNCHANGED <<song, release>>
      \/ Proceed /\ UNCHANGED <<song, release>>
  BY DEF PublishNext
<1> HIDE DEF r
<1>7. Own(r) /\ Shown(r)
  BY <1>2, <1>5, <1>6, Publishes, Stays
<1> QED
  BY <1>2, <1>3, <1>4, <1>6, <1>7 DEF r
-----------------------------------------------------------------------------
(* Types.                                                                    *)
LEMMA TypesGathered ==
    ASSUME release' \in [Releases -> Release], song' \in [Songs -> SongStatuses],
           tracks' \in [Releases -> SUBSET Songs],
           \A o \in Releases : \A s \in tracks'[o] : song'[s] # "none",
           \A o \in Releases : \/ release'[o].status # "none"
                               \/ tracks'[o] = {} /\ o \notin broken' /\ adding'[o] = NoAddition,
           broken' \subseteq Releases, adding' \in [Releases -> Addition], editing' \in Edit,
           clock' \in 0..MaxTime, lost' \in 0..MaxLost, pass' \in Queues
    PROVE  TypeOK'
<1>1. tracks' \in [Releases -> SUBSET {s \in Songs : Present(s)'}]
  BY DEF Present
<1> QED
  BY <1>1 DEF TypeOK, Exists, Free, Queues

LEMMA OwnTyped ==
    ASSUME TypeOK, NEW r \in Releases, Own(r), pass' \in Queues
    PROVE  TypeOK'
<1>1. \A o \in Releases : \/ release'[o].status # "none"
                          \/ tracks'[o] = {} /\ o \notin broken' /\ adding'[o] = NoAddition
  BY DEF Own, TypeOK, Exists, Free
<1>2. /\ broken' \subseteq Releases /\ adding' \in [Releases -> Addition] /\ editing' \in Edit
      /\ clock' \in 0..MaxTime /\ lost' \in 0..MaxLost
  BY DEF Own, TypeOK
<1> QED
  BY <1>1, <1>2, TypesGathered DEF Own

LEMMA Before ==
    ASSUME TypeOK
    PROVE  /\ release \in [Releases -> Release] /\ song \in [Songs -> SongStatuses]
           /\ tracks \in [Releases -> SUBSET Songs]
           /\ \A o \in Releases : \A s \in tracks[o] : song[s] # "none"
           /\ \A o \in Releases : \/ release[o].status # "none"
                                  \/ tracks[o] = {} /\ o \notin broken /\ adding[o] = NoAddition
           /\ broken \subseteq Releases /\ adding \in [Releases -> Addition] /\ editing \in Edit
           /\ clock \in 0..MaxTime /\ lost \in 0..MaxLost /\ pass \in Queues
BY DEF TypeOK, Exists, Free, Present, Queues

(* Recordings that are new to the catalogue.                                 *)
LEMMA NewAreFree ==
    ASSUME TypeOK, NEW c \in NewSongs
    PROVE  /\ c \in Songs /\ song[c] = "none"
           /\ \A r \in Releases : c \notin tracks[r] /\ adding[r].song # c
BY DEF NewSongs, Present, TypeOK

LEMMA LabelsOfNew ==
    ASSUME TypeOK, NEW S \in SUBSET NewSongs, NEW to \in SongStatuses \ {"none"}, song' = Labelled(S, to)
    PROVE  /\ song' \in [Songs -> SongStatuses]
           /\ \A s \in Songs : song'[s] = IF s \in S THEN to ELSE song[s]
           /\ \A o \in Releases : \A s \in tracks[o] : song'[s] = song[s] /\ song'[s] # "none"
<1>1. /\ song' \in [Songs -> SongStatuses]
      /\ \A s \in Songs : song'[s] = IF s \in S THEN to ELSE song[s]
  BY Labels, Before
<1>2. \A o \in Releases : \A s \in tracks[o] : s \notin S
  BY NewAreFree
<1> QED
  BY <1>1, <1>2, Before

LEMMA CloneTyped ==
    ASSUME TypeOK, NEW source \in Releases, NEW r \in Releases, Clone(source, r)
    PROVE  TypeOK'
<1>1. PICK S \in SUBSET NewSongs : song' = Labelled(S, "draft") /\ tracks' = [tracks EXCEPT ![r] = S]
  BY DEF Clone
<1>2. /\ song' \in [Songs -> SongStatuses]
      /\ \A s \in Songs : song'[s] = IF s \in S THEN "draft" ELSE song[s]
      /\ \A o \in Releases : \A s \in tracks[o] : song'[s] # "none"
  BY <1>1, LabelsOfNew, Names
<1>3. S \subseteq Songs
  BY DEF NewSongs
<1>4. /\ tracks' \in [Releases -> SUBSET Songs] /\ tracks'[r] = S
      /\ \A o \in Releases \ {r} : tracks'[o] = tracks[o]
  BY <1>1, <1>3, Before
<1>5. \A o \in Releases : \A s \in tracks'[o] : song'[s] # "none"
  BY <1>2, <1>3, <1>4
<1>6. /\ release' \in [Releases -> Release] /\ release'[r].status = "draft"
      /\ \A o \in Releases \ {r} : release'[o] = release[o]
  BY Written, FirstRows DEF Clone
<1>7. broken' \subseteq broken \cup {r} /\ UNCHANGED background
  BY DEF Clone
<1> QED
  BY <1>2, <1>4, <1>5, <1>6, <1>7, Before, TypesGathered DEF background

LEMMA UploadTyped ==
    ASSUME TypeOK, NEW r \in Releases, UploadTrack(r)
    PROVE  TypeOK'
<1>1. PICK c \in NewSongs : song' = Labelled({c}, "draft") /\ tracks' = [tracks EXCEPT ![r] = @ \cup {c}]
  BY DEF UploadTrack
<1>2. /\ song' \in [Songs -> SongStatuses]
      /\ \A s \in Songs : song'[s] = IF s \in {c} THEN "draft" ELSE song[s]
      /\ \A o \in Releases : \A s \in tracks[o] : song'[s] # "none"
  BY <1>1, LabelsOfNew, Names
<1>3. /\ tracks' \in [Releases -> SUBSET Songs] /\ tracks'[r] = tracks[r] \cup {c}
      /\ \A o \in Releases \ {r} : tracks'[o] = tracks[o]
  BY <1>1, NewAreFree, Before
<1>4. \A o \in Releases : \A s \in tracks'[o] : song'[s] # "none"
  BY <1>2, <1>3, NewAreFree
<1>5. release[r].status = "draft" /\ UNCHANGED <<release, broken, background>>
  BY DEF UploadTrack, In
<1> QED
  BY <1>2, <1>3, <1>4, <1>5, Before, TypesGathered DEF background

LEMMA NoneTyped == NoAddition \in Addition /\ NoEdit \in Edit /\ Resting \in Queues
BY BoundAssumption DEF NoAddition, Addition, NoEdit, Edit, Resting, Queues

LEMMA AddReadTyped ==
    ASSUME TypeOK, NEW r \in Releases, NEW s \in Songs, NEW statuses \in SUBSET Statuses, AddRead(r, s, statuses)
    PROVE  TypeOK'
<1>1. NeedsCopy(r, s) \in BOOLEAN
  BY DEF NeedsCopy
<1>2. [song |-> s, copies |-> NeedsCopy(r, s)] \in Addition
  BY <1>1 DEF Addition
<1>3. adding' \in [Releases -> Addition] /\ \A o \in Releases \ {r} : adding'[o] = adding[o]
  BY <1>2, Before DEF AddRead
<1>4. release[r].status # "none"
  BY Names DEF AddRead, In
<1> QED
  BY <1>3, <1>4, Before, TypesGathered DEF AddRead, catalogue

LEMMA AddFailTyped == ASSUME TypeOK, NEW r \in Releases, AddFail(r) PROVE TypeOK'
<1>1. /\ adding' \in [Releases -> Addition] /\ adding'[r] = NoAddition
      /\ \A o \in Releases \ {r} : adding'[o] = adding[o]
  BY NoneTyped, Before DEF AddFail
<1> QED
  BY <1>1, Before, TypesGathered DEF AddFail, catalogue

(* What an addition links: a new copy, or the recording itself.              *)
LEMMA AddLinkEffect ==
    ASSUME TypeOK, NEW r \in Releases, AddLink(r)
    PROVE  /\ ~Free(r)
           /\ \E c \in Songs, to \in {"pending", "draft"} :
                /\ \/ adding[r].copies /\ c \in NewSongs /\ song' = Labelled({c}, to)
                   \/ ~adding[r].copies /\ c = adding[r].song /\ song[c] # "none"
                      /\ (song' = Labelled({c}, to) \/ song' = song)
                /\ tracks' = [tracks EXCEPT ![r] = @ \cup {c}]
           /\ adding' = [adding EXCEPT ![r] = NoAddition]
           /\ UNCHANGED <<release, broken, editing, clock, pass, lost>>
<1>1. Present(adding[r].song) /\ ~Free(r)
  BY DEF AddLink
<1>2. adding[r] \in Addition /\ adding[r] # NoAddition
  BY <1>1, Before DEF Free
<1>3. adding[r].copies \/ adding[r].song \in Songs
  BY <1>2 DEF Addition, NoAddition
<1>4. NewSongs \subseteq Songs
  BY DEF NewSongs
<1> QED
  BY <1>1, <1>2, <1>3, <1>4 DEF AddLink, Present

LEMMA AddLinkTyped == ASSUME TypeOK, NEW r \in Releases, AddLink(r) PROVE TypeOK'
<1>1. PICK c \in Songs, to \in {"pending", "draft"} :
        /\ \/ adding[r].copies /\ c \in NewSongs /\ song' = Labelled({c}, to)
           \/ ~adding[r].copies /\ c = adding[r].song /\ song[c] # "none"
              /\ (song' = Labelled({c}, to) \/ song' = song)
        /\ tracks' = [tracks EXCEPT ![r] = @ \cup {c}]
  BY AddLinkEffect
<1>2. to \in SongStatuses /\ to # "none"
  BY Names
<1>3. /\ song' \in [Songs -> SongStatuses]
      /\ \A s \in Songs : song'[s] = song[s] \/ song'[s] = to
      /\ song'[c] # "none"
  BY <1>1, <1>2, Labels, Before
<1>4. /\ tracks' \in [Releases -> SUBSET Songs]
      /\ \A o \in Releases : tracks'[o] \subseteq tracks[o] \cup {c}
      /\ \A o \in Releases \ {r} : tracks'[o] = tracks[o]
  BY <1>1, Before
<1>5. \A o \in Releases : \A s \in tracks'[o] : song'[s] # "none"
  BY <1>2, <1>3, <1>4, Before
<1>6. /\ adding' \in [Releases -> Addition] /\ adding'[r] = NoAddition
      /\ \A o \in Releases \ {r} : adding'[o] = adding[o]
  BY AddLinkEffect, NoneTyped, Before
<1>7. release[r].status # "none" /\ UNCHANGED <<release, broken, editing, clock, pass, lost>>
  BY AddLinkEffect DEF TypeOK, Exists
<1> QED
  BY <1>3, <1>4, <1>5, <1>6, <1>7, Before, TypesGathered

LEMMA SongUploadTyped ==
    ASSUME TypeOK, NEW s \in Songs, NEW to \in {"draft", "pending"}, Upload(s, to)
    PROVE  TypeOK'
<1>1. /\ song' \in [Songs -> SongStatuses]
      /\ \A o \in Releases : \A t \in tracks[o] : song'[t] # "none"
  BY LabelsOfNew, Names DEF Upload
<1> QED
  BY <1>1, Before, TypesGathered DEF Upload, background

LEMMA BulkTyped ==
    ASSUME TypeOK, NEW s \in Songs, NEW to \in {"published", "draft", "pending"}, Bulk(s, to)
    PROVE  TypeOK'
<1>1. to \in SongStatuses /\ to # "none"
  BY DEF SongStatuses
<1>2. /\ song' \in [Songs -> SongStatuses]
      /\ \A o \in Releases : \A t \in tracks[o] : song'[t] # "none"
  BY <1>1, Before DEF Bulk
<1> QED
  BY <1>2, Before, TypesGathered DEF Bulk, background

(* What the deletion of a recording leaves: no link to an erased one, and     *)
(* releases with no recording left erased or taken down.                     *)
Deletes(s) ==
    /\ \E to \in {"deleted", "none"} :
         /\ song' = [o \in Songs |-> IF o = s THEN to ELSE song[o]]
         /\ to = "none" => \A r \in Releases : s \notin tracks'[r]
    /\ tracks' \in [Releases -> SUBSET Songs] /\ release' \in [Releases -> Release]
    /\ \A r \in Releases :
         /\ tracks'[r] \subseteq tracks[r]
         /\ s \notin tracks[r] => release'[r] = release[r] /\ tracks'[r] = tracks[r]
         /\ s \in tracks[r] => Free(r)
         /\ \/ release'[r] = release[r]
            \/ release'[r].status = "none" /\ tracks'[r] = {} /\ r \notin broken'
            \/ release'[r].status = "taken_down" /\ \A t \in tracks'[r] : song'[t] = "deleted"
    /\ broken' \subseteq broken /\ UNCHANGED background

LEMMA ArtistDeleteEffect ==
    ASSUME TypeOK, NEW s \in Songs, NEW accounted \in BOOLEAN, ArtistDeleteSong(s, accounted)
    PROVE  Deletes(s)
<1> DEFINE linked == Linked(s)
           drafts == {r \in linked : In(r, {"draft"})}
           keep == song[s] \in {"published", "deleted"} \/ accounted \/ linked # drafts
           to == IF keep THEN "deleted" ELSE "none"
           sg == Labelled({s}, to)
           tr == [r \in Releases |-> IF r \in drafts THEN tracks[r] \ {s} ELSE tracks[r]]
           empty == Emptied(linked, tr, sg)
<1>1. PICK erased \in SUBSET (empty \cap drafts) :
        /\ tracks' = [r \in Releases |-> IF r \in erased THEN {} ELSE tr[r]]
        /\ release' = [r \in Releases |->
              IF r \in erased THEN NoRelease
              ELSE IF r \in empty /\ ~In(r, {"draft", "taken_down"}) THEN Down(r, "deletion")
              ELSE release[r]]
        /\ broken' = broken \ erased
  BY DEF ArtistDeleteSong
<1>2. song' = sg /\ AllFree(linked) /\ UNCHANGED background
  BY DEF ArtistDeleteSong
<1>3. /\ linked \subseteq Releases /\ \A r \in Releases : r \in linked <=> s \in tracks[r]
      /\ drafts \subseteq linked /\ (~keep => linked = drafts)
      /\ empty \subseteq linked /\ \A r \in empty : \A t \in tr[r] : sg[t] = "deleted"
  BY DEF Linked, Emptied
<1>4. \A r \in Releases : tr[r] = IF r \in drafts THEN tracks[r] \ {s} ELSE tracks[r]
  OBVIOUS
<1>5. song' = [o \in Songs |-> IF o = s THEN to ELSE song[o]]
  BY <1>2 DEF Labelled
<1>6. to \in {"deleted", "none"} /\ (to = "none" => linked = drafts)
  BY <1>3
<1> HIDE DEF linked, drafts, keep, to, sg, tr, empty
<1>7. \A r \in Releases : tracks'[r] = IF r \in erased THEN {} ELSE tr[r]
  BY <1>1
<1>8. to = "none" => \A r \in Releases : s \notin tracks'[r]
  BY <1>3, <1>4, <1>6, <1>7
<1>9. tracks' \in [Releases -> SUBSET Songs]
  BY <1>1, <1>4, Before
<1>10. \A r \in Releases : Down(r, "deletion") \in Release /\ Down(r, "deletion").status = "taken_down"
  BY RowsMade, Names
<1>11. release' \in [Releases -> Release]
  BY <1>1, <1>10, FirstRows, Before
<1>12. ASSUME NEW r \in Releases
       PROVE  /\ tracks'[r] \subseteq tracks[r]
              /\ s \notin tracks[r] => release'[r] = release[r] /\ tracks'[r] = tracks[r]
              /\ s \in tracks[r] => Free(r)
              /\ \/ release'[r] = release[r]
                 \/ release'[r].status = "none" /\ tracks'[r] = {} /\ r \notin broken'
                 \/ release'[r].status = "taken_down" /\ \A t \in tracks'[r] : song'[t] = "deleted"
  <2>1. r \in erased => r \in drafts /\ r \in empty
    BY <1>1
  <2>2. release'[r] = IF r \in erased THEN NoRelease
                      ELSE IF r \in empty /\ ~In(r, {"draft", "taken_down"}) THEN Down(r, "deletion")
                      ELSE release[r]
    BY <1>1
  <2>3. s \in tracks[r] => Free(r)
    BY <1>2, <1>3 DEF AllFree
  <2>4. tracks'[r] \subseteq tracks[r] /\ (s \notin tracks[r] => release'[r] = release[r] /\ tracks'[r] = tracks[r])
    BY <1>3, <1>4, <1>7, <2>1, <2>2
  <2>5. \/ release'[r] = release[r]
        \/ release'[r].status = "none" /\ tracks'[r] = {} /\ r \notin broken'
        \/ release'[r].status = "taken_down" /\ \A t \in tracks'[r] : song'[t] = "deleted"
    BY <1>1, <1>2, <1>3, <1>7, <1>10, <2>2, FirstRows
  <2> QED
    BY <2>3, <2>4, <2>5
<1> QED
  BY <1>1, <1>2, <1>5, <1>6, <1>8, <1>9, <1>11, <1>12 DEF Deletes

LEMMA AdminDeleteEffect ==
    ASSUME TypeOK, NEW s \in Songs, NEW hard \in BOOLEAN, AdminDeleteSong(s, hard)
    PROVE  Deletes(s)
<1> DEFINE linked == Linked(s)
           to == IF hard THEN "none" ELSE "deleted"
           sg == Labelled({s}, to)
           tr == [r \in Releases |-> IF hard THEN tracks[r] \ {s} ELSE tracks[r]]
           empty == Emptied(linked, tr, sg)
<1>1. /\ tracks' = tr /\ song' = sg /\ AllFree(linked) /\ UNCHANGED <<broken, background>>
      /\ release' = [r \in Releases |->
            IF r \in empty /\ ~In(r, {"draft", "taken_down"}) THEN Down(r, "deletion") ELSE release[r]]
  BY DEF AdminDeleteSong
<1>2. /\ \A r \in Releases : r \in linked <=> s \in tracks[r]
      /\ empty \subseteq linked /\ \A r \in empty : \A t \in tr[r] : sg[t] = "deleted"
  BY DEF Linked, Emptied
<1>3. song' = [o \in Songs |-> IF o = s THEN to ELSE song[o]] /\ to \in {"deleted", "none"}
  BY <1>1 DEF Labelled
<1>4. /\ tracks' \in [Releases -> SUBSET Songs]
      /\ \A r \in Releases : /\ tracks'[r] \subseteq tracks[r]
                             /\ s \notin tracks[r] => tracks'[r] = tracks[r]
                             /\ to = "none" => s \notin tracks'[r]
  BY <1>1, Before
<1> HIDE DEF linked, to, sg, tr, empty
<1>5. \A r \in Releases : Down(r, "deletion") \in Release /\ Down(r, "deletion").status = "taken_down"
  BY RowsMade, Names
<1>6. release' \in [Releases -> Release]
  BY <1>1, <1>5, Before
<1>7. ASSUME NEW r \in Releases
      PROVE  /\ s \notin tracks[r] => release'[r] = release[r]
             /\ s \in tracks[r] => Free(r)
             /\ \/ release'[r] = release[r]
                \/ release'[r].status = "taken_down" /\ \A t \in tracks'[r] : song'[t] = "deleted"
  BY <1>1, <1>2, <1>5 DEF AllFree
<1> QED
  BY <1>1, <1>3, <1>4, <1>6, <1>7 DEF Deletes

LEMMA DeleteTyped == ASSUME TypeOK, NEW s \in Songs, Deletes(s) PROVE TypeOK'
<1>1. PICK to \in {"deleted", "none"} :
        /\ song' = [o \in Songs |-> IF o = s THEN to ELSE song[o]]
        /\ to = "none" => \A r \in Releases : s \notin tracks'[r]
  BY DEF Deletes
<1>2. song' \in [Songs -> SongStatuses]
  BY <1>1, Before DEF SongStatuses
<1>3. \A o \in Releases : \A t \in tracks'[o] : song'[t] # "none"
  BY <1>1, Before DEF Deletes
<1>4. \A o \in Releases : \/ release'[o].status # "none"
                          \/ tracks'[o] = {} /\ o \notin broken' /\ adding'[o] = NoAddition
  <2> SUFFICES ASSUME NEW o \in Releases, release'[o].status = "none"
               PROVE  tracks'[o] = {} /\ o \notin broken' /\ adding'[o] = NoAddition
    OBVIOUS
  <2>1. adding' = adding /\ broken' \subseteq broken
    BY DEF Deletes, background
  <2>2. CASE release'[o] = release[o]
    BY <2>1, <2>2, Before DEF Deletes
  <2>3. CASE release'[o] # release[o]
    BY <2>1, <2>3 DEF Deletes, Free
  <2> QED
    BY <2>2, <2>3
<1> QED
  BY <1>2, <1>3, <1>4, Before, TypesGathered DEF Deletes, background

LEMMA EditTyped ==
    ASSUME TypeOK,
           \/ EditFail
           \/ \E s \in Songs, confirmed \in BOOLEAN : EditStart(s, confirmed)
    PROVE  TypeOK'
<1>1. editing' \in Edit
  <2>1. \A s \in Songs : Approved(s) \in BOOLEAN
    BY DEF Approved
  <2>2. CASE EditFail
    BY <2>2, NoneTyped DEF EditFail
  <2>3. CASE \E s \in Songs, confirmed \in BOOLEAN : EditStart(s, confirmed)
    BY <2>1, <2>3 DEF EditStart, Edit
  <2> QED
    BY <2>2, <2>3
<1>2. UNCHANGED <<release, song, tracks, broken, adding, clock, pass, lost>>
  BY DEF EditFail, EditStart, catalogue
<1> QED
  BY <1>1, <1>2, Before, TypesGathered

(* What the artist's edit of a recording does to the releases that link it.  *)
LEMMA EditCommitEffect ==
    ASSUME TypeOK, NEW to \in {"draft", "pending"}, EditCommit(to)
    PROVE  LET s == editing.song IN
           /\ song' \in [Songs -> SongStatuses]
           /\ \A t \in Songs : \/ song'[t] = song[t] /\ t # s
                               \/ song'[t] = to /\ t = s
                               \/ song'[t] = "pending" /\ \E r \in Releases : {s, t} \subseteq tracks[r]
           /\ \A r \in Releases : s \in tracks[r] /\ ~In(r, Unreviewed) =>
                \A t \in tracks[r] :
                   \/ song'[t] \in {"pending", "deleted"}
                   \/ song[t] = "published" /\ \E o \in Releases : o # r /\ t \in tracks[o]
           /\ release' \in [Releases -> Release]
           /\ \A r \in Releases :
                \/ release'[r] = release[r] /\ (s \notin tracks[r] \/ In(r, Unreviewed))
                \/ release'[r].status = "in_review" /\ Free(r) /\ s \in tracks[r] /\ ~In(r, Unreviewed)
           /\ editing' \in Edit /\ UNCHANGED <<tracks, broken, adding, clock, pass, lost>>
<1> DEFINE s == editing.song
           linked == Linked(s)
           saved == Labelled({s}, to)
           spared(t) == saved[t] = "published" /\ \E o \in Linked(t) \ linked : In(o, {"live"})
           again == {t \in Songs : /\ saved[t] # "deleted"
                                   /\ \E r \in linked \cap Linked(t) :
                                        In(r, {"in_review"}) \/ ~(In(r, {"draft"}) \/ spared(t))}
<1>1. /\ editing # NoEdit /\ AllFree(linked)
      /\ song' = [t \in Songs |-> IF t \in again THEN "pending" ELSE saved[t]]
      /\ release' = [r \in Releases |-> IF r \in linked /\ ~In(r, Unreviewed) THEN WithStatus(r, "in_review")
                                        ELSE release[r]]
      /\ editing' = NoEdit /\ UNCHANGED <<tracks, broken, adding, clock, pass, lost>>
  BY DEF EditCommit
<1>2. /\ \A r \in Releases : r \in linked <=> s \in tracks[r]
      /\ linked \subseteq Releases
      /\ \A t : Linked(t) = {r \in Releases : t \in tracks[r]}
  BY DEF Linked
<1>3. saved = [t \in Songs |-> IF t = s THEN to ELSE song[t]]
  BY DEF Labelled
<1>4. /\ again \subseteq Songs
      /\ \A t \in again : \E r \in Releases : {s, t} \subseteq tracks[r]
  BY <1>2
<1>5. \A r \in linked : \A t \in tracks[r] :
        ~In(r, Unreviewed) /\ t \in Songs \ again => saved[t] = "deleted" \/ spared(t)
  BY <1>2 DEF In, Unreviewed
<1>6. \A t : spared(t) => saved[t] = "published" /\ \E o \in Releases \ linked : t \in tracks[o]
  BY <1>2
<1> HIDE DEF s, linked, saved, spared, again
<1>7. song' \in [Songs -> SongStatuses]
  BY <1>1, <1>3, Names, Before
<1>8. \A t \in Songs : \/ song'[t] = song[t] /\ t # s
                       \/ song'[t] = to /\ t = s
                       \/ song'[t] = "pending" /\ \E r \in Releases : {s, t} \subseteq tracks[r]
  BY <1>1, <1>3, <1>4
<1>9. \A r \in Releases : s \in tracks[r] /\ ~In(r, Unreviewed) =>
        \A t \in tracks[r] :
           \/ song'[t] \in {"pending", "deleted"}
           \/ song[t] = "published" /\ \E o \in Releases : o # r /\ t \in tracks[o]
  <2> SUFFICES ASSUME NEW r \in Releases, s \in tracks[r], ~In(r, Unreviewed), NEW t \in tracks[r]
               PROVE  \/ song'[t] \in {"pending", "deleted"}
                      \/ song[t] = "published" /\ \E o \in Releases : o # r /\ t \in tracks[o]
    OBVIOUS
  <2>1. t \in Songs /\ r \in linked
    BY <1>2, Before
  <2>2. CASE t \in again
    BY <1>1, <2>1, <2>2
  <2>3. CASE t \notin again /\ saved[t] = "deleted"
    BY <1>1, <2>1, <2>3
  <2>4. CASE spared(t)
    BY <1>3, <1>6, <2>1, <2>4
  <2> QED
    BY <1>5, <2>1, <2>2, <2>3, <2>4
<1>10. \A r \in Releases : WithStatus(r, "in_review") \in Release /\ WithStatus(r, "in_review").status = "in_review"
  BY RowsMade, Names
<1>11. /\ release' \in [Releases -> Release]
       /\ \A r \in Releases :
            \/ release'[r] = release[r] /\ (s \notin tracks[r] \/ In(r, Unreviewed))
            \/ release'[r].status = "in_review" /\ Free(r) /\ s \in tracks[r] /\ ~In(r, Unreviewed)
  BY <1>1, <1>2, <1>10, Before DEF AllFree
<1> QED
  BY <1>1, <1>7, <1>8, <1>9, <1>11, NoneTyped DEF s

LEMMA EditCommitTyped == ASSUME TypeOK, NEW to \in {"draft", "pending"}, EditCommit(to) PROVE TypeOK'
<1>1. /\ song' \in [Songs -> SongStatuses]
      /\ \A t \in Songs : song'[t] \in {song[t], "draft", "pending"}
  BY EditCommitEffect
<1>2. \A o \in Releases : \A t \in tracks'[o] : song'[t] # "none"
  BY <1>1, EditCommitEffect, Before
<1>3. \A r \in Releases : release'[r] = release[r] \/ release'[r].status = "in_review"
  BY EditCommitEffect
<1> QED
  BY <1>1, <1>2, <1>3, EditCommitEffect, Before, TypesGathered

LEMMA FirstTyped ==
    ASSUME NEW S, IsFiniteSet(S), NEW q \in [1..Cardinality(S) -> S]
    PROVE  First(q) \in Seq(S)
<1>1. Cardinality(S) \in Nat
  BY FS_CardinalityType
<1>2. q \in Seq(S) /\ Len(q) = Cardinality(S)
  BY <1>1
<1>3. \A n \in 0..Len(q) : SubSeq(q, 1, n) \in Seq(S)
  BY <1>1, <1>2
<1>4. (IF Len(q) < Limit THEN Len(q) ELSE Limit) \in 0..Len(q)
  BY <1>1, <1>2, BoundAssumption
<1> QED
  BY <1>3, <1>4 DEF First

LEMMA ScanTyped == ASSUME TypeOK, IsFiniteSet(Releases), Scan PROVE TypeOK' /\ pass'.now = clock
<1>1. PICK q \in Orders(Due(clock)) : pass' = [queue |-> First(q), now |-> clock]
  BY DEF Scan
<1>2. Due(clock) \subseteq Releases /\ IsFiniteSet(Due(clock))
  BY FS_Subset DEF Due
<1>3. q \in [1..Cardinality(Due(clock)) -> Due(clock)]
  BY DEF Orders
<1>4. First(q) \in Seq(Due(clock))
  BY <1>2, <1>3, FirstTyped
<1>5. First(q) \in Seq(Releases)
  BY <1>2, <1>4
<1>6. pass' \in Queues /\ pass'.now = clock
  BY <1>1, <1>5, Before DEF Queues
<1> QED
  BY <1>6, Before, TypesGathered DEF Scan, catalogue

LEMMA RestTyped ==
    ASSUME TypeOK, PassLost \/ Tick \/ (\E r \in Releases : Break(r)) \/ UNCHANGED vars
    PROVE  TypeOK'
<1>1. CASE PassLost
  <2>1. lost' \in 0..MaxLost
    BY <1>1, BoundAssumption, Before DEF PassLost
  <2> QED
    BY <1>1, <2>1, NoneTyped, Before, TypesGathered DEF PassLost, catalogue
<1>2. CASE Tick
  <2>1. clock' \in 0..MaxTime
    BY <1>2, BoundAssumption, Before DEF Tick
  <2> QED
    BY <1>2, <2>1, Before, TypesGathered DEF Tick, catalogue
<1>3. ASSUME NEW r \in Releases, Break(r) PROVE TypeOK'
  BY <1>3, Before, TypesGathered DEF Break, Exists, catalogue, background
<1>4. CASE UNCHANGED vars
  BY <1>4, Before, TypesGathered DEF vars
<1> QED
  BY <1>1, <1>2, <1>3, <1>4
-----------------------------------------------------------------------------
(* Every step is about one release, or one of a few others.                  *)
OwnStep == \E r \in Releases : Own(r) /\ (Exclusive => Shown(r)) /\ pass' = pass
LinkStep ==
    \E r \in Releases :
        \/ \E source \in Releases : Clone(source, r)
        \/ UploadTrack(r) \/ AddLink(r) \/ AddFail(r)
        \/ \E s \in Songs, statuses \in SUBSET {"draft", "in_review"} : AddRead(r, s, statuses)
SongStep ==
    \/ \E s \in Songs :
        \/ Deletes(s)
        \/ \E to \in {"draft", "pending"} : Upload(s, to)
        \/ \E to \in {"published", "draft", "pending"} : Bulk(s, to)
        \/ \E confirmed \in BOOLEAN : EditStart(s, confirmed)
    \/ \E to \in {"draft", "pending"} : EditCommit(to)
    \/ EditFail
OtherStep == PassLost \/ Tick \/ (\E r \in Releases : Break(r)) \/ UNCHANGED vars

LEMMA ArtistSteps == ASSUME TypeOK, Artist PROVE OwnStep \/ LinkStep \/ SongStep
<1>1. ASSUME NEW r \in Releases, Create(r) \/ Submit(r) \/ ArtistPatch(r) PROVE OwnStep
  <2>1. pass' = pass
    BY <1>1 DEF Create, Submit, ArtistPatch, Patch, background
  <2> QED
    BY <1>1, <2>1, OwnSimple DEF OwnStep
<1>2. ASSUME NEW r \in Releases, Reopen(r) \/ Artwork(r) PROVE OwnStep
  <2>1. pass' = pass
    BY <1>2 DEF Reopen, Artwork, background
  <2> QED
    BY <1>2, <2>1, OwnReopen, OwnArtwork DEF OwnStep
<1>3. ASSUME NEW r \in Releases, NEW accounted, DeleteRelease(r, accounted) PROVE OwnStep
  <2>1. pass' = pass
    BY <1>3 DEF DeleteRelease, background
  <2> QED
    BY <1>3, <2>1, OwnDelete DEF OwnStep
<1>4. ASSUME NEW r \in Releases, NEW S, RemoveTracks(r, S) PROVE OwnStep
  <2>1. pass' = pass
    BY <1>4 DEF RemoveTracks, background
  <2> QED
    BY <1>4, <2>1, OwnRemove DEF OwnStep
<1>5. ASSUME NEW r \in Releases, AddLink(r) \/ AddFail(r) \/ \E o \in Releases : Clone(o, r) PROVE LinkStep
  BY <1>5 DEF LinkStep
<1>6. ASSUME NEW r \in Releases, NEW s \in Songs, ArtistAdd(r, s) PROVE LinkStep
  BY <1>6 DEF ArtistAdd, LinkStep
<1>7. ASSUME NEW s \in Songs, NEW accounted \in BOOLEAN, ArtistDeleteSong(s, accounted) PROVE SongStep
  BY <1>7, ArtistDeleteEffect DEF SongStep
<1>8. ASSUME NEW s \in Songs,
             (\E to \in {"draft", "pending"} : Upload(s, to)) \/ \E confirmed \in BOOLEAN : EditStart(s, confirmed)
      PROVE  SongStep
  BY <1>8 DEF SongStep
<1>9. ASSUME (\E to \in {"draft", "pending"} : EditCommit(to)) \/ EditFail PROVE SongStep
  BY <1>9 DEF SongStep
<1> QED
  BY <1>1, <1>2, <1>3, <1>4, <1>5, <1>6, <1>7, <1>8, <1>9 DEF Artist

LEMMA AdministratorSteps == ASSUME TypeOK, Administrator PROVE OwnStep \/ LinkStep \/ SongStep \/ OtherStep
<1>1. ASSUME NEW r \in Releases, AdminPatch(r) PROVE OwnStep
  <2>1. pass' = pass
    BY <1>1 DEF AdminPatch, Patch, background
  <2> QED
    BY <1>1, <2>1, OwnSimple DEF OwnStep
<1>2. ASSUME NEW r \in Releases,
             \/ RequestChanges(r) \/ Reject(r) \/ Approve(r) \/ Schedule(r) \/ Publish(r)
             \/ TakeDown(r) \/ AdminReopen(r) \/ ReturnToReview(r)
      PROVE  OwnStep
  <2>1. pass' = pass
    BY <1>2 DEF Moderate, RequestChanges, Reject, Approve, Schedule, Publish, TakeDown, AdminReopen, ReturnToReview,
                background
  <2> QED
    BY <1>2, <2>1, OwnModerate DEF OwnStep
<1>3. ASSUME NEW r \in Releases, Erase(r) \/ Synchronize(r) PROVE OwnStep
  <2>1. pass' = pass
    BY <1>3 DEF Erase, Synchronize, Moderate, background
  <2> QED
    BY <1>3, <2>1, OwnErase, OwnSynchronize DEF OwnStep
<1>4. ASSUME NEW r \in Releases, NEW to \in Statuses, SetStatus(r, to) PROVE OwnStep
  <2>1. pass' = pass
    BY <1>4 DEF SetStatus, Moderate, background
  <2> QED
    BY <1>4, <2>1, OwnSetStatus DEF OwnStep
<1>5. ASSUME NEW r \in Releases, NEW S, AdminRemoveTracks(r, S) PROVE OwnStep
  <2>1. pass' = pass
    BY <1>5 DEF AdminRemoveTracks, background
  <2> QED
    BY <1>5, <2>1, OwnRemoveLinks DEF OwnStep
<1>6. ASSUME NEW r \in Releases, UploadTrack(r) \/ \E s \in Songs : AdminAdd(r, s) PROVE LinkStep
  BY <1>6 DEF AdminAdd, LinkStep
<1>7. ASSUME NEW r \in Releases, Break(r) PROVE OtherStep
  BY <1>7 DEF OtherStep
<1>8. ASSUME NEW s \in Songs, NEW hard \in BOOLEAN, AdminDeleteSong(s, hard) PROVE SongStep
  BY <1>8, AdminDeleteEffect DEF SongStep
<1>9. ASSUME NEW s \in Songs, NEW to \in {"published", "draft", "pending"}, Bulk(s, to) PROVE SongStep
  BY <1>9 DEF SongStep
<1> QED
  BY <1>1, <1>2, <1>3, <1>4, <1>5, <1>6, <1>7, <1>8, <1>9 DEF Administrator

LEMMA AllSteps ==
    ASSUME TypeOK, [Next]_vars
    PROVE  OwnStep \/ LinkStep \/ SongStep \/ OtherStep \/ PublishNext \/ Scan
BY ArtistSteps, AdministratorSteps DEF Next, Scheduler, OtherStep

THEOREM TypesKept == ASSUME IsFiniteSet(Releases) PROVE TypeOK /\ [Next]_vars => TypeOK'
<1> SUFFICES ASSUME TypeOK, [Next]_vars PROVE TypeOK'
  OBVIOUS
<1>1. CASE OwnStep
  BY <1>1, OwnTyped, Before DEF OwnStep
<1>2. CASE LinkStep
  <2>1. {"draft", "in_review"} \subseteq Statuses
    BY Names
  <2> QED
    BY <1>2, <2>1, CloneTyped, UploadTyped, AddLinkTyped, AddFailTyped, AddReadTyped DEF LinkStep
<1>3. CASE SongStep
  BY <1>3, DeleteTyped, SongUploadTyped, BulkTyped, EditTyped, EditCommitTyped DEF SongStep
<1>4. CASE OtherStep
  BY <1>4, RestTyped DEF OtherStep
<1>5. CASE PublishNext
  BY <1>5, OwnPublishNext, OwnTyped
<1>6. CASE Scan
  BY <1>6, ScanTyped
<1> QED
  BY <1>1, <1>2, <1>3, <1>4, <1>5, <1>6, AllSteps

LEMMA TypesFirst == Init => TypeOK
<1> SUFFICES ASSUME Init PROVE TypeOK
  OBVIOUS
<1>1. /\ release \in [Releases -> Release] /\ song \in [Songs -> SongStatuses]
      /\ tracks \in [Releases -> SUBSET {s \in Songs : Present(s)}]
  BY FirstRows DEF Init, SongStatuses
<1>2. adding \in [Releases -> Addition] /\ editing \in Edit /\ pass \in Queues
  BY NoneTyped DEF Init
<1>3. broken \subseteq Releases /\ clock \in 0..MaxTime /\ lost \in 0..MaxLost
  BY BoundAssumption DEF Init
<1>4. \A r \in Releases : tracks[r] = {} /\ r \notin broken /\ Free(r)
  BY DEF Init, Free
<1> QED
  BY <1>1, <1>2, <1>3, <1>4 DEF TypeOK, Queues

(* Releases, recordings, links and the requests under way keep their types,  *)
(* and a release that is gone links nothing.                                 *)
THEOREM TypeCorrect == ASSUME IsFiniteSet(Releases) PROVE Spec => []TypeOK
BY TypesFirst, TypesKept, PTL DEF Spec
-----------------------------------------------------------------------------
(* What is inductive with one addition at a time: its release is being       *)
(* drafted or reviewed, what it links itself no other release links, and no  *)
(* recording is linked twice.                                                *)
AddingDrafts == \A r \in Releases : Free(r) \/ In(r, {"draft", "in_review"})
OneAddition == \A r, o \in Releases : Free(r) \/ Free(o) \/ r = o
AddsAlone ==
    \A r, o \in Releases : ~Free(r) /\ ~adding[r].copies /\ adding[r].song \in tracks[o] => o = r
Shared == AddingDrafts /\ OneAddition /\ Exclusive /\ AddsAlone /\ LivePublished
IInv == TypeOK /\ Shared

(* A step about one release keeps it.                                        *)
LEMMA OwnKept ==
    ASSUME IInv, NEW r \in Releases, Own(r), Shown(r)
    PROVE  Shared' /\ Materializes /\ Dematerializes
<1>0. TypeOK /\ AddingDrafts /\ OneAddition /\ Exclusive /\ AddsAlone /\ LivePublished
  BY DEF IInv, Shared
<1>1. \A o \in Releases : tracks'[o] \subseteq tracks[o] /\ tracks[o] \subseteq Songs
  BY <1>0, Before DEF Own
<1>2. adding' = adding /\ Free(r) /\ \A o \in Releases : Free(o)' <=> Free(o)
  BY DEF Own, Free
<1>3. AddingDrafts'
  BY <1>0, <1>2 DEF AddingDrafts, Own, In
<1>4. OneAddition' /\ AddsAlone'
  BY <1>0, <1>1, <1>2 DEF OneAddition, AddsAlone
<1>5. Exclusive'
  BY <1>0, <1>1 DEF Exclusive
<1>6. \A o \in Releases \ {r} : \A s \in tracks[o] : s \in Songs /\ s \notin tracks[r] /\ song'[s] = song[s]
  BY <1>0, <1>1 DEF Exclusive, Own
<1>7. LivePublished'
  <2> SUFFICES ASSUME NEW o \in Releases, release'[o].status = "live", NEW s \in tracks'[o]
               PROVE  song'[s] \in {"published", "deleted"}
    BY DEF LivePublished, In
  <2>1. CASE o = r
    BY <1>0, <1>1, <2>1 DEF Shown, LivePublished, In
  <2>2. CASE o # r
    BY <1>0, <1>6, <2>2 DEF Own, LivePublished, In
  <2> QED
    BY <2>1, <2>2
<1>8. Materializes
  <2> SUFFICES ASSUME NEW s \in Songs, song[s] # "published", song'[s] = "published"
               PROVE  r \in Linked(s) /\ release'[r].status = "live"
    BY DEF Materializes
  <2>1. s \in tracks[r]
    BY DEF Own
  <2> QED
    BY <2>1 DEF Linked, Shown
<1>9. Dematerializes
  BY DEF Dematerializes, Own, Shown
<1> QED
  BY <1>3, <1>4, <1>5, <1>7, <1>8, <1>9 DEF Shared

(* New recordings are linked once, and by a release that is not live.        *)
LEMMA NewKept ==
    ASSUME IInv, NEW r \in Releases, NEW S \in SUBSET NewSongs, NEW to \in SongStatuses \ {"none", "published"},
           song' = Labelled(S, to), ~In(r, {"live"}) /\ release'[r].status # "live",
           Free(r) \/ release'[r] = release[r],
           \A o \in Releases \ {r} : release'[o] = release[o],
           tracks' = [tracks EXCEPT ![r] = @ \cup S],
           \A o \in Releases : adding'[o] \in {adding[o], NoAddition}
    PROVE  Shared' /\ Materializes /\ Dematerializes
<1>0. TypeOK /\ AddingDrafts /\ OneAddition /\ Exclusive /\ AddsAlone /\ LivePublished
  BY DEF IInv, Shared
<1>1. /\ \A s \in Songs : song'[s] = IF s \in S THEN to ELSE song[s]
      /\ \A o \in Releases : \A s \in tracks[o] : song'[s] = song[s]
  BY <1>0, LabelsOfNew
<1>2. \A o \in Releases : tracks[o] \cap S = {} /\ adding[o].song \notin S
  BY <1>0, NewAreFree
<1>3. tracks'[r] = tracks[r] \cup S /\ \A o \in Releases \ {r} : tracks'[o] = tracks[o]
  BY <1>0, Before
<1>4. Exclusive'
  BY <1>0, <1>2, <1>3 DEF Exclusive
<1>5. \A o \in Releases : Free(o) => Free(o)'
  BY DEF Free
<1>6. \A o \in Releases : Free(o)' \/ adding'[o] = adding[o]
  BY DEF Free
<1>7. AddingDrafts'
  BY <1>0, <1>5 DEF AddingDrafts, In
<1>8. OneAddition'
  BY <1>0, <1>5 DEF OneAddition
<1>9. AddsAlone'
  BY <1>0, <1>2, <1>3, <1>5, <1>6 DEF AddsAlone
<1>10. LivePublished'
  BY <1>0, <1>1, <1>3 DEF LivePublished, In
<1>11. Materializes
  BY <1>1 DEF Materializes
<1>12. Dematerializes
  BY DEF Dematerializes, In
<1> QED
  BY <1>4, <1>7, <1>8, <1>9, <1>10, <1>11, <1>12 DEF Shared

(* Steps that leave the catalogue alone.                                     *)
LEMMA StillKept ==
    ASSUME IInv, UNCHANGED catalogue, \A o \in Releases : adding'[o] \in {adding[o], NoAddition}
    PROVE  Shared' /\ Materializes /\ Dematerializes
<1>0. TypeOK /\ AddingDrafts /\ OneAddition /\ Exclusive /\ AddsAlone /\ LivePublished
  BY DEF IInv, Shared
<1>1. \A o \in Releases : (Free(o) => Free(o)') /\ (Free(o)' \/ adding'[o] = adding[o])
  BY DEF Free
<1>2. AddingDrafts' /\ OneAddition'
  BY <1>0, <1>1 DEF AddingDrafts, OneAddition, In, catalogue
<1>3. Exclusive' /\ LivePublished'
  BY <1>0 DEF Exclusive, LivePublished, In, catalogue
<1>4. AddsAlone'
  BY <1>0, <1>1 DEF AddsAlone, catalogue
<1>5. Materializes /\ Dematerializes
  BY DEF Materializes, Dematerializes, catalogue
<1> QED
  BY <1>2, <1>3, <1>4, <1>5 DEF Shared

LEMMA AddReadKept ==
    ASSUME IInv, IsFiniteSet(Releases), MaxAdditions \in 0..1,
           NEW r \in Releases, NEW s \in Songs, NEW statuses \in SUBSET {"draft", "in_review"}, AddRead(r, s, statuses)
    PROVE  Shared' /\ Materializes /\ Dematerializes
<1>0. TypeOK /\ AddingDrafts /\ OneAddition /\ Exclusive /\ AddsAlone /\ LivePublished
  BY DEF IInv, Shared
<1>1. \A o \in Releases : Free(o)
  <2>1. IsFiniteSet(Additions)
    BY FS_Subset DEF Additions
  <2>2. Cardinality(Additions) \in Nat /\ Cardinality(Additions) < 1
    BY <2>1, FS_CardinalityType DEF AddRead
  <2>3. Additions = {}
    BY <2>1, <2>2, FS_EmptySet
  <2> QED
    BY <2>3 DEF Additions
<1>2. /\ adding'[r] = [song |-> s, copies |-> NeedsCopy(r, s)]
      /\ \A o \in Releases \ {r} : adding'[o] = NoAddition
      /\ UNCHANGED catalogue
  BY <1>0, <1>1, Before DEF AddRead, Free
<1>3. \A o \in Releases \ {r} : Free(o)'
  BY <1>2 DEF Free
<1>4. AddingDrafts'
  BY <1>2, <1>3 DEF AddingDrafts, AddRead, In, catalogue
<1>5. OneAddition'
  BY <1>3 DEF OneAddition
<1>6. AddsAlone'
  <2>1. ~NeedsCopy(r, s) => \A o \in Releases : s \in tracks[o] => o = r
    BY DEF NeedsCopy, Linked
  <2> QED
    BY <1>2, <1>3, <2>1 DEF AddsAlone, catalogue
<1>7. Exclusive' /\ LivePublished'
  BY <1>0, <1>2 DEF Exclusive, LivePublished, In, catalogue
<1>8. Materializes /\ Dematerializes
  BY <1>2 DEF Materializes, Dematerializes, catalogue
<1> QED
  BY <1>4, <1>5, <1>6, <1>7, <1>8 DEF Shared

LEMMA AddLinkKept ==
    ASSUME IInv, NEW r \in Releases, AddLink(r)
    PROVE  Shared' /\ Materializes /\ Dematerializes
<1>0. TypeOK /\ AddingDrafts /\ OneAddition /\ Exclusive /\ AddsAlone /\ LivePublished
  BY DEF IInv, Shared
<1>1. PICK c \in Songs, to \in {"pending", "draft"} :
        /\ \/ adding[r].copies /\ c \in NewSongs /\ song' = Labelled({c}, to)
           \/ ~adding[r].copies /\ c = adding[r].song /\ song[c] # "none"
              /\ (song' = Labelled({c}, to) \/ song' = song)
        /\ tracks' = [tracks EXCEPT ![r] = @ \cup {c}]
  BY <1>0, AddLinkEffect
<1>2. /\ ~Free(r) /\ release' = release
      /\ adding' = [adding EXCEPT ![r] = NoAddition]
  BY <1>0, AddLinkEffect
<1>3. \A o \in Releases : adding'[o] \in {adding[o], NoAddition} /\ (o # r => Free(o)) /\ Free(o)'
  BY <1>0, <1>2, Before DEF OneAddition, Free
<1>4. ~In(r, {"live"})
  BY <1>0, <1>2 DEF AddingDrafts, In
<1>5. to \in SongStatuses \ {"none", "published"}
  BY Names
<1>6. CASE c \in NewSongs /\ song' = Labelled({c}, to)
  <2>1. {c} \in SUBSET NewSongs /\ release'[r].status # "live"
    BY <1>2, <1>4, <1>6 DEF In
  <2>2. \A o \in Releases \ {r} : release'[o] = release[o]
    BY <1>2
  <2> QED
    BY <1>1, <1>2, <1>3, <1>4, <1>5, <1>6, <2>1, <2>2, NewKept
<1>7. CASE ~adding[r].copies /\ c = adding[r].song /\ (song' = Labelled({c}, to) \/ song' = song)
  <2>1. \A o \in Releases \ {r} : c \notin tracks[o]
    BY <1>0, <1>2, <1>7 DEF AddsAlone
  <2>2. \A s \in Songs : s # c => song'[s] = song[s]
    BY <1>0, <1>5, <1>7, Labels, Before
  <2>3. song'[c] \in {song[c], to}
    BY <1>0, <1>5, <1>7, Labels, Before
  <2>4. tracks'[r] = tracks[r] \cup {c} /\ \A o \in Releases \ {r} : tracks'[o] = tracks[o]
    BY <1>0, <1>1, Before
  <2>5. AddingDrafts' /\ OneAddition' /\ AddsAlone'
    BY <1>3 DEF AddingDrafts, OneAddition, AddsAlone
  <2>6. Exclusive'
    BY <1>0, <2>1, <2>4 DEF Exclusive
  <2>7. LivePublished'
    BY <1>0, <1>2, <1>4, <2>1, <2>2, <2>4, Before DEF LivePublished, In
  <2>8. Materializes
    BY <1>5, <2>2, <2>3 DEF Materializes
  <2>9. Dematerializes
    BY <1>2 DEF Dematerializes
  <2> QED
    BY <2>5, <2>6, <2>7, <2>8, <2>9 DEF Shared
<1> QED
  BY <1>1, <1>6, <1>7

LEMMA LinkKept ==
    ASSUME IInv, IsFiniteSet(Releases), MaxAdditions \in 0..1, LinkStep
    PROVE  Shared' /\ Materializes /\ Dematerializes
<1>0. TypeOK
  BY DEF IInv
<1>1. "draft" \in SongStatuses \ {"none", "published"}
  BY Names
<1>2. ASSUME NEW r \in Releases, NEW source \in Releases, Clone(source, r) PROVE Shared' /\ Materializes /\ Dematerializes
  <2>1. PICK S \in SUBSET NewSongs : song' = Labelled(S, "draft") /\ tracks' = [tracks EXCEPT ![r] = S]
    BY <1>2 DEF Clone
  <2>2. release[r].status = "none" /\ tracks[r] = {} /\ Free(r)
    BY <1>0, <1>2 DEF Clone, IsNew, Exists, TypeOK
  <2>3. tracks' = [tracks EXCEPT ![r] = @ \cup S]
    BY <1>0, <2>1, <2>2, Before
  <2>4. release'[r].status = "draft" /\ \A o \in Releases \ {r} : release'[o] = release[o]
    BY <1>0, <1>2, Written, FirstRows DEF Clone
  <2>5. \A o \in Releases : adding'[o] \in {adding[o], NoAddition}
    BY <1>2 DEF Clone, background
  <2> QED
    BY <1>1, <2>1, <2>2, <2>3, <2>4, <2>5, NewKept DEF In
<1>3. ASSUME NEW r \in Releases, UploadTrack(r) PROVE Shared' /\ Materializes /\ Dematerializes
  <2>1. PICK c \in NewSongs : song' = Labelled({c}, "draft") /\ tracks' = [tracks EXCEPT ![r] = @ \cup {c}]
    BY <1>3 DEF UploadTrack
  <2>2. release' = release /\ Free(r) /\ release[r].status = "draft" /\ adding' = adding
    BY <1>3 DEF UploadTrack, In, background
  <2>3. {c} \in SUBSET NewSongs
    BY <2>1
  <2> QED
    BY <1>1, <2>1, <2>2, <2>3, NewKept DEF In
<1>4. ASSUME NEW r \in Releases, AddFail(r) PROVE Shared' /\ Materializes /\ Dematerializes
  <2>1. UNCHANGED catalogue /\ \A o \in Releases : adding'[o] \in {adding[o], NoAddition}
    BY <1>0, <1>4, Before DEF AddFail
  <2> QED
    BY <2>1, StillKept
<1> QED
  BY <1>2, <1>3, <1>4, AddReadKept, AddLinkKept DEF LinkStep

LEMMA DeleteKept == ASSUME IInv, NEW s \in Songs, Deletes(s) PROVE Shared' /\ Materializes /\ Dematerializes
<1>0. TypeOK /\ AddingDrafts /\ OneAddition /\ Exclusive /\ AddsAlone /\ LivePublished
  BY DEF IInv, Shared
<1>1. \A t \in Songs : song'[t] \in {song[t], "deleted", "none"} /\ (t # s => song'[t] = song[t])
  BY DEF Deletes
<1>2. \A o \in Releases : /\ tracks'[o] \subseteq tracks[o] /\ tracks[o] \subseteq Songs
                          /\ Free(o) => Free(o)'
                          /\ ~Free(o) => ~Free(o)' /\ release'[o] = release[o]
  BY <1>0, Before DEF Deletes, background, Free
<1>3. AddingDrafts' /\ OneAddition'
  BY <1>0, <1>2 DEF AddingDrafts, OneAddition, In
<1>4. Exclusive'
  BY <1>0, <1>2 DEF Exclusive
<1>5. AddsAlone'
  BY <1>0, <1>2 DEF AddsAlone, Deletes, background
<1>6. \A o \in Releases : \A t \in tracks'[o] : song'[t] \in {song[t], "deleted"}
  BY <1>1, <1>2 DEF Deletes
<1>7. LivePublished'
  <2> SUFFICES ASSUME NEW o \in Releases, release'[o].status = "live", NEW t \in tracks'[o]
               PROVE  song'[t] \in {"published", "deleted"}
    BY DEF LivePublished, In
  <2>1. release'[o] = release[o]
    BY DEF Deletes
  <2> QED
    BY <1>0, <1>2, <1>6, <2>1 DEF LivePublished, In
<1>8. Materializes
  BY <1>1 DEF Materializes
<1>9. Dematerializes
  <2> SUFFICES ASSUME NEW o \in Releases, release[o].status = "live", release'[o].status # "live", NEW t \in tracks'[o]
               PROVE  song'[t] # "published"
    BY DEF Dematerializes
  <2> QED
    BY DEF Deletes
<1> QED
  BY <1>3, <1>4, <1>5, <1>7, <1>8, <1>9 DEF Shared

(* A recording that no release links changes its status.                     *)
LEMMA UnlinkedKept ==
    ASSUME IInv, NEW s \in Songs, \A o \in Releases : s \notin tracks[o],
           \A t \in Songs \ {s} : song'[t] = song[t], UNCHANGED <<release, tracks, adding>>
    PROVE  Shared' /\ Materializes /\ Dematerializes
<1>0. TypeOK /\ AddingDrafts /\ OneAddition /\ Exclusive /\ AddsAlone /\ LivePublished
  BY DEF IInv, Shared
<1>1. \A o \in Releases : Free(o)' <=> Free(o)
  BY DEF Free
<1>2. AddingDrafts' /\ OneAddition' /\ Exclusive' /\ AddsAlone'
  BY <1>0, <1>1 DEF AddingDrafts, OneAddition, Exclusive, AddsAlone, In
<1>3. LivePublished'
  BY <1>0, Before DEF LivePublished, In
<1>4. Materializes /\ Dematerializes
  BY DEF Materializes, Dematerializes, Linked
<1> QED
  BY <1>2, <1>3, <1>4 DEF Shared

LEMMA EditCommitKept ==
    ASSUME IInv, NEW to \in {"draft", "pending"}, EditCommit(to)
    PROVE  Shared' /\ Materializes /\ Dematerializes
<1> DEFINE s == editing.song
<1>0. TypeOK /\ AddingDrafts /\ OneAddition /\ Exclusive /\ AddsAlone /\ LivePublished
  BY DEF IInv, Shared
<1>1. /\ \A t \in Songs : \/ song'[t] = song[t] /\ t # s
                          \/ song'[t] = to /\ t = s
                          \/ song'[t] = "pending" /\ \E r \in Releases : {s, t} \subseteq tracks[r]
      /\ \A r \in Releases : s \in tracks[r] /\ ~In(r, Unreviewed) =>
           \A t \in tracks[r] :
              \/ song'[t] \in {"pending", "deleted"}
              \/ song[t] = "published" /\ \E o \in Releases : o # r /\ t \in tracks[o]
      /\ \A r \in Releases :
           \/ release'[r] = release[r] /\ (s \notin tracks[r] \/ In(r, Unreviewed))
           \/ release'[r].status = "in_review" /\ Free(r) /\ s \in tracks[r] /\ ~In(r, Unreviewed)
      /\ UNCHANGED <<tracks, adding>>
  BY <1>0, EditCommitEffect
<1> HIDE DEF s
<1>2. \A o \in Releases : Free(o)' <=> Free(o)
  BY <1>1 DEF Free
<1>3. AddingDrafts' /\ OneAddition' /\ Exclusive' /\ AddsAlone'
  BY <1>0, <1>1, <1>2 DEF AddingDrafts, OneAddition, Exclusive, AddsAlone, In
<1>4. LivePublished'
  <2> SUFFICES ASSUME NEW o \in Releases, release'[o].status = "live", NEW t \in tracks[o]
               PROVE  song'[t] \in {"published", "deleted"}
    BY <1>1 DEF LivePublished, In
  <2>1. release[o].status = "live" /\ s \notin tracks[o]
    BY <1>1 DEF In, Unreviewed
  <2>2. t \in Songs /\ t # s /\ ~\E r \in Releases : {s, t} \subseteq tracks[r]
    BY <1>0, <2>1, Before DEF Exclusive
  <2> QED
    BY <1>0, <1>1, <2>1, <2>2 DEF LivePublished, In
<1>5. Materializes
  BY <1>1 DEF Materializes
<1>6. Dematerializes
  <2> SUFFICES ASSUME NEW r \in Releases, release[r].status = "live", release'[r].status # "live", NEW t \in tracks[r]
               PROVE  song'[t] # "published"
    BY <1>1 DEF Dematerializes
  <2>1. s \in tracks[r] /\ ~In(r, Unreviewed)
    BY <1>1 DEF In
  <2> QED
    BY <1>0, <1>1, <2>1 DEF Exclusive
<1> QED
  BY <1>3, <1>4, <1>5, <1>6 DEF Shared

LEMMA SongKept == ASSUME IInv, SongStep PROVE Shared' /\ Materializes /\ Dematerializes
<1>0. TypeOK
  BY DEF IInv
<1>1. ASSUME NEW s \in Songs, NEW to \in {"draft", "pending"}, Upload(s, to)
      PROVE  Shared' /\ Materializes /\ Dematerializes
  <2>1. \A t \in Songs \ {s} : song'[t] = song[t]
    BY <1>1 DEF Upload, Labelled
  <2>2. \A o \in Releases : s \notin tracks[o]
    BY <1>0, <1>1, NewAreFree DEF Upload
  <2> QED
    BY <1>1, <2>1, <2>2, UnlinkedKept DEF Upload, background
<1>2. ASSUME NEW s \in Songs, NEW to \in {"published", "draft", "pending"}, Bulk(s, to)
      PROVE  Shared' /\ Materializes /\ Dematerializes
  <2>1. \A t \in Songs \ {s} : song'[t] = song[t]
    BY <1>0, <1>2, Before DEF Bulk
  <2>2. \A o \in Releases : s \notin tracks[o]
    BY <1>2 DEF Bulk, Linked
  <2> QED
    BY <1>2, <2>1, <2>2, UnlinkedKept DEF Bulk, background
<1>3. ASSUME NEW s \in Songs, NEW confirmed \in BOOLEAN, EditStart(s, confirmed)
      PROVE  Shared' /\ Materializes /\ Dematerializes
  BY <1>3, StillKept DEF EditStart
<1>4. ASSUME EditFail PROVE Shared' /\ Materializes /\ Dematerializes
  BY <1>4, StillKept DEF EditFail
<1> QED
  BY <1>1, <1>2, <1>3, <1>4, DeleteKept, EditCommitKept DEF SongStep

LEMMA StepKept ==
    ASSUME IInv, IsFiniteSet(Releases), MaxAdditions \in 0..1, [Next]_vars
    PROVE  IInv' /\ Materializes /\ Dematerializes
<1>0. TypeOK /\ TypeOK' /\ Exclusive
  BY TypesKept DEF IInv, Shared

<1>1. ASSUME OwnStep PROVE Shared' /\ Materializes /\ Dematerializes
  BY <1>0, <1>1, OwnKept DEF OwnStep
<1>2. ASSUME PublishNext PROVE Shared' /\ Materializes /\ Dematerializes
  BY <1>0, <1>2, OwnPublishNext, OwnKept
<1>3. ASSUME OtherStep PROVE Shared' /\ Materializes /\ Dematerializes
  <2>1. UNCHANGED <<catalogue, adding>>
    BY <1>3 DEF OtherStep, PassLost, Tick, Break, catalogue, background, vars
  <2> QED
    BY <2>1, StillKept
<1>4. ASSUME Scan PROVE Shared' /\ Materializes /\ Dematerializes
  BY <1>4, StillKept DEF Scan
<1>5. Shared' /\ Materializes /\ Dematerializes
  BY <1>0, <1>1, <1>2, <1>3, <1>4, LinkKept, SongKept, AllSteps
<1> QED
  BY <1>0, <1>5 DEF IInv

LEMMA FirstShared == Init => IInv
<1> SUFFICES ASSUME Init PROVE Shared
  BY TypesFirst DEF IInv
<1>1. \A r \in Releases : Free(r) /\ tracks[r] = {} /\ ~In(r, {"live"})
  BY FirstRows DEF Init, Free, In
<1> QED
  BY <1>1 DEF Shared, AddingDrafts, OneAddition, Exclusive, AddsAlone, LivePublished

(* With one addition at a time, the recordings of a live release are public, *)
(* but for those that were deleted.                                          *)
THEOREM LiveArePublic ==
    ASSUME IsFiniteSet(Releases), MaxAdditions \in 0..1
    PROVE  Spec => []LivePublished
<1>1. IInv => LivePublished
  BY DEF IInv, Shared
<1> QED
  BY <1>1, FirstShared, StepKept, PTL DEF Spec

(* With one addition at a time, a recording of a release becomes public with  *)
(* that release only, and is public no more when it is not.                  *)
THEOREM PublicTogether ==
    ASSUME IsFiniteSet(Releases), MaxAdditions \in 0..1
    PROVE  Spec => PublicWithRelease
<1>1. IInv /\ [Next]_vars => IInv' /\ [Materializes /\ Dematerializes]_vars
  BY StepKept
<1> QED
  BY <1>1, FirstShared, PTL DEF Spec, PublicWithRelease
-----------------------------------------------------------------------------
(* The scheduler.  What a scan saw is of a past instant.                      *)
PassPast == pass.now <= clock
DueOnly ==
    \A r \in Releases :
        (pass.queue # <<>> /\ pass' # pass
         /\ release[r].status # "live" /\ release'[r].status = "live")
        => release[r].status = "scheduled" /\ release[r].at <= clock

LEMMA PassKept ==
    ASSUME TypeOK, PassPast, IsFiniteSet(Releases), [Next]_vars
    PROVE  PassPast' /\ DueOnly
<1>0. clock \in Nat /\ pass.now \in Nat
  BY Before DEF Queues
<1>1. CASE OwnStep
  BY <1>1 DEF OwnStep, Own, PassPast, DueOnly
<1>2. CASE LinkStep \/ SongStep
  <2>1. pass' = pass /\ clock' = clock
    <3>1. CASE LinkStep
      BY <3>1 DEF LinkStep, Clone, UploadTrack, AddLink, AddFail, AddRead, background
    <3>2. CASE SongStep
      BY <3>2, EditCommitEffect DEF SongStep, Deletes, Upload, Bulk, EditStart, EditFail, background
    <3> QED
      BY <1>2, <3>1, <3>2
  <2> QED
    BY <2>1 DEF PassPast, DueOnly
<1>3. CASE OtherStep
  <2>1. release' = release
    BY <1>3 DEF OtherStep, PassLost, Tick, Break, catalogue, vars
  <2>2. clock' \in {clock, clock + 1} /\ pass' \in {pass, Resting}
    BY <1>3 DEF OtherStep, PassLost, Tick, Break, background, vars
  <2> QED
    BY <1>0, <2>1, <2>2 DEF PassPast, DueOnly, Resting
<1>4. CASE PublishNext
  <2>1. clock' = clock
    BY <1>4 DEF PublishNext
  <2>2. pass' = Resting \/ pass'.now = pass.now
    BY <1>4, OwnPublishNext
  <2>3. PassPast'
    BY <1>0, <2>1, <2>2 DEF PassPast, Resting
  <2>4. ASSUME NEW r \in Releases, release[r].status # "live", release'[r].status = "live"
        PROVE  release[r].status = "scheduled" /\ release[r].at <= clock
    <3>1. r = Head(pass.queue) /\ StillDue(r)
      BY <1>4, <2>4, OwnPublishNext DEF Own
    <3>2. release[r].status = "scheduled" /\ release[r].at <= pass.now
      BY <3>1 DEF StillDue, Due, In
    <3>3. release[r].at \in Nat
      BY BoundAssumption, Before DEF Release, Never
    <3> QED
      BY <1>0, <3>2, <3>3 DEF PassPast
  <2> QED
    BY <2>3, <2>4 DEF DueOnly
<1>5. CASE Scan
  BY <1>0, <1>5, ScanTyped DEF Scan, PassPast, DueOnly, catalogue
<1> QED
  BY <1>1, <1>2, <1>3, <1>4, <1>5, AllSteps

(* The scheduler makes a release public only while it is scheduled and due.   *)
THEOREM OnlyDueGoLive == ASSUME IsFiniteSet(Releases) PROVE Spec => OnlyDuePublished
<1>1. Init => PassPast
  BY DEF Init, PassPast, Resting
<1>2. TypeOK /\ PassPast /\ [Next]_vars => TypeOK' /\ PassPast' /\ [DueOnly]_vars
  BY PassKept, TypesKept
<1>3. OnlyDuePublished <=> [][DueOnly]_vars
  BY PTL DEF OnlyDuePublished, DueOnly
<1> QED
  BY <1>1, <1>2, <1>3, TypesFirst, PTL DEF Spec
=============================================================================
