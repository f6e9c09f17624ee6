--------------------------- MODULE ServicesProofs ---------------------------
(***************************************************************************)
(* The services around the catalogue, whatever the number of requests, rows  *)
(* and passes.  Of each part: that the start has its inductive invariant, one *)
(* lemma per group of actions, and that the invariant gives the property.  At *)
(* the end the parts are put side by side, as the run checks them.           *)
(*                                                                         *)
(*   toggles  taps that agree reach the state that they name                 *)
(*   notices  notices are not doubled, lost or announced late                *)
(*   mixes    the clean-up deletes nothing that was kept or opened           *)
(*   rankings cached lists follow the catalogue                              *)
(*   banners  every view is counted once, an active banner is shown          *)
(*   splits   payouts are split exactly and keep their split                 *)
(*   lists    a playlist shows its songs whole and keeps what was added      *)
(*   visits   a touched item keeps one row, and pages are slices of the whole*)
(***************************************************************************)
EXTENDS ServicesInvariants, FiniteSetTheorems, FunctionTheorems, SequenceTheorems, WellFoundedInduction, TLAPS

-----------------------------------------------------------------------------
(* Likes, follows and playlist links that are put on or taken back.          *)

LEMMA TapsStart == Toggling!Init => TapsInv
BY DEF Toggling!Init, TapsInv, Toggling!TypeOK, Toggling!WishReached, TapsAim, LikesTurn, Toggling!UnderWay,
   Toggling!Values, Toggling!NoTap

LEMMA TapsLook ==
    ASSUME TapsInv, NEW q \in Taps, NEW wish \in Toggling!Values \cup {"toggle"}, Toggling!Look(q, wish),
           kind \in Toggling!Rows => wish = "toggle"
    PROVE  TapsInv'
<1>1. /\ Toggling!Want(wish) \in Toggling!Values /\ Toggling!Want(wish) # Toggling!NoTap /\ Toggling!NoTap \notin Toggling!Values /\ "any" \notin Toggling!Values
      /\ Toggling!Opposite # relation
  BY DEF Toggling!Want, Toggling!Opposite, Toggling!Values, Toggling!NoTap
<1>2. Toggling!Agreement(wish) \in Toggling!Values \cup {"any"}
  BY <1>1 DEF Toggling!Agreement, TapsInv, Toggling!TypeOK
<1>3. Toggling!UnderWay' = Toggling!UnderWay \cup {q} /\ q \notin Toggling!UnderWay
  BY <1>1 DEF Toggling!Look, Toggling!UnderWay, TapsInv, Toggling!TypeOK
<1>4. failed' \in BOOLEAN
  BY DEF Toggling!Look
<1>5. Toggling!TypeOK'
  BY <1>1, <1>2, <1>4 DEF Toggling!Look, TapsInv, Toggling!TypeOK
<1>6. Toggling!WishReached'
  BY <1>3 DEF Toggling!WishReached
<1>7. TapsAim'
  <2>1. CASE Toggling!UnderWay = {}
    BY <1>3, <2>1 DEF Toggling!Look, Toggling!Agreement, TapsInv, Toggling!TypeOK, TapsAim
  <2>2. CASE Toggling!UnderWay # {} /\ wish = agreed
    <3>1. wish # "toggle"
      BY <2>2 DEF TapsInv, Toggling!TypeOK, Toggling!Values
    <3> QED
      BY <1>3, <2>2, <3>1 DEF Toggling!Look, Toggling!Agreement, Toggling!Want, TapsInv, Toggling!TypeOK,
         TapsAim
  <2>3. CASE Toggling!UnderWay # {} /\ wish # agreed
    BY <2>3 DEF Toggling!Look, Toggling!Agreement, TapsAim
  <2> QED
    BY <2>1, <2>2, <2>3
<1>8. LikesTurn'
  <2> SUFFICES ASSUME kind \in Toggling!Rows, agreed' # "any" PROVE LikesTurn'
    BY DEF Toggling!Look, LikesTurn
  <2>1. wish # agreed
    BY DEF TapsInv, Toggling!TypeOK, Toggling!Values
  <2>2. Toggling!UnderWay = {}
    BY <2>1 DEF Toggling!Look, Toggling!Agreement
  <2> QED
    BY <1>1, <1>3, <2>2 DEF Toggling!Look, Toggling!Want, LikesTurn, TapsInv, Toggling!TypeOK
<1> QED
  BY <1>5, <1>6, <1>7, <1>8 DEF TapsInv

LEMMA TapsWrite ==
    ASSUME TapsInv, NEW q \in Taps, Toggling!WriteRow(q) \/ Toggling!WriteLink(q)
    PROVE  TapsInv'
<1>1. q \in Toggling!UnderWay /\ tap[q] \in Toggling!Values
  BY DEF Toggling!WriteRow, Toggling!WriteLink, Toggling!UnderWay, TapsInv, Toggling!TypeOK
<1>2. Toggling!UnderWay' = Toggling!UnderWay \ {q}
  BY DEF Toggling!WriteRow, Toggling!WriteLink, Toggling!Write, Toggling!UnderWay, TapsInv, Toggling!TypeOK
<1>3. Toggling!TypeOK'
  <2>1. failed' \in BOOLEAN
    BY DEF Toggling!WriteRow, Toggling!WriteLink, TapsInv, Toggling!TypeOK
  <2> QED
    BY <1>1, <2>1 DEF Toggling!WriteRow, Toggling!WriteLink, Toggling!Write, TapsInv, Toggling!TypeOK
<1>4. relation' = tap[q] /\ agreed' = agreed /\ kind' = kind /\ \A p \in Taps : p # q => tap'[p] = tap[p]
  BY DEF Toggling!WriteRow, Toggling!WriteLink, Toggling!Write, TapsInv, Toggling!TypeOK
<1>5. Toggling!WishReached'
  BY <1>1, <1>4 DEF Toggling!WishReached, TapsInv, TapsAim
<1>6. agreed # "any" => ~failed'
  BY <1>1 DEF Toggling!WriteRow, Toggling!WriteLink, TapsInv, TapsAim, LikesTurn
<1>7. TapsAim'
  BY <1>2, <1>4, <1>6 DEF TapsInv, TapsAim, Toggling!UnderWay
<1>8. LikesTurn'
  BY <1>1, <1>2, <1>4 DEF TapsInv, LikesTurn, Toggling!UnderWay
<1> QED
  BY <1>3, <1>5, <1>7, <1>8 DEF TapsInv

LEMMA TapsLose ==
    ASSUME TapsInv, NEW q \in Taps, Toggling!Lose(q)
    PROVE  TapsInv'
<1>1. Toggling!TypeOK'
  BY DEF Toggling!Lose, TapsInv, Toggling!TypeOK
<1> QED
  BY <1>1 DEF Toggling!Lose, TapsInv, Toggling!WishReached, TapsAim, LikesTurn

LEMMA TapsStep == ASSUME TapsInv, Toggling!Next \/ UNCHANGED Toggling!vars PROVE TapsInv'
<1>1. ASSUME NEW q \in Taps,
             Toggling!LikeSong(q) \/ Toggling!LikeAlbum(q) \/ Toggling!LikePlaylist(q) \/ Toggling!LikeUserPlaylist(q) \/ Toggling!SavePlaylist(q)
      PROVE  TapsInv'
  BY <1>1, TapsLook DEF Toggling!LikeSong, Toggling!LikeAlbum, Toggling!LikePlaylist,
     Toggling!LikeUserPlaylist, Toggling!SavePlaylist
<1>2. ASSUME NEW q \in Taps, NEW wish \in Toggling!Values \cup {"toggle"}, Toggling!Follow(q, wish) \/ Toggling!Download(q, wish)
      PROVE  TapsInv'
  BY <1>2, TapsLook DEF Toggling!Follow, Toggling!Download, Toggling!Rows
<1>3. CASE UNCHANGED Toggling!vars
  BY <1>3 DEF Toggling!vars, TapsInv, Toggling!TypeOK, Toggling!WishReached, TapsAim, LikesTurn,
     Toggling!UnderWay
<1>4. ASSUME NEW q \in Taps, Toggling!WriteRow(q) \/ Toggling!WriteLink(q) \/ Toggling!Lose(q)
      PROVE  TapsInv'
  BY <1>4, TapsWrite, TapsLose
<1> QED
  BY <1>1, <1>2, <1>3, <1>4 DEF Toggling!Next

LEMMA TapsInvAgree == ASSUME TapsInv PROVE Toggling!TypeOK /\ Toggling!WishReached /\ Toggling!LoneTapSucceeds
BY DEF TapsInv, TapsAim, Toggling!LoneTapSucceeds

-----------------------------------------------------------------------------
(* Notices: the rows, the handlers' tasks and the sockets.                   *)

LEMMA NoneSilent == \A k \in Notices!Kinds : "none" \notin k.announced
<1>1. /\ Notices!StatusKind.announced = {"accepted", "refused"} /\ Notices!RowKind.announced = {"accepted"}
      /\ "announced" \in DOMAIN Notices!StatusKind /\ "announced" \in DOMAIN Notices!RowKind
  BY DEF Notices!StatusKind, Notices!RowKind
<1>2. \A st \in {{"accepted"}, {"accepted", "refused"}} : "none" \notin st
  OBVIOUS
<1> QED
  BY <1>1, <1>2 DEF Notices!Kinds, Notices!FollowCreated, Notices!UserPlaylistLiked, Notices!SongLiked,
     Notices!AlbumLiked, Notices!SongPublished, Notices!AlbumCreated,
    Notices!PlaylistPublic, Notices!CatalogPlaylistCreated, Notices!ReleaseStatus, Notices!AuthStatus, Notices!ImageStatus, Notices!PaymentStatus, Notices!DepositStatus,
    Notices!SongOwnerStatus

LEMMA IdleTask == ASSUME NoticeBounds PROVE Notices!Idle \in Notices!Task
BY DEF NoticeBounds, Notices!Idle, Notices!Task, Notices!Statuses

LEMMA TaskFields ==
    ASSUME Notices!TypeOK, NEW h \in Actors
    PROVE  /\ task[h] \in Notices!Task
           /\ task[h].status \in Notices!Statuses /\ task[h].old \in Notices!Statuses
           /\ task[h].row \in 0..MaxChanges /\ task[h].note \in 0..MaxRows
           /\ Notices!Subject(h) \in Subjects \cup {NoSubject}
BY DEF Notices!TypeOK, Notices!Task, Notices!Subject

LEMMA NotesTyped ==
    ASSUME Notices!TypeOK, MaxRows \in Nat
    PROVE  /\ Notices!Rows = 1..Len(notes) /\ Len(notes) \in Nat /\ Notices!Rows \subseteq Notices!Ids
           /\ \A n \in Notices!Rows : /\ notes[n] \in Notices!Note /\ notes[n].subject \in Subjects /\ notes[n].status \in Notices!Statuses
                                      /\ notes[n].read \in BOOLEAN /\ notes[n].recent \in BOOLEAN
<1>1. notes \in Seq(Notices!Note) /\ Len(notes) <= MaxRows
  BY DEF Notices!TypeOK
<1>2. Notices!Rows = 1..Len(notes) /\ Len(notes) \in Nat /\ \A n \in Notices!Rows : notes[n] \in Notices!Note
  BY <1>1 DEF Notices!Rows
<1>3. \A n \in Notices!Note : n.subject \in Subjects /\ n.status \in Notices!Statuses /\ n.read \in BOOLEAN /\ n.recent \in BOOLEAN
  BY DEF Notices!Note
<1> QED
  BY <1>1, <1>2, <1>3 DEF Notices!Ids

LEMMA NoticesStart == ASSUME NoticeBounds, Notices!Init PROVE NoticesInv
<1>1. Notices!TypeOK
  BY IdleTask DEF Notices!Init, Notices!TypeOK, NoticeBounds, Notices!Statuses, Notices!Socket
<1>2. \A s \in Subjects : status[s] \notin announced[s].announced
  BY NoneSilent DEF Notices!Init
<1>3. WillTell
  BY <1>2 DEF WillTell
<1>4. TasksAim /\ RowsCounted
  BY DEF Notices!Init, TasksAim, RowsCounted, Notices!At, Notices!Idle
<1>5. Notices!Rows = {}
  BY DEF Notices!Init, Notices!Rows
<1> QED
  BY <1>1, <1>3, <1>4, <1>5 DEF NoticesInv, Notices!OneRecent, Notices!UnreadPushed, Notices!SocketKnows

-----------------------------------------------------------------------------
(* Steps of one task that is on no row's way.                                 *)
LEMMA AsideDelivers ==
    ASSUME NoticesInv, NEW h \in Actors, Aside(h), announced' = announced
    PROVE  Notices!OneRecent' /\ Notices!UnreadPushed' /\ Notices!SocketKnows'
<1>1. Notices!Rows' = Notices!Rows /\ \A n \in Notices!Rows : Notices!Unread(n)' = Notices!Unread(n)
  BY DEF Aside, Notices!Rows, Notices!Unread
<1>2. \A n : Notices!OnItsWay(n) => Notices!OnItsWay(n)'
  BY DEF Aside, Notices!OnItsWay
<1> QED
  BY <1>1, <1>2 DEF Aside, Notices!delivery, NoticesInv, Notices!OneRecent, Notices!UnreadPushed,
     Notices!SocketKnows

(* A subject is saved.                                                        *)
LEMMA ChangeTypes ==
    ASSUME NoticeBounds, NoticesInv, NEW s \in Subjects, NEW st \in Notices!Statuses, Notices!Change(s, st), changes < MaxChanges
    PROVE  /\ status' \in [Subjects -> Notices!Statuses] /\ row' \in [Subjects -> 0..MaxChanges]
           /\ changes' \in 0..MaxChanges /\ told' \subseteq Subjects /\ RowsCounted'
           /\ Notices!NextRow(s, st) \in 0..MaxChanges
           /\ status'[s] = st /\ row'[s] = Notices!NextRow(s, st)
           /\ \A o \in Subjects : o # s => status'[o] = status[o] /\ row'[o] = row[o]
<1>1. row[s] \in 0..MaxChanges /\ changes \in 0..MaxChanges /\ row[s] <= changes
  BY DEF NoticesInv, Notices!TypeOK, RowsCounted
<1>2. Notices!NextRow(s, st) \in 0..MaxChanges /\ Notices!NextRow(s, st) <= changes + 1
  BY <1>1 DEF Notices!NextRow, NoticeBounds
<1>3. status' \in [Subjects -> Notices!Statuses] /\ row' \in [Subjects -> 0..MaxChanges]
  BY <1>2 DEF Notices!Change, NoticesInv, Notices!TypeOK
<1>4. changes' \in 0..MaxChanges /\ told' \subseteq Subjects
  BY <1>1 DEF Notices!Change, NoticeBounds, NoticesInv, Notices!TypeOK
<1>5. RowsCounted'
  <2> SUFFICES ASSUME NEW o \in Subjects PROVE row'[o] <= changes'
    BY DEF RowsCounted
  <2>1. row[o] \in 0..MaxChanges /\ row[o] <= changes
    BY DEF NoticesInv, Notices!TypeOK, RowsCounted
  <2>2. row'[o] \in {row[o], Notices!NextRow(s, st)}
    BY DEF Notices!Change, NoticesInv, Notices!TypeOK
  <2> QED
    BY <1>1, <1>2, <2>1, <2>2 DEF Notices!Change
<1> QED
  BY <1>2, <1>3, <1>4, <1>5 DEF Notices!Change, NoticesInv, Notices!TypeOK

LEMMA CommittedTask ==
    ASSUME NoticeBounds, NoticesInv, NEW h \in Actors, NEW s \in Subjects, NEW st \in Notices!Statuses, NEW before,
           Notices!NextRow(s, st) \in 0..MaxChanges, Notices!Committed(h, s, before, st)
    PROVE  /\ task' \in [Actors -> Notices!Task]
           /\ \A g \in Actors : g # h => task'[g] = task[g]
           /\ task'[h].pc \in {"idle", "deliver"}
           /\ task'[h].pc = "deliver" => task'[h].subject = s
           /\ Notices!Announces(s, before, st) => /\ task'[h].pc = "deliver" /\ task'[h].subject = s
                                                  /\ task'[h].status = st /\ task'[h].row = Notices!NextRow(s, st)
<1> DEFINE new == [Notices!Idle EXCEPT !.pc = "deliver", !.subject = s, !.status = st, !.row = Notices!NextRow(s, st)]
<1>1. new \in Notices!Task /\ new.pc = "deliver" /\ new.subject = s /\ new.status = st /\ new.row = Notices!NextRow(s, st)
  BY IdleTask DEF Notices!Task
<1>2. task' = [task EXCEPT ![h] = IF Notices!Announces(s, before, st) THEN new ELSE Notices!Idle]
  BY DEF Notices!Committed
<1>3. task \in [Actors -> Notices!Task]
  BY DEF NoticesInv, Notices!TypeOK
<1>4. Notices!Idle.pc = "idle"
  BY DEF Notices!Idle
<1> HIDE DEF new
<1>5. CASE Notices!Announces(s, before, st)
  BY <1>1, <1>2, <1>3, <1>4, <1>5
<1>6. CASE ~Notices!Announces(s, before, st)
  BY <1>2, <1>3, <1>4, <1>6, IdleTask
<1> QED
  BY <1>5, <1>6

LEMMA SavesKeep ==
    ASSUME NoticeBounds, NoticesInv, NEW h \in Actors, NEW s \in Subjects, NEW st \in Notices!Statuses, NEW before \in Notices!Statuses,
           changes < MaxChanges, task[h].pc \in {"idle", "save"},
           Notices!Change(s, st), Notices!Committed(h, s, before, st), UNCHANGED <<notes, Notices!delivery>>,
           announced[s].locked => before = status[s] /\ st # status[s]
    PROVE  NoticesInv'
<1>1. /\ status' \in [Subjects -> Notices!Statuses] /\ row' \in [Subjects -> 0..MaxChanges]
      /\ changes' \in 0..MaxChanges /\ told' \subseteq Subjects /\ RowsCounted'
      /\ Notices!NextRow(s, st) \in 0..MaxChanges /\ status'[s] = st /\ row'[s] = Notices!NextRow(s, st)
      /\ \A o \in Subjects : o # s => status'[o] = status[o] /\ row'[o] = row[o]
  BY ChangeTypes
<1>2. /\ task' \in [Actors -> Notices!Task]
      /\ \A g \in Actors : g # h => task'[g] = task[g]
      /\ task'[h].pc \in {"idle", "deliver"}
      /\ task'[h].pc = "deliver" => task'[h].subject = s
      /\ Notices!Announces(s, before, st) => /\ task'[h].pc = "deliver" /\ task'[h].subject = s
                                             /\ task'[h].status = st /\ task'[h].row = Notices!NextRow(s, st)
  BY <1>1, CommittedTask
<1>3. Notices!TypeOK'
  BY <1>1, <1>2 DEF NoticesInv, Notices!TypeOK, Notices!Change, Notices!delivery
<1>4. announced' = announced /\ Notices!Rows' = Notices!Rows
  BY DEF Notices!Change, Notices!Rows
<1>5. Aside(h)
  BY <1>2 DEF Aside
<1>6. TasksAim'
  BY <1>2, <1>4 DEF NoticesInv, TasksAim, Notices!At, Notices!Subject
<1>7. WillTell'
  <2> SUFFICES ASSUME NEW o \in Subjects, announced[o].locked, ~announced[o].asks, status'[o] \in announced[o].announced, o \notin told'
               PROVE  \E g \in Actors : Finds(g, o)'
    BY <1>4 DEF WillTell
  <2>1. CASE o = s
    <3>1. Notices!Announces(s, before, st)
      BY <1>1, <2>1 DEF Notices!Announces
    <3> QED
      BY <1>1, <1>2, <2>1, <3>1 DEF Finds, Notices!At, Notices!Subject
  <2>2. CASE o # s
    <3>1. PICK g \in Actors : Finds(g, o)
      BY <1>1, <2>2 DEF NoticesInv, WillTell, Notices!Change
    <3>2. g # h
      BY <3>1 DEF Finds, Notices!At
    <3> QED
      BY <1>1, <1>2, <2>2, <3>1, <3>2 DEF Finds, Notices!At, Notices!Subject
  <2> QED
    BY <2>1, <2>2
<1> QED
  BY <1>1, <1>3, <1>4, <1>5, <1>6, <1>7, AsideDelivers DEF NoticesInv

LEMMA HandlersSave ==
    ASSUME NoticeBounds, NoticesInv, NEW h \in Actors,
           Notices!Save(h) \/ \E s \in Subjects, st \in Notices!Statuses : Notices!SaveLocked(h, s, st)
    PROVE  NoticesInv'
<1>1. ASSUME NEW s \in Subjects, NEW st \in Notices!Statuses, Notices!SaveLocked(h, s, st) PROVE NoticesInv'
  <2>1. status[s] \in Notices!Statuses
    BY DEF NoticesInv, Notices!TypeOK
  <2> QED
    BY <1>1, <2>1, SavesKeep DEF Notices!SaveLocked, Notices!At
<1>2. CASE Notices!Save(h)
  <2>1. Notices!Subject(h) \in Subjects /\ ~announced[Notices!Subject(h)].locked /\ task[h].old \in Notices!Statuses /\ task[h].status \in Notices!Statuses
    BY <1>2, TaskFields DEF Notices!Save, Notices!At, NoticesInv, TasksAim
  <2> QED
    BY <1>2, <2>1, SavesKeep DEF Notices!Save, Notices!At
<1> QED
  BY <1>1, <1>2

(* Steps that leave subjects and what was told alone, and no callback is lost *)
(* that would tell.                                                           *)
LEMMA TellsOn ==
    ASSUME NoticesInv, UNCHANGED Notices!subjects, told \subseteq told',
           \A h \in Actors, s \in Subjects :
              ~announced[s].asks /\ Finds(h, s) => s \in told' \/ Finds(h, s)'
    PROVE  WillTell' /\ RowsCounted'
BY DEF NoticesInv, WillTell, RowsCounted, Notices!subjects

LEMMA Moved ==
    ASSUME Notices!TypeOK, NEW h \in Actors, NEW t \in Notices!Task, task' = [task EXCEPT ![h] = t]
    PROVE  /\ task' \in [Actors -> Notices!Task] /\ task'[h] = t
           /\ \A g \in Actors : g # h => task'[g] = task[g]
BY DEF Notices!TypeOK

LEMMA CaptureKeeps ==
    ASSUME NoticeBounds, NoticesInv, NEW h \in Actors, NEW s \in Subjects, NEW st \in Notices!Statuses, Notices!Capture(h, s, st)
    PROVE  NoticesInv'
<1> DEFINE new == [Notices!Idle EXCEPT !.pc = "save", !.subject = s, !.old = status[s], !.status = st]
<1>1. new \in Notices!Task /\ new.pc = "save" /\ new.subject = s
  <2>1. status[s] \in Notices!Statuses
    BY DEF NoticesInv, Notices!TypeOK
  <2> QED
    BY <2>1, IdleTask DEF Notices!Task
<1>2. task' = [task EXCEPT ![h] = new] /\ Notices!At(h, "idle") /\ ~announced[s].locked
      /\ UNCHANGED <<Notices!subjects, notes, told, Notices!delivery>>
  BY DEF Notices!Capture
<1> HIDE DEF new
<1>3. task' \in [Actors -> Notices!Task] /\ task'[h] = new /\ \A g \in Actors : g # h => task'[g] = task[g]
  BY <1>1, <1>2, Moved DEF NoticesInv
<1>4. Notices!TypeOK'
  BY <1>2, <1>3 DEF NoticesInv, Notices!TypeOK, Notices!subjects, Notices!delivery
<1>5. TasksAim'
  BY <1>1, <1>2, <1>3 DEF NoticesInv, TasksAim, Notices!At, Notices!Subject, Notices!Rows, Notices!subjects
<1>6. WillTell' /\ RowsCounted'
  <2>1. ASSUME NEW g \in Actors, NEW o \in Subjects, Finds(g, o) PROVE Finds(g, o)'
    <3>1. g # h
      BY <1>2, <2>1 DEF Finds, Notices!At
    <3> QED
      BY <1>2, <1>3, <2>1, <3>1 DEF Finds, Notices!At, Notices!Subject, Notices!subjects
  <2> QED
    BY <1>2, <2>1, TellsOn
<1>7. Aside(h)
  BY <1>2, <1>3 DEF Aside, Notices!At
<1> QED
  BY <1>2, <1>4, <1>5, <1>6, <1>7, AsideDelivers DEF NoticesInv, Notices!subjects

(* The task ends, or moves on.                                                *)
LEMMA Ended ==
    ASSUME NoticeBounds, NoticesInv, NEW h \in Actors, Notices!End(h)
    PROVE  /\ task' \in [Actors -> Notices!Task]
           /\ \A g \in Actors : g # h => task'[g] = task[g]
           /\ task'[h] = Notices!Idle
BY IdleTask, Moved DEF Notices!End, NoticesInv

LEMMA Went ==
    ASSUME NoticeBounds, NoticesInv, NEW h \in Actors, NEW pc \in {"send", "push"}, Notices!Goto(h, pc)
    PROVE  /\ task' \in [Actors -> Notices!Task]
           /\ \A g \in Actors : g # h => task'[g] = task[g]
           /\ task'[h].pc = pc /\ task'[h].subject = task[h].subject
           /\ task'[h].status = task[h].status /\ task'[h].row = task[h].row
           /\ task'[h].note = task[h].note
<1> DEFINE new == [task[h] EXCEPT !.pc = pc]
<1>1. task[h] \in Notices!Task /\ task' = [task EXCEPT ![h] = new]
  BY TaskFields DEF Notices!Goto, NoticesInv, Notices!TypeOK
<1>2. /\ new \in Notices!Task /\ new.pc = pc /\ new.subject = task[h].subject /\ new.status = task[h].status
      /\ new.row = task[h].row /\ new.note = task[h].note
  BY <1>1 DEF Notices!Task
<1> HIDE DEF new
<1>3. task' \in [Actors -> Notices!Task] /\ task'[h] = new /\ \A g \in Actors : g # h => task'[g] = task[g]
  BY <1>1, <1>2, Moved DEF NoticesInv
<1> QED
  BY <1>2, <1>3

LEMMA DeliverKeeps ==
    ASSUME NoticeBounds, NoticesInv, NEW h \in Actors, Notices!Deliver(h) \/ Notices!Refused(h)
    PROVE  NoticesInv'
<1>1. /\ task' \in [Actors -> Notices!Task]
      /\ \A g \in Actors : g # h => task'[g] = task[g]
      /\ task'[h] = Notices!Idle \/ (/\ task'[h].pc = "send" /\ task'[h].subject = task[h].subject
                                     /\ task'[h].status = task[h].status /\ Notices!At(h, "deliver"))
      /\ task[h].pc \in {"deliver", "send"}
      /\ UNCHANGED <<Notices!subjects, notes, told, Notices!delivery>>
  BY Ended, Went DEF Notices!Deliver, Notices!Refused, Notices!At
<1>2. Notices!TypeOK'
  BY <1>1 DEF NoticesInv, Notices!TypeOK, Notices!subjects, Notices!delivery
<1>3. TasksAim'
  BY <1>1 DEF NoticesInv, TasksAim, Notices!At, Notices!Subject, Notices!Rows, Notices!subjects, Notices!Idle
<1>4. WillTell' /\ RowsCounted'
  <2>1. ASSUME NEW g \in Actors, NEW o \in Subjects, ~announced[o].asks, Finds(g, o) PROVE Finds(g, o)'
    <3>1. CASE g # h
      BY <1>1, <2>1, <3>1 DEF Finds, Notices!At, Notices!Subject, Notices!subjects
    <3>2. CASE g = h
      <4>1. Notices!Deliver(h) /\ status[Notices!Subject(h)] = task[h].status /\ row[Notices!Subject(h)] = task[h].row
        BY <2>1, <3>2 DEF Notices!Deliver, Notices!Refused, Finds, Notices!At
      <4>2. Notices!Goto(h, "send") /\ ~Notices!At(h, "idle")
        BY <4>1 DEF Notices!Deliver, Notices!At
      <4>3. task'[h].pc = "send" /\ task'[h].subject = task[h].subject /\ task'[h].status = task[h].status
        BY <4>2, TaskFields DEF Notices!Goto, NoticesInv, Notices!TypeOK, Notices!Task
      <4> QED
        BY <1>1, <2>1, <3>2, <4>3 DEF Finds, Notices!At, Notices!Subject, Notices!subjects
    <3> QED
      BY <3>1, <3>2
  <2> QED
    BY <1>1, <2>1, TellsOn
<1>5. Aside(h)
  BY <1>1 DEF Aside
<1> QED
  BY <1>1, <1>2, <1>3, <1>4, <1>5, AsideDelivers DEF NoticesInv, Notices!subjects
-----------------------------------------------------------------------------
(* The announcement writes a row.                                             *)
LEMMA SendTask ==
    ASSUME NoticeBounds, NoticesInv, NEW h \in Actors, Notices!At(h, "send"), NEW n \in 0..MaxRows,
           task' = [task EXCEPT ![h].pc = "read", ![h].note = n]
    PROVE  /\ task' \in [Actors -> Notices!Task]
           /\ \A g \in Actors : g # h => task'[g] = task[g]
           /\ task'[h].pc = "read" /\ task'[h].note = n /\ task'[h].subject = task[h].subject
<1>1. task[h] \in Notices!Task
  BY TaskFields DEF NoticesInv
<1>2. task' = [task EXCEPT ![h] = [task[h] EXCEPT !.pc = "read", !.note = n]]
  BY <1>1 DEF NoticesInv, Notices!TypeOK
<1> DEFINE new == [task[h] EXCEPT !.pc = "read", !.note = n]
<1>3. new \in Notices!Task /\ new.pc = "read" /\ new.note = n /\ new.subject = task[h].subject
  BY <1>1 DEF Notices!Task
<1> HIDE DEF new
<1>4. task' = [task EXCEPT ![h] = new]
  BY <1>2 DEF new
<1> QED
  BY <1>3, <1>4, Moved DEF NoticesInv

LEMMA RefreshedRow ==
    ASSUME NoticesInv, MaxRows \in Nat, NEW n \in Notices!Rows, notes' = [notes EXCEPT ![n].read = FALSE, ![n].recent = TRUE]
    PROVE  /\ notes' \in Seq(Notices!Note) /\ Len(notes') = Len(notes) /\ Notices!Rows' = Notices!Rows
           /\ \A m \in Notices!Rows : m # n => notes'[m] = notes[m]
           /\ notes'[n].subject = notes[n].subject /\ notes'[n].status = notes[n].status
           /\ notes'[n].read = FALSE /\ notes'[n].recent = TRUE
<1>1. /\ Notices!Rows = 1..Len(notes) /\ Len(notes) \in Nat /\ notes[n] \in Notices!Note /\ notes \in Seq(Notices!Note)
  BY NotesTyped DEF NoticesInv, Notices!TypeOK
<1> DEFINE new == [notes[n] EXCEPT !.read = FALSE, !.recent = TRUE]
<1>2. new \in Notices!Note /\ new.subject = notes[n].subject /\ new.status = notes[n].status /\ new.read = FALSE /\ new.recent = TRUE
  BY <1>1 DEF Notices!Note
<1>3. notes' = [notes EXCEPT ![n] = new]
  BY <1>1 DEF Notices!Rows
<1> HIDE DEF new
<1>4. notes' \in Seq(Notices!Note) /\ Len(notes') = Len(notes)
  <2>1. n \in 1..Len(notes) /\ notes \in Seq(Notices!Note) /\ new \in Notices!Note
    BY <1>1, <1>2
  <2>2. PICK E, list, e : E = Notices!Note /\ list = notes /\ e = new
    OBVIOUS
  <2>3. list \in Seq(E) /\ n \in 1..Len(list) /\ e \in E
    BY <2>1, <2>2
  <2>4. [list EXCEPT ![n] = e] \in Seq(E) /\ Len([list EXCEPT ![n] = e]) = Len(list)
    BY <2>3, ExceptSeq
  <2>5. notes' = [list EXCEPT ![n] = e]
    BY <1>3, <2>2
  <2> QED
    BY <2>2, <2>4, <2>5
<1>5. DOMAIN notes' = DOMAIN notes /\ notes'[n] = new /\ \A m \in Notices!Rows : m # n => notes'[m] = notes[m]
  BY <1>1, <1>3 DEF Notices!Rows
<1> QED
  BY <1>2, <1>4, <1>5 DEF Notices!Rows

LEMMA Untouched ==
    ASSUME NoticesInv, Sockets = Sockets, NEW n \in Notices!Ids, Notices!TurnsUnread(n)
    PROVE  /\ socket' \in [Sockets -> Notices!Socket] /\ pushed' \subseteq Notices!Ids
           /\ \A m : m # n => /\ m \in pushed => m \in pushed'
                              /\ \A k \in Sockets : m \in socket[k].knows => m \in socket'[k].knows
           /\ \A k \in Sockets : socket'[k].pc = socket[k].pc
BY DEF Notices!TurnsUnread, NoticesInv, Notices!TypeOK, Notices!Socket

LEMMA RefreshKeeps ==
    ASSUME NoticeBounds, NoticesInv, NEW h \in Actors, Notices!Refresh(h)
    PROVE  NoticesInv'
<1>1. PICK n \in Notices!Existing(h) :
        /\ notes' = [notes EXCEPT ![n].read = FALSE, ![n].recent = TRUE]
        /\ Notices!Tell(notes[n].subject, notes[n].status)
        /\ IF notes[n].read THEN Notices!TurnsUnread(n) ELSE UNCHANGED Notices!delivery
        /\ IF Notices!ShouldPublish(n) THEN task' = [task EXCEPT ![h].pc = "read", ![h].note = n] ELSE Notices!End(h)
  BY DEF Notices!Refresh
<1>2. /\ n \in Notices!Rows /\ notes[n].recent /\ notes[n].subject = Notices!Subject(h) /\ notes[n].status = task[h].status
      /\ Notices!At(h, "send") /\ UNCHANGED Notices!subjects /\ MaxRows \in Nat
  BY DEF Notices!Refresh, Notices!Existing, Notices!SameText, NoticeBounds
<1>3. /\ notes' \in Seq(Notices!Note) /\ Len(notes') = Len(notes) /\ Notices!Rows' = Notices!Rows
      /\ \A m \in Notices!Rows : m # n => notes'[m] = notes[m]
      /\ notes'[n].subject = notes[n].subject /\ notes'[n].status = notes[n].status
      /\ notes'[n].read = FALSE /\ notes'[n].recent = TRUE
  BY <1>1, <1>2, RefreshedRow
<1>4. n \in Notices!Ids /\ n \in 0..MaxRows /\ notes[n].read \in BOOLEAN /\ notes[n].subject \in Subjects
  BY <1>2, NotesTyped DEF NoticesInv, Notices!Ids
<1>5. /\ task' \in [Actors -> Notices!Task]
      /\ \A g \in Actors : g # h => task'[g] = task[g]
      /\ notes[n].read => task'[h].pc = "read" /\ task'[h].note = n /\ task'[h].subject = task[h].subject
      /\ ~notes[n].read => task'[h] = Notices!Idle
  BY <1>1, <1>2, <1>4, SendTask, Ended, Went DEF Notices!ShouldPublish, Notices!At
<1>6. /\ socket' \in [Sockets -> Notices!Socket] /\ pushed' \subseteq Notices!Ids /\ lost' = lost /\ faults' = faults
      /\ \A m : m # n \/ ~notes[n].read =>
            /\ m \in pushed => m \in pushed'
            /\ \A k \in Sockets : m \in socket[k].knows => m \in socket'[k].knows
      /\ \A k \in Sockets : socket'[k].pc = socket[k].pc
  <2>1. CASE notes[n].read
    BY <1>1, <1>4, <2>1, Untouched DEF Notices!TurnsUnread
  <2>2. CASE ~notes[n].read
    BY <1>1, <2>2 DEF Notices!delivery, NoticesInv, Notices!TypeOK
  <2> QED
    BY <2>1, <2>2
<1>7. told' \subseteq Subjects /\ told \subseteq told' /\ (status[Notices!Subject(h)] = task[h].status => Notices!Subject(h) \in told')
  BY <1>1, <1>2, <1>4 DEF Notices!Tell, NoticesInv, Notices!TypeOK
<1>8. Notices!TypeOK'
  BY <1>2, <1>3, <1>5, <1>6, <1>7 DEF NoticesInv, Notices!TypeOK, Notices!subjects
<1>9. TasksAim'
  BY <1>2, <1>3, <1>5 DEF NoticesInv, TasksAim, Notices!At, Notices!Subject, Notices!subjects, Notices!Idle
<1>10. Notices!OneRecent'
  <2>1. \A m \in Notices!Rows : notes'[m].recent = notes[m].recent \/ (notes'[m].recent /\ notes[m].recent)
    BY <1>2, <1>3
  <2>2. \A m \in Notices!Rows : notes'[m].subject = notes[m].subject /\ notes'[m].status = notes[m].status
    BY <1>3
  <2> QED
    BY <1>2, <1>3, <2>1, <2>2 DEF NoticesInv, Notices!OneRecent, Notices!subjects
<1>11. \A m \in Notices!Rows : Notices!OnItsWay(m) => Notices!OnItsWay(m)'
  BY <1>2, <1>5 DEF Notices!OnItsWay, Notices!At
<1>12. notes[n].read => Notices!OnItsWay(n)'
  BY <1>5 DEF Notices!OnItsWay
<1>13. \A m \in Notices!Rows : Notices!Unread(m)' /\ (m # n \/ ~notes[n].read) => Notices!Unread(m)
  BY <1>3 DEF Notices!Unread
<1>14. Notices!UnreadPushed'
  BY <1>3, <1>6, <1>11, <1>12, <1>13 DEF NoticesInv, Notices!UnreadPushed
<1>15. Notices!SocketKnows'
  BY <1>3, <1>6, <1>11, <1>12, <1>13 DEF NoticesInv, Notices!SocketKnows
<1>16. WillTell' /\ RowsCounted'
  <2>1. ASSUME NEW g \in Actors, NEW o \in Subjects, Finds(g, o) PROVE o \in told' \/ Finds(g, o)'
    <3>1. CASE g # h
      BY <1>2, <1>5, <2>1, <3>1 DEF Finds, Notices!At, Notices!Subject, Notices!subjects
    <3>2. CASE g = h
      BY <1>7, <2>1, <3>2 DEF Finds
    <3> QED
      BY <3>1, <3>2
  <2> QED
    BY <1>2, <1>7, <2>1, TellsOn
<1> QED
  BY <1>8, <1>9, <1>10, <1>14, <1>15, <1>16 DEF NoticesInv

LEMMA CreateKeeps ==
    ASSUME NoticeBounds, NoticesInv, NEW h \in Actors, Notices!Create(h)
    PROVE  NoticesInv'
<1> DEFINE new == [subject |-> Notices!Subject(h), status |-> task[h].status, read |-> FALSE, recent |-> TRUE]
<1>1. PICK n : n = Len(notes) + 1
  OBVIOUS
<1>2. /\ Notices!At(h, "send") /\ Len(notes) < MaxRows
      /\ (announced[Notices!Subject(h)].broadcast \/ Notices!Existing(h) = {})
      /\ notes' = Append(notes, new) /\ Notices!Tell(Notices!Subject(h), task[h].status)
      /\ task' = [task EXCEPT ![h].pc = "read", ![h].note = n]
      /\ UNCHANGED <<Notices!subjects, Notices!delivery>> /\ MaxRows \in Nat
  BY <1>1 DEF Notices!Create, NoticeBounds
<1>3. /\ Notices!Rows = 1..Len(notes) /\ Len(notes) \in Nat /\ notes \in Seq(Notices!Note) /\ Notices!Subject(h) \in Subjects
      /\ task[h].status \in Notices!Statuses
  BY <1>2, NotesTyped, TaskFields DEF NoticesInv, Notices!TypeOK, TasksAim, Notices!At
<1>4. new \in Notices!Note /\ new.subject = Notices!Subject(h) /\ new.status = task[h].status /\ n \in 0..MaxRows /\ n \in Nat
  BY <1>1, <1>2, <1>3 DEF Notices!Note
<1> HIDE DEF new
<1>5. /\ notes' \in Seq(Notices!Note) /\ Len(notes') = n /\ notes'[n] = new
      /\ \A m \in Notices!Rows : notes'[m] = notes[m]
  BY <1>1, <1>2, <1>3, <1>4
<1>6. Notices!Rows' = Notices!Rows \cup {n} /\ n \notin Notices!Rows
  BY <1>1, <1>3, <1>5 DEF Notices!Rows
<1>7. /\ task' \in [Actors -> Notices!Task]
      /\ \A g \in Actors : g # h => task'[g] = task[g]
      /\ task'[h].pc = "read" /\ task'[h].note = n /\ task'[h].subject = task[h].subject
  BY <1>2, <1>4, SendTask
<1>8. told' \subseteq Subjects /\ told \subseteq told' /\ (status[Notices!Subject(h)] = task[h].status => Notices!Subject(h) \in told')
  BY <1>2, <1>3 DEF Notices!Tell, NoticesInv, Notices!TypeOK
<1>9. Notices!TypeOK'
  BY <1>2, <1>3, <1>5, <1>7, <1>8 DEF NoticesInv, Notices!TypeOK, Notices!subjects, Notices!delivery
<1>10. TasksAim'
  BY <1>2, <1>3, <1>6, <1>7 DEF NoticesInv, TasksAim, Notices!At, Notices!Subject, Notices!subjects
<1>11. Notices!OneRecent'
  <2> SUFFICES ASSUME NEW l \in Notices!Rows, NEW m \in Notices!Rows', notes'[l].recent, notes'[m].recent,
                      notes'[l].subject = notes'[m].subject, notes'[l].status = notes'[m].status,
                      ~announced[notes'[m].subject].broadcast
               PROVE  l = m
    BY <1>2, <1>6 DEF Notices!OneRecent, Notices!subjects
  <2>1. CASE m \in Notices!Rows
    BY <1>5, <2>1 DEF NoticesInv, Notices!OneRecent
  <2>2. CASE m = n
    <3>1. l \in Notices!Existing(h) /\ ~announced[Notices!Subject(h)].broadcast
      BY <1>4, <1>5, <2>2 DEF Notices!Existing, Notices!SameText
    <3> QED
      BY <1>2, <3>1
  <2> QED
    BY <1>6, <2>1, <2>2
<1>12. \A m \in Notices!Rows : Notices!OnItsWay(m) => Notices!OnItsWay(m)'
  BY <1>2, <1>7 DEF Notices!OnItsWay, Notices!At
<1>13. Notices!OnItsWay(n)'
  BY <1>7 DEF Notices!OnItsWay
<1>14. \A m \in Notices!Rows : Notices!Unread(m)' => Notices!Unread(m)
  BY <1>5 DEF Notices!Unread
<1>15. Notices!UnreadPushed' /\ Notices!SocketKnows'
  BY <1>2, <1>6, <1>12, <1>13, <1>14 DEF NoticesInv, Notices!UnreadPushed, Notices!SocketKnows, Notices!delivery
<1>16. WillTell' /\ RowsCounted'
  <2>1. ASSUME NEW g \in Actors, NEW o \in Subjects, Finds(g, o) PROVE o \in told' \/ Finds(g, o)'
    <3>1. CASE g # h
      BY <1>2, <1>7, <2>1, <3>1 DEF Finds, Notices!At, Notices!Subject, Notices!subjects
    <3>2. CASE g = h
      BY <1>8, <2>1, <3>2 DEF Finds
    <3> QED
      BY <3>1, <3>2
  <2> QED
    BY <1>2, <1>8, <2>1, TellsOn
<1> QED
  BY <1>9, <1>10, <1>11, <1>15, <1>16 DEF NoticesInv

-----------------------------------------------------------------------------
(* Steps that leave the subjects, what was told of them and the callbacks     *)
(* that will tell alone.                                                      *)
LEMMA ToldAlone ==
    ASSUME NoticesInv, UNCHANGED <<Notices!subjects, told>>,
           \A g \in Actors : task[g].pc \in {"deliver", "send"} => task'[g] = task[g]
    PROVE  WillTell' /\ RowsCounted'
<1>1. ASSUME NEW g \in Actors, NEW o \in Subjects, Finds(g, o) PROVE Finds(g, o)'
  BY <1>1 DEF Finds, Notices!At, Notices!Subject, Notices!subjects
<1> QED
  BY <1>1, TellsOn

LEMMA PublishKeeps ==
    ASSUME NoticeBounds, NoticesInv, NEW h \in Actors, Notices!PublishRead(h)
    PROVE  NoticesInv'
<1>1. Notices!At(h, "read") /\ UNCHANGED <<Notices!subjects, notes, told, Notices!delivery>> /\ task[h].note \in Notices!Rows
  BY DEF Notices!PublishRead, NoticesInv, TasksAim, Notices!At
<1>2. Notices!Unread(task[h].note) => Notices!Goto(h, "push")
  BY DEF Notices!PublishRead
<1>3. /\ task' \in [Actors -> Notices!Task]
      /\ \A g \in Actors : g # h => task'[g] = task[g]
      /\ \/ task'[h] = Notices!Idle /\ ~Notices!Unread(task[h].note)
         \/ task'[h].pc = "push" /\ task'[h].note = task[h].note /\ task'[h].subject = task[h].subject
  BY <1>2, <1>1, Ended, Went DEF Notices!PublishRead, Notices!At
<1>4. Notices!TypeOK'
  BY <1>1, <1>3 DEF NoticesInv, Notices!TypeOK, Notices!subjects, Notices!delivery
<1>5. TasksAim'
  BY <1>1, <1>3 DEF NoticesInv, TasksAim, Notices!At, Notices!Subject, Notices!Rows, Notices!subjects,
     Notices!Idle
<1>6. WillTell' /\ RowsCounted'
  BY <1>1, <1>3, ToldAlone DEF Notices!At
<1>7. Notices!Rows' = Notices!Rows /\ \A m \in Notices!Rows : (Notices!Unread(m)' <=> Notices!Unread(m)) /\ (Notices!Unread(m) /\ Notices!OnItsWay(m) => Notices!OnItsWay(m)')
  BY <1>1, <1>3 DEF Notices!Rows, Notices!Unread, Notices!OnItsWay
<1>8. Notices!OneRecent' /\ Notices!UnreadPushed' /\ Notices!SocketKnows'
  BY <1>1, <1>7 DEF NoticesInv, Notices!OneRecent, Notices!UnreadPushed, Notices!SocketKnows,
     Notices!subjects, Notices!delivery
<1> QED
  BY <1>4, <1>5, <1>6, <1>8 DEF NoticesInv

LEMMA PushKeeps ==
    ASSUME NoticeBounds, NoticesInv, NEW h \in Actors, Notices!Push(h) \/ Notices!PushFails(h)
    PROVE  NoticesInv'
<1> DEFINE n == task[h].note
<1>1. Notices!At(h, "push") /\ UNCHANGED <<Notices!subjects, notes, told>> /\ n \in Notices!Rows /\ Notices!End(h)
  BY DEF Notices!Push, Notices!PushFails, NoticesInv, TasksAim, Notices!At
<1>2. n \in Notices!Ids
  BY <1>1, NotesTyped DEF NoticesInv, NoticeBounds
<1>3. /\ task' \in [Actors -> Notices!Task]
      /\ \A g \in Actors : g # h => task'[g] = task[g]
      /\ task'[h] = Notices!Idle
  BY <1>1, Ended, Went DEF Notices!At
<1>4. /\ socket' \in [Sockets -> Notices!Socket] /\ pushed' \subseteq Notices!Ids /\ lost' \subseteq Notices!Ids /\ faults' \in 0..MaxFaults
      /\ pushed \subseteq pushed' /\ lost \subseteq lost'
      /\ n \in pushed' \cup lost'
      /\ \A k \in Sockets : /\ socket'[k].pc = socket[k].pc
                            /\ socket[k].knows \subseteq socket'[k].knows
                            /\ socket[k].pc = "open" => n \in socket'[k].knows \cup lost'
  <2>1. /\ socket \in [Sockets -> Notices!Socket] /\ pushed \subseteq Notices!Ids /\ lost \subseteq Notices!Ids /\ faults \in 0..MaxFaults
        /\ MaxFaults \in Nat
    BY DEF NoticesInv, Notices!TypeOK, NoticeBounds
  <2>2. CASE Notices!Push(h)
    <3>1. /\ pushed' = pushed \cup {n} /\ lost' = lost /\ faults' = faults
          /\ socket' = [k \in Sockets |-> IF Notices!InGroup(k) THEN [socket[k] EXCEPT !.knows = @ \cup {n}] ELSE socket[k]]
      BY <2>2 DEF Notices!Push
    <3>2. \A k \in Sockets : /\ socket'[k] \in Notices!Socket /\ socket'[k].pc = socket[k].pc
                             /\ socket[k].knows \subseteq socket'[k].knows
                             /\ socket[k].pc = "open" => n \in socket'[k].knows
      BY <1>2, <2>1, <3>1 DEF Notices!Socket, Notices!InGroup
    <3>3. socket' \in [Sockets -> Notices!Socket]
      BY <3>1, <3>2
    <3> QED
      BY <1>2, <2>1, <3>1, <3>2, <3>3
  <2>3. CASE Notices!PushFails(h)
    BY <1>2, <2>1, <2>3 DEF Notices!PushFails
  <2> QED
    BY <2>2, <2>3 DEF Notices!Push, Notices!PushFails
<1>5. Notices!TypeOK'
  BY <1>1, <1>3, <1>4 DEF NoticesInv, Notices!TypeOK, Notices!subjects
<1>6. TasksAim'
  BY <1>1, <1>3 DEF NoticesInv, TasksAim, Notices!At, Notices!Subject, Notices!Rows, Notices!subjects,
     Notices!Idle
<1>7. WillTell' /\ RowsCounted'
  BY <1>1, <1>3, ToldAlone DEF Notices!At
<1>8. Notices!Rows' = Notices!Rows /\ \A m \in Notices!Rows : (Notices!Unread(m)' <=> Notices!Unread(m)) /\ (m # n /\ Notices!OnItsWay(m) => Notices!OnItsWay(m)')
  BY <1>1, <1>3 DEF Notices!Rows, Notices!Unread, Notices!OnItsWay
<1>9. Notices!OneRecent'
  BY <1>1, <1>8 DEF NoticesInv, Notices!OneRecent, Notices!subjects
<1>10. Notices!UnreadPushed' /\ Notices!SocketKnows'
  BY <1>4, <1>8 DEF NoticesInv, Notices!UnreadPushed, Notices!SocketKnows
<1> QED
  BY <1>5, <1>6, <1>7, <1>9, <1>10 DEF NoticesInv

(* Rows are marked as read, or leave the window.                              *)
LEMMA QuietRows ==
    ASSUME NoticesInv, UNCHANGED <<Notices!subjects, task, told, Notices!delivery>>,
           notes' \in Seq(Notices!Note), Len(notes') = Len(notes), Notices!Rows' = Notices!Rows,
           \A m \in Notices!Rows : /\ notes'[m].subject = notes[m].subject /\ notes'[m].status = notes[m].status
                                   /\ notes'[m].recent => notes[m].recent
                                   /\ Notices!Unread(m)' => Notices!Unread(m)
    PROVE  NoticesInv'
<1>1. Notices!TypeOK'
  BY DEF NoticesInv, Notices!TypeOK, Notices!subjects, Notices!delivery
<1>2. TasksAim'
  BY DEF NoticesInv, TasksAim, Notices!At, Notices!Subject, Notices!subjects
<1>3. WillTell' /\ RowsCounted'
  BY ToldAlone
<1>4. \A m : Notices!OnItsWay(m)' <=> Notices!OnItsWay(m)
  BY DEF Notices!OnItsWay
<1>5. Notices!OneRecent'
  BY DEF NoticesInv, Notices!OneRecent, Notices!subjects
<1>6. Notices!UnreadPushed' /\ Notices!SocketKnows'
  BY <1>4 DEF NoticesInv, Notices!UnreadPushed, Notices!SocketKnows, Notices!delivery
<1> QED
  BY <1>1, <1>2, <1>3, <1>5, <1>6 DEF NoticesInv

LEMMA LeaveKeeps ==
    ASSUME NoticeBounds, NoticesInv, NEW n \in Notices!Rows, Notices!LeaveWindow(n)
    PROVE  NoticesInv'
<1>1. /\ Notices!Rows = 1..Len(notes) /\ Len(notes) \in Nat /\ notes[n] \in Notices!Note /\ notes \in Seq(Notices!Note)
  BY NotesTyped DEF NoticesInv, Notices!TypeOK, NoticeBounds
<1> DEFINE new == [notes[n] EXCEPT !.recent = FALSE]
<1>2. new \in Notices!Note /\ new.subject = notes[n].subject /\ new.status = notes[n].status /\ new.read = notes[n].read /\ new.recent = FALSE
  BY <1>1 DEF Notices!Note
<1>3. notes' = [notes EXCEPT ![n] = new]
  BY <1>1 DEF Notices!Rows, Notices!LeaveWindow
<1> HIDE DEF new
<1>4. notes' \in Seq(Notices!Note) /\ Len(notes') = Len(notes) /\ Notices!Rows' = Notices!Rows
      /\ notes'[n] = new /\ \A m \in Notices!Rows : m # n => notes'[m] = notes[m]
  BY <1>1, <1>2, <1>3, ExceptSeq DEF Notices!Rows
<1> QED
  BY <1>2, <1>4, QuietRows DEF Notices!LeaveWindow, Notices!Unread

LEMMA MarkKeeps ==
    ASSUME NoticeBounds, NoticesInv, NEW ids, Notices!MarkRead(ids)
    PROVE  NoticesInv'
<1>1. /\ Notices!Rows = 1..Len(notes) /\ Len(notes) \in Nat /\ notes \in Seq(Notices!Note)
      /\ \A m \in Notices!Rows : notes[m] \in Notices!Note
  BY NotesTyped DEF NoticesInv, Notices!TypeOK, NoticeBounds
<1>2. \A m \in Notices!Rows : /\ notes'[m] = [notes[m] EXCEPT !.read = @ \/ m \in ids]
  BY DEF Notices!MarkRead
<1>3. \A m \in Notices!Rows : [notes[m] EXCEPT !.read = @ \/ m \in ids] = [notes[m] EXCEPT !.read = notes[m].read \/ m \in ids]
  BY <1>1
<1>4. \A m \in Notices!Rows : /\ notes'[m] \in Notices!Note
                              /\ notes'[m].subject = notes[m].subject /\ notes'[m].status = notes[m].status
                              /\ notes'[m].recent = notes[m].recent
                              /\ notes'[m].read = (notes[m].read \/ m \in ids)
  <2>1. TAKE m \in Notices!Rows
  <2>2. notes'[m] = [notes[m] EXCEPT !.read = notes[m].read \/ m \in ids] /\ notes[m] \in Notices!Note
    BY <1>1, <1>2, <1>3
  <2>3. PICK was \in Notices!Note : was = notes[m]
    BY <2>2
  <2>4. PICK read \in BOOLEAN : read = (was.read \/ m \in ids)
    OBVIOUS
  <2>5. PICK new : new = [was EXCEPT !.read = read]
    OBVIOUS
  <2>6. new \in Notices!Note /\ new.subject = was.subject /\ new.status = was.status /\ new.recent = was.recent /\ new.read = read
    BY <2>5 DEF Notices!Note
  <2>7. notes'[m] = new
    BY <2>2, <2>3, <2>4, <2>5
  <2> QED
    BY <2>3, <2>4, <2>6, <2>7
<1>5. notes' \in [1..Len(notes) -> Notices!Note]
  BY <1>1, <1>4 DEF Notices!MarkRead
<1>6. notes' \in Seq(Notices!Note) /\ Len(notes') = Len(notes) /\ Notices!Rows' = Notices!Rows
  BY <1>1, <1>5 DEF Notices!Rows
<1> QED
  BY <1>4, <1>6, QuietRows, Zenon DEF Notices!MarkRead, Notices!Unread

LEMMA SocketsKeep ==
    ASSUME NoticeBounds, NoticesInv, NEW k \in Sockets, Notices!Join(k) \/ Notices!Count(k) \/ Notices!Disconnect(k)
    PROVE  NoticesInv'
<1>1. UNCHANGED <<Notices!subjects, notes, task, told, pushed, lost, faults>> /\ socket \in [Sockets -> Notices!Socket]
  BY DEF Notices!Join, Notices!Count, Notices!Disconnect, NoticesInv, Notices!TypeOK
<1>2. Notices!Rows \subseteq Notices!Ids
  BY NotesTyped DEF NoticesInv, NoticeBounds
<1>3. /\ socket' \in [Sockets -> Notices!Socket]
      /\ \A i \in Sockets : i # k => socket'[i] = socket[i]
      /\ socket'[k].pc = "open" => \A n \in Notices!Rows : Notices!Unread(n) => n \in socket'[k].knows
  BY <1>1, <1>2 DEF Notices!Join, Notices!Count, Notices!Disconnect, Notices!Socket, Notices!InGroup
<1>4. Notices!TypeOK'
  BY <1>1, <1>3 DEF NoticesInv, Notices!TypeOK, Notices!subjects
<1>5. TasksAim'
  BY <1>1 DEF NoticesInv, TasksAim, Notices!At, Notices!Subject, Notices!Rows, Notices!subjects
<1>6. WillTell' /\ RowsCounted'
  BY <1>1, ToldAlone
<1>7. Notices!Rows' = Notices!Rows /\ (\A m \in Notices!Rows : Notices!Unread(m)' <=> Notices!Unread(m)) /\ \A m : Notices!OnItsWay(m)' <=> Notices!OnItsWay(m)
  BY <1>1 DEF Notices!Rows, Notices!Unread, Notices!OnItsWay
<1>8. Notices!OneRecent' /\ Notices!UnreadPushed'
  BY <1>1, <1>7 DEF NoticesInv, Notices!OneRecent, Notices!UnreadPushed, Notices!subjects
<1>9. Notices!SocketKnows'
  BY <1>1, <1>3, <1>7 DEF NoticesInv, Notices!SocketKnows
<1> QED
  BY <1>4, <1>5, <1>6, <1>8, <1>9 DEF NoticesInv

LEMMA NoticesStep ==
    ASSUME NoticeBounds, NoticesInv, Notices!Next \/ UNCHANGED Notices!vars
    PROVE  NoticesInv'
<1>1. ASSUME NEW h \in Actors, Notices!HandlerNext(h) PROVE NoticesInv'
  BY <1>1, HandlersSave, CaptureKeeps, DeliverKeeps, RefreshKeeps, CreateKeeps, PublishKeeps,
     PushKeeps DEF Notices!HandlerNext
<1>2. CASE Notices!MarkOne \/ Notices!MarkAll
  BY <1>2, MarkKeeps DEF Notices!MarkOne, Notices!MarkAll
<1>3. CASE UNCHANGED Notices!vars
  <2>1. UNCHANGED <<Notices!subjects, task, told, Notices!delivery>> /\ notes' = notes
    BY <1>3 DEF Notices!vars, Notices!subjects, Notices!delivery
  <2>2. notes \in Seq(Notices!Note)
    BY DEF NoticesInv, Notices!TypeOK
  <2> QED
    BY <2>1, <2>2, QuietRows DEF Notices!Rows, Notices!Unread
<1> QED
  BY <1>1, <1>2, <1>3, LeaveKeeps, SocketsKeep DEF Notices!Next

LEMMA NoticesInvReach == ASSUME NoticesInv PROVE Notices!TypeOK /\ Notices!OneRecent /\ Notices!UnreadPushed /\ Notices!SocketKnows /\ Notices!StatusTold
<1>1. Notices!StatusTold
  BY DEF NoticesInv, WillTell, Notices!StatusTold, Finds, Notices!Pending, Notices!At
<1> QED
  BY <1>1 DEF NoticesInv

-----------------------------------------------------------------------------
(* Generated playlists: the rows, the requests, the generator and the passes. *)

LEMMA RowFields ==
    ASSUME Mixing!TypeOK, NEW m \in Mixes
    PROVE  /\ mix[m] \in Mixing!Row /\ mix[m].key \in 0..MaxKeys /\ mix[m].live \in BOOLEAN /\ mix[m].expired \in BOOLEAN
           /\ mix[m].kept \in BOOLEAN /\ mix[m].views \in BOOLEAN /\ mix[m].liked \in BOOLEAN
           /\ mix[m].saved \in BOOLEAN /\ mix[m].viewed \in BOOLEAN
BY DEF Mixing!TypeOK, Mixing!Row

LEMMA PassFields ==
    ASSUME Mixing!TypeOK, NEW c \in Actors
    PROVE  /\ cleaner[c] \in Mixing!Cleaner /\ cleaner[c].blind \in BOOLEAN
           /\ cleaner[c].protected \subseteq Mixing!Refs /\ cleaner[c].found \subseteq Mixing!Refs
           /\ cleaner[c].victims \subseteq Mixing!Refs /\ cleaner[c].safe \subseteq Mixing!Refs
BY DEF Mixing!TypeOK, Mixing!Cleaner

LEMMA RefParts ==
    ASSUME NEW ref \in Mixing!Refs, NEW m \in Mixes
    PROVE  /\ ref[1] \in Mixes /\ ref[2] \in Mixing!Keys /\ ref[2] \in Int
           /\ Mixing!Ref(m) = ref <=> ref[1] = m /\ ref[2] = mix[m].key
           /\ Mixing!Ref(m)[1] = m /\ Mixing!Ref(m)[2] = mix[m].key
BY DEF Mixing!Refs, Mixing!Ref, Mixing!Keys

LEMMA NoPassTyped == Mixing!NoPass \in Mixing!Cleaner /\ Mixing!NoPass.pc = "idle"
BY DEF Mixing!NoPass, Mixing!Cleaner

LEMMA NoRowTyped == ASSUME MixBounds PROVE Mixing!NoRow \in Mixing!Row
BY DEF Mixing!NoRow, Mixing!Row, MixBounds

LEMMA NewRowIs ==
    ASSUME MixBounds, Mixing!TypeOK, NEW m \in Mixes, mix[m].key < MaxKeys
    PROVE  /\ Mixing!NewRow(m) \in Mixing!Row /\ Mixing!NewRow(m).key = mix[m].key + 1 /\ Mixing!NewRow(m).live = TRUE /\ Mixing!NewRow(m).expired = FALSE
           /\ Mixing!NewRow(m).kept = FALSE
<1>1. mix[m].key \in 0..MaxKeys
  BY RowFields
<1>2. mix[m].key + 1 \in 0..MaxKeys
  BY <1>1 DEF MixBounds
<1>3. Mixing!NoRow.expired = FALSE /\ Mixing!NoRow.kept = FALSE
  BY DEF Mixing!NoRow
<1> QED
  BY <1>2, <1>3, NoRowTyped DEF Mixing!NewRow, Mixing!Row

LEMMA MixesStart == ASSUME MixBounds, Mixing!Init PROVE MixInv
<1>1. Mixing!TypeOK
  <2>1. Mixing!Idle \in Mixing!Request
    BY DEF Mixing!Idle, Mixing!Request, MixBounds
  <2> QED
    BY <2>1, NoPassTyped, NoRowTyped DEF Mixing!Init, Mixing!TypeOK, Mixing!NoGeneration, MixBounds
<1>2. RequestsAim
  BY DEF Mixing!Init, RequestsAim, RequestAims, Mixing!At, Mixing!Idle
<1>3. PassesHold /\ Mixing!StampedKept /\ Mixing!UsedKept
  BY DEF Mixing!Init, PassesHold, PassHolds, Mixing!StampedKept, Mixing!UsedKept, Mixing!NoPass, Mixing!CAt
<1> QED
  BY <1>1, <1>2, <1>3 DEF Mixing!Init, MixInv, Numbered, Mixing!NoRow, UsedDurable

-----------------------------------------------------------------------------
(* What every step but the passing of two hours does to a row.                *)
LEMMA SteadyRefs ==
    ASSUME MixBounds, Mixing!TypeOK, Mixing!TypeOK', NEW ref \in Mixing!Refs, Steady(ref[1])
    PROVE  /\ Past(ref) => Past(ref)'
           /\ Spent(ref) => Spent(ref)'
           /\ Loose(ref) => Loose(ref)' \/ Spent(ref)'
<1> DEFINE m == ref[1]
<1>1. m \in Mixes /\ ref[2] \in Int
  BY RefParts DEF Mixing!Refs
<1>2. mix[m].key \in Int /\ mix'[m].key \in Int
  BY <1>1 DEF Mixing!TypeOK, Mixing!Row
<1>3. Past(ref) => Past(ref)'
  BY <1>1, <1>2 DEF Past, Steady
<1>4. Spent(ref) => Spent(ref)'
  BY <1>1, <1>2, <1>3 DEF Spent, Past, Steady
<1>5. Loose(ref) => Loose(ref)' \/ Spent(ref)'
  BY <1>1, <1>2, <1>3 DEF Loose, Spent, Past, Steady, Mixing!Disposable, Mixing!Durable
<1> QED
  BY <1>3, <1>4, <1>5

(* The passes do not notice such steps, as long as no stamp is lost.          *)
LEMMA PassesSteady ==
    ASSUME MixBounds, MixInv, Mixing!TypeOK', cleaner' = cleaner, \A m \in Mixes : Steady(m),
           \A ref \in Mixing!Refs : Past(ref) /\ Mixing!Stamped(ref) => Mixing!Stamped(ref)' \/ Spent(ref)'
    PROVE  PassesHold' /\ Mixing!StampedKept' /\ Mixing!UsedKept'
<1>1. \A ref \in Mixing!Refs : /\ Past(ref) => Past(ref)'
                               /\ Spent(ref) => Spent(ref)'
                               /\ Loose(ref) => Loose(ref)' \/ Spent(ref)'
  BY SteadyRefs, RefParts DEF MixInv, Mixing!Refs
<1>2. ASSUME NEW c \in Actors PROVE PassHolds(c)'
  <2>1. PassHolds(c) /\ cleaner[c].found \subseteq Mixing!Refs /\ cleaner[c].protected \subseteq Mixing!Refs
    BY PassFields DEF MixInv, PassesHold
  <2> QED
    BY <1>1, <2>1 DEF PassHolds, Mixing!CAt
<1> QED
  BY <1>2 DEF MixInv, PassesHold, Mixing!StampedKept, Mixing!UsedKept

(* A request that did not move still aims.                                    *)
LEMMA RequestSteady ==
    ASSUME MixBounds, Mixing!TypeOK, Mixing!TypeOK', NEW p \in Requests, RequestAims(p), request'[p] = request[p],
           \A m \in Mixes : Steady(m)
    PROVE  RequestAims(p)'
<1>1. CASE Mixing!At(p, "idle")
  BY <1>1 DEF RequestAims, Mixing!At
<1>2. CASE ~Mixing!At(p, "idle")
  <2> DEFINE m == Mixing!Mix(p)
  <2>1. m \in Mixes /\ Steady(m) /\ Mixing!Mix(p)' = m
    BY <1>2 DEF RequestAims, Mixing!Mix
  <2>2. mix[m].key \in Int /\ mix'[m].key \in Int /\ request[p].key \in Int
    BY <2>1 DEF Mixing!TypeOK, Mixing!Row, Mixing!Request
  <2>3. Mixing!Present(p)' => Mixing!Present(p) /\ mix'[m].key = mix[m].key /\ mix'[m].live
    BY <1>2, <2>1, <2>2 DEF Mixing!Present, Steady, RequestAims
  <2> HIDE DEF m
  <2> QED
    BY <1>2, <2>1, <2>2, <2>3 DEF RequestAims, Steady, Mixing!At, m
<1> QED
  BY <1>1, <1>2
(* What a step of a request must keep.                                        *)
LEMMA RequestKept ==
    ASSUME MixBounds, MixInv, Mixing!TypeOK', NEW p \in Requests,
           \A q \in Requests \ {p} : request'[q] = request[q],
           cleaner' = cleaner, \A m \in Mixes : Steady(m),
           \A ref \in Mixing!Refs : Past(ref) /\ Mixing!Stamped(ref) => Mixing!Stamped(ref)' \/ Spent(ref)',
           RequestAims(p)', Numbered', UsedDurable'
    PROVE  MixInv'
<1>1. RequestsAim'
  <2> SUFFICES ASSUME NEW q \in Requests PROVE RequestAims(q)'
    BY DEF RequestsAim
  <2> QED
    BY RequestSteady DEF MixInv, RequestsAim
<1>2. PassesHold' /\ Mixing!StampedKept' /\ Mixing!UsedKept'
  BY PassesSteady
<1> QED
  BY <1>1, <1>2 DEF MixInv

(* Rows that do not change are steady.                                        *)
LEMMA UnchangedSteady ==
    ASSUME MixBounds, MixInv, UNCHANGED <<mix, stamp, used>>
    PROVE  /\ \A m \in Mixes : Steady(m)
           /\ \A ref \in Mixing!Refs : Past(ref) /\ Mixing!Stamped(ref) => Mixing!Stamped(ref)' \/ Spent(ref)'
           /\ Numbered' /\ UsedDurable'
<1>1. \A m \in Mixes : Steady(m)
  BY DEF Steady
<1>2. Numbered' /\ UsedDurable'
  BY DEF MixInv, Numbered, UsedDurable, DurablyUsed, Past
<1>3. \A ref \in Mixing!Refs : Mixing!Stamped(ref) => Mixing!Stamped(ref)'
  BY DEF Mixing!Stamped, Mixing!Ref
<1> QED
  BY <1>1, <1>2, <1>3

LEMMA TouchSteady ==
    ASSUME MixBounds, MixInv, NEW p \in Requests, ~Mixing!At(p, "idle"), NEW made,
           Mixing!Present(p) => Firmer(Mixing!Mix(p), made), Mixing!Touch(p, made), stamp' = stamp
    PROVE  /\ mix' \in [Mixes -> Mixing!Row] /\ used' \subseteq Mixing!Refs
           /\ \A m \in Mixes : Steady(m)
           /\ \A ref \in Mixing!Refs : Past(ref) /\ Mixing!Stamped(ref) => Mixing!Stamped(ref)' \/ Spent(ref)'
           /\ Numbered' /\ UsedDurable'
<1> DEFINE n == Mixing!Mix(p)
<1>1. n \in Mixes
  BY DEF MixInv, RequestsAim, RequestAims
<1>2. Mixing!TypeOK /\ Numbered /\ UsedDurable
  BY DEF MixInv
<1>3. CASE ~Mixing!Present(p)
  <2>1. UNCHANGED <<mix, stamp, used>>
    BY <1>3 DEF Mixing!Touch
  <2> QED
    BY <1>2, <2>1, UnchangedSteady DEF Mixing!TypeOK
<1>4. CASE Mixing!Present(p)
  <2>1. mix' = [mix EXCEPT ![n] = made] /\ used' = used \cup {Mixing!Ref(n)} /\ Firmer(n, made) /\ mix[n].live
    BY <1>4 DEF Mixing!Touch, Mixing!Present
  <2> HIDE DEF n
  <2>2. mix' \in [Mixes -> Mixing!Row] /\ mix'[n] = made /\ \A m \in Mixes \ {n} : mix'[m] = mix[m]
    BY <1>1, <1>2, <2>1 DEF Mixing!TypeOK, Firmer
  <2>3. \A m \in Mixes : mix[m].key \in 0..MaxKeys /\ mix'[m].key = mix[m].key /\ (mix'[m].live <=> mix[m].live)
    BY <1>2, <2>1, <2>2, RowFields DEF Firmer
  <2>4. Mixing!Ref(n) \in Mixing!Refs
    BY <1>1, <1>2, <2>1, <2>3 DEF Mixing!Ref, Mixing!Refs, Mixing!Keys, Numbered, MixBounds
  <2>5. \A m \in Mixes : Steady(m)
    <3> SUFFICES ASSUME NEW m \in Mixes PROVE Steady(m)
      OBVIOUS
    <3>1. CASE m = n
      BY <1>1, <2>1, <2>2, <2>3, <3>1 DEF Steady, Firmer
    <3>2. CASE m # n
      BY <2>2, <3>2 DEF Steady
    <3> QED
      BY <3>1, <3>2
  <2>6. \A ref \in Mixing!Refs : Mixing!Stamped(ref) => Mixing!Stamped(ref)'
    BY <2>3 DEF Mixing!Stamped, Mixing!Ref, Mixing!Refs
  <2>7. Numbered'
    BY <1>2, <2>3 DEF Numbered
  <2>8. UsedDurable'
    <3> SUFFICES ASSUME NEW ref \in used' PROVE DurablyUsed(ref)'
      BY DEF UsedDurable
    <3>1. ref \in Mixing!Refs /\ ref[1] \in Mixes /\ ref[2] \in Int
      BY <1>2, <2>1, <2>4, RefParts DEF Mixing!TypeOK, Mixing!Refs
    <3>2. Mixing!Ref(n)[1] = n /\ Mixing!Ref(n)[2] = mix[n].key
      BY DEF Mixing!Ref
    <3>3. Past(ref)
      BY <1>1, <1>2, <2>1, <2>3, <3>2 DEF UsedDurable, DurablyUsed, Past
    <3>4. CASE ref[1] = n
      BY <2>1, <2>2, <2>3, <3>1, <3>3, <3>4 DEF DurablyUsed, Past, Firmer
    <3>5. CASE ref[1] # n
      BY <1>2, <2>1, <2>2, <3>1, <3>2, <3>3, <3>5 DEF Past, UsedDurable, DurablyUsed
    <3> QED
      BY <3>4, <3>5
  <2> QED
    BY <1>2, <2>1, <2>2, <2>4, <2>5, <2>6, <2>7, <2>8 DEF Mixing!TypeOK
<1> QED
  BY <1>3, <1>4
LEMMA RequestFields ==
    ASSUME Mixing!TypeOK, NEW p \in Requests
    PROVE  /\ request[p] \in Mixing!Request /\ request[p].key \in 0..MaxKeys
           /\ request[p].kind \in {"none", "show", "detail", "like", "save"}
BY DEF Mixing!TypeOK, Mixing!Request

LEMMA GoesTo ==
    ASSUME Mixing!TypeOK, NEW p \in Requests, NEW pc \in {"idle", "show", "get", "open", "viewer", "keep", "stamp", "toggle", "add", "remove", "renew"},
           Mixing!Goto(p, pc)
    PROVE  /\ request' \in [Requests -> Mixing!Request] /\ request'[p].pc = pc /\ request'[p].kind = request[p].kind
           /\ request'[p].mix = request[p].mix /\ request'[p].key = request[p].key
           /\ \A q \in Requests \ {p} : request'[q] = request[q]
BY DEF Mixing!Goto, Mixing!TypeOK, Mixing!Request

LEMMA Ends ==
    ASSUME MixBounds, Mixing!TypeOK, NEW p \in Requests, Mixing!End(p)
    PROVE  /\ request' \in [Requests -> Mixing!Request] /\ request'[p].pc = "idle"
           /\ \A q \in Requests \ {p} : request'[q] = request[q]
<1>1. Mixing!Idle \in Mixing!Request /\ Mixing!Idle.pc = "idle"
  BY DEF Mixing!Idle, Mixing!Request, MixBounds
<1> QED
  BY <1>1 DEF Mixing!End, Mixing!TypeOK

LEMMA KeepsShow ==
    ASSUME MixBounds, MixInv, NEW p \in Requests, NEW m \in Mixes, Mixing!Show(p, m)
    PROVE  MixInv'
<1>1. Mixing!TypeOK /\ Numbered
  BY DEF MixInv
<1> DEFINE new == [pc |-> "stamp", kind |-> "show", mix |-> m, key |-> mix[m].key]
<1>2. mix[m].key \in 0..MaxKeys /\ 1 <= mix[m].key
  BY <1>1, RowFields DEF Mixing!Show, Mixing!Shown, Numbered
<1>3. new \in Mixing!Request /\ new.pc = "stamp" /\ new.kind = "show" /\ new.mix = m /\ new.key = mix[m].key
  BY <1>2 DEF Mixing!Request
<1>4. request' = [request EXCEPT ![p] = new] /\ UNCHANGED <<mix, stamp, used, Mixing!rest, mixFaults>>
  BY DEF Mixing!Show
<1> HIDE DEF new
<1>5. request'[p] = new /\ \A q \in Requests \ {p} : request'[q] = request[q]
  BY <1>1, <1>4 DEF Mixing!TypeOK
<1>6. Mixing!TypeOK'
  BY <1>1, <1>3, <1>4 DEF Mixing!TypeOK, Mixing!rest
<1>7. RequestAims(p)'
  BY <1>2, <1>3, <1>4, <1>5 DEF RequestAims, Mixing!At, Mixing!Mix, Mixing!Present
<1> QED
  BY <1>4, <1>5, <1>6, <1>7, RequestKept, UnchangedSteady DEF Mixing!rest

LEMMA KeepsGet ==
    ASSUME MixBounds, MixInv, NEW p \in Requests, NEW what \in {"detail", "like", "save"}, NEW m \in Mixes, Mixing!Get(p, what, m)
    PROVE  MixInv'
<1>1. Mixing!TypeOK /\ Numbered
  BY DEF MixInv
<1> DEFINE new == [pc |-> Mixing!FirstStep(what, m), kind |-> what, mix |-> m, key |-> mix[m].key]
<1>2. mix[m].key \in 0..MaxKeys /\ 1 <= mix[m].key
  BY <1>1, RowFields DEF Mixing!Get, Numbered
<1>3. new \in Mixing!Request /\ new.pc = Mixing!FirstStep(what, m) /\ new.kind = what /\ new.mix = m /\ new.key = mix[m].key
  BY <1>2 DEF Mixing!Request, Mixing!FirstStep
<1>4. request' = [request EXCEPT ![p] = new] /\ UNCHANGED <<mix, stamp, used, Mixing!rest, mixFaults>>
  BY DEF Mixing!Get
<1> HIDE DEF new
<1>5. request'[p] = new /\ \A q \in Requests \ {p} : request'[q] = request[q]
  BY <1>1, <1>4 DEF Mixing!TypeOK
<1>6. Mixing!TypeOK'
  BY <1>1, <1>3, <1>4 DEF Mixing!TypeOK, Mixing!rest
<1>7. RequestAims(p)'
  BY <1>2, <1>3, <1>4, <1>5 DEF RequestAims, Mixing!At, Mixing!Mix, Mixing!Present, Mixing!FirstStep
<1> QED
  BY <1>4, <1>5, <1>6, <1>7, RequestKept, UnchangedSteady DEF Mixing!rest

(* A row is written where there was none.                                     *)
LEMMA KeepsMaterialize ==
    ASSUME MixBounds, MixInv, NEW p \in Requests, NEW what \in {"detail", "like", "save"}, NEW m \in Mixes, Mixing!Materialize(p, what, m)
    PROVE  MixInv'
<1>1. Mixing!TypeOK /\ Numbered /\ UsedDurable
  BY DEF MixInv
<1> DEFINE to == IF what = "detail" THEN "open" ELSE "stamp"
           new == [pc |-> to, kind |-> what, mix |-> m, key |-> mix[m].key + 1]
           made == Mixing!NewRow(m)
<1>2. mix[m].key \in 0..MaxKeys /\ mix[m].key + 1 \in 0..MaxKeys /\ ~mix[m].live
  BY <1>1, RowFields DEF Mixing!Materialize, MixBounds
<1>3. new \in Mixing!Request /\ new.pc = to /\ new.kind = what /\ new.mix = m /\ new.key = mix[m].key + 1
  BY <1>2 DEF Mixing!Request
<1>4. made \in Mixing!Row /\ made.key = mix[m].key + 1 /\ made.live /\ ~made.expired
  BY <1>1, NewRowIs DEF Mixing!Materialize
<1>5. /\ request' = [request EXCEPT ![p] = new] /\ mix' = [mix EXCEPT ![m] = made] /\ stamp' = [stamp EXCEPT ![m] = "none"]
      /\ UNCHANGED <<used, Mixing!rest, mixFaults>>
  BY DEF Mixing!Materialize
<1>6. to \in {"open", "stamp"} /\ (to = "open" => what = "detail")
  OBVIOUS
<1> HIDE DEF new, made, to
<1>7. /\ request'[p] = new /\ \A q \in Requests \ {p} : request'[q] = request[q]
      /\ mix'[m] = made /\ \A n \in Mixes \ {m} : mix'[n] = mix[n] /\ stamp'[n] = stamp[n]
      /\ stamp'[m] = "none"
  BY <1>1, <1>5 DEF Mixing!TypeOK
<1>8. Mixing!TypeOK'
  BY <1>1, <1>3, <1>4, <1>5 DEF Mixing!TypeOK, Mixing!rest
<1>9. RequestAims(p)'
  BY <1>2, <1>3, <1>4, <1>6, <1>7 DEF RequestAims, Mixing!At, Mixing!Mix, Mixing!Present
<1>10. \A n \in Mixes : Steady(n)
  <2> SUFFICES ASSUME NEW n \in Mixes PROVE Steady(n)
    OBVIOUS
  <2> QED
    BY <1>2, <1>4, <1>7 DEF Steady
<1>11. Numbered'
  BY <1>1, <1>2, <1>4, <1>7 DEF Numbered
<1>12. UsedDurable'
  <2> SUFFICES ASSUME NEW ref \in used' PROVE DurablyUsed(ref)'
    BY DEF UsedDurable
  <2>1. ref \in Mixing!Refs /\ ref[1] \in Mixes /\ ref[2] \in Int /\ DurablyUsed(ref)
    BY <1>1, <1>5, RefParts DEF Mixing!TypeOK, Mixing!Refs, UsedDurable
  <2> QED
    BY <1>2, <1>4, <1>7, <2>1 DEF DurablyUsed, Past
<1>13. ASSUME NEW ref \in Mixing!Refs, Past(ref), Mixing!Stamped(ref) PROVE Mixing!Stamped(ref)' \/ Spent(ref)'
  <2>1. ref[1] \in Mixes /\ ref[2] \in Int
    BY RefParts DEF Mixing!Refs
  <2>2. CASE ref[1] = m
    BY <1>2, <1>4, <1>7, <1>13, <2>1, <2>2 DEF Spent, Past
  <2>3. CASE ref[1] # m
    BY <1>7, <1>13, <2>1, <2>3 DEF Mixing!Stamped, Mixing!Ref
  <2> QED
    BY <2>2, <2>3
<1> QED
  BY <1>5, <1>7, <1>8, <1>9, <1>10, <1>11, <1>12, <1>13, RequestKept DEF Mixing!rest
LEMMA AimsTyped ==
    ASSUME MixInv, NEW p \in Requests, ~Mixing!At(p, "idle")
    PROVE  /\ Mixing!TypeOK /\ RequestAims(p) /\ Mixing!Mix(p) \in Mixes /\ mix[Mixing!Mix(p)] \in Mixing!Row
           /\ request[p].key \in 1..MaxKeys
<1>1. Mixing!TypeOK /\ RequestAims(p)
  BY DEF MixInv, RequestsAim
<1> QED
  BY <1>1, RowFields, RequestFields DEF RequestAims

LEMMA KeepsOpen ==
    ASSUME MixBounds, MixInv, NEW p \in Requests, Mixing!Open(p)
    PROVE  MixInv'
<1> DEFINE n == Mixing!Mix(p)
           made == [mix[n] EXCEPT !.views = TRUE, !.kept = TRUE]
<1>1. ~Mixing!At(p, "idle")
  BY DEF Mixing!Open, Mixing!At
<1>2. Mixing!TypeOK /\ RequestAims(p) /\ n \in Mixes /\ mix[n] \in Mixing!Row /\ request[p].key \in 1..MaxKeys
  BY <1>1, AimsTyped
<1>3. Mixing!Touch(p, made) /\ Mixing!Goto(p, "viewer") /\ UNCHANGED <<stamp, Mixing!rest, mixFaults>> /\ Mixing!At(p, "open")
  BY DEF Mixing!Open
<1>4. ASSUME Mixing!Present(p) PROVE Firmer(n, made) /\ made.views
  <2>1. made.views /\ mix[n].live
    BY <1>2, <1>4 DEF Mixing!Row, Mixing!Present
  <2> QED
    BY <1>2, <2>1 DEF Firmer, Mixing!Row
<1> HIDE DEF made
<1>5. /\ mix' \in [Mixes -> Mixing!Row] /\ used' \subseteq Mixing!Refs
      /\ \A m \in Mixes : Steady(m)
      /\ \A ref \in Mixing!Refs : Past(ref) /\ Mixing!Stamped(ref) => Mixing!Stamped(ref)' \/ Spent(ref)'
      /\ Numbered' /\ UsedDurable'
  BY <1>1, <1>3, <1>4, TouchSteady
<1>6. /\ request' \in [Requests -> Mixing!Request] /\ request'[p].pc = "viewer" /\ request'[p].kind = request[p].kind
      /\ request'[p].mix = request[p].mix /\ request'[p].key = request[p].key
      /\ \A q \in Requests \ {p} : request'[q] = request[q]
  BY <1>2, <1>3, GoesTo
<1>7. Mixing!TypeOK'
  BY <1>2, <1>3, <1>5, <1>6 DEF Mixing!TypeOK, Mixing!rest
<1>8. mix' = IF Mixing!Present(p) THEN [mix EXCEPT ![n] = made] ELSE mix
  BY <1>3 DEF Mixing!Touch
<1>9. RequestAims(p)'
  <2>1. n' = n /\ request[p].kind = "detail"
    BY <1>1, <1>2, <1>3, <1>6 DEF Mixing!Mix, RequestAims
  <2>2. CASE Mixing!Present(p)
    <3>1. mix'[n] = made
      BY <1>2, <1>8, <2>2 DEF Mixing!TypeOK
    <3> QED
      BY <1>1, <1>2, <1>4, <1>6, <2>1, <2>2, <3>1 DEF RequestAims, Mixing!At, Firmer
  <2>3. CASE ~Mixing!Present(p)
    <3>1. mix' = mix
      BY <1>8, <2>3
    <3>2. ~Mixing!Present(p)'
      BY <1>6, <2>1, <2>3, <3>1 DEF Mixing!Present
    <3> QED
      BY <1>1, <1>2, <1>6, <2>1, <3>1, <3>2 DEF RequestAims, Mixing!At
  <2> QED
    BY <2>2, <2>3
<1> QED
  BY <1>3, <1>5, <1>6, <1>7, <1>9, RequestKept DEF Mixing!rest

LEMMA KeepsAddViewer ==
    ASSUME MixBounds, MixInv, NEW p \in Requests, Mixing!AddViewer(p)
    PROVE  MixInv'
<1> DEFINE n == Mixing!Mix(p)
           made == [mix[n] EXCEPT !.viewed = TRUE]
<1>1. ~Mixing!At(p, "idle")
  BY DEF Mixing!AddViewer, Mixing!At
<1>2. Mixing!TypeOK /\ RequestAims(p) /\ n \in Mixes /\ mix[n] \in Mixing!Row /\ request[p].key \in 1..MaxKeys
  BY <1>1, AimsTyped
<1>3. Mixing!At(p, "viewer") /\ UNCHANGED <<stamp, Mixing!rest, mixFaults>> /\ request[p].kind = "detail"
  BY <1>1, <1>2 DEF Mixing!AddViewer, RequestAims
<1>4. CASE Mixing!Present(p)
  <2>1. Mixing!Touch(p, made) /\ Mixing!Goto(p, "stamp")
    BY <1>4 DEF Mixing!AddViewer
  <2>2. Firmer(n, made) /\ made.views
    <3>1. mix[n].views /\ mix[n].live
      BY <1>1, <1>2, <1>3, <1>4 DEF RequestAims, Mixing!Present
    <3>2. made.views
      BY <1>2, <3>1 DEF Mixing!Row
    <3> QED
      BY <1>2, <3>1, <3>2 DEF Firmer, Mixing!Row
  <2> HIDE DEF made
  <2>3. /\ mix' \in [Mixes -> Mixing!Row] /\ used' \subseteq Mixing!Refs
        /\ \A m \in Mixes : Steady(m)
        /\ \A ref \in Mixing!Refs : Past(ref) /\ Mixing!Stamped(ref) => Mixing!Stamped(ref)' \/ Spent(ref)'
        /\ Numbered' /\ UsedDurable'
    BY <1>1, <1>3, <2>1, <2>2, TouchSteady
  <2>4. /\ request' \in [Requests -> Mixing!Request] /\ request'[p].pc = "stamp" /\ request'[p].kind = request[p].kind
        /\ request'[p].mix = request[p].mix /\ request'[p].key = request[p].key
        /\ \A q \in Requests \ {p} : request'[q] = request[q]
    BY <1>2, <2>1, GoesTo
  <2>5. Mixing!TypeOK'
    BY <1>2, <1>3, <2>3, <2>4 DEF Mixing!TypeOK, Mixing!rest
  <2>6. mix'[n] = made
    BY <1>2, <1>4, <2>1 DEF Mixing!Touch, Mixing!TypeOK
  <2>7. RequestAims(p)'
    <3>1. n' = n
      BY <2>4 DEF Mixing!Mix
    <3> QED
      BY <1>1, <1>2, <1>3, <2>2, <2>4, <2>6, <3>1 DEF RequestAims, Mixing!At, Firmer
  <2> QED
    BY <1>3, <2>3, <2>4, <2>5, <2>7, RequestKept DEF Mixing!rest
<1>5. CASE ~Mixing!Present(p)
  <2>1. UNCHANGED <<mix, used, stamp>> /\ Mixing!End(p)
    BY <1>3, <1>5 DEF Mixing!AddViewer
  <2>2. /\ request' \in [Requests -> Mixing!Request] /\ request'[p].pc = "idle"
        /\ \A q \in Requests \ {p} : request'[q] = request[q]
    BY <1>2, <2>1, Ends
  <2>3. Mixing!TypeOK' /\ RequestAims(p)'
    BY <1>2, <1>3, <2>1, <2>2 DEF Mixing!TypeOK, Mixing!rest, RequestAims, Mixing!At
  <2> QED
    BY <1>3, <2>1, <2>2, <2>3, RequestKept, UnchangedSteady DEF Mixing!rest
<1> QED
  BY <1>4, <1>5

LEMMA KeepsKeep ==
    ASSUME MixBounds, MixInv, NEW p \in Requests, Mixing!Keep(p)
    PROVE  MixInv'
<1> DEFINE n == Mixing!Mix(p)
           made == [mix[n] EXCEPT !.kept = TRUE]
<1>1. ~Mixing!At(p, "idle")
  BY DEF Mixing!Keep, Mixing!At
<1>2. Mixing!TypeOK /\ RequestAims(p) /\ n \in Mixes /\ mix[n] \in Mixing!Row /\ request[p].key \in 1..MaxKeys
  BY <1>1, AimsTyped
<1>3. Mixing!Touch(p, made) /\ Mixing!Goto(p, "stamp") /\ UNCHANGED <<stamp, Mixing!rest, mixFaults>> /\ Mixing!At(p, "keep")
  BY DEF Mixing!Keep
<1>4. ASSUME Mixing!Present(p) PROVE Firmer(n, made) /\ made.kept
  <2>1. made.kept /\ mix[n].live
    BY <1>2, <1>4 DEF Mixing!Row, Mixing!Present
  <2> QED
    BY <1>2, <2>1 DEF Firmer, Mixing!Row
<1> HIDE DEF made
<1>5. /\ mix' \in [Mixes -> Mixing!Row] /\ used' \subseteq Mixing!Refs
      /\ \A m \in Mixes : Steady(m)
      /\ \A ref \in Mixing!Refs : Past(ref) /\ Mixing!Stamped(ref) => Mixing!Stamped(ref)' \/ Spent(ref)'
      /\ Numbered' /\ UsedDurable'
  BY <1>1, <1>3, <1>4, TouchSteady
<1>6. /\ request' \in [Requests -> Mixing!Request] /\ request'[p].pc = "stamp" /\ request'[p].kind = request[p].kind
      /\ request'[p].mix = request[p].mix /\ request'[p].key = request[p].key
      /\ \A q \in Requests \ {p} : request'[q] = request[q]
  BY <1>2, <1>3, GoesTo
<1>7. Mixing!TypeOK'
  BY <1>2, <1>3, <1>5, <1>6 DEF Mixing!TypeOK, Mixing!rest
<1>8. mix' = IF Mixing!Present(p) THEN [mix EXCEPT ![n] = made] ELSE mix
  BY <1>3 DEF Mixing!Touch
<1>9. RequestAims(p)'
  <2>1. n' = n /\ request[p].kind # "show"
    BY <1>1, <1>2, <1>3, <1>6 DEF Mixing!Mix, RequestAims, Mixing!At
  <2>2. CASE Mixing!Present(p)
    <3>1. mix'[n] = made
      BY <1>2, <1>8, <2>2 DEF Mixing!TypeOK
    <3> QED
      BY <1>1, <1>2, <1>4, <1>6, <2>1, <2>2, <3>1 DEF RequestAims, Mixing!At, Firmer
  <2>3. CASE ~Mixing!Present(p)
    <3>1. mix' = mix
      BY <1>8, <2>3
    <3>2. ~Mixing!Present(p)'
      BY <1>6, <2>1, <2>3, <3>1 DEF Mixing!Present
    <3> QED
      BY <1>1, <1>2, <1>6, <2>1, <3>1, <3>2 DEF RequestAims, Mixing!At
  <2> QED
    BY <2>2, <2>3
<1> QED
  BY <1>3, <1>5, <1>6, <1>7, <1>9, RequestKept DEF Mixing!rest

LEMMA KeepsRenew ==
    ASSUME MixBounds, MixInv, NEW p \in Requests, Mixing!Renew(p)
    PROVE  MixInv'
<1> DEFINE n == Mixing!Mix(p)
           made == [mix[n] EXCEPT !.kept = TRUE, !.expired = FALSE]
<1>1. ~Mixing!At(p, "idle")
  BY DEF Mixing!Renew, Mixing!At
<1>2. Mixing!TypeOK /\ RequestAims(p) /\ n \in Mixes /\ mix[n] \in Mixing!Row
  BY <1>1, AimsTyped
<1>3. Mixing!Touch(p, made) /\ Mixing!End(p) /\ UNCHANGED <<stamp, Mixing!rest, mixFaults>>
  BY DEF Mixing!Renew
<1>4. ASSUME Mixing!Present(p) PROVE Firmer(n, made)
  <2>1. made.kept /\ mix[n].live
    BY <1>2, <1>4 DEF Mixing!Row, Mixing!Present
  <2> QED
    BY <1>2, <2>1 DEF Firmer, Mixing!Row
<1> HIDE DEF made
<1>5. /\ mix' \in [Mixes -> Mixing!Row] /\ used' \subseteq Mixing!Refs
      /\ \A m \in Mixes : Steady(m)
      /\ \A ref \in Mixing!Refs : Past(ref) /\ Mixing!Stamped(ref) => Mixing!Stamped(ref)' \/ Spent(ref)'
      /\ Numbered' /\ UsedDurable'
  BY <1>1, <1>3, <1>4, TouchSteady
<1>6. /\ request' \in [Requests -> Mixing!Request] /\ request'[p].pc = "idle"
      /\ \A q \in Requests \ {p} : request'[q] = request[q]
  BY <1>2, <1>3, Ends
<1>7. Mixing!TypeOK' /\ RequestAims(p)'
  BY <1>2, <1>3, <1>5, <1>6 DEF Mixing!TypeOK, Mixing!rest, RequestAims, Mixing!At
<1> QED
  BY <1>3, <1>5, <1>6, <1>7, RequestKept DEF Mixing!rest
(* A like or a save, put or taken back: the row is no less durable than before *)
(* but for it, and it is kept or does not expire.                             *)
LEMMA SetSteady ==
    ASSUME MixBounds, MixInv, NEW p \in Requests, ~Mixing!At(p, "idle"), NEW made,
           mix' = IF Mixing!Present(p) THEN [mix EXCEPT ![Mixing!Mix(p)] = made] ELSE mix,
           Mixing!Present(p) =>
              /\ made \in Mixing!Row /\ made.key = mix[Mixing!Mix(p)].key /\ made.live = mix[Mixing!Mix(p)].live
              /\ made.kept = mix[Mixing!Mix(p)].kept /\ made.views = mix[Mixing!Mix(p)].views
              /\ made.viewed = mix[Mixing!Mix(p)].viewed /\ made.expired = mix[Mixing!Mix(p)].expired
              /\ \/ mix[Mixing!Mix(p)].kept \/ ~mix[Mixing!Mix(p)].expired
                 \/ (made.liked => mix[Mixing!Mix(p)].liked) /\ (made.saved => mix[Mixing!Mix(p)].saved),
           UNCHANGED <<stamp, used>>
    PROVE  /\ mix' \in [Mixes -> Mixing!Row]
           /\ \A m \in Mixes : Steady(m)
           /\ \A ref \in Mixing!Refs : Past(ref) /\ Mixing!Stamped(ref) => Mixing!Stamped(ref)' \/ Spent(ref)'
           /\ Numbered' /\ UsedDurable'
<1> DEFINE n == Mixing!Mix(p)
<1>1. Mixing!TypeOK /\ Numbered /\ UsedDurable /\ n \in Mixes
  BY AimsTyped DEF MixInv
<1>2. CASE ~Mixing!Present(p)
  BY <1>1, <1>2, UnchangedSteady DEF Mixing!TypeOK
<1>3. CASE Mixing!Present(p)
  <2>1. mix' = [mix EXCEPT ![n] = made]
    BY <1>3
  <2>2. /\ made \in Mixing!Row /\ made.key = mix[n].key /\ made.live = mix[n].live
        /\ made.kept = mix[n].kept /\ made.views = mix[n].views
        /\ made.viewed = mix[n].viewed /\ made.expired = mix[n].expired
        /\ \/ mix[n].kept \/ ~mix[n].expired
           \/ (made.liked => mix[n].liked) /\ (made.saved => mix[n].saved)
    BY <1>3
  <2> HIDE DEF n
  <2>3. mix' \in [Mixes -> Mixing!Row] /\ mix'[n] = made /\ \A m \in Mixes \ {n} : mix'[m] = mix[m]
    BY <1>1, <2>1, <2>2 DEF Mixing!TypeOK
  <2>4. \A m \in Mixes : /\ mix'[m].key = mix[m].key /\ mix'[m].live = mix[m].live /\ mix'[m].kept = mix[m].kept
                         /\ mix'[m].views = mix[m].views /\ mix'[m].viewed = mix[m].viewed /\ mix'[m].expired = mix[m].expired
    BY <2>2, <2>3
  <2>5. \A m \in Mixes : Steady(m)
    <3> SUFFICES ASSUME NEW m \in Mixes PROVE Steady(m)
      OBVIOUS
    <3>1. CASE m = n
      BY <2>2, <2>3, <2>4, <3>1 DEF Steady
    <3>2. CASE m # n
      BY <2>3, <3>2 DEF Steady
    <3> QED
      BY <3>1, <3>2
  <2>6. \A ref \in Mixing!Refs : Mixing!Stamped(ref) => Mixing!Stamped(ref)'
    BY <2>4 DEF Mixing!Stamped, Mixing!Ref, Mixing!Refs
  <2>7. Numbered'
    BY <1>1, <2>4 DEF Numbered
  <2>8. UsedDurable'
    <3> SUFFICES ASSUME NEW ref \in used' PROVE DurablyUsed(ref)'
      BY DEF UsedDurable
    <3>1. ref[1] \in Mixes /\ DurablyUsed(ref)
      BY <1>1, RefParts DEF Mixing!TypeOK, Mixing!Refs, UsedDurable
    <3> QED
      BY <2>4, <3>1 DEF DurablyUsed, Past
  <2> QED
    BY <2>3, <2>5, <2>6, <2>7, <2>8
<1> QED
  BY <1>2, <1>3

(* The row of a like or a save at hand is as it was when it was kept.         *)
LEMMA SetKeepsRow ==
    ASSUME NEW p, mix[Mixing!Mix(p)] \in Mixing!Row, NEW on \in BOOLEAN
    PROVE  /\ Mixing!Set(p, on) \in Mixing!Row /\ Mixing!Set(p, on).key = mix[Mixing!Mix(p)].key /\ Mixing!Set(p, on).live = mix[Mixing!Mix(p)].live
           /\ Mixing!Set(p, on).kept = mix[Mixing!Mix(p)].kept /\ Mixing!Set(p, on).views = mix[Mixing!Mix(p)].views
           /\ Mixing!Set(p, on).viewed = mix[Mixing!Mix(p)].viewed /\ Mixing!Set(p, on).expired = mix[Mixing!Mix(p)].expired
BY DEF Mixing!Set, Mixing!Row

LEMMA KeepsStamp ==
    ASSUME MixBounds, MixInv, NEW p \in Requests, Mixing!Stamp(p)
    PROVE  MixInv'
<1> DEFINE n == Mixing!Mix(p)
<1>1. ~Mixing!At(p, "idle") /\ Mixing!At(p, "stamp")
  BY DEF Mixing!Stamp, Mixing!At
<1>2. Mixing!TypeOK /\ RequestAims(p) /\ n \in Mixes /\ request[p].key \in 1..MaxKeys /\ Numbered
  BY <1>1, AimsTyped DEF MixInv
<1>3. UNCHANGED <<mix, used, Mixing!rest>>
  BY DEF Mixing!Stamp
<1>4. \/ stamp' = [stamp EXCEPT ![n] = IF mix[n].key = request[p].key THEN "recent" ELSE @]
      \/ stamp' = stamp
  BY DEF Mixing!Stamp
<1>5. mixFaults' \in 0..MaxMixFaults
  BY <1>2 DEF Mixing!Stamp, Mixing!Fault, Mixing!NoFault, Mixing!TypeOK, MixBounds
<1>6. /\ stamp' \in [Mixes -> {"none", "recent"}]
      /\ \A m \in Mixes : stamp[m] = "recent" => stamp'[m] = "recent"
      /\ \A m \in Mixes : stamp'[m] = "recent" => stamp[m] = "recent" \/ mix[m].key >= 1
  <2> HIDE DEF n
  <2>1. mix[n].key = request[p].key => mix[n].key >= 1
    BY <1>2
  <2> QED
    BY <1>2, <1>4, <2>1 DEF Mixing!TypeOK
<1>7. /\ request' \in [Requests -> Mixing!Request]
      /\ \A q \in Requests \ {p} : request'[q] = request[q]
      /\ \/ request'[p].pc = "idle"
         \/ /\ request[p].kind \in {"like", "save"} /\ request'[p].pc = "toggle" /\ request'[p].kind = request[p].kind
            /\ request'[p].mix = request[p].mix /\ request'[p].key = request[p].key
  <2>1. CASE request[p].kind \in {"like", "save"}
    BY <1>2, <2>1, GoesTo DEF Mixing!Stamp
  <2>2. CASE request[p].kind \notin {"like", "save"}
    BY <1>2, <2>2, Ends DEF Mixing!Stamp
  <2> QED
    BY <2>1, <2>2
<1>8. Mixing!TypeOK'
  BY <1>2, <1>3, <1>5, <1>6, <1>7 DEF Mixing!TypeOK, Mixing!rest
<1>9. RequestAims(p)'
  BY <1>1, <1>2, <1>3, <1>7 DEF RequestAims, Mixing!At, Mixing!Mix, Mixing!Present
<1>10. \A m \in Mixes : Steady(m)
  BY <1>3 DEF Steady
<1>11. ASSUME NEW ref \in Mixing!Refs, Mixing!Stamped(ref) PROVE Mixing!Stamped(ref)'
  BY <1>3, <1>6, <1>11, RefParts DEF Mixing!Stamped, Mixing!Ref, Mixing!Refs
<1>12. Numbered'
  BY <1>2, <1>3, <1>6 DEF Numbered
<1>13. UsedDurable'
  BY <1>3 DEF MixInv, UsedDurable, DurablyUsed, Past
<1> QED
  BY <1>3, <1>7, <1>8, <1>9, <1>10, <1>11, <1>12, <1>13, RequestKept DEF Mixing!rest

LEMMA KeepsToggle ==
    ASSUME MixBounds, MixInv, NEW p \in Requests, Mixing!Toggle(p)
    PROVE  MixInv'
<1>1. ~Mixing!At(p, "idle") /\ Mixing!At(p, "toggle")
  BY DEF Mixing!Toggle, Mixing!At
<1>2. Mixing!TypeOK /\ RequestAims(p)
  BY <1>1, AimsTyped
<1>3. UNCHANGED <<mix, stamp, used, Mixing!rest, mixFaults>> /\ (Mixing!Goto(p, "remove") \/ Mixing!Goto(p, "add") \/ Mixing!End(p))
  BY DEF Mixing!Toggle
<1>4. /\ request' \in [Requests -> Mixing!Request]
      /\ \A q \in Requests \ {p} : request'[q] = request[q]
      /\ \/ request'[p].pc = "idle"
         \/ /\ request'[p].pc \in {"remove", "add"} /\ request'[p].kind = request[p].kind
            /\ request'[p].mix = request[p].mix /\ request'[p].key = request[p].key
  <2>1. CASE Mixing!End(p)
    BY <1>2, <2>1, Ends
  <2>2. CASE Mixing!Goto(p, "remove")
    BY <1>2, <2>2, GoesTo
  <2>3. CASE Mixing!Goto(p, "add")
    BY <1>2, <2>3, GoesTo
  <2> QED
    BY <1>3, <2>1, <2>2, <2>3
<1>5. Mixing!TypeOK'
  BY <1>2, <1>3, <1>4 DEF Mixing!TypeOK, Mixing!rest
<1>6. RequestAims(p)'
  BY <1>1, <1>2, <1>3, <1>4 DEF RequestAims, Mixing!At, Mixing!Mix, Mixing!Present
<1> QED
  BY <1>3, <1>4, <1>5, <1>6, RequestKept, UnchangedSteady DEF Mixing!rest

LEMMA KeepsAdd ==
    ASSUME MixBounds, MixInv, NEW p \in Requests, Mixing!Add(p)
    PROVE  MixInv'
<1> DEFINE n == Mixing!Mix(p)
<1>1. ~Mixing!At(p, "idle") /\ Mixing!At(p, "add")
  BY DEF Mixing!Add, Mixing!At
<1>2. Mixing!TypeOK /\ RequestAims(p) /\ n \in Mixes /\ mix[n] \in Mixing!Row
  BY <1>1, AimsTyped
<1>3. PICK made : made = Mixing!Set(p, TRUE)
  OBVIOUS
<1>4. /\ made \in Mixing!Row /\ made.key = mix[n].key /\ made.live = mix[n].live /\ made.kept = mix[n].kept
      /\ made.views = mix[n].views /\ made.viewed = mix[n].viewed /\ made.expired = mix[n].expired
  BY <1>2, <1>3, SetKeepsRow
<1>5. mix' = IF Mixing!Present(p) THEN [mix EXCEPT ![n] = made] ELSE mix
  BY <1>3 DEF Mixing!Add
<1>6. UNCHANGED <<stamp, used, Mixing!rest, mixFaults>>
  BY DEF Mixing!Add
<1>7. Mixing!Present(p) => mix[n].kept \/ ~mix[n].expired
  BY <1>1, <1>2 DEF RequestAims, Mixing!At
<1>8. /\ mix' \in [Mixes -> Mixing!Row]
      /\ \A m \in Mixes : Steady(m)
      /\ \A ref \in Mixing!Refs : Past(ref) /\ Mixing!Stamped(ref) => Mixing!Stamped(ref)' \/ Spent(ref)'
      /\ Numbered' /\ UsedDurable'
  BY <1>1, <1>4, <1>5, <1>6, <1>7, SetSteady
<1>9. /\ request' \in [Requests -> Mixing!Request]
      /\ \A q \in Requests \ {p} : request'[q] = request[q]
      /\ \/ request'[p].pc = "idle"
         \/ /\ Mixing!Present(p) /\ request'[p].pc = "renew" /\ request'[p].kind = request[p].kind
            /\ request'[p].mix = request[p].mix /\ request'[p].key = request[p].key
  <2>1. CASE Mixing!Present(p) /\ request[p].kind = "like"
    BY <1>2, <2>1, GoesTo DEF Mixing!Add
  <2>2. CASE ~(Mixing!Present(p) /\ request[p].kind = "like")
    BY <1>2, <2>2, Ends DEF Mixing!Add
  <2> QED
    BY <2>1, <2>2
<1>10. Mixing!TypeOK'
  BY <1>2, <1>6, <1>8, <1>9 DEF Mixing!TypeOK, Mixing!rest
<1>11. RequestAims(p)'
  <2>1. CASE request'[p].pc = "idle"
    BY <2>1 DEF RequestAims, Mixing!At
  <2>2. CASE request'[p].pc # "idle"
    <3>1. n' = n /\ mix'[n] = made
      BY <1>2, <1>5, <1>9, <2>2 DEF Mixing!Mix, Mixing!TypeOK
    <3> QED
      BY <1>1, <1>2, <1>4, <1>7, <1>9, <2>2, <3>1 DEF RequestAims, Mixing!At, Mixing!Present
  <2> QED
    BY <2>1, <2>2
<1> QED
  BY <1>6, <1>8, <1>9, <1>10, <1>11, RequestKept DEF Mixing!rest

LEMMA KeepsRemove ==
    ASSUME MixBounds, MixInv, NEW p \in Requests, Mixing!Remove(p)
    PROVE  MixInv'
<1> DEFINE n == Mixing!Mix(p)
<1>1. ~Mixing!At(p, "idle") /\ Mixing!At(p, "remove")
  BY DEF Mixing!Remove, Mixing!At
<1>2. Mixing!TypeOK /\ RequestAims(p) /\ n \in Mixes /\ mix[n] \in Mixing!Row
  BY <1>1, AimsTyped
<1>3. PICK made : made = Mixing!Set(p, FALSE)
  OBVIOUS
<1>4. /\ made \in Mixing!Row /\ made.key = mix[n].key /\ made.live = mix[n].live /\ made.kept = mix[n].kept
      /\ made.views = mix[n].views /\ made.viewed = mix[n].viewed /\ made.expired = mix[n].expired
  BY <1>2, <1>3, SetKeepsRow
<1>5. mix' = IF Mixing!Present(p) THEN [mix EXCEPT ![n] = made] ELSE mix
  BY <1>3 DEF Mixing!Remove
<1>6. UNCHANGED <<stamp, used, Mixing!rest, mixFaults>> /\ Mixing!End(p)
  BY DEF Mixing!Remove
<1>7. Mixing!Present(p) => mix[n].kept \/ ~mix[n].expired
  BY <1>1, <1>2 DEF RequestAims, Mixing!At
<1>8. /\ mix' \in [Mixes -> Mixing!Row]
      /\ \A m \in Mixes : Steady(m)
      /\ \A ref \in Mixing!Refs : Past(ref) /\ Mixing!Stamped(ref) => Mixing!Stamped(ref)' \/ Spent(ref)'
      /\ Numbered' /\ UsedDurable'
  BY <1>1, <1>4, <1>5, <1>6, <1>7, SetSteady
<1>9. /\ request' \in [Requests -> Mixing!Request] /\ request'[p].pc = "idle"
      /\ \A q \in Requests \ {p} : request'[q] = request[q]
  BY <1>2, <1>6, Ends
<1>10. Mixing!TypeOK' /\ RequestAims(p)'
  BY <1>2, <1>6, <1>8, <1>9 DEF Mixing!TypeOK, Mixing!rest, RequestAims, Mixing!At
<1> QED
  BY <1>6, <1>8, <1>9, <1>10, RequestKept DEF Mixing!rest

LEMMA RequestMixKept ==
    ASSUME MixBounds, MixInv, NEW p \in Requests, Mixing!RequestNext(p)
    PROVE  MixInv'
BY KeepsShow, KeepsGet, KeepsMaterialize, KeepsOpen, KeepsAddViewer, KeepsKeep, KeepsStamp, KeepsToggle,
   KeepsAdd,
   KeepsRenew, KeepsRemove DEF Mixing!RequestNext
-----------------------------------------------------------------------------
(* The generator.                                                             *)
LEMMA RequestsSteady ==
    ASSUME MixBounds, MixInv, Mixing!TypeOK', request' = request, \A m \in Mixes : Steady(m)
    PROVE  RequestsAim'
<1> SUFFICES ASSUME NEW p \in Requests PROVE RequestAims(p)'
  BY DEF RequestsAim
<1> QED
  BY RequestSteady DEF MixInv, RequestsAim

LEMMA KeepsGenerateRead == ASSUME MixBounds, MixInv, Mixing!GenerateRead PROVE MixInv'
<1> DEFINE rows == {Mixing!Ref(m) : m \in {n \in personal : mix[n].live /\ ~Mixing!Durable(n)}}
           absent == {m \in personal : ~mix[m].live}
<1>1. Mixing!TypeOK /\ Numbered
  BY DEF MixInv
<1>2. rows \subseteq Mixing!Refs
  <2> SUFFICES ASSUME NEW n \in personal, mix[n].live PROVE Mixing!Ref(n) \in Mixing!Refs
    OBVIOUS
  <2>1. n \in Mixes /\ mix[n].key \in 0..MaxKeys /\ mix[n].key >= 1
    BY <1>1, RowFields DEF Mixing!TypeOK, Numbered
  <2> QED
    BY <2>1 DEF Mixing!Ref, Mixing!Refs, Mixing!Keys, MixBounds
<1>3. absent \subseteq Mixes
  BY <1>1 DEF Mixing!TypeOK
<1>4. generator' = [pc |-> "write", rows |-> rows, absent |-> absent]
  BY DEF Mixing!GenerateRead
<1>5. UNCHANGED <<personal, mix, stamp, request, lock, cleaner, used, passes, mixFaults>>
  BY DEF Mixing!GenerateRead
<1> HIDE DEF rows, absent
<1>6. Mixing!TypeOK'
  BY <1>1, <1>2, <1>3, <1>4, <1>5 DEF Mixing!TypeOK
<1>7. /\ \A m \in Mixes : Steady(m)
      /\ \A ref \in Mixing!Refs : Past(ref) /\ Mixing!Stamped(ref) => Mixing!Stamped(ref)' \/ Spent(ref)'
      /\ Numbered' /\ UsedDurable'
  BY <1>5, UnchangedSteady
<1> QED
  BY <1>5, <1>6, <1>7, PassesSteady, RequestsSteady DEF MixInv

LEMMA KeepsGenerateWrite == ASSUME MixBounds, MixInv, Mixing!GenerateWrite PROVE MixInv'
<1>1. Mixing!TypeOK /\ Numbered /\ UsedDurable
  BY DEF MixInv
<1>2. /\ used' = used \ Mixing!Overwritten
      /\ mix' = [m \in Mixes |-> IF m \in personal THEN Mixing!Rewritten(m) ELSE mix[m]]
      /\ stamp' = [m \in Mixes |-> IF mix'[m].key = mix[m].key THEN stamp[m] ELSE "none"]
      /\ generator' = Mixing!NoGeneration /\ UNCHANGED <<personal, request, lock, cleaner, passes, mixFaults>>
  BY DEF Mixing!GenerateWrite
<1>3. ASSUME NEW m \in Mixes
      PROVE  /\ mix'[m] \in Mixing!Row
             /\ \/ mix'[m] = mix[m]
                \/ /\ mix[m].live /\ Mixing!Ref(m) \in generator.rows /\ mix'[m].key = mix[m].key /\ mix'[m].live
                   /\ ~mix'[m].expired /\ mix'[m].views = mix[m].views
                \/ ~mix[m].live /\ mix'[m].key = mix[m].key + 1 /\ ~mix'[m].expired
  <2>1. mix'[m] = IF m \in personal THEN Mixing!Rewritten(m) ELSE mix[m]
    BY <1>2
  <2>2. mix[m] \in Mixing!Row
    BY <1>1, RowFields
  <2>3. CASE m \in personal /\ mix[m].live /\ Mixing!Ref(m) \in generator.rows
    <3>1. mix'[m] = [mix[m] EXCEPT !.expired = FALSE, !.kept = FALSE]
      BY <2>1, <2>3 DEF Mixing!Rewritten
    <3> QED
      BY <2>2, <2>3, <3>1 DEF Mixing!Row
  <2>4. CASE m \in personal /\ m \in generator.absent /\ ~mix[m].live /\ mix[m].key < MaxKeys
    <3>1. mix'[m] = Mixing!NewRow(m)
      BY <2>1, <2>4 DEF Mixing!Rewritten
    <3> QED
      BY <1>1, <2>4, <3>1, NewRowIs
  <2>5. CASE /\ ~(m \in personal /\ mix[m].live /\ Mixing!Ref(m) \in generator.rows)
             /\ ~(m \in personal /\ m \in generator.absent /\ ~mix[m].live /\ mix[m].key < MaxKeys)
    BY <2>1, <2>2, <2>5 DEF Mixing!Rewritten
  <2> QED
    BY <2>3, <2>4, <2>5
<1>4. mix' \in [Mixes -> Mixing!Row]
  BY <1>2, <1>3
<1>5. Mixing!TypeOK'
  <2>1. stamp' \in [Mixes -> {"none", "recent"}]
    BY <1>1, <1>2 DEF Mixing!TypeOK
  <2>2. Mixing!NoGeneration \in [pc : {"idle", "write"}, rows : SUBSET Mixing!Refs, absent : SUBSET Mixes]
    BY DEF Mixing!NoGeneration
  <2> QED
    BY <1>1, <1>2, <1>4, <2>1, <2>2 DEF Mixing!TypeOK
<1>6. ASSUME NEW m \in Mixes PROVE Steady(m)
  BY <1>3 DEF Steady
<1>7. ASSUME NEW m \in Mixes PROVE mix[m].key \in Int /\ mix'[m].key \in Int /\ mix'[m].key >= mix[m].key
  <2>1. mix[m].key \in 0..MaxKeys
    BY <1>1, RowFields
  <2> QED
    BY <1>3, <2>1
<1>8. ASSUME NEW ref \in Mixing!Refs, Past(ref), Mixing!Stamped(ref) PROVE Mixing!Stamped(ref)' \/ Spent(ref)'
  <2>1. ref[1] \in Mixes /\ ref[2] \in Int
    BY RefParts DEF Mixing!Refs
  <2>2. CASE mix'[ref[1]].key = mix[ref[1]].key
    BY <1>2, <1>8, <2>1, <2>2 DEF Mixing!Stamped, Mixing!Ref
  <2>3. CASE mix'[ref[1]].key # mix[ref[1]].key
    BY <1>7, <1>8, <2>1, <2>3 DEF Spent, Past
  <2> QED
    BY <2>2, <2>3
<1>9. Numbered'
  <2> SUFFICES ASSUME NEW m \in Mixes, mix'[m].live \/ stamp'[m] = "recent" PROVE mix'[m].key >= 1
    BY DEF Numbered
  <2>1. stamp'[m] = "recent" => stamp[m] = "recent"
    BY <1>2
  <2>2. mix[m].key \in 0..MaxKeys
    BY <1>1, RowFields
  <2> QED
    BY <1>1, <1>3, <1>7, <2>1, <2>2 DEF Numbered
<1>10. UsedDurable'
  <2> SUFFICES ASSUME NEW ref \in used' PROVE DurablyUsed(ref)'
    BY DEF UsedDurable
  <2>1. ref \in used /\ ref \in Mixing!Refs /\ ref[1] \in Mixes /\ ref[2] \in Int /\ DurablyUsed(ref) /\ ref \notin Mixing!Overwritten
    BY <1>1, <1>2, RefParts DEF Mixing!TypeOK, Mixing!Refs, UsedDurable
  <2> DEFINE m == ref[1]
  <2>2. Past(ref)'
    BY <1>7, <2>1 DEF DurablyUsed, Past
  <2>3. ASSUME ref[2] = mix'[m].key, mix'[m].live PROVE mix'[m].kept \/ mix'[m].views \/ mix'[m].viewed
    <3>1. CASE mix'[m] = mix[m]
      BY <2>1, <2>3, <3>1 DEF DurablyUsed
    <3>2. CASE /\ mix[m].live /\ Mixing!Ref(m) \in generator.rows /\ mix'[m].key = mix[m].key /\ mix'[m].live
               /\ ~mix'[m].expired /\ mix'[m].views = mix[m].views
      <4>1. ref = Mixing!Ref(m)
        BY <2>1, <2>3, <3>2 DEF Mixing!Ref, Mixing!Refs
      <4> QED
        BY <2>1, <3>2, <4>1 DEF Mixing!Overwritten
    <3>3. CASE ~mix[m].live /\ mix'[m].key = mix[m].key + 1 /\ ~mix'[m].expired
      BY <1>7, <2>1, <2>3, <3>3 DEF DurablyUsed, Past
    <3> QED
      BY <1>3, <2>1, <3>1, <3>2, <3>3
  <2> QED
    BY <2>2, <2>3 DEF DurablyUsed
<1> QED
  BY <1>2, <1>5, <1>6, <1>8, <1>9, <1>10, PassesSteady, RequestsSteady DEF MixInv

(* Time.                                                                      *)
LEMMA KeepsExpire == ASSUME MixBounds, MixInv, NEW m \in Mixes, Mixing!Expire(m) PROVE MixInv'
<1>1. Mixing!TypeOK /\ Numbered /\ UsedDurable /\ RequestsAim /\ PassesHold
  BY DEF MixInv
<1>2. /\ mix' = [mix EXCEPT ![m].expired = TRUE] /\ stamp' = [stamp EXCEPT ![m] = "none"]
      /\ UNCHANGED <<request, used, Mixing!rest, mixFaults>> /\ mix[m].live
  BY DEF Mixing!Expire
<1>3. /\ mix' \in [Mixes -> Mixing!Row]
      /\ \A n \in Mixes : /\ mix'[n].key = mix[n].key /\ mix'[n].live = mix[n].live /\ mix'[n].kept = mix[n].kept
                          /\ mix'[n].views = mix[n].views /\ mix'[n].viewed = mix[n].viewed
  BY <1>1, <1>2 DEF Mixing!TypeOK, Mixing!Row
<1>4. Mixing!TypeOK'
  BY <1>1, <1>2, <1>3 DEF Mixing!TypeOK, Mixing!rest
<1>5. Numbered'
  <2> SUFFICES ASSUME NEW n \in Mixes, mix'[n].live \/ stamp'[n] = "recent" PROVE mix'[n].key >= 1
    BY DEF Numbered
  <2>1. stamp'[n] = "recent" => stamp[n] = "recent"
    BY <1>1, <1>2 DEF Mixing!TypeOK
  <2> QED
    BY <1>1, <1>3, <2>1 DEF Numbered
<1>6. UsedDurable'
  <2> SUFFICES ASSUME NEW ref \in used' PROVE DurablyUsed(ref)'
    BY DEF UsedDurable
  <2>1. ref[1] \in Mixes /\ DurablyUsed(ref)
    BY <1>1, <1>2, RefParts DEF Mixing!TypeOK, Mixing!Refs, UsedDurable
  <2> QED
    BY <1>3, <2>1 DEF DurablyUsed, Past
<1>7. RequestsAim'
  <2> SUFFICES ASSUME NEW p \in Requests PROVE RequestAims(p)'
    BY DEF RequestsAim
  <2>1. RequestAims(p) /\ request[p].kind \in {"none", "show"} /\ request' = request
    BY <1>1, <1>2 DEF Mixing!Expire, RequestsAim
  <2> QED
    BY <1>3, <2>1 DEF RequestAims, Mixing!At, Mixing!Mix, Mixing!Present
<1>8. PassesHold' /\ Mixing!StampedKept' /\ Mixing!UsedKept'
  <2>1. \A c \in Actors : cleaner'[c] = Mixing!NoPass
    BY <1>1, <1>2 DEF Mixing!Expire, PassesHold, PassHolds, Mixing!CAt, Mixing!rest
  <2>2. \A c \in Actors : PassHolds(c)'
    BY <2>1 DEF PassHolds, Mixing!CAt, Mixing!NoPass
  <2>3. Mixing!NoPass.victims = {}
    BY DEF Mixing!NoPass
  <2> QED
    BY <2>1, <2>2, <2>3 DEF PassesHold, Mixing!StampedKept, Mixing!UsedKept
<1> QED
  BY <1>4, <1>5, <1>6, <1>7, <1>8 DEF MixInv

LEMMA KeepsAgeStamp == ASSUME MixBounds, MixInv, NEW m \in Mixes, Mixing!AgeStamp(m) PROVE MixInv'
<1>1. Mixing!TypeOK /\ Numbered /\ UsedDurable /\ RequestsAim /\ PassesHold /\ Mixing!StampedKept /\ Mixing!UsedKept
  BY DEF MixInv
<1>2. /\ stamp' = [stamp EXCEPT ![m] = "none"]
      /\ cleaner' = [c \in Actors |-> [cleaner[c] EXCEPT !.protected = @ \ {Mixing!Ref(m)}]]
      /\ UNCHANGED <<personal, mix, request, generator, lock, used, passes, mixFaults>>
  BY DEF Mixing!AgeStamp
<1>3. ASSUME NEW c \in Actors
      PROVE  /\ cleaner'[c] \in Mixing!Cleaner /\ cleaner'[c].pc = cleaner[c].pc /\ cleaner'[c].blind = cleaner[c].blind
             /\ cleaner'[c].protected = cleaner[c].protected \ {Mixing!Ref(m)} /\ cleaner'[c].found = cleaner[c].found
             /\ cleaner'[c].victims = cleaner[c].victims /\ cleaner'[c].safe = cleaner[c].safe
             /\ cleaner[c] = Mixing!NoPass => cleaner'[c] = Mixing!NoPass
  <2>1. cleaner'[c] = [cleaner[c] EXCEPT !.protected = @ \ {Mixing!Ref(m)}] /\ cleaner[c] \in Mixing!Cleaner
    BY <1>1, <1>2, PassFields
  <2>2. /\ cleaner'[c] \in Mixing!Cleaner /\ cleaner'[c].pc = cleaner[c].pc /\ cleaner'[c].blind = cleaner[c].blind
        /\ cleaner'[c].protected = cleaner[c].protected \ {Mixing!Ref(m)} /\ cleaner'[c].found = cleaner[c].found
        /\ cleaner'[c].victims = cleaner[c].victims /\ cleaner'[c].safe = cleaner[c].safe
    BY <2>1 DEF Mixing!Cleaner
  <2>3. ASSUME cleaner[c] = Mixing!NoPass PROVE cleaner'[c] = Mixing!NoPass
    <3>1. Mixing!NoPass.protected \ {Mixing!Ref(m)} = Mixing!NoPass.protected
      BY DEF Mixing!NoPass
    <3> QED
      BY <2>1, <2>2, <2>3, <3>1, NoPassTyped DEF Mixing!Cleaner
  <2> QED
    BY <2>2, <2>3
<1>4. cleaner' \in [Actors -> Mixing!Cleaner]
  BY <1>2, <1>3
<1>5. Mixing!TypeOK'
  BY <1>1, <1>2, <1>4 DEF Mixing!TypeOK
<1>6. \A n \in Mixes : Steady(n)
  BY <1>2 DEF Steady
<1>7. RequestsAim'
  BY <1>2, <1>5, <1>6, RequestsSteady
<1>8. Numbered' /\ UsedDurable'
  <2>1. \A n \in Mixes : stamp'[n] = "recent" => stamp[n] = "recent"
    BY <1>1, <1>2 DEF Mixing!TypeOK
  <2> QED
    BY <1>1, <1>2, <2>1 DEF Numbered, UsedDurable, DurablyUsed, Past
<1>9. ASSUME NEW c \in Actors PROVE PassHolds(c)'
  <2>1. /\ PassHolds(c) /\ cleaner[c].found \subseteq Mixing!Refs /\ cleaner[c].protected \subseteq Mixing!Refs
    BY <1>1, PassFields DEF PassesHold
  <2>2. \A ref \in Mixing!Refs : (Spent(ref)' <=> Spent(ref)) /\ (Loose(ref)' <=> Loose(ref)) /\ (Past(ref)' <=> Past(ref))
    BY <1>2 DEF Spent, Loose, Past, Mixing!Disposable, Mixing!Durable
  <2>3. ASSUME NEW ref \in Mixing!Refs, Mixing!Stamped(ref), ref # Mixing!Ref(m) PROVE Mixing!Stamped(ref)'
    <3>1. ref[1] \in Mixes /\ ref[1] # m
      BY <2>3, RefParts DEF Mixing!Stamped, Mixing!Refs
    <3> QED
      BY <1>2, <2>3, <3>1 DEF Mixing!Stamped, Mixing!Ref
  <2> QED
    BY <1>3, <2>1, <2>2, <2>3 DEF PassHolds, Mixing!CAt
<1>10. Mixing!StampedKept' /\ Mixing!UsedKept'
  <2> SUFFICES ASSUME NEW c \in Actors
               PROVE  /\ cleaner'[c].blind \/ cleaner'[c].victims \cap cleaner'[c].protected = {}
                      /\ cleaner'[c].victims \cap cleaner'[c].safe = {}
    BY DEF Mixing!StampedKept, Mixing!UsedKept
  <2> QED
    BY <1>1, <1>3 DEF Mixing!StampedKept, Mixing!UsedKept
<1> QED
  BY <1>5, <1>7, <1>8, <1>9, <1>10 DEF MixInv, PassesHold
-----------------------------------------------------------------------------
(* What a step of a pass must keep.                                           *)
LEMMA PassKept ==
    ASSUME MixBounds, MixInv, Mixing!TypeOK', NEW c \in Actors,
           \A d \in Actors \ {c} : cleaner'[d] = cleaner[d],
           request' = request, \A m \in Mixes : Steady(m),
           \A ref \in Mixing!Refs : Past(ref) /\ Mixing!Stamped(ref) => Mixing!Stamped(ref)' \/ Spent(ref)',
           PassHolds(c)',
           cleaner'[c].blind \/ cleaner'[c].victims \cap cleaner'[c].protected = {},
           cleaner'[c].victims \cap cleaner'[c].safe = {},
           Numbered', UsedDurable'
    PROVE  MixInv'
<1>1. \A ref \in Mixing!Refs : /\ Past(ref) => Past(ref)'
                               /\ Spent(ref) => Spent(ref)'
                               /\ Loose(ref) => Loose(ref)' \/ Spent(ref)'
  BY SteadyRefs, RefParts DEF MixInv, Mixing!Refs
<1>2. ASSUME NEW d \in Actors PROVE PassHolds(d)'
  <2>1. PassHolds(d) /\ cleaner[d].found \subseteq Mixing!Refs /\ cleaner[d].protected \subseteq Mixing!Refs
    BY PassFields DEF MixInv, PassesHold
  <2>2. CASE d # c
    BY <1>1, <2>1, <2>2 DEF PassHolds, Mixing!CAt
  <2> QED
    BY <2>2
<1>3. Mixing!StampedKept' /\ Mixing!UsedKept'
  BY DEF MixInv, Mixing!StampedKept, Mixing!UsedKept
<1> QED
  BY <1>2, <1>3, RequestsSteady DEF MixInv, PassesHold

(* The steps that only read the rows and the stamps.                          *)
LEMMA PassReads ==
    ASSUME MixBounds, MixInv, NEW c \in Actors, NEW then, then \in Mixing!Cleaner, cleaner' = [cleaner EXCEPT ![c] = then],
           UNCHANGED <<personal, mix, stamp, request, generator, used>>,
           lock' \in Actors \cup {Mixing!NoCleaner}, passes' \in 0..MaxPasses, mixFaults' \in 0..MaxMixFaults,
           (* what the pass is then *)
           then.pc = "idle" => then = Mixing!NoPass,
           \A ref \in then.found : Spent(ref) \/ Loose(ref),
           \A ref \in then.protected : Past(ref),
           ~then.blind => \A ref \in then.protected : Spent(ref) \/ Mixing!Stamped(ref),
           ~then.blind /\ then.pc \in {"look", "delete", "forget"} => \A ref \in then.found \cap then.protected : Spent(ref),
           then.pc = "delete" => \A ref \in then.found \ then.victims : Spent(ref),
           then.pc = "forget" => \A ref \in then.found : Spent(ref),
           then.blind \/ then.victims \cap then.protected = {}, then.victims \cap then.safe = {}
    PROVE  MixInv'
<1>1. cleaner'[c] = then /\ (\A d \in Actors \ {c} : cleaner'[d] = cleaner[d]) /\ cleaner' \in [Actors -> Mixing!Cleaner]
  BY DEF MixInv, Mixing!TypeOK
<1>2. Mixing!TypeOK'
  BY <1>1 DEF MixInv, Mixing!TypeOK
<1>3. /\ \A m \in Mixes : Steady(m)
      /\ \A ref \in Mixing!Refs : Past(ref) /\ Mixing!Stamped(ref) => Mixing!Stamped(ref)' \/ Spent(ref)'
      /\ Numbered' /\ UsedDurable'
  BY UnchangedSteady
<1>4. PassHolds(c)'
  <2>1. \A ref : (Spent(ref)' <=> Spent(ref)) /\ (Loose(ref)' <=> Loose(ref)) /\ (Past(ref)' <=> Past(ref)) /\ (Mixing!Stamped(ref)' <=> Mixing!Stamped(ref))
    BY DEF Spent, Loose, Past, Mixing!Disposable, Mixing!Durable, Mixing!Stamped, Mixing!Ref
  <2> QED
    BY <1>1, <2>1 DEF PassHolds, Mixing!CAt
<1> QED
  BY <1>1, <1>2, <1>3, <1>4, PassKept

LEMMA PassBounds ==
    ASSUME MixBounds, MixInv
    PROVE  /\ lock \in Actors \cup {Mixing!NoCleaner} /\ passes \in 0..MaxPasses
           /\ passes < MaxPasses => passes + 1 \in 0..MaxPasses
           /\ Mixing!Fault \/ Mixing!NoFault => mixFaults' \in 0..MaxMixFaults
BY DEF MixInv, Mixing!TypeOK, Mixing!Fault, Mixing!NoFault, MixBounds

LEMMA KeepsBegin == ASSUME MixBounds, MixInv, NEW c \in Actors, Mixing!Begin(c) PROVE MixInv'
<1>1. Mixing!TypeOK /\ Numbered
  BY DEF MixInv
<1>2. PICK stamped : stamped = {Mixing!Ref(m) : m \in {n \in Mixes : stamp[n] = "recent"}}
  OBVIOUS
<1>3. \A ref \in stamped : ref \in Mixing!Refs /\ Past(ref) /\ Mixing!Stamped(ref)
  <2> SUFFICES ASSUME NEW m \in Mixes, stamp[m] = "recent" PROVE Mixing!Ref(m) \in Mixing!Refs /\ Past(Mixing!Ref(m)) /\ Mixing!Stamped(Mixing!Ref(m))
    BY <1>2
  <2>1. mix[m].key \in 0..MaxKeys /\ mix[m].key >= 1
    BY <1>1, RowFields DEF Numbered
  <2> QED
    BY <2>1 DEF Mixing!Ref, Mixing!Refs, Mixing!Keys, Past, Mixing!Stamped, MixBounds
<1>4. PICK then : then = [Mixing!NoPass EXCEPT !.pc = "scan", !.protected = stamped]
  OBVIOUS
<1>5. /\ then \in Mixing!Cleaner /\ then.pc = "scan" /\ then.blind = FALSE /\ then.protected = stamped
      /\ then.found = {} /\ then.victims = {} /\ then.safe = {}
  <2>1. stamped \subseteq Mixing!Refs
    BY <1>3
  <2>2. Mixing!NoPass.blind = FALSE /\ Mixing!NoPass.found = {} /\ Mixing!NoPass.victims = {} /\ Mixing!NoPass.safe = {}
    BY DEF Mixing!NoPass
  <2> QED
    BY <1>4, <2>1, <2>2, NoPassTyped DEF Mixing!Cleaner
<1>6. cleaner' = [cleaner EXCEPT ![c] = then]
  BY <1>2, <1>4 DEF Mixing!Begin
<1>7. UNCHANGED <<personal, mix, stamp, request, generator, used>> /\ lock' = c /\ passes' = passes + 1 /\ mixFaults' = mixFaults
  BY DEF Mixing!Begin
<1>8. lock' \in Actors \cup {Mixing!NoCleaner} /\ passes' \in 0..MaxPasses /\ mixFaults' \in 0..MaxMixFaults
  BY <1>7, PassBounds DEF Mixing!Begin, Mixing!NoFault
<1> QED
  BY <1>3, <1>5, <1>6, <1>7, <1>8, PassReads

LEMMA ContinuesAs ==
    ASSUME MixBounds, MixInv, NEW c \in Actors, NEW pc \in {"score", "look"}, NEW refs, refs \subseteq Mixing!Refs, Mixing!Continue(c, pc, refs)
    PROVE  \E then : /\ cleaner' = [cleaner EXCEPT ![c] = then]
                     /\ then \in Mixing!Cleaner /\ then.pc = (IF refs = {} THEN "unlock" ELSE pc) /\ then.found = refs
                     /\ then.blind = cleaner[c].blind /\ then.protected = cleaner[c].protected
                     /\ then.victims = cleaner[c].victims /\ then.safe = cleaner[c].safe
<1>1. cleaner \in [Actors -> Mixing!Cleaner] /\ cleaner[c] \in Mixing!Cleaner
  BY PassFields DEF MixInv, Mixing!TypeOK
<1>2. PICK to : to = (IF refs = {} THEN "unlock" ELSE pc)
  OBVIOUS
<1>3. PICK then : then = [cleaner[c] EXCEPT !.pc = to, !.found = refs]
  OBVIOUS
<1>4. cleaner' = [cleaner EXCEPT ![c] = then]
  BY <1>1, <1>2, <1>3 DEF Mixing!Continue
<1>5. /\ then \in Mixing!Cleaner /\ then.pc = to /\ then.found = refs
      /\ then.blind = cleaner[c].blind /\ then.protected = cleaner[c].protected
      /\ then.victims = cleaner[c].victims /\ then.safe = cleaner[c].safe
  BY <1>1, <1>2, <1>3 DEF Mixing!Cleaner
<1> QED
  BY <1>2, <1>4, <1>5

LEMMA CandidatesLoose ==
    ASSUME MixBounds, MixInv
    PROVE  /\ Mixing!Candidates \subseteq Mixing!Refs
           /\ \A ref \in Mixing!Refs : ref \in Mixing!Candidates <=> Loose(ref)
<1>1. Mixing!TypeOK /\ Numbered
  BY DEF MixInv
<1>2. ASSUME NEW m \in Mixes, Mixing!Disposable(m) PROVE Mixing!Ref(m) \in Mixing!Refs
  <2>1. mix[m].key \in 0..MaxKeys /\ mix[m].key >= 1
    BY <1>1, <1>2, RowFields DEF Numbered, Mixing!Disposable
  <2> QED
    BY <2>1 DEF Mixing!Ref, Mixing!Refs, Mixing!Keys, MixBounds
<1>3. ASSUME NEW ref \in Mixing!Refs PROVE ref \in Mixing!Candidates <=> Loose(ref)
  <2>1. ref[1] \in Mixes /\ ref = <<ref[1], ref[2]>>
    BY DEF Mixing!Refs
  <2> QED
    BY <2>1 DEF Mixing!Candidates, Loose, Mixing!Ref
<1> QED
  BY <1>2, <1>3 DEF Mixing!Candidates

LEMMA LooseNotSpent ==
    ASSUME MixInv, NEW ref \in Mixing!Refs, Loose(ref) PROVE ~Spent(ref) /\ Past(ref)
<1>1. mix[ref[1]].key \in 0..MaxKeys
  BY RowFields, RefParts DEF MixInv, Mixing!Refs
<1> QED
  BY <1>1 DEF Loose, Spent, Past, Mixing!Disposable, Mixing!Durable

LEMMA PassNow ==
    ASSUME MixInv, NEW c \in Actors
    PROVE  /\ PassHolds(c) /\ cleaner[c] \in Mixing!Cleaner /\ cleaner[c].found \subseteq Mixing!Refs /\ cleaner[c].protected \subseteq Mixing!Refs
           /\ cleaner[c].blind \/ cleaner[c].victims \cap cleaner[c].protected = {}
           /\ cleaner[c].victims \cap cleaner[c].safe = {}
BY PassFields DEF MixInv, PassesHold, Mixing!StampedKept, Mixing!UsedKept

LEMMA KeepsScan == ASSUME MixBounds, MixInv, NEW c \in Actors, Mixing!Scan(c) PROVE MixInv'
<1>1. Mixing!Candidates \subseteq Mixing!Refs /\ \A ref \in Mixing!Refs : ref \in Mixing!Candidates <=> Loose(ref)
  BY CandidatesLoose
<1>2. Mixing!Continue(c, "score", Mixing!Candidates) /\ UNCHANGED Mixing!cleanerOnly /\ Mixing!NoFault
  BY DEF Mixing!Scan
<1>3. PICK then : /\ cleaner' = [cleaner EXCEPT ![c] = then]
                  /\ then \in Mixing!Cleaner /\ then.pc = (IF Mixing!Candidates = {} THEN "unlock" ELSE "score") /\ then.found = Mixing!Candidates
                  /\ then.blind = cleaner[c].blind /\ then.protected = cleaner[c].protected
                  /\ then.victims = cleaner[c].victims /\ then.safe = cleaner[c].safe
  BY <1>1, <1>2, ContinuesAs
<1>4. then.pc \in {"unlock", "score"}
  BY <1>3
<1>5. UNCHANGED <<personal, mix, stamp, request, generator, lock, used, passes>>
  BY <1>2 DEF Mixing!cleanerOnly
<1>6. lock' \in Actors \cup {Mixing!NoCleaner} /\ passes' \in 0..MaxPasses /\ mixFaults' \in 0..MaxMixFaults
  BY <1>2, <1>5, PassBounds
<1>7. PassHolds(c) /\ (cleaner[c].blind \/ cleaner[c].victims \cap cleaner[c].protected = {})
      /\ cleaner[c].victims \cap cleaner[c].safe = {}
  BY PassNow
<1>8. /\ \A ref \in then.found : Spent(ref) \/ Loose(ref)
      /\ \A ref \in then.protected : Past(ref)
      /\ ~then.blind => \A ref \in then.protected : Spent(ref) \/ Mixing!Stamped(ref)
      /\ then.blind \/ then.victims \cap then.protected = {}
      /\ then.victims \cap then.safe = {}
  BY <1>1, <1>3, <1>7 DEF PassHolds
<1> QED
  BY <1>3, <1>4, <1>5, <1>6, <1>8, PassReads

LEMMA KeepsScore == ASSUME MixBounds, MixInv, NEW c \in Actors, Mixing!Score(c) PROVE MixInv'
<1>1. PICK refs : refs = {ref \in cleaner[c].found : ~Mixing!Stamped(ref)}
  OBVIOUS
<1>2. /\ PassHolds(c) /\ cleaner[c].found \subseteq Mixing!Refs /\ (cleaner[c].blind \/ cleaner[c].victims \cap cleaner[c].protected = {})
      /\ cleaner[c].victims \cap cleaner[c].safe = {}
  BY PassNow
<1>3. Mixing!Continue(c, "look", refs) /\ UNCHANGED Mixing!cleanerOnly /\ Mixing!NoFault /\ refs \subseteq Mixing!Refs
  BY <1>1, <1>2 DEF Mixing!Score
<1>4. PICK then : /\ cleaner' = [cleaner EXCEPT ![c] = then]
                  /\ then \in Mixing!Cleaner /\ then.pc = (IF refs = {} THEN "unlock" ELSE "look") /\ then.found = refs
                  /\ then.blind = cleaner[c].blind /\ then.protected = cleaner[c].protected
                  /\ then.victims = cleaner[c].victims /\ then.safe = cleaner[c].safe
  BY <1>3, ContinuesAs
<1>5. then.pc \in {"unlock", "look"}
  BY <1>4
<1>6. UNCHANGED <<personal, mix, stamp, request, generator, lock, used, passes>>
  BY <1>3 DEF Mixing!cleanerOnly
<1>7. lock' \in Actors \cup {Mixing!NoCleaner} /\ passes' \in 0..MaxPasses /\ mixFaults' \in 0..MaxMixFaults
  BY <1>3, <1>6, PassBounds
<1>8. /\ \A ref \in then.found : Spent(ref) \/ Loose(ref)
      /\ \A ref \in then.protected : Past(ref)
      /\ ~then.blind => \A ref \in then.protected : Spent(ref) \/ Mixing!Stamped(ref)
      /\ ~then.blind => \A ref \in then.found \cap then.protected : Spent(ref)
      /\ then.blind \/ then.victims \cap then.protected = {}
      /\ then.victims \cap then.safe = {}
  BY <1>1, <1>2, <1>4 DEF PassHolds
<1> QED
  BY <1>4, <1>5, <1>6, <1>7, <1>8, PassReads

LEMMA KeepsScoreLost == ASSUME MixBounds, MixInv, NEW c \in Actors, Mixing!ScoreLost(c) PROVE MixInv'
<1>1. /\ PassHolds(c) /\ cleaner[c] \in Mixing!Cleaner /\ cleaner[c].victims \cap cleaner[c].safe = {}
  BY PassNow
<1>2. PICK then : then = [cleaner[c] EXCEPT !.pc = "look", !.blind = TRUE]
  OBVIOUS
<1>3. /\ cleaner' = [cleaner EXCEPT ![c] = then] /\ then \in Mixing!Cleaner /\ then.pc = "look" /\ then.found = cleaner[c].found
      /\ then.blind /\ then.protected = cleaner[c].protected
      /\ then.victims = cleaner[c].victims /\ then.safe = cleaner[c].safe
  <2>1. then \in Mixing!Cleaner /\ then.pc = "look" /\ then.found = cleaner[c].found
        /\ then.blind /\ then.protected = cleaner[c].protected
        /\ then.victims = cleaner[c].victims /\ then.safe = cleaner[c].safe
    BY <1>1, <1>2 DEF Mixing!Cleaner
  <2>2. cleaner \in [Actors -> Mixing!Cleaner]
    BY DEF MixInv, Mixing!TypeOK
  <2>3. cleaner' = [cleaner EXCEPT ![c] = then]
    BY <1>2, <2>2 DEF Mixing!ScoreLost
  <2> QED
    BY <2>1, <2>3
<1>4. UNCHANGED <<personal, mix, stamp, request, generator, lock, used, passes>>
  BY DEF Mixing!cleanerOnly, Mixing!ScoreLost
<1>5. lock' \in Actors \cup {Mixing!NoCleaner} /\ passes' \in 0..MaxPasses /\ mixFaults' \in 0..MaxMixFaults
  BY <1>4, PassBounds DEF Mixing!ScoreLost
<1>6. /\ \A ref \in then.found : Spent(ref) \/ Loose(ref)
      /\ \A ref \in then.protected : Past(ref)
      /\ then.victims \cap then.safe = {}
  BY <1>1, <1>3 DEF PassHolds
<1> QED
  BY <1>3, <1>4, <1>5, <1>6, PassReads

LEMMA KeepsLook == ASSUME MixBounds, MixInv, NEW c \in Actors, Mixing!Look(c) PROVE MixInv'
<1>1. /\ PassHolds(c) /\ cleaner[c] \in Mixing!Cleaner /\ cleaner[c].found \subseteq Mixing!Refs /\ Mixing!CAt(c, "look")
  BY PassNow DEF Mixing!Look
<1>2. PICK still : still = cleaner[c].found \cap Mixing!Candidates
  OBVIOUS
<1>3. PICK then : then = [cleaner[c] EXCEPT !.pc = "delete", !.victims = still, !.safe = used]
  OBVIOUS
<1>4. \A ref \in still : Loose(ref) /\ ~Spent(ref) /\ ref \in Mixing!Refs
  BY <1>1, <1>2, CandidatesLoose, LooseNotSpent
<1>5. used \subseteq Mixing!Refs /\ UsedDurable /\ cleaner \in [Actors -> Mixing!Cleaner]
  BY DEF MixInv, Mixing!TypeOK
<1>6. /\ then \in Mixing!Cleaner /\ then.pc = "delete" /\ then.found = cleaner[c].found
      /\ then.blind = cleaner[c].blind /\ then.protected = cleaner[c].protected
      /\ then.victims = still /\ then.safe = used
  <2>1. still \subseteq Mixing!Refs
    BY <1>4
  <2> QED
    BY <1>1, <1>3, <1>5, <2>1 DEF Mixing!Cleaner
<1>7. cleaner' = [cleaner EXCEPT ![c] = then]
  BY <1>2, <1>3, <1>5 DEF Mixing!Look, Mixing!Still
<1>8. UNCHANGED <<personal, mix, stamp, request, generator, lock, used, passes>>
  BY DEF Mixing!cleanerOnly, Mixing!Look
<1>9. lock' \in Actors \cup {Mixing!NoCleaner} /\ passes' \in 0..MaxPasses /\ mixFaults' \in 0..MaxMixFaults
  BY <1>8, PassBounds DEF Mixing!Look
<1>10. /\ \A ref \in then.found : Spent(ref) \/ Loose(ref)
       /\ \A ref \in then.protected : Past(ref)
       /\ ~then.blind => \A ref \in then.protected : Spent(ref) \/ Mixing!Stamped(ref)
       /\ ~then.blind => \A ref \in then.found \cap then.protected : Spent(ref)
  BY <1>1, <1>6 DEF PassHolds, Mixing!CAt
<1>11. \A ref \in then.found \ then.victims : Spent(ref)
  BY <1>1, <1>2, <1>6, <1>10, CandidatesLoose
<1>12. then.blind \/ then.victims \cap then.protected = {}
  BY <1>2, <1>4, <1>6, <1>10
<1>13. then.victims \cap then.safe = {}
  <2> SUFFICES ASSUME NEW ref \in still, ref \in used PROVE FALSE
    BY <1>6
  <2>1. Loose(ref) /\ DurablyUsed(ref)
    BY <1>4, <1>5 DEF UsedDurable
  <2> QED
    BY <2>1 DEF Loose, DurablyUsed, Mixing!Disposable, Mixing!Durable
<1> QED
  BY <1>6, <1>7, <1>8, <1>9, <1>10, <1>11, <1>12, <1>13, PassReads

LEMMA UnlockingIs ==
    ASSUME NEW then, then = [Mixing!NoPass EXCEPT !.pc = "unlock"]
    PROVE  /\ then \in Mixing!Cleaner /\ then.pc = "unlock" /\ then.found = {} /\ then.protected = {} /\ then.victims = {} /\ then.safe = {}
<1>1. Mixing!NoPass.found = {} /\ Mixing!NoPass.protected = {} /\ Mixing!NoPass.victims = {} /\ Mixing!NoPass.safe = {}
  BY DEF Mixing!NoPass
<1> QED
  BY <1>1, NoPassTyped DEF Mixing!Cleaner

LEMMA KeepsDeleteFails == ASSUME MixBounds, MixInv, NEW c \in Actors, Mixing!DeleteFails(c) PROVE MixInv'
<1>1. PICK then : then = [Mixing!NoPass EXCEPT !.pc = "unlock"]
  OBVIOUS
<1>2. then \in Mixing!Cleaner /\ then.pc = "unlock" /\ then.found = {} /\ then.protected = {} /\ then.victims = {} /\ then.safe = {}
  BY <1>1, UnlockingIs
<1>3. cleaner' = [cleaner EXCEPT ![c] = then]
  BY <1>1 DEF Mixing!DeleteFails
<1>4. UNCHANGED <<personal, mix, stamp, request, generator, lock, used, passes>>
  BY DEF Mixing!cleanerOnly, Mixing!DeleteFails
<1>5. lock' \in Actors \cup {Mixing!NoCleaner} /\ passes' \in 0..MaxPasses /\ mixFaults' \in 0..MaxMixFaults
  BY <1>4, PassBounds DEF Mixing!DeleteFails
<1> QED
  BY <1>2, <1>3, <1>4, <1>5, PassReads

LEMMA KeepsUnlock == ASSUME MixBounds, MixInv, NEW c \in Actors, Mixing!Unlock(c) PROVE MixInv'
<1>1. PICK then : then = Mixing!NoPass
  OBVIOUS
<1>2. then \in Mixing!Cleaner /\ then.pc = "idle" /\ then.found = {} /\ then.protected = {} /\ then.victims = {} /\ then.safe = {}
  BY <1>1, NoPassTyped DEF Mixing!NoPass
<1>3. cleaner' = [cleaner EXCEPT ![c] = then] /\ UNCHANGED <<personal, mix, stamp, request, generator, used, passes>>
  BY <1>1 DEF Mixing!Unlock
<1>4. lock' \in Actors \cup {Mixing!NoCleaner} /\ passes' \in 0..MaxPasses /\ mixFaults' \in 0..MaxMixFaults
  BY <1>3, PassBounds DEF Mixing!Unlock
<1> QED
  BY <1>1, <1>2, <1>3, <1>4, PassReads

LEMMA KeepsLockExpires == ASSUME MixBounds, MixInv, Mixing!LockExpires PROVE MixInv'
<1>1. lock' = Mixing!NoCleaner /\ UNCHANGED <<personal, mix, stamp, request, generator, cleaner, used, passes>> /\ mixFaults' \in 0..MaxMixFaults
  BY PassBounds DEF Mixing!LockExpires
<1>2. Mixing!TypeOK'
  BY <1>1 DEF MixInv, Mixing!TypeOK
<1>3. /\ \A m \in Mixes : Steady(m)
      /\ \A ref \in Mixing!Refs : Past(ref) /\ Mixing!Stamped(ref) => Mixing!Stamped(ref)' \/ Spent(ref)'
      /\ Numbered' /\ UsedDurable'
  BY <1>1, UnchangedSteady
<1> QED
  BY <1>1, <1>2, <1>3, PassesSteady, RequestsSteady DEF MixInv
(* The rows of a deletion are gone when it commits.                           *)
LEMMA KeepsDelete == ASSUME MixBounds, MixInv, NEW c \in Actors, Mixing!Delete(c) PROVE MixInv'
<1>1. /\ PassHolds(c) /\ cleaner[c] \in Mixing!Cleaner /\ cleaner[c].found \subseteq Mixing!Refs /\ Mixing!CAt(c, "delete")
      /\ cleaner[c].protected \subseteq Mixing!Refs
  BY PassNow DEF Mixing!Delete
<1>2. Mixing!TypeOK /\ Numbered /\ UsedDurable
  BY DEF MixInv
<1>3. PICK then : then = [cleaner[c] EXCEPT !.pc = "forget", !.victims = {}, !.safe = {}]
  OBVIOUS
<1>4. /\ then \in Mixing!Cleaner /\ then.pc = "forget" /\ then.found = cleaner[c].found /\ then.blind = cleaner[c].blind
      /\ then.protected = cleaner[c].protected /\ then.victims = {} /\ then.safe = {}
  BY <1>1, <1>3 DEF Mixing!Cleaner
<1>5. /\ cleaner' = [cleaner EXCEPT ![c] = then]
      /\ mix' = [m \in Mixes |-> IF mix[m].live /\ Mixing!Ref(m) \in cleaner[c].victims THEN [Mixing!NoRow EXCEPT !.key = mix[m].key] ELSE mix[m]]
      /\ UNCHANGED <<personal, stamp, request, generator, lock, used, passes, mixFaults>>
  BY <1>2, <1>3 DEF Mixing!Delete, Mixing!TypeOK
<1>6. ASSUME NEW m \in Mixes
      PROVE  /\ mix'[m] \in Mixing!Row /\ mix'[m].key = mix[m].key
             /\ mix'[m] = mix[m] \/ ~mix'[m].live
             /\ Mixing!Ref(m) \in cleaner[c].victims => ~mix'[m].live
  <2>1. mix'[m] = IF mix[m].live /\ Mixing!Ref(m) \in cleaner[c].victims THEN [Mixing!NoRow EXCEPT !.key = mix[m].key] ELSE mix[m]
    BY <1>5
  <2>2. mix[m] \in Mixing!Row /\ mix[m].key \in 0..MaxKeys /\ Mixing!NoRow \in Mixing!Row /\ ~Mixing!NoRow.live
    BY <1>2, RowFields, NoRowTyped DEF Mixing!NoRow
  <2> QED
    BY <2>1, <2>2 DEF Mixing!Row
<1>7. mix' \in [Mixes -> Mixing!Row]
  BY <1>5, <1>6
<1>8. cleaner'[c] = then /\ (\A d \in Actors \ {c} : cleaner'[d] = cleaner[d]) /\ cleaner' \in [Actors -> Mixing!Cleaner]
  BY <1>2, <1>4, <1>5 DEF Mixing!TypeOK
<1>9. Mixing!TypeOK'
  BY <1>2, <1>5, <1>7, <1>8 DEF Mixing!TypeOK
<1>10. ASSUME NEW m \in Mixes PROVE Steady(m)
  BY <1>6 DEF Steady
<1>11. ASSUME NEW ref \in Mixing!Refs, Mixing!Stamped(ref) PROVE Mixing!Stamped(ref)'
  BY <1>5, <1>6, <1>11, RefParts DEF Mixing!Stamped, Mixing!Ref, Mixing!Refs
<1>12. Numbered'
  BY <1>2, <1>5, <1>6 DEF Numbered
<1>13. UsedDurable'
  <2> SUFFICES ASSUME NEW ref \in used' PROVE DurablyUsed(ref)'
    BY DEF UsedDurable
  <2>1. ref[1] \in Mixes /\ DurablyUsed(ref)
    BY <1>2, <1>5, RefParts DEF Mixing!TypeOK, Mixing!Refs, UsedDurable
  <2> QED
    BY <1>6, <2>1 DEF DurablyUsed, Past
<1>14. PassHolds(c)'
  <2>1. \A ref \in Mixing!Refs : (Past(ref) => Past(ref)') /\ (Spent(ref) => Spent(ref)')
    BY <1>2, <1>9, <1>10, SteadyRefs, RefParts DEF Mixing!Refs
  <2>2. ASSUME NEW ref \in then.found PROVE Spent(ref)'
    <3>1. ref \in Mixing!Refs /\ ref[1] \in Mixes
      BY <1>1, <1>4 DEF Mixing!Refs
    <3>2. CASE ref \in cleaner[c].victims
      <4>1. Past(ref)
        <5>1. Spent(ref) \/ Loose(ref)
          BY <1>1, <1>4 DEF PassHolds
        <5> QED
          BY <3>1, <5>1, LooseNotSpent DEF Spent
      <4>2. PICK m \in Mixes, k \in Mixing!Keys : ref = <<m, k>>
        BY <3>1 DEF Mixing!Refs
      <4>3. ref[1] = m /\ ref[2] = k /\ mix'[m].key = mix[m].key
        BY <1>6, <4>2
      <4>4. k = mix[m].key => ~mix'[m].live
        BY <1>6, <3>2, <4>2 DEF Mixing!Ref
      <4> QED
        BY <2>1, <3>1, <4>1, <4>3, <4>4 DEF Spent
    <3>3. CASE ref \notin cleaner[c].victims
      BY <1>1, <1>4, <2>1, <3>1, <3>3 DEF PassHolds, Mixing!CAt
    <3> QED
      BY <3>2, <3>3
  <2>3. \A ref \in then.protected : Past(ref)' /\ (~then.blind => Spent(ref)' \/ Mixing!Stamped(ref)')
    BY <1>1, <1>4, <1>11, <2>1 DEF PassHolds
  <2> QED
    BY <1>4, <1>8, <2>2, <2>3 DEF PassHolds, Mixing!CAt
<1> QED
  BY <1>4, <1>5, <1>8, <1>9, <1>10, <1>11, <1>12, <1>13, <1>14, PassKept

LEMMA KeepsForget == ASSUME MixBounds, MixInv, NEW c \in Actors, Mixing!Forget(c) PROVE MixInv'
<1>1. PassHolds(c) /\ Mixing!CAt(c, "forget")
  BY PassNow DEF Mixing!Forget
<1>2. Mixing!TypeOK /\ Numbered /\ UsedDurable
  BY DEF MixInv
<1>3. PICK then : then = [Mixing!NoPass EXCEPT !.pc = "unlock"]
  OBVIOUS
<1>4. then \in Mixing!Cleaner /\ then.pc = "unlock" /\ then.found = {} /\ then.protected = {} /\ then.victims = {} /\ then.safe = {}
  BY <1>3, UnlockingIs
<1>5. /\ cleaner' = [cleaner EXCEPT ![c] = then]
      /\ stamp' = [m \in Mixes |-> IF Mixing!Ref(m) \in cleaner[c].found THEN "none" ELSE stamp[m]]
      /\ UNCHANGED <<personal, mix, request, generator, lock, used, passes, mixFaults>>
  BY <1>3 DEF Mixing!Forget
<1>6. cleaner'[c] = then /\ (\A d \in Actors \ {c} : cleaner'[d] = cleaner[d]) /\ cleaner' \in [Actors -> Mixing!Cleaner]
  BY <1>2, <1>4, <1>5 DEF Mixing!TypeOK
<1>7. stamp' \in [Mixes -> {"none", "recent"}] /\ \A m \in Mixes : stamp'[m] = "recent" => stamp[m] = "recent"
  BY <1>2, <1>5 DEF Mixing!TypeOK
<1>8. Mixing!TypeOK'
  BY <1>2, <1>5, <1>6, <1>7 DEF Mixing!TypeOK
<1>9. \A m \in Mixes : Steady(m)
  BY <1>5 DEF Steady
<1>10. ASSUME NEW ref \in Mixing!Refs, Mixing!Stamped(ref) PROVE Mixing!Stamped(ref)' \/ Spent(ref)'
  <2>1. ref[1] \in Mixes /\ Mixing!Ref(ref[1]) = ref
    BY <1>10 DEF Mixing!Stamped, Mixing!Refs
  <2>2. CASE ref \in cleaner[c].found
    BY <1>1, <1>5, <2>2 DEF PassHolds, Spent, Past, Mixing!CAt
  <2>3. CASE ref \notin cleaner[c].found
    BY <1>5, <1>10, <2>1, <2>3 DEF Mixing!Stamped, Mixing!Ref
  <2> QED
    BY <2>2, <2>3
<1>11. Numbered' /\ UsedDurable'
  BY <1>2, <1>5, <1>7 DEF Numbered, UsedDurable, DurablyUsed, Past
<1>12. PassHolds(c)'
  BY <1>4, <1>6 DEF PassHolds, Mixing!CAt
<1> QED
  BY <1>4, <1>5, <1>6, <1>8, <1>9, <1>10, <1>11, <1>12, PassKept

(* The invariant of the rows, the requests and the passes is kept.            *)
LEMMA MixesStep ==
    ASSUME MixBounds, MixInv, Mixing!Next \/ UNCHANGED Mixing!vars
    PROVE  MixInv'
<1>1. CASE UNCHANGED Mixing!vars
  <2>1. UNCHANGED <<personal, mix, stamp, request, generator, lock, cleaner, used, passes, mixFaults>>
    BY <1>1 DEF Mixing!vars
  <2>2. Mixing!TypeOK'
    BY <2>1 DEF MixInv, Mixing!TypeOK
  <2>3. /\ \A m \in Mixes : Steady(m)
        /\ \A ref \in Mixing!Refs : Past(ref) /\ Mixing!Stamped(ref) => Mixing!Stamped(ref)' \/ Spent(ref)'
        /\ Numbered' /\ UsedDurable'
    BY <2>1, UnchangedSteady
  <2> QED
    BY <2>1, <2>2, <2>3, PassesSteady, RequestsSteady DEF MixInv
<1>2. ASSUME NEW c \in Actors, Mixing!CleanerNext(c) PROVE MixInv'
  BY <1>2, KeepsBegin, KeepsScan, KeepsScore, KeepsScoreLost, KeepsLook, KeepsDelete, KeepsDeleteFails,
     KeepsForget, KeepsUnlock
     DEF Mixing!CleanerNext
<1> QED
  BY <1>1, <1>2, RequestMixKept, KeepsGenerateRead, KeepsGenerateWrite, KeepsExpire, KeepsAgeStamp,
     KeepsLockExpires DEF Mixing!Next

LEMMA MixInvKept == MixInv => Mixing!TypeOK /\ Mixing!StampedKept /\ Mixing!UsedKept
BY DEF MixInv

-----------------------------------------------------------------------------
(* Lists kept under the version of the catalogue.                            *)

LEMMA RankingsStart == ASSUME RankBounds, Rankings!Init PROVE RankInv
<1>1. view \in Rankings!View
  BY DEF Rankings!Init, Rankings!Views, Rankings!View, Rankings!GuestHome, Rankings!GuestTrending,
     Rankings!SedaBoxPreview,
     Rankings!RecentPlays, Rankings!Recipes, Rankings!CandidatePool, Rankings!RankedIds, Rankings!SimilarSongs,
     Rankings!SimilarArtists, Rankings!Chart, Rankings!Search, Rankings!Discoveries, Rankings!Trending
<1>2. Rankings!Idle \in Rankings!Reader
  BY DEF Rankings!Idle, Rankings!Reader, Rankings!Levels
<1>3. 0 \in Rankings!Versions /\ NoVersion \notin Rankings!Versions
  BY DEF Rankings!Versions, RankBounds
<1>4. Rankings!TypeOK
  <2>1. /\ writer \in Rankings!Writer /\ version \in Rankings!Versions /\ reader \in [Actors -> Rankings!Reader]
        /\ published \subseteq CachedSongs /\ raised \subseteq CachedSongs
    <3>1. reader \in [Actors -> Rankings!Reader]
      BY <1>2 DEF Rankings!Init
    <3>2. writer \in Rankings!Writer
      BY DEF Rankings!Init, Rankings!Writer
    <3> QED
      BY <1>3, <3>1, <3>2 DEF Rankings!Init
  <2>2. cache \in [Rankings!Levels -> [Rankings!Versions -> SUBSET SUBSET CachedSongs]]
    BY DEF Rankings!Init
  <2>3. begun \in 0..MaxBegun /\ catalogueChanges \in 0..MaxRaises /\ cacheFaults \in 0..MaxCacheFaults
          /\ slow \in BOOLEAN
    <3>1. {MaxBegun, MaxRaises, MaxCacheFaults} \subseteq Nat /\ begun = 0 /\ catalogueChanges = 0
            /\ cacheFaults = 0
      BY DEF Rankings!Init, RankBounds
    <3>2. slow \in BOOLEAN
      BY Zenon DEF Rankings!Init
    <3> QED
      BY <3>1, <3>2
  <2>4. building \subseteq Rankings!Levels \X Rankings!Versions
    BY DEF Rankings!Init
  <2> QED
    BY <1>1, <2>1, <2>2, <2>3, <2>4 DEF Rankings!TypeOK
<1>5. \A q \in Actors : reader[q] = Rankings!Idle
  BY DEF Rankings!Init
<1>6. /\ Rankings!Idle.pc = "idle" /\ Rankings!Idle.level = "answer" /\ Rankings!Idle.mine = {}
           /\ Rankings!Idle.steady = {}
      /\ Rankings!Idle.forced = FALSE /\ \A l \in Rankings!Levels : Rankings!Idle.key[l] = NoVersion
  BY DEF Rankings!Idle
<1>7. \A q \in Actors : Keyed(view, reader[q]) /\ Owns(view, slow, building, reader[q])
           /\ reader[q].steady \subseteq raised
  BY <1>5, <1>6 DEF Keyed, Owns, Rankings!Levels
<1>8. \A s \in raised : Current(cache, reader, published, version, s)
  BY <1>3, <1>5, <1>6 DEF Current, Ranked, Rankings!Init, Rankings!Levels
<1>9. \A q \in Actors : \A s \in reader[q].steady : Settled(cache, reader, published, reader[q], s)
  BY <1>5, <1>6
<1>10. Rankings!OneBuilds
  BY <1>5, <1>6 DEF Rankings!OneBuilds
<1>11. version + (IF writer.pc = "saved" THEN 1 ELSE 0) <= catalogueChanges
  BY DEF Rankings!Init
<1> QED
  BY <1>4, <1>7, <1>8, <1>9, <1>10, <1>11 DEF RankInv

(* A request takes a step: what is kept and asked for shows the songs that it  *)
(* showed, and the rest is kept.                                              *)
LEMMA RequestSteps ==
    ASSUME RankBounds, RankInv, NEW q \in Actors, NEW n \in Rankings!Reader,
           reader' = [reader EXCEPT ![q] = n],
           UNCHANGED <<view, published, writer, version, raised, catalogueChanges>>,
           cache' \in [Rankings!Levels -> [Rankings!Versions -> SUBSET SUBSET CachedSongs]],
           building' \subseteq Rankings!Levels \X Rankings!Versions,
           begun' \in 0..MaxBegun, cacheFaults' \in 0..MaxCacheFaults, slow' \in BOOLEAN, slow => slow',
           Keyed(view, n), Owns(view, slow', building', n), n.steady \subseteq raised,
           \A p \in Actors \ {q} : Owns(view, slow', building', reader[p]),
           \A p \in Actors \ {q} : \A l \in n.mine \cap reader[p].mine : slow' \/ n.key[l] # reader[p].key[l],
           \A s \in raised, k \in Rankings!Versions :
               Current(cache, reader, published, k, s) => Current(cache', reader', published, k, s),
           \A s \in n.steady : Settled(cache, reader, published, n, s)
    PROVE  RankInv'
<1>1. reader'[q] = n /\ \A p \in Actors \ {q} : reader'[p] = reader[p]
  BY DEF RankInv, Rankings!TypeOK
<1>2. reader' \in [Actors -> Rankings!Reader]
  BY DEF RankInv, Rankings!TypeOK
<1>3. Rankings!TypeOK'
  BY <1>2 DEF RankInv, Rankings!TypeOK
<1>4. Rankings!OneBuilds'
  BY <1>1 DEF RankInv, Rankings!OneBuilds
<1>5. \A p \in Actors : Keyed(view', reader'[p]) /\ Owns(view', slow', building', reader'[p])
           /\ reader'[p].steady \subseteq raised'
  BY <1>1 DEF RankInv
<1>6. version \in Rankings!Versions
  BY DEF RankInv, Rankings!TypeOK
<1>7. \A s \in raised' : Current(cache', reader', published', version', s)
  BY <1>6 DEF RankInv
<1>8. ASSUME NEW p \in Actors, NEW s \in reader'[p].steady PROVE Settled(cache', reader', published',
               reader'[p], s)
  <2>1. s \in raised /\ Settled(cache, reader, published, reader'[p], s)
    BY <1>1 DEF RankInv
  <2>2. \A l \in Rankings!Levels : reader'[p].key[l] # NoVersion => reader'[p].key[l] \in Rankings!Versions
    BY <1>2 DEF Rankings!Reader
  <2> QED
    BY <2>1, <2>2 DEF Settled
<1>9. \A p \in Actors : \A s \in reader'[p].steady : Settled(cache', reader', published', reader'[p], s)
  BY <1>8
<1>10. (version + (IF writer.pc = "saved" THEN 1 ELSE 0) <= catalogueChanges)'
  BY DEF RankInv
<1> QED
  BY <1>3, <1>4, <1>5, <1>7, <1>9, <1>10 DEF RankInv

(* What must be shown for the lists under every version to stay current.      *)
LEMMA ListsStay ==
    ASSUME RankBounds, RankInv, NEW q \in Actors, NEW n \in Rankings!Reader,
           reader' = [reader EXCEPT ![q] = n], NEW s \in raised,
           \A k \in Rankings!Versions : Ranked(cache, reader, published, k, s) =>
               /\ \A songs \in cache'["ranking"][k] \ cache["ranking"][k] :
                       Shows("ranking", songs, s, published)
               /\ n.pc = "store" /\ n.level = "ranking"
                    /\ n.key["ranking"] = k => Shows("ranking", n.got, s, published),
           \A k \in Rankings!Versions : Current(cache, reader, published, k, s) =>
               /\ \A songs \in cache'["answer"][k] \ cache["answer"][k] : Shows("answer", songs, s, published)
               /\ n.key["answer"] = k => Answering(cache, reader, published, n, s)
    PROVE  \A k \in Rankings!Versions :
               Current(cache, reader, published, k, s) => Current(cache', reader', published, k, s)
<1>1. reader'[q] = n /\ \A p \in Actors \ {q} : reader'[p] = reader[p]
  BY DEF RankInv, Rankings!TypeOK
<1>2. \A k \in Rankings!Versions : Ranked(cache, reader, published, k, s) =>
           Ranked(cache', reader', published, k, s)
  BY <1>1 DEF Ranked
<1>3. \A r \in Rankings!Reader : Answering(cache, reader, published, r, s) =>
           Answering(cache', reader', published, r, s)
  <2> SUFFICES ASSUME NEW r \in Rankings!Reader, Answering(cache, reader, published, r, s)
               PROVE  Answering(cache', reader', published, r, s)
    OBVIOUS
  <2>1. r.key["ranking"] # NoVersion => r.key["ranking"] \in Rankings!Versions
    BY DEF Rankings!Reader, Rankings!Levels
  <2> QED
    BY <1>2, <2>1 DEF Answering
<1>4. \A p \in Actors : reader[p] \in Rankings!Reader
  BY DEF RankInv, Rankings!TypeOK
<1> SUFFICES ASSUME NEW k \in Rankings!Versions, Current(cache, reader, published, k, s)
             PROVE  Current(cache', reader', published, k, s)
  OBVIOUS
<1>5. Ranked(cache', reader', published, k, s)
  BY <1>2 DEF Current
<1>6. \A songs \in cache'["answer"][k] : Shows("answer", songs, s, published)
  BY DEF Current
<1>7. \A p \in Actors : reader'[p].key["answer"] = k => Answering(cache', reader', published, reader'[p], s)
  BY <1>1, <1>3, <1>4 DEF Current
<1> QED
  BY <1>5, <1>6, <1>7 DEF Current
(* A request that finds less and claims nothing new.                          *)
LEMMA RequestMoves ==
    ASSUME RankBounds, RankInv, NEW q \in Actors, NEW n \in Rankings!Reader,
           reader' = [reader EXCEPT ![q] = n], Rankings!SameCatalogue,
           UNCHANGED <<building, slow>>, begun' \in 0..MaxBegun, cacheFaults' \in 0..MaxCacheFaults,
           cache' \in [Rankings!Levels -> [Rankings!Versions -> SUBSET SUBSET CachedSongs]],
           \A l \in Rankings!Levels, k \in Rankings!Versions : cache'[l][k] \subseteq cache[l][k],
           Keyed(view, n), Owns(view, slow, building, n), n.steady \subseteq raised,
           n.mine \subseteq reader[q].mine, \A l \in n.mine : n.key[l] = reader[q].key[l],
           n.pc = "store" /\ n.level = "ranking" =>
               \A s \in raised : Ranked(cache, reader, published, n.key["ranking"], s) =>
                    Shows("ranking", n.got, s, published),
           n.key["answer"] # NoVersion =>
               \A s \in raised : Current(cache, reader, published, n.key["answer"], s) =>
                    Answering(cache, reader, published, n, s),
           \A s \in n.steady : Settled(cache, reader, published, n, s)
    PROVE  RankInv'
<1>1. NoVersion \notin Rankings!Versions /\ "answer" \in Rankings!Levels /\ "ranking" \in Rankings!Levels
  BY DEF RankBounds, Rankings!Versions, Rankings!Levels
<1>2. \A s \in raised : \A k \in Rankings!Versions :
          Current(cache, reader, published, k, s) => Current(cache', reader', published, k, s)
  BY <1>1, ListsStay
<1>3. building' \subseteq Rankings!Levels \X Rankings!Versions
  BY DEF RankInv, Rankings!TypeOK
<1>4. slow' \in BOOLEAN /\ (slow => slow')
  BY Zenon DEF RankInv, Rankings!TypeOK
<1>5. UNCHANGED <<view, published, writer, version, raised, catalogueChanges>>
  BY DEF Rankings!SameCatalogue
<1>6. \A p \in Actors : Owns(view, slow', building', reader[p])
  BY DEF RankInv
<1>7. \A p \in Actors \ {q} : \A l \in n.mine \cap reader[p].mine : slow' \/ n.key[l] # reader[p].key[l]
  <2> SUFFICES ASSUME NEW p \in Actors \ {q}, NEW l \in n.mine \cap reader[p].mine, ~slow
               PROVE  n.key[l] # reader[p].key[l]
    OBVIOUS
  <2>1. n \in Rankings!Reader /\ l \in Rankings!Levels /\ Rankings!OneBuilds
    BY DEF RankInv, Rankings!Reader
  <2> QED
    BY <2>1 DEF Rankings!OneBuilds
<1> QED
  BY <1>2, <1>3, <1>4, <1>5, <1>6, <1>7, RequestSteps

LEMMA RequestNow ==
    ASSUME RankInv, NEW q \in Actors
    PROVE  /\ reader[q] \in Rankings!Reader /\ Keyed(view, reader[q]) /\ Owns(view, slow, building, reader[q])
           /\ reader[q].steady \subseteq raised
           /\ \A s \in reader[q].steady : Settled(cache, reader, published, reader[q], s)
           /\ reader[q].key["answer"] # NoVersion =>
                  \A s : Current(cache, reader, published, reader[q].key["answer"], s) =>
                      Answering(cache, reader, published, reader[q], s)
           /\ reader[q].pc \in {"idle", "get", "claim", "wait", "build", "store", "hydrate", "answer"}
           /\ reader[q].level \in {"answer", "ranking"}
           /\ reader[q].key \in [Rankings!Levels -> Rankings!Versions \cup {NoVersion}]
           /\ reader[q].forced \in BOOLEAN
           /\ reader[q].got \subseteq CachedSongs
           /\ "answer" \in Rankings!Levels /\ "ranking" \in Rankings!Levels
           /\ version \in Rankings!Versions
           /\ cache \in [Rankings!Levels -> [Rankings!Versions -> SUBSET SUBSET CachedSongs]]
           /\ begun \in 0..MaxBegun /\ cacheFaults \in 0..MaxCacheFaults
           /\ view.answer \in {"none", "kept", "claimed"} /\ view.ranking \in {"kept", "claimed"}
           /\ view["answer"] = view.answer /\ view["ranking"] = view.ranking
           /\ published \subseteq CachedSongs
<1>1. reader[q] \in Rankings!Reader
  BY DEF RankInv, Rankings!TypeOK
<1>2. /\ reader[q].pc \in {"idle", "get", "claim", "wait", "build", "store", "hydrate", "answer"}
      /\ reader[q].level \in {"answer", "ranking"}
      /\ reader[q].key \in [Rankings!Levels -> Rankings!Versions \cup {NoVersion}]
      /\ reader[q].got \subseteq CachedSongs
  BY <1>1 DEF Rankings!Reader, Rankings!Levels
<1>3. reader[q].forced \in BOOLEAN
  BY <1>1, Zenon DEF Rankings!Reader
<1>4. /\ Keyed(view, reader[q]) /\ Owns(view, slow, building, reader[q])
      /\ reader[q].steady \subseteq raised
      /\ \A s \in reader[q].steady : Settled(cache, reader, published, reader[q], s)
  BY DEF RankInv
<1>5. \A s : Current(cache, reader, published, reader[q].key["answer"], s) =>
           Answering(cache, reader, published, reader[q], s)
  BY DEF Current
<1>6. "answer" \in Rankings!Levels /\ "ranking" \in Rankings!Levels
  BY DEF Rankings!Levels
<1>7. /\ version \in Rankings!Versions
      /\ cache \in [Rankings!Levels -> [Rankings!Versions -> SUBSET SUBSET CachedSongs]]
      /\ begun \in 0..MaxBegun /\ cacheFaults \in 0..MaxCacheFaults
      /\ published \subseteq CachedSongs
  BY DEF RankInv, Rankings!TypeOK
<1>8. view.answer \in {"none", "kept", "claimed"} /\ view.ranking \in {"kept", "claimed"}
  BY DEF RankInv, Rankings!TypeOK, Rankings!View
<1> QED
  BY <1>1, <1>2, <1>3, <1>4, <1>5, <1>6, <1>7, <1>8

LEMMA IdleIs ==
    /\ Rankings!Idle \in Rankings!Reader
    /\ Rankings!Idle.pc = "idle" /\ Rankings!Idle.level = "answer" /\ Rankings!Idle.mine = {}
         /\ Rankings!Idle.steady = {}
    /\ Rankings!Idle.forced = FALSE /\ Rankings!Idle.got = {}
    /\ Rankings!Idle.key \in [Rankings!Levels -> {NoVersion}]
    /\ Rankings!Idle.key["answer"] = NoVersion /\ Rankings!Idle.key["ranking"] = NoVersion
BY DEF Rankings!Idle, Rankings!Reader, Rankings!Levels

LEMMA KeepsBeginRequest == ASSUME RankBounds, RankInv, NEW q \in Actors, Rankings!Begin(q) PROVE RankInv'
<1>1. PICK level \in Rankings!Levels : level = IF view.answer # "none" THEN "answer" ELSE "ranking"
  BY RequestNow
<1>2. PICK n : n = [Rankings!Idle EXCEPT !.pc = "get", !.level = level, !.key[level] = version, !.steady = raised]
  OBVIOUS
<1>3. /\ n.pc = "get" /\ n.level = level /\ n.mine = {} /\ n.steady = raised /\ n.forced = FALSE
      /\ n.key = [Rankings!Idle.key EXCEPT ![level] = version]
  BY <1>2 DEF Rankings!Idle
<1>4. version \in Rankings!Versions /\ version # NoVersion
  BY RequestNow DEF RankBounds, Rankings!Versions
<1>5. n.key[level] = version /\ \A l \in Rankings!Levels \ {level} : n.key[l] = NoVersion
  BY <1>3, IdleIs
<1>6. n \in Rankings!Reader
  <2>1. raised \subseteq CachedSongs
    BY DEF RankInv, Rankings!TypeOK
  <2> QED
    BY <1>2, <1>4, <2>1 DEF Rankings!Idle, Rankings!Reader, Rankings!Levels
<1>7. reader' = [reader EXCEPT ![q] = n] /\ Rankings!SameCatalogue /\ UNCHANGED <<cache, building, slow,
        cacheFaults>> /\ begun' = begun + 1 /\ begun < MaxBegun
  BY <1>1, <1>2 DEF Rankings!Begin, Rankings!Go
<1>8. begun' \in 0..MaxBegun /\ cacheFaults' \in 0..MaxCacheFaults
  BY <1>7, RequestNow DEF RankBounds
<1>9. Keyed(view, n) /\ Owns(view, slow, building, n)
  BY <1>1, <1>3, <1>4, <1>5, RequestNow DEF Keyed, Owns, Rankings!Levels
<1>10. \A s \in raised : Current(cache, reader, published, version, s)
  BY DEF RankInv
<1>11. \A s \in n.steady : Settled(cache, reader, published, n, s)
  BY <1>3, <1>5, <1>10 DEF Settled
<1>12. n.key["answer"] # NoVersion => n.key["ranking"] = NoVersion
  BY <1>5 DEF Rankings!Levels
<1> QED
  BY <1>3, <1>6, <1>7, <1>8, <1>9, <1>11, <1>12, RequestNow, RequestMoves DEF Answering
LEMMA KeepsRefresh == ASSUME RankBounds, RankInv, NEW q \in Actors, Rankings!Refresh(q) PROVE RankInv'
<1>1. PICK n : n = [Rankings!Idle EXCEPT !.pc = "build", !.level = "ranking", !.key.ranking = version, !.forced = TRUE]
  OBVIOUS
<1>2. /\ n.pc = "build" /\ n.level = "ranking" /\ n.mine = {} /\ n.steady = {} /\ n.forced = TRUE
      /\ n.key["answer"] = NoVersion /\ n.key["ranking"] = version
  BY <1>1 DEF Rankings!Idle, Rankings!Levels
<1>3. version \in Rankings!Versions /\ version # NoVersion
  BY RequestNow DEF RankBounds, Rankings!Versions
<1>4. n \in Rankings!Reader
  BY <1>1, <1>3 DEF Rankings!Idle, Rankings!Reader, Rankings!Levels
<1>5. reader' = [reader EXCEPT ![q] = n] /\ Rankings!SameCatalogue /\ UNCHANGED <<cache, building, slow,
        cacheFaults>> /\ begun' = begun + 1 /\ begun < MaxBegun
  BY <1>1 DEF Rankings!Refresh, Rankings!Go
<1>6. begun' \in 0..MaxBegun /\ cacheFaults' \in 0..MaxCacheFaults
  BY <1>5, RequestNow DEF RankBounds
<1>7. Keyed(view, n) /\ Owns(view, slow, building, n)
  BY <1>2, <1>3, RequestNow DEF Keyed, Owns, Rankings!Refresh
<1> QED
  BY <1>2, <1>4, <1>5, <1>6, <1>7, RequestNow, RequestMoves

LEMMA FoundIs ==
    ASSUME RankBounds, RankInv, NEW q \in Actors, NEW songs \in SUBSET CachedSongs
    PROVE  /\ Rankings!Found(q, songs) \in Rankings!Reader
           /\ Rankings!Found(q, songs).pc = (IF reader[q].level = "answer" THEN "answer" ELSE "hydrate")
           /\ Rankings!Found(q, songs).got = songs
           /\ Rankings!Found(q, songs).level = reader[q].level
                /\ Rankings!Found(q, songs).forced = reader[q].forced
           /\ Rankings!Found(q, songs).mine = reader[q].mine
                /\ Rankings!Found(q, songs).steady = reader[q].steady
           /\ Rankings!Found(q, songs).key[reader[q].level] = NoVersion
           /\ \A l \in Rankings!Levels \ {reader[q].level} : Rankings!Found(q, songs).key[l] = reader[q].key[l]
<1>1. reader[q] \in Rankings!Reader
  BY RequestNow
<1>2. PICK r : r = reader[q]
  OBVIOUS
<1>3. PICK pc \in {"answer", "hydrate"} : pc = IF r.level = "answer" THEN "answer" ELSE "hydrate"
  OBVIOUS
<1>4. PICK key : key = [r.key EXCEPT ![r.level] = NoVersion]
  OBVIOUS
<1>5. PICK n : n = [r EXCEPT !.pc = pc, !.got = songs, !.key = key]
  OBVIOUS
<1>6. Rankings!Found(q, songs) = n
  BY <1>2, <1>3, <1>4, <1>5 DEF Rankings!Found, Rankings!Level
<1>7. r.level \in Rankings!Levels /\ r.key \in [Rankings!Levels -> Rankings!Versions \cup {NoVersion}]
  BY <1>1, <1>2 DEF Rankings!Reader
<1>8. /\ key \in [Rankings!Levels -> Rankings!Versions \cup {NoVersion}] /\ key[r.level] = NoVersion
      /\ \A l \in Rankings!Levels \ {r.level} : key[l] = r.key[l]
  BY <1>4, <1>7
<1>9. /\ n \in Rankings!Reader /\ n.pc = pc /\ n.got = songs /\ n.key = key /\ n.level = r.level
      /\ n.forced = r.forced /\ n.mine = r.mine /\ n.steady = r.steady
  BY <1>1, <1>2, <1>3, <1>5, <1>8 DEF Rankings!Reader
<1> QED
  BY <1>2, <1>3, <1>6, <1>8, <1>9

LEMMA KeepsHit == ASSUME RankBounds, RankInv, NEW q \in Actors, Rankings!Hit(q) PROVE RankInv'
<1>1. reader[q].pc \in {"get", "wait"}
  BY DEF Rankings!Hit, Rankings!At
<1>2. PICK songs \in cache[reader[q].level][reader[q].key[reader[q].level]] :
        reader' = [reader EXCEPT ![q] = Rankings!Found(q, songs)]
  BY DEF Rankings!Hit, Rankings!Go, Rankings!Level, Rankings!Key
<1>3. reader[q].key[reader[q].level] \in Rankings!Versions /\ reader[q].key[reader[q].level] # NoVersion
        /\ reader[q].level \notin reader[q].mine
  BY <1>1, RequestNow DEF Keyed, Owns
<1>4. songs \in SUBSET CachedSongs
  BY <1>2, <1>3, RequestNow
<1>5. PICK n : n = Rankings!Found(q, songs)
  OBVIOUS
<1>6. /\ n \in Rankings!Reader /\ n.pc = (IF reader[q].level = "answer" THEN "answer" ELSE "hydrate")
           /\ n.got = songs
      /\ n.level = reader[q].level /\ n.forced = reader[q].forced /\ n.mine = reader[q].mine
           /\ n.steady = reader[q].steady
      /\ n.key[reader[q].level] = NoVersion
           /\ \A l \in Rankings!Levels \ {reader[q].level} : n.key[l] = reader[q].key[l]
  BY <1>4, <1>5, FoundIs
<1>7. Rankings!SameCatalogue /\ UNCHANGED <<begun, cache, building, slow, cacheFaults>>
  BY DEF Rankings!Hit
<1>8. ~reader[q].forced
  BY <1>1, RequestNow DEF Keyed
<1>9. Keyed(view, n)
  BY <1>1, <1>3, <1>6, <1>8, RequestNow DEF Keyed, Rankings!Levels
<1>10. \A l \in n.mine : n.key[l] = reader[q].key[l]
  BY <1>3, <1>6, RequestNow DEF Rankings!Reader
<1>11. Owns(view, slow, building, n)
  BY <1>1, <1>3, <1>6, <1>8, <1>10, RequestNow DEF Owns
<1>12. ASSUME n.key["answer"] # NoVersion, NEW s \in raised, Current(cache, reader, published,
                n.key["answer"], s)
       PROVE  Answering(cache, reader, published, n, s)
  <2>1. n.level = "ranking" /\ n.key["answer"] = reader[q].key["answer"] /\ n.key["ranking"] = NoVersion
    BY <1>6, <1>12, RequestNow DEF Rankings!Levels
  <2>2. Ranked(cache, reader, published, reader[q].key["ranking"], s)
    BY <1>3, <1>6, <1>12, <2>1, RequestNow DEF Answering
  <2>3. Shows("ranking", songs, s, published)
    BY <1>2, <1>6, <2>1, <2>2 DEF Ranked
  <2> QED
    BY <1>6, <2>1, <2>3 DEF Answering
<1>13. ASSUME NEW s \in n.steady PROVE Settled(cache, reader, published, n, s)
  <2>1. Settled(cache, reader, published, reader[q], s)
    BY <1>6, RequestNow
  <2>2. Current(cache, reader, published, reader[q].key[reader[q].level], s)
    BY <1>3, <2>1, RequestNow DEF Settled
  <2>3. Shows(reader[q].level, songs, s, published)
    BY <1>2, <2>2, RequestNow DEF Current, Ranked
  <2> QED
    BY <1>6, <2>1, <2>3, RequestNow DEF Settled
<1>14. n.pc # "store"
  BY <1>6
<1> QED
  BY <1>2, <1>5, <1>6, <1>7, <1>9, <1>10, <1>11, <1>12, <1>13, <1>14, RequestNow, RequestMoves

(* A step that changes neither keys nor what was got, and stores nothing.      *)
LEMMA ReadsOn ==
    ASSUME RankBounds, RankInv, NEW q \in Actors, NEW n \in Rankings!Reader, n.key = reader[q].key,
             n.steady = reader[q].steady,
           n.pc \notin {"store", "hydrate", "answer"}
    PROVE  /\ n.key["answer"] # NoVersion =>
               \A s \in raised : Current(cache, reader, published, n.key["answer"], s) =>
                    Answering(cache, reader, published, n, s)
           /\ \A s \in n.steady : Settled(cache, reader, published, n, s)
<1>1. ASSUME n.key["answer"] # NoVersion, NEW s \in raised, Current(cache, reader, published,
               n.key["answer"], s)
      PROVE  Answering(cache, reader, published, n, s)
  BY <1>1, RequestNow DEF Answering
<1>2. ASSUME NEW s \in n.steady PROVE Settled(cache, reader, published, n, s)
  BY <1>2, RequestNow DEF Settled
<1> QED
  BY <1>1, <1>2

LEMMA ListsSame ==
    ASSUME RankBounds, RankInv, NEW q \in Actors, NEW n \in Rankings!Reader, n.key = reader[q].key,
             n.steady = reader[q].steady,
           n.pc \notin {"store", "hydrate", "answer"}, reader' = [reader EXCEPT ![q] = n], cache' = cache
    PROVE  \A s \in raised : \A k \in Rankings!Versions :
               Current(cache, reader, published, k, s) => Current(cache', reader', published, k, s)
<1> SUFFICES ASSUME NEW s \in raised
             PROVE  \A k \in Rankings!Versions :
                        Current(cache, reader, published, k, s) => Current(cache', reader', published, k, s)
  OBVIOUS
<1>1. NoVersion \notin Rankings!Versions
  BY DEF RankBounds, Rankings!Versions
<1>2. \A k \in Rankings!Versions :
          Current(cache, reader, published, k, s)
            /\ n.key["answer"] = k => Answering(cache, reader, published, n, s)
  BY <1>1, ReadsOn
<1> QED
  BY <1>2, ListsStay

LEMMA KeepsMiss == ASSUME RankBounds, RankInv, NEW q \in Actors, Rankings!Miss(q) PROVE RankInv'
<1>1. PICK n : n = [reader[q] EXCEPT !.pc = IF view[reader[q].level] = "claimed" THEN "claim" ELSE "build"]
  OBVIOUS
<1>2. PICK level, k : level = reader[q].level /\ k = reader[q].key[level]
  OBVIOUS
<1>3. /\ reader[q].pc = "get" /\ reader' = [reader EXCEPT ![q] = n] /\ cache' = [cache EXCEPT ![level][k] = {}]
      /\ Rankings!SameCatalogue /\ UNCHANGED <<begun, building, slow, cacheFaults>>
  BY <1>1, <1>2 DEF Rankings!Miss, Rankings!At, Rankings!Go, Rankings!Level, Rankings!Key
<1>4. /\ n \in Rankings!Reader
           /\ n.pc = (IF view[reader[q].level] = "claimed" THEN "claim" ELSE "build") /\ n.got = reader[q].got
      /\ n.level = level /\ n.forced = reader[q].forced /\ n.mine = reader[q].mine
           /\ n.steady = reader[q].steady
      /\ n.key = reader[q].key
  BY <1>1, <1>2, RequestNow DEF Rankings!Reader
<1>5. k \in Rankings!Versions /\ k # NoVersion /\ level \in Rankings!Levels /\ ~reader[q].forced
        /\ level \notin reader[q].mine
  BY <1>2, <1>3, RequestNow DEF Keyed, Owns
<1>6. /\ cache' \in [Rankings!Levels -> [Rankings!Versions -> SUBSET SUBSET CachedSongs]]
      /\ \A l \in Rankings!Levels, v \in Rankings!Versions : cache'[l][v] \subseteq cache[l][v]
  BY <1>3, <1>5, RequestNow
<1>7. Keyed(view, n)
  BY <1>2, <1>3, <1>4, <1>5, RequestNow DEF Keyed
<1>8. Owns(view, slow, building, n)
  BY <1>2, <1>3, <1>4, <1>5, RequestNow DEF Owns
<1>9. n.pc \notin {"store", "hydrate", "answer"}
  BY <1>4
<1>10. n.mine \subseteq reader[q].mine /\ \A l \in n.mine : n.key[l] = reader[q].key[l]
  BY <1>4
<1>11. begun' \in 0..MaxBegun /\ cacheFaults' \in 0..MaxCacheFaults
  BY <1>3, RequestNow
<1>12. n.steady \subseteq raised
  BY <1>4, RequestNow
<1> QED
  BY <1>3, <1>4, <1>6, <1>7, <1>8, <1>9, <1>10, <1>11, <1>12, ReadsOn, RequestMoves
LEMMA KeepsClaimWait == ASSUME RankBounds, RankInv, NEW q \in Actors, Rankings!Claim(q),
  ~Rankings!Free(q) PROVE RankInv'
<1>1. PICK n : n = [reader[q] EXCEPT !.pc = "wait"]
  OBVIOUS
<1>2. /\ reader[q].pc = "claim" /\ reader' = [reader EXCEPT ![q] = n]
      /\ Rankings!SameCatalogue /\ UNCHANGED <<begun, cache, building, slow, cacheFaults>>
  BY <1>1 DEF Rankings!Claim, Rankings!At, Rankings!Go
<1>3. /\ n \in Rankings!Reader /\ n.pc = "wait" /\ n.level = reader[q].level /\ n.forced = reader[q].forced
      /\ n.mine = reader[q].mine /\ n.steady = reader[q].steady /\ n.key = reader[q].key
  BY <1>1, RequestNow DEF Rankings!Reader
<1>4. Keyed(view, n) /\ Owns(view, slow, building, n)
  BY <1>2, <1>3, RequestNow DEF Keyed, Owns
<1> QED
  BY <1>2, <1>3, <1>4, RequestNow, ReadsOn, RequestMoves

LEMMA KeepsClaimLock == ASSUME RankBounds, RankInv, NEW q \in Actors, Rankings!Claim(q),
  Rankings!Free(q) PROVE RankInv'
<1>1. PICK level, k : level = reader[q].level /\ k = reader[q].key[level]
  OBVIOUS
<1>2. PICK n : n = [reader[q] EXCEPT !.pc = "build", !.mine = @ \cup {level}]
  OBVIOUS
<1>3. /\ reader[q].pc = "claim" /\ reader' = [reader EXCEPT ![q] = n]
           /\ building' = building \cup {<<level, k>>}
      /\ Rankings!SameCatalogue /\ UNCHANGED <<begun, cache, slow, cacheFaults>> /\ <<level, k>> \notin building
  BY <1>1, <1>2 DEF Rankings!Claim, Rankings!At, Rankings!Go, Rankings!Free, Rankings!Level, Rankings!Key
<1>4. k \in Rankings!Versions /\ k # NoVersion /\ level \in Rankings!Levels /\ ~reader[q].forced
        /\ view[level] = "claimed"
  BY <1>1, <1>3, RequestNow DEF Keyed, Owns
<1>5. /\ n \in Rankings!Reader /\ n.pc = "build" /\ n.level = level /\ n.forced = reader[q].forced
      /\ n.mine = reader[q].mine \cup {level} /\ n.steady = reader[q].steady /\ n.key = reader[q].key
  BY <1>1, <1>2, <1>4, RequestNow DEF Rankings!Reader
<1>6. Keyed(view, n)
  BY <1>1, <1>3, <1>4, <1>5, RequestNow DEF Keyed
<1>7. Owns(view, slow', building', n)
  BY <1>1, <1>3, <1>4, <1>5, RequestNow DEF Owns
<1>8. \A p \in Actors \ {q} : Owns(view, slow', building', reader[p])
  BY <1>3 DEF RankInv, Owns
<1>9. ASSUME NEW p \in Actors \ {q}, NEW l \in n.mine \cap reader[p].mine,
               ~slow PROVE n.key[l] # reader[p].key[l]
  <2>1. <<l, reader[p].key[l]>> \in building
    BY <1>9 DEF RankInv, Owns
  <2>2. CASE l \in reader[q].mine
    <3>1. l \in Rankings!Levels /\ Rankings!OneBuilds
      BY <2>2, RequestNow DEF RankInv, Rankings!Reader
    <3> QED
      BY <1>5, <1>9, <2>2, <3>1 DEF Rankings!OneBuilds
  <2>3. CASE l = level
    BY <1>1, <1>3, <1>5, <2>1, <2>3
  <2> QED
    BY <1>5, <2>2, <2>3
<1>10. /\ building' \subseteq Rankings!Levels \X Rankings!Versions
       /\ UNCHANGED <<view, published, writer, version, raised, catalogueChanges>>
  BY <1>3, <1>4 DEF RankInv, Rankings!TypeOK, Rankings!SameCatalogue
<1>11. slow' \in BOOLEAN /\ (slow => slow')
  BY <1>3, Zenon DEF RankInv, Rankings!TypeOK
<1>12. \A s \in raised : \A k2 \in Rankings!Versions :
           Current(cache, reader, published, k2, s) => Current(cache', reader', published, k2, s)
  BY <1>3, <1>5, ListsSame
<1> QED
  <2>1. /\ cache' \in [Rankings!Levels -> [Rankings!Versions -> SUBSET SUBSET CachedSongs]]
        /\ begun' \in 0..MaxBegun /\ cacheFaults' \in 0..MaxCacheFaults
    BY <1>3, RequestNow
  <2>2. n.steady \subseteq raised /\ \A s \in n.steady : Settled(cache, reader, published, n, s)
    BY <1>5, RequestNow, ReadsOn
  <2>3. \A p \in Actors \ {q} : \A l \in n.mine \cap reader[p].mine : slow' \/ n.key[l] # reader[p].key[l]
    BY <1>3, <1>9
  <2> QED
    BY <1>3, <1>5, <1>6, <1>7, <1>8, <1>10, <1>11, <1>12, <2>1, <2>2, <2>3, RequestSteps

LEMMA KeepsGiveUp == ASSUME RankBounds, RankInv, NEW q \in Actors, Rankings!GiveUp(q) PROVE RankInv'
<1>1. PICK n : n = [reader[q] EXCEPT !.pc = "build"]
  OBVIOUS
<1>2. /\ reader[q].pc = "wait" /\ reader' = [reader EXCEPT ![q] = n] /\ slow' = TRUE
      /\ cacheFaults < MaxCacheFaults /\ cacheFaults' = cacheFaults + 1
      /\ Rankings!SameCatalogue /\ UNCHANGED <<begun, cache, building>>
  BY <1>1 DEF Rankings!GiveUp, Rankings!At, Rankings!Go
<1>3. /\ n \in Rankings!Reader /\ n.pc = "build" /\ n.level = reader[q].level /\ n.forced = reader[q].forced
      /\ n.mine = reader[q].mine /\ n.steady = reader[q].steady /\ n.key = reader[q].key
  BY <1>1, RequestNow DEF Rankings!Reader
<1>4. Keyed(view, n) /\ Owns(view, slow', building', n)
  <2>1. Keyed(view, n)
    BY <1>2, <1>3, RequestNow DEF Keyed
  <2>2. slow' = TRUE
    BY <1>2
  <2>3. Owns(view, slow, building, reader[q])
    BY RequestNow
  <2>4. Owns(view, slow', building', n)
    BY <1>2, <1>3, <2>2, <2>3 DEF Owns
  <2> QED
    BY <2>1, <2>4
<1>5. \A p \in Actors \ {q} : Owns(view, slow', building', reader[p])
  BY <1>2 DEF RankInv, Owns
<1>6. /\ building' \subseteq Rankings!Levels \X Rankings!Versions
      /\ UNCHANGED <<view, published, writer, version, raised, catalogueChanges>>
  BY <1>2 DEF RankInv, Rankings!TypeOK, Rankings!SameCatalogue
<1>7. cacheFaults' \in 0..MaxCacheFaults
  BY <1>2, RequestNow DEF RankBounds
<1>8. \A s \in raised : \A k \in Rankings!Versions :
           Current(cache, reader, published, k, s) => Current(cache', reader', published, k, s)
  BY <1>2, <1>3, ListsSame
<1> QED
  BY <1>2, <1>3, <1>4, <1>5, <1>6, <1>7, <1>8, RequestNow, ReadsOn, RequestSteps

LEMMA KeepsBuildAnswer == ASSUME RankBounds, RankInv, NEW q \in Actors, Rankings!BuildAnswer(q) PROVE RankInv'
<1>1. PICK n : n = [reader[q] EXCEPT !.pc = "get", !.level = "ranking", !.key.ranking = version]
  OBVIOUS
<1>2. /\ reader[q].pc = "build" /\ reader[q].level = "answer" /\ reader' = [reader EXCEPT ![q] = n]
      /\ Rankings!SameCatalogue /\ UNCHANGED <<begun, cache, building, slow, cacheFaults>>
  BY <1>1 DEF Rankings!BuildAnswer, Rankings!At, Rankings!Go, Rankings!Level
<1>3. version \in Rankings!Versions /\ version # NoVersion
  BY RequestNow DEF RankBounds, Rankings!Versions
<1>4. n.key = [reader[q].key EXCEPT !["ranking"] = version]
  BY <1>1, RequestNow DEF Rankings!Reader
<1>5. /\ n \in Rankings!Reader /\ n.pc = "get" /\ n.level = "ranking" /\ n.forced = reader[q].forced
      /\ n.mine = reader[q].mine /\ n.steady = reader[q].steady
  BY <1>1, <1>3, RequestNow DEF Rankings!Reader
<1>6. n.key["ranking"] = version /\ n.key["answer"] = reader[q].key["answer"]
  BY <1>4, RequestNow DEF Rankings!Levels
<1>7. /\ "ranking" \notin reader[q].mine /\ ~reader[q].forced /\ reader[q].key["answer"] # NoVersion
           /\ view["answer"] # "none"
      /\ (~slow /\ view["answer"] = "claimed" => "answer" \in reader[q].mine)
  BY <1>2, RequestNow DEF Keyed, Owns
<1>8. Keyed(view, n)
  BY <1>3, <1>5, <1>6, <1>7, RequestNow DEF Keyed
<1>9. n.mine \subseteq {"answer"}
  BY <1>5, <1>7, RequestNow DEF Rankings!Reader, Rankings!Levels
<1>10. \A l \in n.mine : n.key[l] = reader[q].key[l]
  BY <1>6, <1>9
<1>11. Owns(view, slow, building, n)
  BY <1>5, <1>6, <1>7, <1>9, <1>10, RequestNow DEF Owns
<1>12. \A s \in raised : Current(cache, reader, published, version, s)
  BY DEF RankInv
<1>13. \A s \in raised : Answering(cache, reader, published, n, s)
  BY <1>5, <1>6, <1>12 DEF Answering, Current
<1>14. ASSUME NEW s \in n.steady PROVE Settled(cache, reader, published, n, s)
  BY <1>5, <1>6, <1>12, RequestNow DEF Settled, Rankings!Levels
<1> QED
  BY <1>2, <1>5, <1>8, <1>10, <1>11, <1>13, <1>14, RequestNow, RequestMoves

LEMMA KeepsBuild == ASSUME RankBounds, RankInv, NEW q \in Actors, Rankings!Build(q) PROVE RankInv'
<1>1. PICK songs \in SUBSET CachedSongs : songs = IF view.ranks = "all" THEN CachedSongs ELSE published
  BY RequestNow
<1>2. PICK n : n = [reader[q] EXCEPT !.pc = "store", !.got = songs]
  OBVIOUS
<1>3. /\ reader[q].pc = "build" /\ reader[q].level = "ranking" /\ reader' = [reader EXCEPT ![q] = n]
      /\ Rankings!SameCatalogue /\ UNCHANGED <<begun, cache, building, slow, cacheFaults>>
  BY <1>1, <1>2 DEF Rankings!Build, Rankings!At, Rankings!Go, Rankings!Level
<1>4. /\ n \in Rankings!Reader /\ n.pc = "store" /\ n.level = reader[q].level /\ n.forced = reader[q].forced
      /\ n.mine = reader[q].mine /\ n.steady = reader[q].steady /\ n.key = reader[q].key /\ n.got = songs
  BY <1>1, <1>2, RequestNow DEF Rankings!Reader
<1>5. Keyed(view, n) /\ Owns(view, slow, building, n)
  BY <1>3, <1>4, RequestNow DEF Keyed, Owns
<1>6. \A s \in raised : Shows("ranking", n.got, s, published)
  BY <1>1, <1>4 DEF Shows, RankInv, Rankings!TypeOK
<1>7. n.key["answer"] # NoVersion =>
          \A s \in raised : Current(cache, reader, published, n.key["answer"], s) =>
               Answering(cache, reader, published, n, s)
  BY <1>3, <1>4, RequestNow DEF Answering
<1>8. \A s \in n.steady : Settled(cache, reader, published, n, s)
  BY <1>4, RequestNow DEF Settled
<1> QED
  BY <1>3, <1>4, <1>5, <1>6, <1>7, <1>8, RequestNow, RequestMoves
LEMMA StoredIs ==
    ASSUME RankBounds, RankInv, NEW q \in Actors, reader[q].pc = "store"
    PROVE  /\ Rankings!AfterStore(q) \in Rankings!Reader
           /\ reader[q].forced => Rankings!AfterStore(q) = Rankings!Idle
           /\ ~reader[q].forced =>
               /\ Rankings!AfterStore(q).pc = (IF reader[q].level = "answer" THEN "answer" ELSE "hydrate")
               /\ Rankings!AfterStore(q).got = reader[q].got
               /\ Rankings!AfterStore(q).level = reader[q].level
                    /\ Rankings!AfterStore(q).forced = reader[q].forced
               /\ Rankings!AfterStore(q).mine = reader[q].mine \ {reader[q].level}
                    /\ Rankings!AfterStore(q).steady = reader[q].steady
               /\ Rankings!AfterStore(q).key[reader[q].level] = NoVersion
               /\ \A l \in Rankings!Levels \ {reader[q].level} :
                       Rankings!AfterStore(q).key[l] = reader[q].key[l]
<1>1. CASE reader[q].forced
  BY <1>1, IdleIs DEF Rankings!AfterStore
<1>2. CASE ~reader[q].forced
  <2>1. reader[q].got \in SUBSET CachedSongs
    BY RequestNow
  <2>2. PICK f : f = Rankings!Found(q, reader[q].got)
    OBVIOUS
  <2>3. /\ f \in Rankings!Reader /\ f.pc = (IF reader[q].level = "answer" THEN "answer" ELSE "hydrate")
        /\ f.got = reader[q].got /\ f.level = reader[q].level /\ f.forced = reader[q].forced
        /\ f.mine = reader[q].mine /\ f.steady = reader[q].steady /\ f.key[reader[q].level] = NoVersion
        /\ \A l \in Rankings!Levels \ {reader[q].level} : f.key[l] = reader[q].key[l]
    BY <2>1, <2>2, FoundIs
  <2>4. PICK n : n = [f EXCEPT !.mine = @ \ {reader[q].level}]
    OBVIOUS
  <2>5. Rankings!AfterStore(q) = n
    BY <1>2, <2>2, <2>4 DEF Rankings!AfterStore, Rankings!Level
  <2>6. /\ n \in Rankings!Reader /\ n.pc = f.pc /\ n.got = f.got /\ n.level = f.level /\ n.forced = f.forced
        /\ n.mine = f.mine \ {reader[q].level} /\ n.steady = f.steady /\ n.key = f.key
    BY <2>3, <2>4 DEF Rankings!Reader
  <2> QED
    BY <1>2, <2>3, <2>5, <2>6
<1> QED
  BY <1>1, <1>2, RequestNow

LEMMA KeepsStoreList == ASSUME RankBounds, RankInv, NEW q \in Actors, Rankings!Store(q) PROVE RankInv'
<1>1. PICK level, k : level = reader[q].level /\ k = reader[q].key[level]
  OBVIOUS
<1>2. PICK n : n = Rankings!AfterStore(q)
  OBVIOUS
<1>3. /\ reader[q].pc = "store" /\ reader' = [reader EXCEPT ![q] = n]
      /\ cache' = [cache EXCEPT ![level][k] = {reader[q].got}] /\ building' = building \ {<<level, k>>}
      /\ Rankings!SameCatalogue /\ UNCHANGED <<begun, slow, cacheFaults>>
  BY <1>1, <1>2 DEF Rankings!Store, Rankings!At, Rankings!Go, Rankings!StoredUnder, Rankings!Level, Rankings!Key
<1>4. k \in Rankings!Versions /\ k # NoVersion /\ level \in Rankings!Levels
  BY <1>1, <1>3, RequestNow DEF Keyed
<1>5. n \in Rankings!Reader /\ (reader[q].forced => n = Rankings!Idle)
  BY <1>2, <1>3, StoredIs
<1>6. ~reader[q].forced =>
        /\ n.pc = (IF level = "answer" THEN "answer" ELSE "hydrate") /\ n.got = reader[q].got
             /\ n.level = level /\ ~n.forced
        /\ n.mine = reader[q].mine \ {level} /\ n.steady = reader[q].steady
        /\ n.key[level] = NoVersion /\ \A l \in Rankings!Levels \ {level} : n.key[l] = reader[q].key[l]
  BY <1>1, <1>2, <1>3, StoredIs
<1>7. n.pc # "store"
  BY <1>5, <1>6, IdleIs
<1>8. /\ cache' \in [Rankings!Levels -> [Rankings!Versions -> SUBSET SUBSET CachedSongs]]
      /\ cache'[level][k] = {reader[q].got}
      /\ \A l \in Rankings!Levels, v \in Rankings!Versions : l # level \/ v # k => cache'[l][v] = cache[l][v]
  BY <1>3, <1>4, RequestNow
<1>9. Keyed(view, n)
  <2>1. CASE reader[q].forced
    BY <1>5, <2>1, IdleIs DEF Keyed
  <2>2. CASE ~reader[q].forced
    BY <1>1, <1>3, <1>4, <1>6, <2>2, RequestNow DEF Keyed, Rankings!Levels
  <2> QED
    BY <2>1, <2>2
<1>10. Owns(view, slow, building', n)
  <2>1. CASE reader[q].forced
    BY <1>5, <2>1, IdleIs DEF Owns
  <2>2. CASE ~reader[q].forced
    <3>1. \A l \in n.mine : l \in Rankings!Levels \ {level} /\ l \in reader[q].mine
               /\ n.key[l] = reader[q].key[l]
      BY <1>6, <2>2, RequestNow DEF Rankings!Reader
    <3>2. \A l \in n.mine : view[l] = "claimed" /\ n.key[l] # NoVersion
               /\ (~slow => <<l, n.key[l]>> \in building')
      BY <1>3, <3>1, RequestNow DEF Owns
    <3>3. ~slow /\ level = "ranking" /\ view["answer"] = "claimed" => "answer" \in n.mine
      BY <1>1, <1>3, <1>6, <2>2, RequestNow DEF Owns
    <3> QED
      BY <1>6, <2>2, <3>2, <3>3 DEF Owns
  <2> QED
    BY <2>1, <2>2
<1>11. ASSUME NEW p \in Actors \ {q} PROVE Owns(view, slow, building', reader[p])
  <2>1. Owns(view, slow, building, reader[p]) /\ reader[p] \in Rankings!Reader
    BY RequestNow
  <2>2. ASSUME NEW l \in reader[p].mine, ~slow PROVE <<l, reader[p].key[l]>> \in building'
    <3>1. <<l, reader[p].key[l]>> \in building /\ view[l] = "claimed" /\ l \in Rankings!Levels
      BY <2>1, <2>2 DEF Owns, Rankings!Reader
    <3>2. l = level => level \in reader[q].mine
      BY <1>1, <1>3, <2>2, <3>1, RequestNow DEF Owns
    <3>3. l = level => reader[p].key[l] # k
      BY <1>1, <1>4, <2>2, <3>2 DEF RankInv, Rankings!OneBuilds
    <3> QED
      BY <1>3, <3>1, <3>3
  <2> QED
    BY <2>1, <2>2 DEF Owns
<1>12. n.mine \subseteq reader[q].mine /\ \A l \in n.mine : n.key[l] = reader[q].key[l]
  BY <1>5, <1>6, IdleIs, RequestNow DEF Rankings!Reader
<1>13. \A p \in Actors \ {q} : \A l \in n.mine \cap reader[p].mine : slow \/ n.key[l] # reader[p].key[l]
  BY <1>12, RequestNow DEF RankInv, Rankings!OneBuilds, Rankings!Reader
<1>14. ASSUME NEW s \in raised, Ranked(cache, reader, published, k, s),
                level = "ranking" PROVE Shows("ranking", reader[q].got, s, published)
  BY <1>1, <1>3, <1>14 DEF Ranked
<1>15. ASSUME NEW s \in raised, Current(cache, reader, published, k, s) PROVE Shows(level, reader[q].got,
                s, published)
  <2>1. CASE level = "answer"
    BY <1>1, <1>3, <1>15, <2>1 DEF Current, Answering
  <2>2. CASE level = "ranking"
    BY <1>14, <1>15, <2>2 DEF Current
  <2> QED
    BY <1>4, <2>1, <2>2 DEF Rankings!Levels
<1>16. ASSUME NEW s \in raised, NEW v \in Rankings!Versions, n.key["answer"] = v, Current(cache, reader,
                published, v, s)
       PROVE  Answering(cache, reader, published, n, s)
  <2>1. v # NoVersion
    BY DEF RankBounds, Rankings!Versions
  <2>2. ~reader[q].forced /\ level = "ranking"
    BY <1>4, <1>5, <1>6, <1>16, <2>1, IdleIs DEF Rankings!Levels
  <2>3. n.pc = "hydrate" /\ n.key["ranking"] = NoVersion /\ n.got = reader[q].got /\ reader[q].key["answer"] = v
    BY <1>6, <1>16, <2>2, RequestNow
  <2>4. Answering(cache, reader, published, reader[q], s)
    BY <1>16, <2>1, <2>3, RequestNow
  <2>5. Ranked(cache, reader, published, k, s)
    BY <1>1, <1>4, <2>2, <2>4 DEF Answering
  <2> QED
    BY <1>14, <2>2, <2>3, <2>5 DEF Answering
<1>17. \A s \in raised : \A v \in Rankings!Versions :
           Current(cache, reader, published, v, s) => Current(cache', reader', published, v, s)
  <2> SUFFICES ASSUME NEW s \in raised
               PROVE  \A v \in Rankings!Versions :
                          Current(cache, reader, published, v, s) => Current(cache', reader', published, v, s)
    OBVIOUS
  <2>1. \A v \in Rankings!Versions : Ranked(cache, reader, published, v, s) =>
            \A songs \in cache'["ranking"][v] \ cache["ranking"][v] : Shows("ranking", songs, s, published)
    BY <1>8, <1>14, RequestNow
  <2>2. \A v \in Rankings!Versions : Current(cache, reader, published, v, s) =>
            \A songs \in cache'["answer"][v] \ cache["answer"][v] : Shows("answer", songs, s, published)
    BY <1>8, <1>15, RequestNow
  <2> QED
    BY <1>3, <1>5, <1>7, <1>16, <2>1, <2>2, ListsStay
<1>18. ASSUME NEW s \in n.steady PROVE Settled(cache, reader, published, n, s)
  <2>1. ~reader[q].forced /\ s \in reader[q].steady /\ s \in raised
    BY <1>5, <1>6, <1>18, IdleIs, RequestNow
  <2>2. Settled(cache, reader, published, reader[q], s)
    BY <2>1, RequestNow
  <2>3. Shows(level, reader[q].got, s, published)
    BY <1>1, <1>4, <1>15, <2>1, <2>2 DEF Settled
  <2>4. \A l \in Rankings!Levels : n.key[l] # NoVersion => Current(cache, reader, published, n.key[l], s)
    BY <1>6, <2>1, <2>2 DEF Settled
  <2> QED
    BY <1>4, <1>6, <2>1, <2>3, <2>4 DEF Settled, Rankings!Levels
<1>19. n.steady \subseteq raised
  BY <1>5, <1>6, IdleIs, RequestNow
<1>20. /\ building' \subseteq Rankings!Levels \X Rankings!Versions
       /\ UNCHANGED <<view, published, writer, version, raised, catalogueChanges>>
       /\ begun' \in 0..MaxBegun /\ cacheFaults' \in 0..MaxCacheFaults
  BY <1>3, RequestNow DEF RankInv, Rankings!TypeOK, Rankings!SameCatalogue
<1>21. slow' = slow /\ slow' \in BOOLEAN
  BY <1>3, Zenon DEF RankInv, Rankings!TypeOK
<1> QED
  <2>1. Owns(view, slow', building', n) /\ \A p \in Actors \ {q} : Owns(view, slow', building', reader[p])
    BY <1>10, <1>11, <1>21
  <2>2. slow' \in BOOLEAN /\ (slow => slow')
    BY <1>21, Zenon
  <2>3. \A p \in Actors \ {q} : \A l \in n.mine \cap reader[p].mine : slow' \/ n.key[l] # reader[p].key[l]
    BY <1>13, <1>21
  <2> QED
    BY <1>3, <1>5, <1>8, <1>9, <1>17, <1>18, <1>19, <1>20, <2>1, <2>2, <2>3, RequestSteps

LEMMA KeepsHydrateAnswer == ASSUME RankBounds, RankInv, NEW q \in Actors,
  Rankings!HydrateAnswer(q) PROVE RankInv'
<1>1. PICK songs \in SUBSET CachedSongs : songs = reader[q].got \cap published
  BY RequestNow
<1>2. PICK n : n = [reader[q] EXCEPT !.pc = "store", !.level = "answer", !.got = songs]
  OBVIOUS
<1>3. /\ reader[q].pc = "hydrate" /\ view.answer # "none" /\ reader' = [reader EXCEPT ![q] = n]
      /\ Rankings!SameCatalogue /\ UNCHANGED <<begun, cache, building, slow, cacheFaults>>
  BY <1>1, <1>2 DEF Rankings!HydrateAnswer, Rankings!Hydrated, Rankings!At, Rankings!Go
<1>4. /\ n \in Rankings!Reader /\ n.pc = "store" /\ n.level = "answer" /\ n.forced = reader[q].forced
      /\ n.mine = reader[q].mine /\ n.steady = reader[q].steady /\ n.key = reader[q].key /\ n.got = songs
  BY <1>1, <1>2, RequestNow DEF Rankings!Reader, Rankings!Levels
<1>5. reader[q].level = "ranking" /\ reader[q].key["ranking"] = NoVersion /\ ~reader[q].forced
        /\ reader[q].key["answer"] # NoVersion
  BY <1>3, RequestNow DEF Keyed
<1>6. Keyed(view, n)
  BY <1>3, <1>4, <1>5, RequestNow DEF Keyed
<1>7. Owns(view, slow, building, n)
  BY <1>3, <1>4, <1>5, RequestNow DEF Owns
<1>8. \A s \in raised : Current(cache, reader, published, n.key["answer"], s) =>
           Answering(cache, reader, published, n, s)
  BY <1>1, <1>3, <1>4, <1>5, RequestNow DEF Answering, Shows
<1>9. \A s \in n.steady : Settled(cache, reader, published, n, s)
  BY <1>4, RequestNow DEF Settled
<1> QED
  BY <1>3, <1>4, <1>6, <1>7, <1>8, <1>9, RequestNow, RequestMoves

LEMMA KeepsAnswerGiven == ASSUME RankBounds, RankInv, NEW q \in Actors, Rankings!Answer(q) PROVE RankInv'
<1>1. reader' = [reader EXCEPT ![q] = Rankings!Idle] /\ Rankings!SameCatalogue /\ UNCHANGED <<begun, cache,
        building, slow, cacheFaults>>
  BY DEF Rankings!Answer, Rankings!Go
<1>2. Keyed(view, Rankings!Idle) /\ Owns(view, slow, building, Rankings!Idle)
  BY IdleIs DEF Keyed, Owns
<1> QED
  BY <1>1, <1>2, IdleIs, RequestNow, RequestMoves

LEMMA KeepsLockLost == ASSUME RankBounds, RankInv, Rankings!LockExpires PROVE RankInv'
<1>1. /\ building' \subseteq building /\ slow' = TRUE /\ cacheFaults < MaxCacheFaults
           /\ cacheFaults' = cacheFaults + 1
      /\ UNCHANGED <<view, published, writer, version, raised, catalogueChanges, begun, cache, reader>>
  BY DEF Rankings!LockExpires, Rankings!SameCatalogue
<1>2. cacheFaults' \in 0..MaxCacheFaults
  BY <1>1 DEF RankInv, Rankings!TypeOK, RankBounds
<1>3. Rankings!TypeOK'
  BY <1>1, <1>2 DEF RankInv, Rankings!TypeOK
<1>4. \A q \in Actors : Owns(view, slow', building', reader[q])
  BY <1>1 DEF RankInv, Owns
<1> QED
  BY <1>1, <1>3, <1>4 DEF RankInv, Rankings!OneBuilds

-----------------------------------------------------------------------------
(* The catalogue changes and the version is raised.                           *)

LEMMA OthersShown ==
    ASSUME RankBounds, RankInv, NEW s \in CachedSongs, Rankings!Changed(s), UNCHANGED <<view, version,
             cache, building, slow>>
    PROVE  /\ Rankings!OneBuilds'
           /\ \A q \in Actors : Keyed(view', reader'[q]) /\ Owns(view', slow', building', reader'[q])
                   /\ reader'[q].steady \subseteq raised'
           /\ \A t \in raised' : Current(cache', reader', published', version', t)
           /\ \A q \in Actors : \A t \in reader'[q].steady : Settled(cache', reader', published', reader'[q], t)
           /\ reader' \in [Actors -> Rankings!Reader] /\ published' \subseteq CachedSongs
                /\ raised' \subseteq CachedSongs
<1>1. /\ raised' = raised \ {s} /\ published' = Rankings!Toggled(s)
      /\ reader' = [q \in Actors |-> [reader[q] EXCEPT !.steady = @ \ {s}]]
  BY DEF Rankings!Changed, Rankings!Unsettle
<1>2. ASSUME NEW q \in Actors
      PROVE  /\ reader'[q] \in Rankings!Reader /\ reader'[q].pc = reader[q].pc
                  /\ reader'[q].level = reader[q].level
             /\ reader'[q].key = reader[q].key /\ reader'[q].mine = reader[q].mine
                  /\ reader'[q].got = reader[q].got
             /\ reader'[q].forced = reader[q].forced /\ reader'[q].steady = reader[q].steady \ {s}
             /\ (reader[q].steady = {} => reader'[q] = reader[q])
  <2>1. PICK r \in Rankings!Reader : r = reader[q]
    BY RequestNow
  <2>2. PICK n : n = [r EXCEPT !.steady = @ \ {s}]
    OBVIOUS
  <2>3. reader'[q] = n
    BY <1>1, <2>1, <2>2
  <2> QED
    BY <2>1, <2>2, <2>3 DEF Rankings!Reader
<1>3. \A t : t # s => (t \in published' <=> t \in published)
  BY <1>1 DEF Rankings!Toggled
<1>4. \A level, songs, t : t # s => (Shows(level, songs, t, published') <=> Shows(level, songs, t, published))
  BY <1>3 DEF Shows
<1>5. ASSUME NEW k, NEW t, t # s, Ranked(cache, reader, published, k, t) PROVE Ranked(cache, reader',
               published', k, t)
  BY <1>2, <1>4, <1>5 DEF Ranked
<1>6. ASSUME NEW q \in Actors, NEW t, t # s, Answering(cache, reader, published, reader[q], t)
      PROVE  Answering(cache, reader', published', reader'[q], t)
  BY <1>2, <1>4, <1>5, <1>6 DEF Answering
<1>7. ASSUME NEW k, NEW t, t # s, Current(cache, reader, published, k, t) PROVE Current(cache, reader',
               published', k, t)
  BY <1>2, <1>4, <1>5, <1>6, <1>7 DEF Current
<1>8. \A t \in raised' : Current(cache', reader', published', version', t)
  BY <1>1, <1>7 DEF RankInv
<1>9. ASSUME NEW q \in Actors, NEW t \in reader'[q].steady PROVE Settled(cache', reader', published',
               reader'[q], t)
  <2>1. t # s /\ Settled(cache, reader, published, reader[q], t)
    BY <1>2, <1>9, RequestNow
  <2> QED
    BY <1>2, <1>4, <1>7, <2>1 DEF Settled
<1>10. ASSUME NEW q \in Actors
       PROVE  Keyed(view', reader'[q]) /\ Owns(view', slow', building', reader'[q])
                /\ reader'[q].steady \subseteq raised'
  <2>1. Keyed(view', reader'[q])
    BY <1>2, RequestNow, IdleIs DEF Keyed
  <2>2. Owns(view', slow', building', reader'[q])
    BY <1>2, RequestNow DEF Owns
  <2> QED
    BY <1>1, <1>2, <2>1, <2>2, RequestNow
<1>11. Rankings!OneBuilds'
  BY <1>2 DEF RankInv, Rankings!OneBuilds
<1>12. reader' \in [Actors -> Rankings!Reader]
  BY <1>1, <1>2
<1>13. published' \subseteq CachedSongs /\ raised' \subseteq CachedSongs
  BY <1>1 DEF RankInv, Rankings!TypeOK, Rankings!Toggled
<1> QED
  BY <1>8, <1>9, <1>10, <1>11, <1>12, <1>13

LEMMA KeepsSave == ASSUME RankBounds, RankInv, NEW s \in CachedSongs, Rankings!Save(s) PROVE RankInv'
<1>1. /\ Rankings!Changed(s) /\ writer' = [pc |-> "saved", songs |-> {s}] /\ writer.pc = "idle"
      /\ catalogueChanges < MaxRaises /\ catalogueChanges' = catalogueChanges + 1
      /\ UNCHANGED <<begun, view, version, cache, building, slow, cacheFaults>>
  BY DEF Rankings!Save
<1>2. writer' \in Rankings!Writer /\ writer'.pc = "saved"
  BY <1>1 DEF Rankings!Writer
<1>3. version \in Nat /\ catalogueChanges \in Nat /\ version <= catalogueChanges
        /\ catalogueChanges' \in 0..MaxRaises
  BY <1>1 DEF RankInv, Rankings!TypeOK, Rankings!Versions, RankBounds
<1>4. Rankings!TypeOK'
  BY <1>1, <1>2, <1>3, OthersShown DEF RankInv, Rankings!TypeOK
<1>5. version' + (IF writer'.pc = "saved" THEN 1 ELSE 0) <= catalogueChanges'
  BY <1>1, <1>2, <1>3
<1> QED
  BY <1>1, <1>4, <1>5, OthersShown DEF RankInv

LEMMA KeepsCommit == ASSUME RankBounds, RankInv, Rankings!Commit PROVE RankInv'
<1>1. PICK s \in CachedSongs : Rankings!Changed(s)
  BY DEF Rankings!Commit, RankInv, Rankings!TypeOK, Rankings!Writer
<1>2. /\ writer' = [pc |-> "idle", songs |-> {}] /\ writer.pc = "bumped"
      /\ UNCHANGED <<begun, view, version, cache, building, catalogueChanges, slow, cacheFaults>>
  BY DEF Rankings!Commit
<1>3. writer' \in Rankings!Writer /\ writer'.pc = "idle"
  BY <1>2 DEF Rankings!Writer
<1>4. Rankings!TypeOK'
  BY <1>1, <1>2, <1>3, OthersShown DEF RankInv, Rankings!TypeOK
<1>5. version' + (IF writer'.pc = "saved" THEN 1 ELSE 0) <= catalogueChanges'
  BY <1>2, <1>3 DEF RankInv
<1> QED
  BY <1>1, <1>2, <1>4, <1>5, OthersShown DEF RankInv

LEMMA KeepsNoRaise == ASSUME RankBounds, RankInv, Rankings!LoseBump \/ Rankings!Rollback PROVE RankInv'
<1>1. /\ writer' = [pc |-> "idle", songs |-> {}] /\ cacheFaults' \in {cacheFaults, cacheFaults + 1}
           /\ (cacheFaults' # cacheFaults => cacheFaults < MaxCacheFaults)
      /\ UNCHANGED <<begun, view, published, version, cache, building, reader, raised, catalogueChanges, slow>>
  BY DEF Rankings!LoseBump, Rankings!Rollback
<1>2. writer' \in Rankings!Writer /\ writer'.pc = "idle"
  BY <1>1 DEF Rankings!Writer
<1>3. cacheFaults' \in 0..MaxCacheFaults
  BY <1>1 DEF RankInv, Rankings!TypeOK, RankBounds
<1>4. Rankings!TypeOK'
  BY <1>1, <1>2, <1>3 DEF RankInv, Rankings!TypeOK
<1>5. version' + (IF writer'.pc = "saved" THEN 1 ELSE 0) <= catalogueChanges'
  <2>1. version \in Nat /\ catalogueChanges \in Nat
    BY DEF RankInv, Rankings!TypeOK, Rankings!Versions, RankBounds
  <2> QED
    BY <1>1, <1>2, <2>1 DEF RankInv
<1> QED
  BY <1>1, <1>4, <1>5 DEF RankInv, Rankings!OneBuilds
(* A raise either reaches a version under which nothing is kept or asked for,  *)
(* or takes back what was promised.                                           *)
LEMMA AllRaised ==
    ASSUME RankBounds, RankInv, Rankings!Bump, Rankings!NextVersion \in Rankings!Versions,
           UNCHANGED <<view, published, cache, building, slow>>
    PROVE  /\ Rankings!OneBuilds'
           /\ \A q \in Actors : Keyed(view', reader'[q]) /\ Owns(view', slow', building', reader'[q])
                   /\ reader'[q].steady \subseteq raised'
           /\ \A t \in raised' : Current(cache', reader', published', version', t)
           /\ \A q \in Actors : \A t \in reader'[q].steady : Settled(cache', reader', published', reader'[q], t)
           /\ reader' \in [Actors -> Rankings!Reader] /\ raised' \subseteq CachedSongs
                /\ version' \in Rankings!Versions
<1>1. PICK dropped \in SUBSET CachedSongs : dropped = IF Rankings!FreshVersion THEN {} ELSE CachedSongs
  OBVIOUS
<1>2. /\ version' = Rankings!NextVersion /\ raised' = CachedSongs \ dropped
      /\ reader' = [q \in Actors |-> [reader[q] EXCEPT !.steady = @ \ dropped]]
  BY <1>1 DEF Rankings!Bump, Rankings!Unsettle
<1>3. ASSUME NEW q \in Actors
      PROVE  /\ reader'[q] \in Rankings!Reader /\ reader'[q].pc = reader[q].pc
                  /\ reader'[q].level = reader[q].level
             /\ reader'[q].key = reader[q].key /\ reader'[q].mine = reader[q].mine
                  /\ reader'[q].got = reader[q].got
             /\ reader'[q].forced = reader[q].forced /\ reader'[q].steady = reader[q].steady \ dropped
             /\ (reader[q].steady = {} => reader'[q] = reader[q])
  <2>1. PICK r \in Rankings!Reader : r = reader[q]
    BY RequestNow
  <2>2. PICK n : n = [r EXCEPT !.steady = @ \ dropped]
    OBVIOUS
  <2>3. reader'[q] = n
    BY <1>2, <2>1, <2>2
  <2> QED
    BY <2>1, <2>2, <2>3 DEF Rankings!Reader
<1>4. ASSUME NEW q \in Actors PROVE reader[q].steady \subseteq CachedSongs
  BY RequestNow DEF Rankings!Reader
<1>5. ASSUME NEW q \in Actors
      PROVE  Keyed(view', reader'[q]) /\ Owns(view', slow', building', reader'[q])
               /\ reader'[q].steady \subseteq raised'
  <2>1. Keyed(view', reader'[q])
    BY <1>3, RequestNow, IdleIs DEF Keyed
  <2>2. Owns(view', slow', building', reader'[q])
    BY <1>3, RequestNow DEF Owns
  <2> QED
    BY <1>2, <1>3, <1>4, <2>1, <2>2
<1>6. ASSUME NEW k, NEW t, Current(cache, reader, published, k, t) PROVE Current(cache, reader', published,
               k, t)
  <2>1. \A v : Ranked(cache, reader, published, v, t) => Ranked(cache, reader', published, v, t)
    BY <1>3 DEF Ranked
  <2>2. \A q \in Actors : Answering(cache, reader, published, reader[q], t) =>
             Answering(cache, reader', published, reader'[q], t)
    BY <1>3, <2>1 DEF Answering
  <2> QED
    BY <1>3, <1>6, <2>1, <2>2 DEF Current
<1>7. ASSUME NEW q \in Actors, NEW t \in reader'[q].steady PROVE Settled(cache', reader', published',
               reader'[q], t)
  <2>1. Settled(cache, reader, published, reader[q], t)
    BY <1>3, <1>7, RequestNow
  <2> QED
    BY <1>3, <1>6, <2>1 DEF Settled
<1>8. ASSUME NEW t \in raised' PROVE Current(cache', reader', published', version', t)
  <2>1. Rankings!FreshVersion
    BY <1>1, <1>2, <1>8
  <2>2. \A l \in Rankings!Levels : cache[l][version'] = {}
    BY <1>2, <2>1 DEF Rankings!FreshVersion
  <2>3. version' # NoVersion
    BY <1>2 DEF RankBounds, Rankings!Versions
  <2>4. \A q \in Actors : reader'[q].key["answer"] # version' /\ reader'[q].key["ranking"] # version'
    BY <1>2, <1>3, <2>1, <2>3, RequestNow, IdleIs DEF Rankings!FreshVersion, Rankings!At, Keyed
  <2>5. Ranked(cache', reader', published', version', t)
    BY <2>2, <2>4 DEF Ranked, Rankings!Levels
  <2> QED
    BY <2>2, <2>4, <2>5 DEF Current, Rankings!Levels
<1>9. Rankings!OneBuilds'
  BY <1>3 DEF RankInv, Rankings!OneBuilds
<1>10. reader' \in [Actors -> Rankings!Reader]
  BY <1>2, <1>3
<1> QED
  BY <1>2, <1>5, <1>7, <1>8, <1>9, <1>10

LEMMA KeepsSavedBump == ASSUME RankBounds, RankInv, Rankings!SavedBump PROVE RankInv'
<1>1. /\ writer.pc = "saved" /\ Rankings!Bump /\ writer' = [pc |-> "idle", songs |-> {}]
      /\ UNCHANGED <<begun, view, published, cache, building, catalogueChanges, slow, cacheFaults>>
  BY DEF Rankings!SavedBump
<1>2. writer' \in Rankings!Writer /\ writer'.pc = "idle"
  BY <1>1 DEF Rankings!Writer
<1>3. version \in Nat /\ catalogueChanges \in Nat /\ catalogueChanges <= MaxRaises
        /\ version + 1 <= catalogueChanges
  BY <1>1 DEF RankInv, Rankings!TypeOK, Rankings!Versions, RankBounds
<1>4. Rankings!NextVersion \in Rankings!Versions /\ version' = version + 1
  BY <1>1, <1>3 DEF Rankings!NextVersion, Rankings!Versions, Rankings!Bump, RankBounds
<1>5. Rankings!TypeOK'
  BY <1>1, <1>2, <1>4, AllRaised DEF RankInv, Rankings!TypeOK
<1>6. version' + (IF writer'.pc = "saved" THEN 1 ELSE 0) <= catalogueChanges'
  BY <1>1, <1>2, <1>3, <1>4
<1> QED
  BY <1>1, <1>4, <1>5, <1>6, AllRaised DEF RankInv

LEMMA KeepsEarlyBump == ASSUME RankBounds, RankInv, NEW s \in CachedSongs, Rankings!EarlyBump(s) PROVE RankInv'
<1>1. /\ Rankings!Bump /\ writer' = [pc |-> "bumped", songs |-> {s}] /\ writer.pc = "idle"
      /\ catalogueChanges < MaxRaises /\ catalogueChanges' = catalogueChanges + 1
      /\ UNCHANGED <<begun, view, published, cache, building, slow, cacheFaults>>
  BY DEF Rankings!EarlyBump
<1>2. writer' \in Rankings!Writer /\ writer'.pc = "bumped"
  BY <1>1 DEF Rankings!Writer
<1>3. version \in Nat /\ catalogueChanges \in Nat /\ version <= catalogueChanges
        /\ catalogueChanges' \in 0..MaxRaises /\ MaxRaises \in Nat
  BY <1>1 DEF RankInv, Rankings!TypeOK, Rankings!Versions, RankBounds
<1>4. Rankings!NextVersion \in Rankings!Versions /\ version' = version + 1
  BY <1>1, <1>3 DEF Rankings!NextVersion, Rankings!Versions, Rankings!Bump
<1>5. Rankings!TypeOK'
  BY <1>1, <1>2, <1>3, <1>4, AllRaised DEF RankInv, Rankings!TypeOK
<1>6. version' + (IF writer'.pc = "saved" THEN 1 ELSE 0) <= catalogueChanges'
  BY <1>1, <1>2, <1>3, <1>4
<1> QED
  BY <1>1, <1>4, <1>5, <1>6, AllRaised DEF RankInv

LEMMA KeepsVersionExpires == ASSUME RankBounds, RankInv, Rankings!VersionExpires PROVE RankInv'
<1>1. /\ version > 0 /\ cacheFaults < MaxCacheFaults /\ version' = 0 /\ cacheFaults' = cacheFaults + 1
      /\ cache' = [l \in Rankings!Levels |-> [cache[l] EXCEPT ![0] = {}]]
      /\ \A q \in Actors, l \in Rankings!Levels : reader[q].pc # "idle" => reader[q].key[l] # 0
      /\ UNCHANGED <<begun, view, published, writer, building, reader, raised, catalogueChanges, slow>>
  BY DEF Rankings!VersionExpires, Rankings!At
<1>2. cacheFaults' \in 0..MaxCacheFaults /\ version' \in Rankings!Versions
  BY <1>1 DEF RankInv, Rankings!TypeOK, Rankings!Versions, RankBounds
<1>3. cache \in [Rankings!Levels -> [Rankings!Versions -> SUBSET SUBSET CachedSongs]]
        /\ 0 \in Rankings!Versions /\ NoVersion \notin Rankings!Versions
  BY <1>1, <1>2 DEF RankInv, Rankings!TypeOK, RankBounds, Rankings!Versions
<1>4. /\ cache' \in [Rankings!Levels -> [Rankings!Versions -> SUBSET SUBSET CachedSongs]]
      /\ \A l \in Rankings!Levels : cache'[l][0] = {}
              /\ \A k \in Rankings!Versions : cache'[l][k] \subseteq cache[l][k]
  BY <1>1, <1>3
<1>5. Rankings!TypeOK'
  BY <1>1, <1>2, <1>4 DEF RankInv, Rankings!TypeOK
<1>6. \A q \in Actors : reader[q].key["answer"] # 0 /\ reader[q].key["ranking"] # 0
  BY <1>1, <1>3, RequestNow, IdleIs DEF Keyed
<1>7. \A t : Current(cache', reader, published, 0, t)
  BY <1>4, <1>6 DEF Current, Ranked, Rankings!Levels
<1>8. ASSUME NEW k \in Rankings!Versions, NEW t, Current(cache, reader, published, k, t)
      PROVE  Current(cache', reader, published, k, t)
  <2>1. \A v \in Rankings!Versions : Ranked(cache, reader, published, v, t) =>
             Ranked(cache', reader, published, v, t)
    BY <1>4 DEF Ranked, Rankings!Levels
  <2>2. \A q \in Actors : Answering(cache, reader, published, reader[q], t) =>
             Answering(cache', reader, published, reader[q], t)
    BY <2>1, RequestNow DEF Answering
  <2> QED
    BY <1>4, <1>8, <2>1, <2>2 DEF Current, Rankings!Levels
<1>9. ASSUME NEW q \in Actors, NEW t \in reader[q].steady PROVE Settled(cache', reader, published, reader[q], t)
  <2>1. Settled(cache, reader, published, reader[q], t)
    BY <1>9, RequestNow
  <2>2. \A l \in Rankings!Levels : reader[q].key[l] # NoVersion => reader[q].key[l] \in Rankings!Versions
    BY RequestNow
  <2> QED
    BY <1>8, <2>1, <2>2 DEF Settled
<1>10. version' + (IF writer'.pc = "saved" THEN 1 ELSE 0) <= catalogueChanges'
  <2>1. version \in Nat /\ catalogueChanges \in Nat
    BY DEF RankInv, Rankings!TypeOK, Rankings!Versions, RankBounds
  <2> QED
    BY <1>1, <2>1 DEF RankInv
<1> QED
  BY <1>1, <1>5, <1>7, <1>9, <1>10 DEF RankInv, Rankings!OneBuilds

LEMMA RankingsStep == ASSUME RankBounds, RankInv, Rankings!Next \/ UNCHANGED Rankings!vars PROVE RankInv'
<1>1. CASE UNCHANGED Rankings!vars
  <2>1. UNCHANGED <<view, published, writer, version, cache, building, reader, raised, slow, begun,
          catalogueChanges, cacheFaults>>
    BY <1>1 DEF Rankings!vars
  <2>2. Rankings!TypeOK' /\ Rankings!OneBuilds'
    BY <2>1 DEF RankInv, Rankings!TypeOK, Rankings!OneBuilds
  <2> QED
    BY <2>1, <2>2 DEF RankInv
<1>2. ASSUME NEW q \in Actors, Rankings!Claim(q) PROVE RankInv'
  BY <1>2, KeepsClaimWait, KeepsClaimLock
<1> QED
  BY <1>1, <1>2, KeepsSave, KeepsEarlyBump, KeepsSavedBump, KeepsNoRaise, KeepsCommit, KeepsVersionExpires,
     KeepsLockLost,
     KeepsBeginRequest, KeepsRefresh, KeepsHit, KeepsMiss, KeepsGiveUp, KeepsBuildAnswer, KeepsBuild, KeepsStoreList,
     KeepsHydrateAnswer, KeepsAnswerGiven DEF Rankings!Next

LEMMA RankInvCurrent == ASSUME RankInv PROVE Rankings!TypeOK /\ Rankings!AnswerCurrent /\ Rankings!OneBuilds
<1>1. ASSUME NEW q \in Actors, Rankings!Answers(q), NEW s \in reader[q].steady
      PROVE  s \in Rankings!Shown(q) <=> s \in published
  BY <1>1, RequestNow DEF Rankings!Answers, Rankings!Shown, Rankings!Hydrated, Rankings!At, Settled, Shows
<1> QED
  BY <1>1 DEF RankInv, Rankings!AnswerCurrent

-----------------------------------------------------------------------------
(* Banners that are shown in turn, and counted.                              *)

LEMMA SameCount == ASSUME NEW S PROVE Banner!Cardinality(S) = Cardinality(S)
BY DEF Banner!Cardinality, Cardinality

LEMMA ActiveIds ==
    ASSUME BannerBounds
    PROVE  /\ Banner!active_ids \in Seq(Banners)
           /\ Banner!active_ids = <<>> <=> Banner!ActiveIn(banner) = {}
<1>1. PICK on \in SUBSET Banners : on = Banner!ActiveIn(banner)
  BY DEF Banner!ActiveIn
<1>2. IsFiniteSet(on)
  BY FS_Subset DEF BannerBounds
<1>3. Cardinality(on) \in Nat /\ ExistsBijection(1..Cardinality(on), on)
  BY <1>2, FS_CardinalityType
<1>4. PICK n \in Nat : n = Cardinality(on)
  BY <1>3
<1>5. PICK ids : ids = CHOOSE l \in Banner!Injection(1..n, on) : TRUE
  OBVIOUS
<1>6. \E l : l \in Banner!Injection(1..n, on)
  <2>1. PICK l : l \in Bijection(1..n, on)
    BY <1>3, <1>4 DEF ExistsBijection
  <2> QED
    BY <2>1 DEF Bijection, Injection, IsInjective, Banner!Injection, Banner!IsInjective
<1>7. ids \in Banner!Injection(1..n, on)
  BY <1>5, <1>6, Zenon
<1>8. ids \in [1..n -> on]
  BY <1>7 DEF Banner!Injection
<1>9. ids \in Seq(on) /\ Len(ids) = n
  BY <1>8
<1>10. (n = 0 <=> on = {}) /\ (ids = <<>> <=> n = 0) /\ ids \in Seq(Banners)
  BY <1>1, <1>2, <1>4, <1>9, FS_EmptySet
<1>11. ids = Banner!active_ids
  BY <1>1, <1>4, <1>5, SameCount DEF Banner!active_ids
<1> QED
  BY <1>1, <1>10, <1>11

LEMMA TurnOf ==
    ASSUME NEW ids \in Seq(Banners), ids # <<>>, NEW n \in Nat
    PROVE  ids[(n % Len(ids)) + 1] \in Banners
<1>1. Len(ids) \in Nat /\ Len(ids) > 0
  OBVIOUS
<1>2. n % Len(ids) \in 0..Len(ids) - 1
  BY <1>1
<1> QED
  BY <1>1, <1>2

LEMMA OnWayFinite == ASSUME BannerBounds PROVE IsFiniteSet(OnWay) /\ Cardinality(OnWay) \in Nat
<1>1. IsFiniteSet(OnWay)
  BY FS_Subset DEF BannerBounds, OnWay
<1> QED
  BY <1>1, FS_CardinalityType

LEMMA Joins ==
    ASSUME BannerBounds, show \in [Actors -> BannerRequest], NEW q \in Actors, NEW n, show' = [show EXCEPT ![q] = n],
           q \notin OnWay, n.pc \in {"total", "insert"}
    PROVE  Cardinality(OnWay') = Cardinality(OnWay) + 1
<1>1. OnWay' = OnWay \cup {q}
  BY DEF OnWay
<1>2. IsFiniteSet(OnWay)
  BY OnWayFinite
<1>3. Cardinality(OnWay \cup {q}) = Cardinality(OnWay) + 1
  BY <1>2, FS_AddElement
<1> QED
  BY <1>1, <1>3

LEMMA Leaves ==
    ASSUME BannerBounds, show \in [Actors -> BannerRequest], NEW q \in Actors, NEW n, show' = [show EXCEPT ![q] = n],
           q \in OnWay, n.pc \notin {"total", "insert"}
    PROVE  Cardinality(OnWay') = Cardinality(OnWay) - 1
<1>1. OnWay' = OnWay \ {q}
  BY DEF OnWay
<1>2. IsFiniteSet(OnWay)
  BY OnWayFinite
<1>3. Cardinality(OnWay \ {q}) = Cardinality(OnWay) - 1
  BY <1>2, FS_RemoveElement
<1> QED
  BY <1>1, <1>3

LEMMA Stays ==
    ASSUME show \in [Actors -> BannerRequest], NEW q \in Actors, NEW n, show' = [show EXCEPT ![q] = n],
           q \in OnWay <=> n.pc \in {"total", "insert"}
    PROVE  Cardinality(OnWay') = Cardinality(OnWay)
<1>1. OnWay' = OnWay
  BY DEF OnWay
<1> QED
  BY <1>1

LEMMA BannersStart == ASSUME BannerBounds, Banner!Init PROVE BannerInv
<1>1. /\ Banner!Idle \in BannerRequest /\ Banner!Idle.pc = "idle" /\ Banner!Idle.some = FALSE
      /\ Banner!Idle.ids \in Seq(Banners) /\ Banner!Idle.found = "none" /\ Banner!IdleAdmin \in BannerEdit /\ Banner!IdleAdmin.pc = "idle"
  BY DEF Banner!Idle, Banner!IdleAdmin, BannerRequest, BannerEdit, Banner!Steps, Banner!States
<1>2. show \in [Actors -> BannerRequest] /\ (\A q \in Actors : show[q] = Banner!Idle)
  BY <1>1 DEF Banner!Init
<1>3. admin \in [Admins -> BannerEdit] /\ (\A a \in Admins : admin[a] = Banner!IdleAdmin)
  BY <1>1 DEF Banner!Init
<1>4. old \in BOOLEAN
  BY Zenon DEF Banner!Init
<1>5. banner \in [Banners -> Banner!Row]
  BY DEF Banner!Init, Banner!Row
<1>6. total = NoTotal /\ cached = NoList /\ cursor = 0 /\ served = 0 /\ cut = 0
  BY DEF Banner!Init
<1>7. Banner!TypeOK
  BY <1>1, <1>2, <1>3, <1>4, <1>5, <1>6 DEF Banner!TypeOK, Banner!Steps, Banner!States
<1>8. \A q \in Actors : Follows(banner, total, show[q])
  BY <1>1, <1>2 DEF Follows
<1>9. OnWay = {}
  BY <1>1, <1>2 DEF OnWay
<1>10. Banner!TotalAgrees
  <2>1. {q \in Actors : show[q].pc \in {"total", "insert"}} = {}
    BY <1>9 DEF OnWay
  <2>2. Cardinality({q \in Actors : show[q].pc \in {"total", "insert"}}) = 0
    BY <2>1, FS_EmptySet
  <2>3. (IF total = NoTotal THEN 0 ELSE total) = 0
    BY <1>6
  <2> QED
    BY <1>6, <2>2, <2>3, SameCount DEF Banner!TotalAgrees
<1>11. ListFollows
  BY <1>6 DEF ListFollows
<1>12. \A a \in Admins : admin[a].pc = "save" => admin[a].ad \in Banners
  BY <1>1, <1>3
<1> QED
  BY <1>2, <1>3, <1>7, <1>8, <1>10, <1>11, <1>12 DEF BannerInv

(* A public request takes a step that changes the state of no banner.          *)
LEMMA ShowSteps ==
    ASSUME BannerBounds, BannerInv, NEW q \in Actors, NEW n \in BannerRequest, show' = [show EXCEPT ![q] = n], admin' = admin,
           banner' \in [Banners -> Banner!Row], Banner!ActiveIn(banner') = Banner!ActiveIn(banner),
           total' \in Nat \cup {NoTotal}, total # NoTotal => total' # NoTotal,
           cached' = NoList \/ cached' \in Seq(Banners), old' \in BOOLEAN,
           cursor' \in Nat, served' \in Nat, cut' \in Nat,
           Follows(banner, total', n),
           cached' = NoList \/ old' \/ cached' = Banner!active_ids \/ (cached' = cached /\ old' = old),
           served' = (IF total' = NoTotal THEN 0 ELSE total') + cut' + Cardinality(OnWay')
    PROVE  BannerInv'
<1>1. show'[q] = n /\ (\A p \in Actors \ {q} : show'[p] = show[p]) /\ show' \in [Actors -> BannerRequest]
  BY DEF BannerInv
<1>2. \A p \in Actors : show'[p].pc \in Banner!Steps /\ show'[p].ids \in Seq(Banners) /\ show'[p].found \in Banner!States
  BY <1>1 DEF BannerRequest
<1>3. \A a \in Admins : admin'[a].pc \in {"idle", "save", "invalidate"}
  BY DEF BannerInv, Banner!TypeOK
<1>4. Banner!TypeOK'
  BY <1>2, <1>3, Zenon DEF Banner!TypeOK
<1>5. \A p \in Actors : Follows(banner', total', show'[p])
  BY <1>1 DEF BannerInv, Follows
<1>6. Banner!active_ids' = Banner!active_ids
  BY DEF Banner!active_ids
<1>7. Banner!Pending' = Banner!Pending
  BY DEF Banner!Pending
<1>8. ListFollows'
  BY <1>6, <1>7 DEF BannerInv, ListFollows
<1>9. Banner!TotalAgrees'
  BY SameCount DEF Banner!TotalAgrees, OnWay
<1> QED
  BY <1>1, <1>4, <1>5, <1>8, <1>9 DEF BannerInv

LEMMA BannerNow ==
    ASSUME BannerBounds, BannerInv, NEW q \in Actors
    PROVE  /\ show[q] \in BannerRequest /\ Follows(banner, total, show[q])
           /\ show[q].pc \in Banner!Steps /\ show[q].ids \in Seq(Banners) /\ show[q].ad \in Banners \cup {0}
           /\ show[q].found \in Banner!States
           /\ banner \in [Banners -> Banner!Row] /\ total \in Nat \cup {NoTotal} /\ (cached = NoList \/ cached \in Seq(Banners))
           /\ cursor \in Nat /\ served \in Nat /\ cut \in Nat
           /\ show \in [Actors -> BannerRequest]
           /\ (q \in OnWay <=> show[q].pc \in {"total", "insert"})
           /\ served = (IF total = NoTotal THEN 0 ELSE total) + cut + Cardinality(OnWay)
           /\ Cardinality(OnWay) \in Nat
<1>1. show[q] \in BannerRequest /\ Follows(banner, total, show[q]) /\ show \in [Actors -> BannerRequest]
  BY DEF BannerInv
<1>2. show[q].pc \in Banner!Steps /\ show[q].ids \in Seq(Banners) /\ show[q].ad \in Banners \cup {0} /\ show[q].found \in Banner!States
  BY <1>1 DEF BannerRequest
<1>3. /\ banner \in [Banners -> Banner!Row] /\ total \in Nat \cup {NoTotal} /\ (cached = NoList \/ cached \in Seq(Banners))
      /\ cursor \in Nat /\ served \in Nat /\ cut \in Nat
  BY DEF BannerInv, Banner!TypeOK
<1>4. q \in OnWay <=> show[q].pc \in {"total", "insert"}
  BY DEF OnWay
<1>5. served = (IF total = NoTotal THEN 0 ELSE total) + cut + Cardinality(OnWay)
  BY SameCount DEF BannerInv, Banner!TotalAgrees, OnWay
<1>6. Cardinality(OnWay) \in Nat
  BY OnWayFinite
<1> QED
  BY <1>1, <1>2, <1>3, <1>4, <1>5, <1>6

LEMMA BannerFlags == ASSUME BannerInv, NEW q \in Actors PROVE old \in BOOLEAN /\ show[q].some \in BOOLEAN /\ show[q].excused \in BOOLEAN
<1>1. show[q] \in BannerRequest
  BY DEF BannerInv
<1> QED
  BY <1>1, Zenon DEF BannerInv, Banner!TypeOK, BannerRequest

(* A step that changes neither a banner nor the counters.                      *)
LEMMA ShowMoves ==
    ASSUME BannerBounds, BannerInv, NEW q \in Actors, NEW n \in BannerRequest, show' = [show EXCEPT ![q] = n],
           UNCHANGED <<admin, banner, total, served, cut>>, cursor' \in Nat,
           cached' = NoList \/ cached' \in Seq(Banners), old' \in BOOLEAN,
           cached' = NoList \/ old' \/ cached' = Banner!active_ids \/ (cached' = cached /\ old' = old),
           show[q].pc \in {"total", "insert"} <=> n.pc \in {"total", "insert"}, Follows(banner, total, n)
    PROVE  BannerInv'
<1>1. Cardinality(OnWay') = Cardinality(OnWay)
  BY BannerNow, Stays
<1>2. served' = (IF total' = NoTotal THEN 0 ELSE total') + cut' + Cardinality(OnWay')
  BY <1>1, BannerNow
<1> QED
  BY <1>2, BannerNow, ShowSteps

LEMMA BannerIdleIs ==
    /\ Banner!Idle \in BannerRequest /\ Banner!Idle.pc = "idle" /\ Banner!Idle.some = FALSE
    /\ Banner!Idle.ids = <<>> /\ Banner!Idle.found = "none" /\ Banner!Idle.ad = 0
BY DEF Banner!Idle, BannerRequest, Banner!Steps, Banner!States

LEMMA KeepsStart == ASSUME BannerBounds, BannerInv, NEW q \in Actors, Banner!Start(q) PROVE BannerInv'
<1>1. PICK hit \in {FALSE, cached # NoList} :
        show' = [show EXCEPT ![q] = [Banner!Idle EXCEPT !.some = Banner!ActiveIn(banner) # {}, !.excused = hit /\ (old \/ Banner!Pending),
                    !.ids = IF hit THEN cached ELSE <<>>,
                    !.pc = IF ~hit THEN "load" ELSE IF cached = <<>> THEN "nothing" ELSE "draw"]]
  BY DEF Banner!Start
<1>2. PICK some \in BOOLEAN : some = (Banner!ActiveIn(banner) # {})
  BY Zenon
<1>3. PICK excused \in BOOLEAN : excused = (hit /\ (old \/ Banner!Pending))
  BY Zenon
<1>4. hit => cached # NoList
  OBVIOUS
<1>5. PICK ids : ids = IF hit THEN cached ELSE <<>>
  OBVIOUS
<1>6. ids \in Seq(Banners)
  BY <1>4, <1>5, BannerNow
<1>7. PICK pc \in {"load", "nothing", "draw"} : pc = IF ~hit THEN "load" ELSE IF cached = <<>> THEN "nothing" ELSE "draw"
  OBVIOUS
<1>8. PICK n : n = [Banner!Idle EXCEPT !.some = some, !.excused = excused, !.ids = ids, !.pc = pc]
  OBVIOUS
<1>9. show' = [show EXCEPT ![q] = n]
  BY <1>1, <1>2, <1>3, <1>5, <1>7, <1>8
<1>10. n \in BannerRequest /\ n.pc = pc /\ n.ids = ids /\ n.some = some /\ n.excused = excused
  BY <1>6, <1>8 DEF Banner!Idle, BannerRequest, Banner!Steps, Banner!States
<1>11. show[q].pc = "idle" /\ UNCHANGED <<banner, total, cached, cursor, admin, served, cut, old>>
  BY DEF Banner!Start, Banner!At
<1>12. pc = "nothing" /\ some => excused
  <2> SUFFICES ASSUME pc = "nothing", some, ~excused PROVE FALSE
    OBVIOUS
  <2>1. hit /\ cached = <<>> /\ cached # NoList
    BY <1>4, <1>7
  <2>2. ~old /\ ~Banner!Pending
    BY <1>3, <2>1
  <2>3. Banner!active_ids = <<>>
    BY <2>1, <2>2 DEF BannerInv, ListFollows
  <2> QED
    BY <1>2, <2>3, ActiveIds
<1>13. Follows(banner, total, n)
  <2>1. pc = "draw" => ids # <<>>
    BY <1>5, <1>7
  <2>2. n.some => Banner!ActiveIn(banner) # {}
    BY <1>2, <1>10
  <2> QED
    BY <1>7, <1>10, <1>12, <2>1, <2>2 DEF Follows
<1>14. n.pc \notin {"total", "insert"}
  BY <1>7, <1>10
<1>15. old' \in BOOLEAN
  BY <1>11, BannerFlags
<1> QED
  BY <1>9, <1>10, <1>11, <1>13, <1>14, <1>15, BannerNow, ShowMoves

LEMMA KeepsLoad == ASSUME BannerBounds, BannerInv, NEW q \in Actors, Banner!Load(q) PROVE BannerInv'
<1>1. PICK ids \in Seq(Banners) : ids = Banner!active_ids
  BY ActiveIds
<1>2. PICK n : n = [show[q] EXCEPT !.pc = "store", !.ids = ids]
  OBVIOUS
<1>3. /\ show[q].pc = "load" /\ show' = [show EXCEPT ![q] = n]
      /\ UNCHANGED <<banner, total, cached, cursor, admin, served, cut, old>>
  BY <1>1, <1>2, BannerNow DEF Banner!Load, Banner!At, BannerRequest
<1>4. n \in BannerRequest /\ n.pc = "store" /\ n.ids = ids /\ n.some = show[q].some
  BY <1>1, <1>2, BannerNow DEF BannerRequest, Banner!Steps
<1>5. Follows(banner, total, n)
  BY <1>1, <1>4, BannerNow, ActiveIds DEF Follows
<1> QED
  BY <1>3, <1>4, <1>5, BannerNow, BannerFlags, ShowMoves

LEMMA KeepsBannerStore == ASSUME BannerBounds, BannerInv, NEW q \in Actors, Banner!Store(q) PROVE BannerInv'
<1>1. PICK pc \in {"nothing", "draw"} : pc = IF show[q].ids = <<>> THEN "nothing" ELSE "draw"
  OBVIOUS
<1>2. PICK n : n = [show[q] EXCEPT !.pc = pc]
  OBVIOUS
<1>3. /\ show[q].pc = "store" /\ show' = [show EXCEPT ![q] = n]
      /\ UNCHANGED <<banner, total, cursor, admin, served, cut>>
  BY <1>1, <1>2 DEF Banner!Store, Banner!At, Banner!Go
<1>4. n \in BannerRequest /\ n.pc = pc /\ n.ids = show[q].ids /\ n.some = show[q].some
  BY <1>1, <1>2, BannerNow DEF BannerRequest, Banner!Steps
<1>5. Follows(banner, total, n)
  BY <1>1, <1>3, <1>4, BannerNow DEF Follows
<1>6. \/ cached' = show[q].ids /\ old' = (show[q].ids # Banner!active_ids)
      \/ UNCHANGED <<cached, old>>
  BY DEF Banner!Store
<1>7. old' \in BOOLEAN
  BY <1>6, BannerFlags, Zenon
<1>8. cached' = NoList \/ cached' \in Seq(Banners)
  BY <1>6, BannerNow
<1>9. old' \/ cached' = Banner!active_ids \/ (cached' = cached /\ old' = old)
  BY <1>6, Zenon
<1>10. cursor' \in Nat
  BY <1>3, BannerNow
<1> QED
  BY <1>1, <1>3, <1>4, <1>5, <1>7, <1>8, <1>9, <1>10, ShowMoves

LEMMA KeepsDraw == ASSUME BannerBounds, BannerInv, NEW q \in Actors, Banner!Draw(q) PROVE BannerInv'
<1>1. PICK ad : ad = show[q].ids[(cursor % Len(show[q].ids)) + 1]
  OBVIOUS
<1>2. PICK n : n = [show[q] EXCEPT !.pc = "count", !.ad = ad]
  OBVIOUS
<1>3. show[q].pc = "draw" /\ cursor' = cursor + 1 /\ UNCHANGED <<banner, total, cached, admin, served, cut, old>>
  BY DEF Banner!Draw, Banner!At
<1>4. show' = [show EXCEPT ![q] = n]
  BY <1>1, <1>2, BannerNow DEF Banner!Draw, BannerRequest
<1>5. ad \in Banners
  BY <1>1, <1>3, BannerNow, TurnOf DEF Follows
<1>6. n \in BannerRequest /\ n.pc = "count" /\ n.ad = ad /\ n.some = show[q].some
  BY <1>2, <1>5, BannerNow DEF BannerRequest, Banner!Steps
<1>7. Follows(banner, total, n)
  BY <1>3, <1>5, <1>6, BannerNow DEF Follows
<1>8. cursor' \in Nat /\ (cached' = NoList \/ cached' \in Seq(Banners))
  BY <1>3, BannerNow
<1>9. old' \in BOOLEAN
  BY <1>3, BannerFlags
<1> QED
  BY <1>3, <1>4, <1>6, <1>7, <1>8, <1>9, ShowMoves

LEMMA KeepsDrawFails == ASSUME BannerBounds, BannerInv, NEW q \in Actors, Banner!DrawFails(q) PROVE BannerInv'
<1> DEFINE none == <<>>
<1>0. none \in Seq(Banners)
  OBVIOUS
<1>1. PICK n : n = [show[q] EXCEPT !.pc = "clear", !.ids = none]
  OBVIOUS
<1>2. show[q].pc = "draw" /\ cursor' \in {cursor, cursor + 1} /\ UNCHANGED <<banner, total, cached, admin, served, cut, old>>
  BY DEF Banner!DrawFails, Banner!At
<1>3. show' = [show EXCEPT ![q] = n]
  BY <1>1, BannerNow DEF Banner!DrawFails, BannerRequest
<1>4. n \in BannerRequest /\ n.pc = "clear" /\ n.some = show[q].some
  <2> HIDE DEF none
  <2> QED
    BY <1>0, <1>1, BannerNow DEF BannerRequest, Banner!Steps
<1>5. Follows(banner, total, n)
  BY <1>2, <1>4, BannerNow DEF Follows
<1>6. cursor' \in Nat
  BY <1>2, BannerNow
<1> QED
  BY <1>2, <1>3, <1>4, <1>5, <1>6, BannerNow, BannerFlags, ShowMoves

LEMMA ViewCounted ==
    ASSUME banner \in [Banners -> Banner!Row], NEW b \in Banners, banner' = [banner EXCEPT ![b].view_count = @ + 1]
    PROVE  banner' \in [Banners -> Banner!Row] /\ Banner!ActiveIn(banner') = Banner!ActiveIn(banner)
<1>1. PICK r \in Banner!Row : r = banner[b]
  OBVIOUS
<1>2. PICK v \in Nat : v = r.view_count + 1
  BY <1>1 DEF Banner!Row
<1>3. PICK n : n = [r EXCEPT !.view_count = v]
  OBVIOUS
<1>4. n \in Banner!Row /\ n.state = r.state
  BY <1>1, <1>2, <1>3 DEF Banner!Row
<1>5. banner' = [banner EXCEPT ![b] = n]
  BY <1>1, <1>2, <1>3
<1>6. banner' \in [Banners -> Banner!Row] /\ \A c \in Banners : banner'[c].state = banner[c].state
  BY <1>1, <1>4, <1>5
<1> QED
  BY <1>6 DEF Banner!ActiveIn

LEMMA KeepsCountTaken == ASSUME BannerBounds, BannerInv, NEW q \in Actors, Banner!Count(q), Banner!Takes(show[q].ad) PROVE BannerInv'
<1> DEFINE none == <<>>
<1>0. none \in Seq(Banners)
  OBVIOUS
<1>1. PICK b : b = show[q].ad
  OBVIOUS
<1>2. show[q].pc = "count" /\ b \in Banners /\ banner[b].state = "active"
  BY <1>1, BannerNow DEF Banner!Count, Banner!At, Banner!Takes, Follows
<1>3. PICK n : n = [show[q] EXCEPT !.pc = "total", !.ids = none, !.found = "active"]
  OBVIOUS
<1>4. /\ banner' = [banner EXCEPT ![b].view_count = @ + 1] /\ served' = served + 1
      /\ UNCHANGED <<total, cached, cursor, admin, cut, old>>
  BY <1>1 DEF Banner!Count
<1>5. show' = [show EXCEPT ![q] = n]
  BY <1>1, <1>2, <1>3, BannerNow DEF Banner!Count, BannerRequest
<1>6. n \in BannerRequest /\ n.pc = "total" /\ n.found = "active" /\ n.ad = b /\ n.some = show[q].some
  <2> HIDE DEF none
  <2> QED
    BY <1>0, <1>1, <1>3, BannerNow DEF BannerRequest, Banner!Steps, Banner!States
<1>7. Follows(banner, total, n)
  BY <1>2, <1>6, BannerNow DEF Follows
<1>8. banner' \in [Banners -> Banner!Row] /\ Banner!ActiveIn(banner') = Banner!ActiveIn(banner)
  BY <1>2, <1>4, BannerNow, ViewCounted
<1>9. Cardinality(OnWay') = Cardinality(OnWay) + 1
  BY <1>2, <1>5, <1>6, BannerNow, Joins
<1>10. served' = (IF total' = NoTotal THEN 0 ELSE total') + cut' + Cardinality(OnWay')
  <2>1. PICK t \in Nat : t = IF total = NoTotal THEN 0 ELSE total
    BY BannerNow
  <2>2. served = t + cut + Cardinality(OnWay) /\ cut \in Nat /\ served \in Nat /\ Cardinality(OnWay) \in Nat
    BY <2>1, BannerNow
  <2>3. served + 1 = t + cut + (Cardinality(OnWay) + 1)
    BY <2>2
  <2> QED
    BY <1>4, <1>9, <2>1, <2>3
<1>11. /\ total' \in Nat \cup {NoTotal} /\ (total # NoTotal => total' # NoTotal)
       /\ (cached' = NoList \/ cached' \in Seq(Banners)) /\ cursor' \in Nat /\ served' \in Nat /\ cut' \in Nat
  BY <1>4, BannerNow
<1>12. old' \in BOOLEAN
  BY <1>4, BannerFlags
<1>13. Follows(banner, total', n)
  BY <1>4, <1>7
<1> QED
  BY <1>4, <1>5, <1>6, <1>8, <1>10, <1>11, <1>12, <1>13, ShowSteps

LEMMA KeepsCountRefused == ASSUME BannerBounds, BannerInv, NEW q \in Actors, Banner!Count(q), ~Banner!Takes(show[q].ad) PROVE BannerInv'
<1> DEFINE none == <<>>
<1>0. none \in Seq(Banners)
  OBVIOUS
<1>1. PICK n : n = [show[q] EXCEPT !.pc = "forget", !.ids = none]
  OBVIOUS
<1>2. show[q].pc = "count" /\ UNCHANGED <<banner, served, total, cached, cursor, admin, cut, old>>
  BY DEF Banner!Count, Banner!At
<1>3. show' = [show EXCEPT ![q] = n]
  BY <1>1, BannerNow DEF Banner!Count, BannerRequest
<1>4. n \in BannerRequest /\ n.pc = "forget" /\ n.some = show[q].some
  <2> HIDE DEF none
  <2> QED
    BY <1>0, <1>1, BannerNow DEF BannerRequest, Banner!Steps
<1>5. Follows(banner, total, n)
  BY <1>4, BannerNow DEF Follows
<1>6. cursor' \in Nat /\ (cached' = NoList \/ cached' \in Seq(Banners))
  BY <1>2, BannerNow
<1>7. old' \in BOOLEAN
  BY <1>2, BannerFlags
<1> QED
  BY <1>2, <1>3, <1>4, <1>5, <1>6, <1>7, ShowMoves

LEMMA KeepsIncrement == ASSUME BannerBounds, BannerInv, NEW q \in Actors, Banner!Increment(q) PROVE BannerInv'
<1>1. PICK pc \in {"insert", "fetch"} :
        /\ show' = [show EXCEPT ![q].pc = pc] /\ show[q].pc \in {"total", "insert"}
        /\ \/ pc = "insert" /\ total' = total
           \/ pc = "fetch" /\ total # NoTotal /\ total' = total + 1
           \/ pc = "fetch" /\ total = NoTotal /\ total' = 1
  BY DEF Banner!Increment, Banner!At, Banner!Go, Banner!AfterInsert
<1>2. UNCHANGED <<banner, cached, cursor, admin, served, cut, old>>
  BY DEF Banner!Increment
<1>3. PICK n : n = [show[q] EXCEPT !.pc = pc]
  OBVIOUS
<1>4. show' = [show EXCEPT ![q] = n]
  BY <1>1, <1>3
<1>5. n \in BannerRequest /\ n.pc = pc /\ n.found = show[q].found /\ n.ad = show[q].ad /\ n.some = show[q].some
  BY <1>1, <1>3, BannerNow DEF BannerRequest, Banner!Steps
<1>6. Follows(banner, total', n)
  BY <1>1, <1>5, BannerNow DEF Follows
<1>7. total' \in Nat \cup {NoTotal} /\ (total # NoTotal => total' # NoTotal)
  BY <1>1, BannerNow DEF BannerBounds
<1>8. served' = (IF total' = NoTotal THEN 0 ELSE total') + cut' + Cardinality(OnWay')
  <2>1. CASE pc = "insert"
    <3>1. Cardinality(OnWay') = Cardinality(OnWay)
      BY <1>1, <1>4, <1>5, <2>1, BannerNow, Stays
    <3> QED
      BY <1>1, <1>2, <2>1, <3>1, BannerNow
  <2>2. CASE pc = "fetch"
    <3>1. Cardinality(OnWay') = Cardinality(OnWay) - 1
      BY <1>1, <1>4, <1>5, <2>2, BannerNow, Leaves
    <3>2. PICK t \in Nat : t = IF total = NoTotal THEN 0 ELSE total
      BY BannerNow
    <3>3. (IF total' = NoTotal THEN 0 ELSE total') = t + 1
      BY <1>1, <2>2, <3>2, BannerNow DEF BannerBounds
    <3>4. served = t + cut + Cardinality(OnWay) /\ cut \in Nat /\ Cardinality(OnWay) \in Nat
      BY <3>2, BannerNow
    <3>5. served = (t + 1) + cut + (Cardinality(OnWay) - 1)
      BY <3>4
    <3> QED
      BY <1>2, <3>1, <3>3, <3>5
  <2> QED
    BY <1>1, <2>1, <2>2
<1>9. /\ (cached' = NoList \/ cached' \in Seq(Banners)) /\ cursor' \in Nat /\ served' \in Nat /\ cut' \in Nat
      /\ banner' \in [Banners -> Banner!Row] /\ Banner!ActiveIn(banner') = Banner!ActiveIn(banner)
  BY <1>2, BannerNow
<1>10. old' \in BOOLEAN
  BY <1>2, BannerFlags
<1> QED
  BY <1>2, <1>4, <1>5, <1>6, <1>7, <1>8, <1>9, <1>10, ShowSteps

LEMMA KeepsFetch == ASSUME BannerBounds, BannerInv, NEW q \in Actors, Banner!Fetch(q) PROVE BannerInv'
<1>1. show[q].pc = "fetch" /\ UNCHANGED <<banner, total, cached, cursor, admin, served, cut, old>>
  BY DEF Banner!Fetch, Banner!At
<1>2. CASE banner[show[q].ad].state = "none"
  <2>1. PICK n : n = [show[q] EXCEPT !.pc = "clear", !.ad = 0, !.found = "none"]
    OBVIOUS
  <2>2. show' = [show EXCEPT ![q] = n]
    BY <1>2, <2>1, BannerNow DEF Banner!Fetch, BannerRequest
  <2>3. n \in BannerRequest /\ n.pc = "clear" /\ n.some = show[q].some
    BY <2>1, BannerNow DEF BannerRequest, Banner!Steps, Banner!States
  <2>4. Follows(banner, total, n)
    BY <2>3, BannerNow DEF Follows
  <2> QED
    BY <1>1, <2>2, <2>3, <2>4, BannerNow, BannerFlags, ShowMoves
<1>3. CASE banner[show[q].ad].state # "none"
  <2>1. PICK n : n = [show[q] EXCEPT !.pc = "served"]
    OBVIOUS
  <2>2. show' = [show EXCEPT ![q] = n]
    BY <1>3, <2>1 DEF Banner!Fetch
  <2>3. n \in BannerRequest /\ n.pc = "served" /\ n.some = show[q].some /\ n.found = show[q].found
    BY <2>1, BannerNow DEF BannerRequest, Banner!Steps
  <2>4. Follows(banner, total, n)
    BY <1>1, <2>3, BannerNow DEF Follows
  <2> QED
    BY <1>1, <2>2, <2>3, <2>4, BannerNow, BannerFlags, ShowMoves
<1> QED
  BY <1>2, <1>3

LEMMA Forgotten ==
    ASSUME BannerInv, Banner!Forget
    PROVE  old' \in BOOLEAN /\ (cached' = NoList \/ (cached' = cached /\ old' = TRUE))
<1>1. CASE cached' = NoList /\ old' = FALSE
  BY <1>1
<1>2. CASE old' = (cached # NoList) /\ cached' = cached
  <2>1. old' \in BOOLEAN
    BY <1>2, Zenon
  <2>2. cached' = NoList \/ old' = TRUE
    BY <1>2, Zenon
  <2> QED
    BY <1>2, <2>1, <2>2
<1> QED
  BY <1>1, <1>2 DEF Banner!Forget

LEMMA KeepsClear == ASSUME BannerBounds, BannerInv, NEW q \in Actors, Banner!Clear(q) PROVE BannerInv'
<1>1. PICK pc \in {"clear", "choose"} : show' = [show EXCEPT ![q].pc = pc] /\ show[q].pc \in {"forget", "clear"}
  BY DEF Banner!Clear, Banner!At, Banner!Go, Banner!AfterClear
<1>2. UNCHANGED <<banner, total, cursor, admin, served, cut>> /\ Banner!Forget
  BY DEF Banner!Clear
<1>3. PICK n : n = [show[q] EXCEPT !.pc = pc]
  OBVIOUS
<1>4. show' = [show EXCEPT ![q] = n]
  BY <1>1, <1>3
<1>5. n \in BannerRequest /\ n.pc = pc /\ n.some = show[q].some
  BY <1>1, <1>3, BannerNow DEF BannerRequest, Banner!Steps
<1>6. Follows(banner, total, n)
  BY <1>1, <1>5, BannerNow DEF Follows
<1>7. /\ old' \in BOOLEAN /\ (cached' = NoList \/ cached' \in Seq(Banners)) /\ cursor' \in Nat
      /\ (cached' = NoList \/ old' \/ cached' = Banner!active_ids \/ (cached' = cached /\ old' = old))
  BY <1>2, BannerNow, Forgotten
<1> QED
  BY <1>1, <1>2, <1>4, <1>5, <1>6, <1>7, ShowMoves

LEMMA KeepsChoose == ASSUME BannerBounds, BannerInv, NEW q \in Actors, Banner!Choose(q) PROVE BannerInv'
<1>1. PICK ids \in Seq(Banners) : ids = Banner!active_ids
  BY ActiveIds
<1>2. PICK t \in Nat : t = IF total = NoTotal THEN 0 ELSE total
  BY BannerNow
<1>3. show[q].pc = "choose" /\ total' = t /\ UNCHANGED <<banner, cached, cursor, admin, served, cut, old>>
  BY <1>2 DEF Banner!Choose, Banner!At
<1>4. PICK n : n = IF ids = <<>> THEN [show[q] EXCEPT !.pc = "nothing"]
                   ELSE [show[q] EXCEPT !.pc = "commit", !.ad = ids[(t % Len(ids)) + 1], !.found = "active"]
  OBVIOUS
<1>5. show' = [show EXCEPT ![q] = n]
  <2>1. CASE ids = <<>>
    BY <1>1, <1>4, <2>1 DEF Banner!Choose
  <2>2. CASE ids # <<>>
    BY <1>1, <1>2, <1>4, <2>2, BannerNow DEF Banner!Choose, BannerRequest
  <2> QED
    BY <2>1, <2>2
<1>6. n \in BannerRequest /\ n.pc \in {"nothing", "commit"} /\ Follows(banner, total', n)
  <2>1. CASE ids = <<>>
    <3>1. n \in BannerRequest /\ n.pc = "nothing" /\ n.some = show[q].some
      BY <1>4, <2>1, BannerNow DEF BannerRequest, Banner!Steps
    <3>2. Banner!ActiveIn(banner) = {}
      BY <1>1, <2>1, ActiveIds
    <3>3. ~n.some
      BY <3>1, <3>2, BannerNow DEF Follows
    <3> QED
      BY <3>1, <3>3 DEF Follows
  <2>2. CASE ids # <<>>
    <3>1. PICK ad \in Banners : ad = ids[(t % Len(ids)) + 1]
      BY <2>2, TurnOf
    <3>2. n \in BannerRequest /\ n.pc = "commit" /\ n.ad = ad /\ n.found = "active" /\ n.some = show[q].some
      BY <1>4, <2>2, <3>1, BannerNow DEF BannerRequest, Banner!Steps, Banner!States
    <3>3. total' # NoTotal
      BY <1>2, <1>3 DEF BannerBounds
    <3> QED
      BY <3>2, <3>3, BannerNow DEF Follows
  <2> QED
    BY <2>1, <2>2
<1>7. Cardinality(OnWay') = Cardinality(OnWay)
  BY <1>3, <1>5, <1>6, BannerNow, Stays
<1>8. served' = (IF total' = NoTotal THEN 0 ELSE total') + cut' + Cardinality(OnWay')
  <2>1. (IF total' = NoTotal THEN 0 ELSE total') = t
    BY <1>2, <1>3 DEF BannerBounds
  <2> QED
    BY <1>2, <1>3, <1>7, <2>1, BannerNow
<1>9. /\ (cached' = NoList \/ cached' \in Seq(Banners)) /\ cursor' \in Nat /\ served' \in Nat /\ cut' \in Nat
      /\ banner' \in [Banners -> Banner!Row] /\ Banner!ActiveIn(banner') = Banner!ActiveIn(banner)
      /\ total' \in Nat /\ total' # NoTotal
  BY <1>2, <1>3, BannerNow DEF BannerBounds
<1>10. old' \in BOOLEAN
  BY <1>3, BannerFlags
<1> QED
  BY <1>3, <1>5, <1>6, <1>8, <1>9, <1>10, ShowSteps

LEMMA KeepsBannerCommit == ASSUME BannerBounds, BannerInv, NEW q \in Actors, Banner!Commit(q) PROVE BannerInv'
<1>1. show[q].pc = "commit" /\ UNCHANGED <<cached, cursor, admin, cut, old>>
  BY DEF Banner!Commit, Banner!At
<1>2. PICK b \in Banners : b = show[q].ad
  BY <1>1, BannerNow DEF Follows
<1>3. total \in Nat /\ total # NoTotal
  BY <1>1, BannerNow DEF Follows
<1>4. old' \in BOOLEAN /\ (cached' = NoList \/ cached' \in Seq(Banners)) /\ cursor' \in Nat /\ cut' \in Nat
  BY <1>1, BannerNow, BannerFlags
<1>5. CASE banner[b].state # "none"
  <2>1. PICK n : n = [show[q] EXCEPT !.pc = "served"]
    OBVIOUS
  <2>2. banner' = [banner EXCEPT ![b].view_count = @ + 1] /\ total' = total + 1 /\ served' = served + 1
    BY <1>2, <1>5 DEF Banner!Commit
  <2>3. show' = [show EXCEPT ![q] = n]
    BY <1>2, <1>5, <2>1 DEF Banner!Commit, Banner!Go
  <2>4. n \in BannerRequest /\ n.pc = "served" /\ n.found = show[q].found /\ n.some = show[q].some
    BY <2>1, BannerNow DEF BannerRequest, Banner!Steps
  <2>5. Follows(banner, total', n)
    BY <1>1, <2>4, BannerNow DEF Follows
  <2>6. banner' \in [Banners -> Banner!Row] /\ Banner!ActiveIn(banner') = Banner!ActiveIn(banner)
    BY <2>2, BannerNow, ViewCounted
  <2>7. Cardinality(OnWay') = Cardinality(OnWay)
    BY <1>1, <2>3, <2>4, BannerNow, Stays
  <2>8. total' \in Nat /\ total' # NoTotal /\ served' \in Nat
    BY <1>3, <2>2, BannerNow DEF BannerBounds
  <2>9. served' = (IF total' = NoTotal THEN 0 ELSE total') + cut' + Cardinality(OnWay')
    <3>1. served = total + cut + Cardinality(OnWay) /\ cut \in Nat /\ Cardinality(OnWay) \in Nat
      BY <1>3, BannerNow
    <3>2. served + 1 = (total + 1) + cut + Cardinality(OnWay)
      BY <1>3, <3>1
    <3> QED
      BY <1>1, <2>2, <2>7, <2>8, <3>2
  <2> QED
    BY <1>1, <1>4, <2>3, <2>4, <2>5, <2>6, <2>8, <2>9, ShowSteps
<1>6. CASE banner[b].state = "none"
  <2>1. PICK n : n = [show[q] EXCEPT !.pc = "error"]
    OBVIOUS
  <2>2. UNCHANGED <<banner, total, served>> /\ show' = [show EXCEPT ![q] = n]
    BY <1>2, <1>6, <2>1 DEF Banner!Commit, Banner!Go
  <2>3. n \in BannerRequest /\ n.pc = "error" /\ n.some = show[q].some
    BY <2>1, BannerNow DEF BannerRequest, Banner!Steps
  <2>4. Follows(banner, total, n)
    BY <2>3, BannerNow DEF Follows
  <2> QED
    BY <1>1, <1>4, <2>2, <2>3, <2>4, ShowMoves
<1> QED
  BY <1>5, <1>6

LEMMA KeepsAnswer == ASSUME BannerBounds, BannerInv, NEW q \in Actors, Banner!Answer(q) PROVE BannerInv'
<1>1. PICK n : n = Banner!Idle
  OBVIOUS
<1>2. /\ show[q].pc \in {"served", "nothing", "error"} /\ show' = [show EXCEPT ![q] = n]
      /\ UNCHANGED <<banner, total, cached, cursor, admin, served, cut, old>>
  BY <1>1 DEF Banner!Answer
<1>3. n \in BannerRequest /\ n.pc = "idle" /\ Follows(banner, total, n)
  BY <1>1, BannerIdleIs DEF Follows
<1> QED
  BY <1>2, <1>3, BannerNow, BannerFlags, ShowMoves

LEMMA KeepsBannerCrash == ASSUME BannerBounds, BannerInv, NEW q \in Actors, Banner!Crash(q) PROVE BannerInv'
<1>1. PICK n : n = Banner!Idle
  OBVIOUS
<1>2. /\ show' = [show EXCEPT ![q] = n] /\ cut' = cut + (IF show[q].pc \in {"total", "insert"} THEN 1 ELSE 0)
      /\ UNCHANGED <<banner, total, cached, cursor, admin, served, old>>
  BY <1>1 DEF Banner!Crash
<1>3. n \in BannerRequest /\ n.pc = "idle" /\ Follows(banner, total, n)
  BY <1>1, BannerIdleIs DEF Follows
<1>4. PICK t \in Nat : t = IF total = NoTotal THEN 0 ELSE total
  BY BannerNow
<1>5. served = t + cut + Cardinality(OnWay) /\ cut \in Nat /\ Cardinality(OnWay) \in Nat
  BY <1>4, BannerNow
<1>6. cut' \in Nat /\ served' = t + cut' + Cardinality(OnWay')
  <2>1. CASE q \in OnWay
    <3>1. Cardinality(OnWay') = Cardinality(OnWay) - 1
      BY <1>2, <1>3, <2>1, BannerNow, Leaves
    <3>2. cut' = cut + 1
      BY <1>2, <2>1, BannerNow
    <3> QED
      BY <1>2, <1>5, <3>1, <3>2
  <2>2. CASE q \notin OnWay
    <3>1. Cardinality(OnWay') = Cardinality(OnWay)
      BY <1>2, <1>3, <2>2, BannerNow, Stays
    <3>2. cut' = cut
      BY <1>2, <1>5, <2>2, BannerNow
    <3> QED
      BY <1>2, <1>5, <3>1, <3>2
  <2> QED
    BY <2>1, <2>2
<1>7. served' = (IF total' = NoTotal THEN 0 ELSE total') + cut' + Cardinality(OnWay')
  BY <1>2, <1>4, <1>6
<1>8. /\ total' \in Nat \cup {NoTotal} /\ (total # NoTotal => total' # NoTotal)
      /\ (cached' = NoList \/ cached' \in Seq(Banners)) /\ cursor' \in Nat /\ served' \in Nat
      /\ banner' \in [Banners -> Banner!Row] /\ Banner!ActiveIn(banner') = Banner!ActiveIn(banner)
  BY <1>2, BannerNow
<1>9. old' \in BOOLEAN
  BY <1>2, BannerFlags
<1>10. Follows(banner, total', n)
  BY <1>2, <1>3
<1> QED
  BY <1>2, <1>3, <1>6, <1>7, <1>8, <1>9, <1>10, ShowSteps

(* An administrator's save: it is followed by the deletion of the list.        *)
LEMMA BannerSaved ==
    ASSUME BannerBounds, BannerInv, NEW rows \in [Banners -> Banner!Row], Banner!Save(rows),
           NEW a \in Admins, NEW m \in BannerEdit, admin' = [admin EXCEPT ![a] = m], m.pc = "invalidate",
           UNCHANGED <<total, cached, cursor, served, cut, old>>
    PROVE  BannerInv'
<1>1. PICK some \in BOOLEAN : some = (Banner!ActiveIn(rows) # {})
  BY Zenon
<1>2. banner' = rows /\ show' = [q \in Actors |-> [show[q] EXCEPT !.some = @ /\ some]]
  BY <1>1 DEF Banner!Save
<1>3. ASSUME NEW q \in Actors
      PROVE  show'[q] \in BannerRequest /\ Follows(rows, total, show'[q]) /\ show'[q].pc = show[q].pc
  <2>1. PICK s \in BOOLEAN : s = (show[q].some /\ some)
    BY BannerFlags, Zenon
  <2>2. PICK n : n = [show[q] EXCEPT !.some = s]
    OBVIOUS
  <2>3. show'[q] = n
    BY <1>2, <2>1, <2>2
  <2>4. /\ n \in BannerRequest /\ n.pc = show[q].pc /\ n.ids = show[q].ids /\ n.ad = show[q].ad /\ n.some = s
        /\ n.excused = show[q].excused /\ n.found = show[q].found
    BY <2>2, BannerNow DEF BannerRequest
  <2>5. Follows(rows, total, n)
    BY <1>1, <2>1, <2>4, BannerNow DEF Follows
  <2> QED
    BY <2>3, <2>4, <2>5
<1>4. show' \in [Actors -> BannerRequest]
  BY <1>2, <1>3
<1>5. \A q \in Actors : show'[q].pc \in Banner!Steps /\ show'[q].ids \in Seq(Banners) /\ show'[q].found \in Banner!States
  BY <1>3 DEF BannerRequest
<1>6. admin' \in [Admins -> BannerEdit] /\ admin'[a].pc = "invalidate" /\ (\A c \in Admins \ {a} : admin'[c] = admin[c])
  BY DEF BannerInv
<1>7. \A c \in Admins : admin'[c].pc \in {"idle", "save", "invalidate"}
  BY <1>6 DEF BannerEdit
<1>8. old' \in BOOLEAN
  BY Zenon DEF BannerInv, Banner!TypeOK
<1>9. /\ total' \in Nat \cup {NoTotal} /\ (cached' = NoList \/ cached' \in Seq(Banners))
      /\ cursor' \in Nat /\ served' \in Nat /\ cut' \in Nat
  BY DEF BannerInv, Banner!TypeOK
<1>10. Banner!TypeOK'
  BY <1>2, <1>5, <1>7, <1>8, <1>9, Zenon DEF Banner!TypeOK
<1>11. \A c \in Admins : admin'[c].pc = "save" => admin'[c].ad \in Banners
  BY <1>6 DEF BannerInv
<1>12. \A q \in Actors : Follows(banner', total', show'[q])
  BY <1>2, <1>3
<1>13. ListFollows'
  BY <1>6 DEF ListFollows, Banner!Pending
<1>14. OnWay' = OnWay
  BY <1>3 DEF OnWay
<1>15. Banner!TotalAgrees'
  <2>1. served = (IF total = NoTotal THEN 0 ELSE total) + cut + Cardinality(OnWay)
    BY SameCount DEF BannerInv, Banner!TotalAgrees, OnWay
  <2>2. served' = (IF total' = NoTotal THEN 0 ELSE total') + cut' + Cardinality(OnWay')
    BY <1>14, <2>1
  <2> QED
    BY <2>2, SameCount DEF Banner!TotalAgrees, OnWay
<1> QED
  BY <1>4, <1>6, <1>10, <1>11, <1>12, <1>13, <1>15 DEF BannerInv

LEMMA KeepsCreate ==
    ASSUME BannerBounds, BannerInv, NEW a \in Admins, NEW b \in Banners, NEW state \in {"active", "inactive"},
           Banner!Create(a, b, state)
    PROVE  BannerInv'
<1>1. PICK m : m = [admin[a] EXCEPT !.pc = "invalidate"]
  OBVIOUS
<1>2. PICK rows : rows = [banner EXCEPT ![b].state = state]
  OBVIOUS
<1>3. Banner!Save(rows) /\ admin' = [admin EXCEPT ![a] = m] /\ UNCHANGED <<total, cached, cursor, served, cut, old>>
  BY <1>1, <1>2 DEF Banner!Create
<1>4. m \in BannerEdit /\ m.pc = "invalidate"
  BY <1>1 DEF BannerInv, BannerEdit
<1>5. rows \in [Banners -> Banner!Row]
  BY <1>2 DEF BannerInv, Banner!TypeOK, Banner!Row, Banner!States
<1> QED
  BY <1>3, <1>4, <1>5, BannerSaved

LEMMA KeepsBannerDelete ==
    ASSUME BannerBounds, BannerInv, NEW a \in Admins, NEW b \in Banners, Banner!Delete(a, b) PROVE BannerInv'
<1>1. PICK m : m = [admin[a] EXCEPT !.pc = "invalidate"]
  OBVIOUS
<1>2. PICK rows : rows = [banner EXCEPT ![b].state = "none"]
  OBVIOUS
<1>3. Banner!Save(rows) /\ admin' = [admin EXCEPT ![a] = m] /\ UNCHANGED <<total, cached, cursor, served, cut, old>>
  BY <1>1, <1>2 DEF Banner!Delete
<1>4. m \in BannerEdit /\ m.pc = "invalidate"
  BY <1>1 DEF BannerInv, BannerEdit
<1>5. rows \in [Banners -> Banner!Row]
  BY <1>2 DEF BannerInv, Banner!TypeOK, Banner!Row, Banner!States
<1> QED
  BY <1>3, <1>4, <1>5, BannerSaved

LEMMA KeepsEdit ==
    ASSUME BannerBounds, BannerInv, NEW a \in Admins, NEW state \in {"active", "inactive"}, Banner!Edit(a, state) PROVE BannerInv'
<1>1. PICK m : m = [Banner!IdleAdmin EXCEPT !.pc = "invalidate"]
  OBVIOUS
<1>2. admin[a].pc = "save" /\ admin[a] \in BannerEdit
  BY DEF BannerInv, Banner!Edit
<1>3. PICK b \in Banners : b = admin[a].ad
  BY <1>2 DEF BannerInv
<1>4. PICK v \in Nat : v = admin[a].views
  BY <1>2 DEF BannerEdit
<1>5. PICK rows : rows = [banner EXCEPT ![b] = [state |-> state, view_count |-> v]]
  OBVIOUS
<1>6. Banner!Save(rows) /\ admin' = [admin EXCEPT ![a] = m] /\ UNCHANGED <<total, cached, cursor, served, cut, old>>
  BY <1>1, <1>3, <1>4, <1>5 DEF Banner!Edit
<1>7. m \in BannerEdit /\ m.pc = "invalidate"
  BY <1>1 DEF Banner!IdleAdmin, BannerEdit
<1>8. rows \in [Banners -> Banner!Row]
  BY <1>5 DEF BannerInv, Banner!TypeOK, Banner!Row, Banner!States
<1> QED
  BY <1>6, <1>7, <1>8, BannerSaved

(* An administrator's step that changes no banner.                             *)
LEMMA AdminMoves ==
    ASSUME BannerBounds, BannerInv, NEW a \in Admins, NEW m \in BannerEdit, admin' = [admin EXCEPT ![a] = m],
           m.pc = "save" => m.ad \in Banners, UNCHANGED <<banner, total, cursor, show, served, cut>>,
           old' \in BOOLEAN, cached' = NoList \/ cached' \in Seq(Banners),
           cached' = NoList \/ old' \/ (cached' = cached /\ old' = old /\ admin[a].pc # "invalidate")
    PROVE  BannerInv'
<1>1. admin' \in [Admins -> BannerEdit] /\ admin'[a] = m /\ (\A c \in Admins \ {a} : admin'[c] = admin[c])
  BY DEF BannerInv
<1>2. \A c \in Admins : admin'[c].pc \in {"idle", "save", "invalidate"}
  BY <1>1 DEF BannerEdit
<1>3. \A q \in Actors : show'[q].pc \in Banner!Steps /\ show'[q].ids \in Seq(Banners) /\ show'[q].found \in Banner!States
  BY DEF BannerInv, Banner!TypeOK
<1>4. banner' \in [Banners -> Banner!Row] /\ total' \in Nat \cup {NoTotal} /\ cursor' \in Nat /\ served' \in Nat /\ cut' \in Nat
  BY DEF BannerInv, Banner!TypeOK
<1>5. Banner!TypeOK'
  BY <1>2, <1>3, <1>4, Zenon DEF Banner!TypeOK
<1>6. \A c \in Admins : admin'[c].pc = "save" => admin'[c].ad \in Banners
  BY <1>1 DEF BannerInv
<1>7. \A q \in Actors : Follows(banner', total', show'[q])
  BY DEF BannerInv
<1>8. show' \in [Actors -> BannerRequest]
  BY DEF BannerInv
<1>9. Banner!active_ids' = Banner!active_ids
  BY DEF Banner!active_ids
<1>10. ListFollows'
  <2>1. CASE cached' = NoList \/ old'
    BY <2>1 DEF ListFollows
  <2>2. CASE cached' = cached /\ old' = old /\ admin[a].pc # "invalidate"
    <3>1. Banner!Pending => Banner!Pending'
      BY <1>1, <2>2 DEF Banner!Pending
    <3> QED
      BY <1>9, <2>2, <3>1 DEF BannerInv, ListFollows
  <2> QED
    BY <2>1, <2>2
<1>11. Banner!TotalAgrees'
  BY DEF BannerInv, Banner!TotalAgrees
<1> QED
  BY <1>1, <1>5, <1>6, <1>7, <1>8, <1>10, <1>11 DEF BannerInv

LEMMA KeepsBannerRead ==
    ASSUME BannerBounds, BannerInv, NEW a \in Admins, NEW b \in Banners, Banner!Read(a, b) PROVE BannerInv'
<1>1. PICK v \in Nat : v = banner[b].view_count
  BY DEF BannerInv, Banner!TypeOK, Banner!Row
<1>2. PICK m : m = [pc |-> "save", ad |-> b, views |-> v]
  OBVIOUS
<1>3. /\ admin' = [admin EXCEPT ![a] = m] /\ admin[a].pc = "idle"
      /\ UNCHANGED <<banner, total, cached, cursor, show, served, cut, old>>
  BY <1>1, <1>2 DEF Banner!Read, Banner!Begin
<1>4. m \in BannerEdit /\ m.ad \in Banners
  BY <1>2 DEF BannerEdit
<1>5. old' \in BOOLEAN
  BY <1>3, Zenon DEF BannerInv, Banner!TypeOK
<1>6. cached' = NoList \/ cached' \in Seq(Banners)
  BY <1>3 DEF BannerInv, Banner!TypeOK
<1> QED
  BY <1>3, <1>4, <1>5, <1>6, AdminMoves

LEMMA KeepsInvalidate ==
    ASSUME BannerBounds, BannerInv, NEW a \in Admins, Banner!Invalidate(a) PROVE BannerInv'
<1>1. PICK m : m = Banner!IdleAdmin
  OBVIOUS
<1>2. /\ admin' = [admin EXCEPT ![a] = m] /\ Banner!Forget
      /\ UNCHANGED <<banner, total, cursor, show, served, cut>>
  BY <1>1 DEF Banner!Invalidate
<1>3. m \in BannerEdit /\ m.pc = "idle"
  BY <1>1 DEF Banner!IdleAdmin, BannerEdit
<1>4. cached = NoList \/ cached \in Seq(Banners)
  BY DEF BannerInv, Banner!TypeOK
<1> QED
  BY <1>2, <1>3, <1>4, Forgotten, AdminMoves

LEMMA BannersStep == ASSUME BannerBounds, BannerInv, Banner!Next PROVE BannerInv'
<1>1. ASSUME NEW q \in Actors,
             \/ Banner!Start(q) \/ Banner!Load(q) \/ Banner!Store(q) \/ Banner!Draw(q) \/ Banner!DrawFails(q)
             \/ Banner!Count(q) \/ Banner!Increment(q) \/ Banner!Fetch(q) \/ Banner!Clear(q) \/ Banner!Choose(q)
             \/ Banner!Commit(q) \/ Banner!Answer(q) \/ Banner!Crash(q)
      PROVE  BannerInv'
  BY <1>1, KeepsStart, KeepsLoad, KeepsBannerStore, KeepsDraw, KeepsDrawFails, KeepsCountTaken, KeepsCountRefused,
     KeepsIncrement, KeepsFetch, KeepsClear, KeepsChoose, KeepsBannerCommit, KeepsAnswer, KeepsBannerCrash
<1>2. ASSUME NEW a \in Admins, NEW b \in Banners, Banner!Read(a, b) \/ Banner!Delete(a, b)
      PROVE  BannerInv'
  BY <1>2, KeepsBannerRead, KeepsBannerDelete
<1>3. ASSUME NEW a \in Admins, NEW b \in Banners, NEW x \in {"active", "inactive"}, Banner!Create(a, b, x)
      PROVE  BannerInv'
  BY <1>3, KeepsCreate
<1>4. ASSUME NEW a \in Admins, NEW x \in {"active", "inactive"}, Banner!Edit(a, x)
      PROVE  BannerInv'
  BY <1>4, KeepsEdit
<1>5. ASSUME NEW a \in Admins, Banner!Invalidate(a) PROVE BannerInv'
  BY <1>5, KeepsInvalidate
<1> QED
  BY <1>1, <1>2, <1>3, <1>4, <1>5 DEF Banner!Next

LEMMA BannersRested == ASSUME BannerInv, UNCHANGED Banner!vars PROVE BannerInv'
<1>1. UNCHANGED <<banner, total, cached, cursor, show, admin, served, cut, old>>
  BY DEF Banner!vars
<1>2. Banner!TypeOK'
  BY <1>1 DEF BannerInv, Banner!TypeOK
<1>3. ListFollows'
  BY <1>1 DEF BannerInv, ListFollows, Banner!active_ids, Banner!Pending
<1>4. Banner!TotalAgrees'
  BY <1>1 DEF BannerInv, Banner!TotalAgrees
<1> QED
  BY <1>1, <1>2, <1>3, <1>4 DEF BannerInv

LEMMA BannersCountedFrom ==
    ASSUME BannerBounds, BannerInv PROVE Banner!TypeOK /\ Banner!TotalAgrees /\ Banner!ServedActive /\ Banner!BannerShown
<1>1. Banner!ServedActive
  BY DEF BannerInv, Banner!ServedActive, Banner!At, Follows
<1>2. Banner!BannerShown
  BY DEF BannerInv, Banner!BannerShown, Banner!At, Follows
<1> QED
  BY <1>1, <1>2 DEF BannerInv

-----------------------------------------------------------------------------
(* Payouts split over songs: sums over the subsets of a finite set, by        *)
(* induction over them.                                                       *)
LEMMA SetInduction ==
    ASSUME NEW D, IsFiniteSet(D), NEW T \in SUBSET (SUBSET D),
           \A s \in SUBSET D : (\A x \in s : s \ {x} \in T) => s \in T
    PROVE  T = SUBSET D
<1> SUFFICES ASSUME T # SUBSET D PROVE FALSE
  OBVIOUS
<1>1. PICK bad \in SUBSET (SUBSET D) : bad = (SUBSET D) \ T
  OBVIOUS
<1>2. bad # {} /\ bad \subseteq FiniteSubsetsOf(D)
  BY <1>1, FS_FiniteSubsetsOfFinite
<1>3. PICK s \in bad : \A t \in bad : ~ <<t, s>> \in StrictSubsetOrdering(D)
  BY <1>2, FS_StrictSubsetOrderingWellFounded, WFMin
<1>4. s \notin T /\ s \in SUBSET D
  BY <1>1
<1>5. ASSUME NEW x \in s PROVE s \ {x} \in T
  <2>1. s \ {x} \in SUBSET D /\ s \ {x} # s
    BY <1>4
  <2>2. s \ {x} \notin bad
    BY <1>3, <1>4, <2>1 DEF StrictSubsetOrdering
  <2> QED
    BY <1>1, <2>1, <2>2
<1> QED
  BY <1>4, <1>5

LEMMA SumsExist == ASSUME NEW D, IsFiniteSet(D), NEW f \in [D -> Nat] PROVE \E h : Adds(h, f, D)
<1> DEFINE T == {s \in SUBSET D : \E h : Adds(h, f, s)}
<1>1. {} \in T
  <2>1. PICK h : h = [s \in SUBSET {} |-> 0]
    OBVIOUS
  <2>2. Adds(h, f, {})
    BY <2>1 DEF Adds
  <2> QED
    BY <2>2
<1>2. ASSUME NEW all \in SUBSET D, \A x \in all : all \ {x} \in T PROVE all \in T
  <2>1. CASE all = {}
    BY <1>1, <2>1
  <2>2. CASE all # {}
    <3>0. PICK x \in all : TRUE
      BY <2>2
    <3> DEFINE s == all \ {x}
    <3>1. PICK g : Adds(g, f, s)
      BY <1>2
    <3>2. PICK h : h = [t \in SUBSET (s \cup {x}) |-> IF x \in t THEN f[x] + g[t \ {x}] ELSE g[t]]
      OBVIOUS
    <3>3. h \in [SUBSET (s \cup {x}) -> Nat]
      BY <3>1, <3>2 DEF Adds
    <3>4. h[{}] = 0
      BY <3>1, <3>2 DEF Adds
    <3>5. ASSUME NEW t \in SUBSET (s \cup {x}), NEW y \in t PROVE h[t] = f[y] + h[t \ {y}]
      <4>0. s \subseteq D
        OBVIOUS
      <4>1. CASE y = x
        <5>1. h[t \ {y}] = g[t \ {x}] /\ h[t] = f[x] + g[t \ {x}]
          BY <3>2, <4>1
        <5> QED
          BY <4>1, <5>1
      <4>2. CASE y # x /\ x \notin t
        <5>1. h[t \ {y}] = g[t \ {y}] /\ h[t] = g[t] /\ t \in SUBSET s
          BY <3>2, <4>2
        <5> QED
          BY <3>1, <5>1 DEF Adds
      <4>3. CASE y # x /\ x \in t
        <5>1. h[t \ {y}] = f[x] + g[(t \ {y}) \ {x}] /\ h[t] = f[x] + g[t \ {x}]
          BY <3>2, <4>3
        <5>2. g[t \ {x}] = f[y] + g[(t \ {x}) \ {y}]
          BY <3>1, <4>3 DEF Adds
        <5>3. (t \ {x}) \ {y} = (t \ {y}) \ {x}
          OBVIOUS
        <5>4. (t \ {x}) \ {y} \in SUBSET s
          OBVIOUS
        <5>5. PICK k \in Nat : k = g[(t \ {x}) \ {y}]
          BY <3>1, <5>4 DEF Adds
        <5>6. f[x] \in Nat /\ f[y] \in Nat
          BY <4>0
        <5>7. g[(t \ {y}) \ {x}] = k
          BY <5>3, <5>5
        <5>8. h[t \ {y}] = f[x] + k /\ h[t] = f[x] + (f[y] + k)
          BY <5>1, <5>2, <5>5, <5>7
        <5> QED
          BY <5>5, <5>6, <5>8
      <4> QED
        BY <4>1, <4>2, <4>3
    <3>6. Adds(h, f, s \cup {x})
      BY <3>3, <3>4, <3>5 DEF Adds
    <3>7. s \cup {x} = all
      OBVIOUS
    <3> QED
      BY <3>6, <3>7
  <2> QED
    BY <2>1, <2>2
<1>3. T \in SUBSET (SUBSET D)
  OBVIOUS
<1> HIDE DEF T
<1>4. T = SUBSET D
  BY <1>1, <1>2, <1>3, SetInduction
<1>5. D \in T
  BY <1>4
<1> QED
  BY <1>5 DEF T

LEMMA FoldIs ==
    ASSUME NEW D, IsFiniteSet(D), NEW f, NEW h, Adds(h, f, D), NEW S \in SUBSET D
    PROVE  Splits!TotalOver(f, S) = h[S]
<1> DEFINE Step(g, s) == IF s = {} THEN 0 ELSE f[CHOOSE x \in s : TRUE] + g[s \ {CHOOSE x \in s : TRUE}]
<1>1. Splits!TotalOver(f, S) = (CHOOSE g : g = [s \in SUBSET S |-> Step(g, s)])[S]
  BY DEF Splits!TotalOver, Splits!MapThenSumSet, Splits!MapThenFoldSet
<1>0. /\ \A s \in SUBSET D : h[s] \in Nat
      /\ h[{}] = 0 /\ \A s \in SUBSET D : \A x \in s : h[s] = f[x] + h[s \ {x}]
  BY DEF Adds
<1>2. PICK k : k = [s \in SUBSET S |-> h[s]]
  OBVIOUS
<1>3. ASSUME NEW s \in SUBSET S PROVE k[s] = Step(k, s)
  <2>1. CASE s = {}
    BY <1>0, <1>2, <2>1
  <2>2. CASE s # {}
    <3>1. PICK x \in s : x = CHOOSE y \in s : TRUE
      BY <2>2, Zenon
    <3>2. s \in SUBSET D /\ s \ {x} \in SUBSET S
      OBVIOUS
    <3>3. k[s] = h[s] /\ k[s \ {x}] = h[s \ {x}]
      BY <1>2, <3>2
    <3>4. k[s] = f[x] + k[s \ {x}]
      BY <1>0, <3>2, <3>3
    <3> QED
      BY <2>2, <3>1, <3>4
  <2> QED
    BY <2>1, <2>2
<1>4. k = [s \in SUBSET S |-> Step(k, s)]
  <2> HIDE DEF Step
  <2> QED
    BY <1>2, <1>3
<1>5. ASSUME NEW g, g = [s \in SUBSET S |-> Step(g, s)] PROVE g = k
  <2> DEFINE T == {s \in SUBSET S : g[s] = h[s]}
  <2>1. ASSUME NEW s \in SUBSET S PROVE g[s] = Step(g, s)
    <3> HIDE DEF Step
    <3> QED
      BY <1>5
  <2>2. ASSUME NEW s \in SUBSET S, \A x \in s : s \ {x} \in T PROVE s \in T
    <3>1. CASE s = {}
      <4>1. g[s] = 0
        BY <2>1, <3>1
      <4> QED
        BY <1>0, <3>1, <4>1
    <3>2. CASE s # {}
      <4>1. PICK x \in s : x = CHOOSE y \in s : TRUE
        BY <3>2, Zenon
      <4>2. g[s] = f[x] + g[s \ {x}]
        BY <2>1, <3>2, <4>1
      <4>3. g[s \ {x}] = h[s \ {x}]
        BY <2>2
      <4>4. h[s] = f[x] + h[s \ {x}]
        BY <1>0
      <4> QED
        BY <4>2, <4>3, <4>4
    <3> QED
      BY <3>1, <3>2
  <2>3. IsFiniteSet(S) /\ T \in SUBSET (SUBSET S)
    BY FS_Subset
  <2>4. T = SUBSET S
    <3> HIDE DEF T
    <3> QED
      BY <2>2, <2>3, SetInduction
  <2>5. \A s \in SUBSET S : g[s] = h[s]
    BY <2>4
  <2>6. g = [s \in SUBSET S |-> g[s]]
    <3> HIDE DEF Step
    <3> QED
      BY <1>5
  <2> QED
    BY <1>2, <2>5, <2>6
<1>6. PICK j : j = CHOOSE g : g = [s \in SUBSET S |-> Step(g, s)]
  OBVIOUS
<1>7. j = [s \in SUBSET S |-> Step(j, s)]
  <2> HIDE DEF Step
  <2> QED
    BY <1>4, <1>6, Zenon
<1>8. j = k
  <2> HIDE DEF Step
  <2> QED
    BY <1>5, <1>7, Zenon
<1> QED
  BY <1>1, <1>2, <1>6, <1>8

LEMMA SumRules ==
    ASSUME NEW S, NEW f, Numbers(f, S)
    PROVE  /\ \A s \in SUBSET S : Splits!TotalOver(f, s) \in Nat
           /\ Splits!TotalOver(f, {}) = 0
           /\ \A s \in SUBSET S : \A x \in s : Splits!TotalOver(f, s) = f[x] + Splits!TotalOver(f, s \ {x})
<1>1. PICK g : g = [x \in S |-> f[x]]
  OBVIOUS
<1>2. g \in [S -> Nat]
  BY <1>1 DEF Numbers
<1>3. PICK h : Adds(h, g, S)
  BY <1>2, SumsExist DEF Numbers
<1>4. Adds(h, f, S)
  BY <1>1, <1>3 DEF Adds
<1>5. \A s \in SUBSET S : Splits!TotalOver(f, s) = h[s]
  BY <1>4, FoldIs DEF Numbers
<1>6. \A s \in SUBSET S : \A x \in s : s \ {x} \in SUBSET S
  OBVIOUS
<1>7. {} \in SUBSET S
  OBVIOUS
<1> QED
  BY <1>4, <1>5, <1>6, <1>7 DEF Adds

LEMMA SumFirst ==
    ASSUME NEW S, NEW f, Numbers(f, S), NEW x \in S
    PROVE  Splits!TotalOver(f, S) = f[x] + Splits!TotalOver(f, S \ {x})
<1>1. S \in SUBSET S
  OBVIOUS
<1> QED
  BY <1>1, SumRules

LEMMA SumLess ==
    ASSUME NEW S, NEW f, NEW g, Numbers(f, S), Numbers(g, S), \A x \in S : f[x] <= g[x]
    PROVE  Splits!TotalOver(f, S) <= Splits!TotalOver(g, S)
<1> DEFINE T == {s \in SUBSET S : Splits!TotalOver(f, s) <= Splits!TotalOver(g, s)}
<1>1. ASSUME NEW s \in SUBSET S, \A x \in s : s \ {x} \in T PROVE s \in T
  <2>1. CASE s = {}
    BY <2>1, SumRules
  <2>2. CASE s # {}
    <3>1. PICK x \in s : TRUE
      BY <2>2
    <3>2. /\ Splits!TotalOver(f, s) = f[x] + Splits!TotalOver(f, s \ {x})
          /\ Splits!TotalOver(g, s) = g[x] + Splits!TotalOver(g, s \ {x})
      BY SumRules
    <3>3. Splits!TotalOver(f, s \ {x}) \in Nat /\ Splits!TotalOver(g, s \ {x}) \in Nat
      <4>1. s \ {x} \in SUBSET S
        OBVIOUS
      <4> QED
        BY <4>1, SumRules
    <3>4. f[x] \in Nat /\ g[x] \in Nat /\ f[x] <= g[x] /\ Splits!TotalOver(f, s \ {x}) <= Splits!TotalOver(g, s \ {x})
      BY <1>1 DEF Numbers
    <3> QED
      BY <3>2, <3>3, <3>4
  <2> QED
    BY <2>1, <2>2
<1>2. T \in SUBSET (SUBSET S) /\ IsFiniteSet(S)
  BY DEF Numbers
<1>3. T = SUBSET S
  <2> HIDE DEF T
  <2> QED
    BY <1>1, <1>2, SetInduction
<1>4. S \in T
  BY <1>3
<1> QED
  BY <1>4

LEMMA SumSame ==
    ASSUME NEW S, NEW f, NEW g, Numbers(f, S), \A x \in S : f[x] = g[x]
    PROVE  Splits!TotalOver(f, S) = Splits!TotalOver(g, S)
<1>1. Numbers(g, S) /\ S \in SUBSET S
  BY DEF Numbers
<1>2. /\ Splits!TotalOver(f, S) \in Nat /\ Splits!TotalOver(g, S) \in Nat
  BY <1>1, SumRules
<1>3. \A x \in S : f[x] <= g[x] /\ g[x] <= f[x]
  BY DEF Numbers
<1>4. Splits!TotalOver(f, S) <= Splits!TotalOver(g, S) /\ Splits!TotalOver(g, S) <= Splits!TotalOver(f, S)
  BY <1>1, <1>3, SumLess
<1> QED
  BY <1>2, <1>4

LEMMA SumPlus ==
    ASSUME NEW S, NEW f, NEW g, NEW h, Numbers(f, S), Numbers(g, S), \A x \in S : h[x] = f[x] + g[x]
    PROVE  Splits!TotalOver(h, S) = Splits!TotalOver(f, S) + Splits!TotalOver(g, S)
<1> DEFINE T == {s \in SUBSET S : Splits!TotalOver(h, s) = Splits!TotalOver(f, s) + Splits!TotalOver(g, s)}
<1>0. Numbers(h, S)
  BY DEF Numbers
<1>1. ASSUME NEW s \in SUBSET S, \A x \in s : s \ {x} \in T PROVE s \in T
  <2>1. CASE s = {}
    BY <1>0, <2>1, SumRules
  <2>2. CASE s # {}
    <3>1. PICK x \in s : TRUE
      BY <2>2
    <3>2. /\ Splits!TotalOver(f, s) = f[x] + Splits!TotalOver(f, s \ {x})
          /\ Splits!TotalOver(g, s) = g[x] + Splits!TotalOver(g, s \ {x})
          /\ Splits!TotalOver(h, s) = h[x] + Splits!TotalOver(h, s \ {x})
      BY <1>0, SumRules
    <3>3. Splits!TotalOver(f, s \ {x}) \in Nat /\ Splits!TotalOver(g, s \ {x}) \in Nat
      <4>1. s \ {x} \in SUBSET S
        OBVIOUS
      <4> QED
        BY <4>1, SumRules
    <3>4. /\ f[x] \in Nat /\ g[x] \in Nat /\ h[x] = f[x] + g[x]
          /\ Splits!TotalOver(h, s \ {x}) = Splits!TotalOver(f, s \ {x}) + Splits!TotalOver(g, s \ {x})
      BY <1>1 DEF Numbers
    <3> QED
      BY <3>2, <3>3, <3>4
  <2> QED
    BY <2>1, <2>2
<1>2. T \in SUBSET (SUBSET S) /\ IsFiniteSet(S)
  BY DEF Numbers
<1>3. T = SUBSET S
  <2> HIDE DEF T
  <2> QED
    BY <1>1, <1>2, SetInduction
<1>4. S \in T
  BY <1>3
<1> QED
  BY <1>4

LEMMA TimesPlus == ASSUME NEW a \in Nat, NEW b \in Nat, NEW c \in Nat PROVE c * (a + b) = c * a + c * b /\ c * 0 = 0 /\ c * a \in Nat
OBVIOUS

LEMMA SumTimes ==
    ASSUME NEW S, NEW f, NEW g, NEW c \in Nat, Numbers(f, S), \A x \in S : g[x] = c * f[x]
    PROVE  Splits!TotalOver(g, S) = c * Splits!TotalOver(f, S)
<1> DEFINE T == {s \in SUBSET S : Splits!TotalOver(g, s) = c * Splits!TotalOver(f, s)}
<1>0. Numbers(g, S)
  <2>1. ASSUME NEW x \in S PROVE g[x] \in Nat
    <3>1. f[x] \in Nat
      BY DEF Numbers
    <3> QED
      BY <3>1, TimesPlus
  <2> QED
    BY <2>1 DEF Numbers
<1>1. ASSUME NEW s \in SUBSET S, \A x \in s : s \ {x} \in T PROVE s \in T
  <2>1. CASE s = {}
    <3>1. Splits!TotalOver(f, s) = 0 /\ Splits!TotalOver(g, s) = 0
      BY <1>0, <2>1, SumRules
    <3> QED
      BY <3>1, TimesPlus
  <2>2. CASE s # {}
    <3>1. PICK x \in s : TRUE
      BY <2>2
    <3>2. /\ Splits!TotalOver(f, s) = f[x] + Splits!TotalOver(f, s \ {x})
          /\ Splits!TotalOver(g, s) = g[x] + Splits!TotalOver(g, s \ {x})
      BY <1>0, SumRules
    <3>3. PICK n \in Nat : n = Splits!TotalOver(f, s \ {x})
      <4>1. s \ {x} \in SUBSET S
        OBVIOUS
      <4> QED
        BY <4>1, SumRules
    <3>4. PICK m \in Nat : m = f[x]
      BY DEF Numbers
    <3>5. Splits!TotalOver(g, s \ {x}) = c * n /\ g[x] = c * m
      BY <1>1, <3>3, <3>4
    <3> QED
      BY <3>2, <3>3, <3>4, <3>5, TimesPlus
  <2> QED
    BY <2>1, <2>2
<1>2. T \in SUBSET (SUBSET S) /\ IsFiniteSet(S)
  BY DEF Numbers
<1>3. T = SUBSET S
  <2> HIDE DEF T
  <2> QED
    BY <1>1, <1>2, SetInduction
<1>4. S \in T
  BY <1>3
<1> QED
  BY <1>4

LEMMA SumSubset ==
    ASSUME NEW S, NEW f, NEW A \in SUBSET S, Numbers(f, S)
    PROVE  Splits!TotalOver(f, A) <= Splits!TotalOver(f, S)
<1> DEFINE T == {s \in SUBSET S : A \subseteq s => Splits!TotalOver(f, A) <= Splits!TotalOver(f, s)}
<1>1. ASSUME NEW s \in SUBSET S, \A x \in s : s \ {x} \in T PROVE s \in T
  <2> SUFFICES ASSUME A \subseteq s PROVE Splits!TotalOver(f, A) <= Splits!TotalOver(f, s)
    OBVIOUS
  <2>1. CASE s = A
    BY <2>1, SumRules
  <2>2. CASE s # A
    <3>1. PICK x \in s : x \notin A
      BY <2>2
    <3>2. A \subseteq s \ {x} /\ s \ {x} \in SUBSET S
      BY <3>1
    <3>3. Splits!TotalOver(f, s) = f[x] + Splits!TotalOver(f, s \ {x}) /\ f[x] \in Nat
      BY SumRules DEF Numbers
    <3>4. Splits!TotalOver(f, s \ {x}) \in Nat /\ Splits!TotalOver(f, A) \in Nat
      BY <3>2, SumRules
    <3>5. Splits!TotalOver(f, A) <= Splits!TotalOver(f, s \ {x})
      BY <1>1, <3>2
    <3> QED
      BY <3>3, <3>4, <3>5
  <2> QED
    BY <2>1, <2>2
<1>2. T \in SUBSET (SUBSET S) /\ IsFiniteSet(S)
  BY DEF Numbers
<1>3. T = SUBSET S
  <2> HIDE DEF T
  <2> QED
    BY <1>1, <1>2, SetInduction
<1>4. S \in T
  BY <1>3
<1> QED
  BY <1>4

(* The order of the songs: a set of songs has a last one, and handing out in   *)
(* order hands out all there is, or all there is room for.                    *)
LEMMA Ordered ==
    ASSUME NEW b, NEW s \in EarningSongs, NEW t \in EarningSongs, NEW u \in EarningSongs,
           b[s] \in Nat, b[t] \in Nat, b[u] \in Nat
    PROVE  /\ ~(Splits!Before(b, s, t) /\ Splits!Before(b, t, s))
           /\ s # t => Splits!Before(b, s, t) \/ Splits!Before(b, t, s)
           /\ Splits!Before(b, s, t) /\ Splits!Before(b, t, u) => Splits!Before(b, s, u)
BY EarningAssumption DEF Splits!Before

LEMMA LastSong ==
    ASSUME NEW b, Numbers(b, EarningSongs), NEW S \in SUBSET EarningSongs, S # {}
    PROVE  \E l \in S : \A t \in S \ {l} : Splits!Before(b, t, l)
<1> DEFINE T == {s \in SUBSET S : s # {} => \E l \in s : \A t \in s \ {l} : Splits!Before(b, t, l)}
<1>1. ASSUME NEW s \in SUBSET S, \A x \in s : s \ {x} \in T PROVE s \in T
  <2> SUFFICES ASSUME s # {} PROVE \E l \in s : \A t \in s \ {l} : Splits!Before(b, t, l)
    OBVIOUS
  <2>1. PICK x \in s : TRUE
    OBVIOUS
  <2>2. CASE s \ {x} = {}
    BY <2>1, <2>2
  <2>3. CASE s \ {x} # {}
    <3>1. PICK l \in s \ {x} : \A t \in (s \ {x}) \ {l} : Splits!Before(b, t, l)
      BY <1>1, <2>3
    <3>2. x \in EarningSongs /\ l \in EarningSongs /\ s \subseteq EarningSongs /\ x # l
      OBVIOUS
    <3>3. CASE Splits!Before(b, x, l)
      BY <3>1, <3>3
    <3>4. CASE Splits!Before(b, l, x)
      <4>1. ASSUME NEW t \in s \ {x} PROVE Splits!Before(b, t, x)
        <5>1. t = l \/ Splits!Before(b, t, l)
          BY <3>1
        <5>2. t \in EarningSongs
          BY <3>2
        <5> QED
          BY <3>2, <3>4, <5>1, <5>2, Ordered DEF Numbers
      <4> QED
        BY <4>1
    <3> QED
      BY <3>2, <3>3, <3>4, Ordered DEF Numbers
  <2> QED
    BY <2>2, <2>3
<1>2. T \in SUBSET (SUBSET S) /\ IsFiniteSet(S)
  BY FS_Subset DEF Numbers
<1>3. T = SUBSET S
  <2> HIDE DEF T
  <2> QED
    BY <1>1, <1>2, SetInduction
<1>4. S \in T
  BY <1>3
<1> QED
  BY <1>4

LEMMA LeftOverNumbers ==
    ASSUME NEW b, NEW room, Numbers(b, EarningSongs), Numbers(room, EarningSongs), NEW rest \in Nat
    PROVE  /\ \A s \in EarningSongs : Splits!Ahead(room, b, s) \in Nat
           /\ Splits!LeftOver(rest, room, b) \in [EarningSongs -> Nat]
           /\ \A s \in EarningSongs : Splits!LeftOver(rest, room, b)[s] =
                 Splits!AtMost(room[s], Splits!Positive(rest - Splits!Ahead(room, b, s)))
           /\ \A s \in EarningSongs : Splits!LeftOver(rest, room, b)[s] <= room[s]
<1>1. ASSUME NEW s \in EarningSongs PROVE Splits!Ahead(room, b, s) \in Nat
  <2>1. {t \in EarningSongs \ {s} : Splits!Before(b, t, s)} \in SUBSET EarningSongs
    OBVIOUS
  <2> QED
    BY <2>1, SumRules DEF Splits!Ahead
<1>2. ASSUME NEW s \in EarningSongs
      PROVE  /\ Splits!AtMost(room[s], Splits!Positive(rest - Splits!Ahead(room, b, s))) \in Nat
             /\ Splits!AtMost(room[s], Splits!Positive(rest - Splits!Ahead(room, b, s))) <= room[s]
  <2>1. room[s] \in Nat /\ Splits!Ahead(room, b, s) \in Nat
    BY <1>1 DEF Numbers
  <2> QED
    BY <2>1 DEF Splits!AtMost, Splits!Positive
<1> QED
  BY <1>1, <1>2 DEF Splits!LeftOver

LEMMA HandedOut ==
    ASSUME NEW b, NEW room, Numbers(b, EarningSongs), Numbers(room, EarningSongs), NEW rest \in Nat
    PROVE  Splits!TotalOver(Splits!LeftOver(rest, room, b), EarningSongs) =
             Splits!AtMost(rest, Splits!TotalOver(room, EarningSongs))
<1> DEFINE Given == Splits!LeftOver(rest, room, b)
           Closed(s) == \A x \in s, t \in EarningSongs : Splits!Before(b, t, x) => t \in s
           T == {s \in SUBSET EarningSongs :
                   Closed(s) => Splits!TotalOver(Given, s) = Splits!AtMost(rest, Splits!TotalOver(room, s))}
<1>0. Numbers(Given, EarningSongs)
  BY LeftOverNumbers DEF Numbers
<1>1. ASSUME NEW s \in SUBSET EarningSongs, \A x \in s : s \ {x} \in T PROVE s \in T
  <2> SUFFICES ASSUME Closed(s) PROVE Splits!TotalOver(Given, s) = Splits!AtMost(rest, Splits!TotalOver(room, s))
    OBVIOUS
  <2>1. CASE s = {}
    <3>1. Splits!TotalOver(Given, s) = 0 /\ Splits!TotalOver(room, s) = 0
      <4> HIDE DEF Given
      <4> QED
        BY <1>0, <2>1, SumRules
    <3> QED
      BY <3>1 DEF Splits!AtMost
  <2>2. CASE s # {}
    <3>1. PICK l \in s : \A t \in s \ {l} : Splits!Before(b, t, l)
      BY <2>2, LastSong
    <3>2. l \in EarningSongs /\ s \ {l} \in SUBSET EarningSongs
      OBVIOUS
    <3>3. Closed(s \ {l})
      <4> SUFFICES ASSUME NEW x \in s \ {l}, NEW t \in EarningSongs, Splits!Before(b, t, x) PROVE t \in s \ {l}
        OBVIOUS
      <4>1. t \in s /\ Splits!Before(b, x, l)
        BY <3>1
      <4>2. ~Splits!Before(b, l, x)
        BY <3>2, <4>1, Ordered DEF Numbers
      <4> QED
        BY <4>1, <4>2
    <3>4. {t \in EarningSongs \ {l} : Splits!Before(b, t, l)} = s \ {l}
      BY <3>1
    <3>5. Splits!Ahead(room, b, l) = Splits!TotalOver(room, s \ {l})
      BY <3>4 DEF Splits!Ahead
    <3>6. PICK n \in Nat : n = Splits!TotalOver(room, s \ {l})
      BY <3>2, SumRules
    <3>7. PICK m \in Nat : m = room[l]
      BY <3>2 DEF Numbers
    <3>8. Splits!TotalOver(room, s) = m + n
      BY <3>6, <3>7, SumRules
    <3>9. Given[l] = Splits!AtMost(m, Splits!Positive(rest - n))
      BY <3>2, <3>5, <3>6, <3>7, LeftOverNumbers
    <3>10. Splits!TotalOver(Given, s \ {l}) = Splits!AtMost(rest, n)
      BY <1>1, <3>3, <3>6
    <3>11. Splits!TotalOver(Given, s) = Given[l] + Splits!TotalOver(Given, s \ {l})
      <4> HIDE DEF Given
      <4> QED
        BY <1>0, SumRules
    <3> QED
      BY <3>8, <3>9, <3>10, <3>11 DEF Splits!AtMost, Splits!Positive
  <2> QED
    BY <2>1, <2>2
<1>2. T \in SUBSET (SUBSET EarningSongs) /\ IsFiniteSet(EarningSongs)
  BY DEF Numbers
<1>3. T = SUBSET EarningSongs
  <2> HIDE DEF T
  <2> QED
    BY <1>1, <1>2, SetInduction
<1>4. EarningSongs \in T /\ Closed(EarningSongs)
  BY <1>3
<1> QED
  BY <1>4

(* The proportional shares: what a whole division leaves.                    *)
LEMMA TimesMore == ASSUME NEW a \in Nat, NEW b \in Nat, NEW c \in Nat, a <= b PROVE a * c <= b * c
<1>1. PICK d \in Nat : b = a + d
  <2>1. b - a \in Nat /\ b = a + (b - a)
    OBVIOUS
  <2> QED
    BY <2>1
<1>2. PICK x \in Nat, y \in Nat : x = a * c /\ y = d * c
  OBVIOUS
<1>3. (a + d) * c = a * c + d * c
  OBVIOUS
<1> QED
  BY <1>1, <1>2, <1>3

LEMMA TimesLess == ASSUME NEW a \in Nat, NEW b \in Nat, NEW c \in Nat, c > 0, a * c <= b * c PROVE a <= b
<1> SUFFICES ASSUME b + 1 <= a PROVE FALSE
  OBVIOUS
<1>1. (b + 1) * c <= a * c
  BY TimesMore
<1>2. PICK x \in Nat, y \in Nat : x = a * c /\ y = b * c
  OBVIOUS
<1>3. (b + 1) * c = y + c
  BY <1>2
<1> QED
  BY <1>1, <1>2, <1>3

LEMMA Quotient ==
    ASSUME NEW a \in Nat, NEW n \in Nat, n > 0
    PROVE  /\ a \div n \in Nat /\ (a \div n) * n <= a
           /\ a < (a \div n) * n + n
OBVIOUS

LEMMA QuotientMore ==
    ASSUME NEW a \in Nat, NEW b \in Nat, NEW n \in Nat, n > 0, a <= b
    PROVE  a \div n <= b \div n
<1>1. PICK k \in Nat : k = a \div n /\ k * n <= a
  BY Quotient
<1>2. PICK m \in Nat : m = b \div n /\ b < m * n + n
  BY Quotient
<1>3. PICK x \in Nat, y \in Nat : x = k * n /\ y = m * n
  OBVIOUS
<1>4. SUFFICES ASSUME m + 1 <= k PROVE FALSE
  BY <1>1, <1>2
<1>5. (m + 1) * n <= k * n
  BY <1>4, TimesMore
<1>6. (m + 1) * n = y + n
  BY <1>3
<1> QED
  BY <1>1, <1>2, <1>3, <1>5, <1>6

LEMMA ShareOfOne ==
    ASSUME NEW t \in Nat, NEW b \in Nat, NEW n \in Nat, n > 0, t <= n
    PROVE  /\ Splits!Share(t, b, n) \in Nat /\ Splits!Share(t, b, n) <= b
           /\ n * Splits!Share(t, b, n) <= t * b
           /\ \A c \in Nat : c <= b => Splits!Share(t, c, n) <= Splits!Share(t, b, n)
<1>1. PICK a \in Nat : a = t * b
  OBVIOUS
<1>2. PICK k \in Nat : k = a \div n /\ k * n <= a
  BY Quotient
<1>3. Splits!Share(t, b, n) = k
  BY <1>1, <1>2 DEF Splits!Share
<1>4. a <= b * n
  <2>1. t * b <= n * b
    BY TimesMore
  <2>2. n * b = b * n
    OBVIOUS
  <2> QED
    BY <1>1, <2>1, <2>2
<1>5. k <= b
  <2>1. PICK x \in Nat, y \in Nat : x = k * n /\ y = b * n
    OBVIOUS
  <2>2. k * n <= b * n
    BY <1>2, <1>4, <2>1
  <2> QED
    BY <2>2, TimesLess
<1>6. n * k = k * n
  OBVIOUS
<1>7. ASSUME NEW c \in Nat, c <= b PROVE Splits!Share(t, c, n) <= Splits!Share(t, b, n)
  <2>1. c * t <= b * t /\ c * t = t * c /\ b * t = t * b
    BY <1>7, TimesMore
  <2>2. PICK z \in Nat : z = t * c
    OBVIOUS
  <2>3. z <= a
    BY <1>1, <2>1, <2>2
  <2>4. z \div n <= a \div n
    BY <2>3, QuotientMore
  <2> QED
    BY <1>1, <2>2, <2>4 DEF Splits!Share
<1> QED
  BY <1>1, <1>2, <1>3, <1>5, <1>6, <1>7

(* The allocation of an amount over the songs. *)
LEMMA BalanceNumbers ==
    ASSUME NEW totals \in [EarningSongs -> Nat], NEW allocated \in [EarningSongs -> Nat]
    PROVE  /\ Numbers(Splits!Balance(totals, allocated), EarningSongs)
           /\ \A s \in EarningSongs : Splits!Balance(totals, allocated)[s] = Splits!Positive(totals[s] - allocated[s])
<1>1. ASSUME NEW s \in EarningSongs PROVE Splits!Positive(totals[s] - allocated[s]) \in Nat
  BY DEF Splits!Positive
<1> QED
  BY <1>1, EarningAssumption DEF Splits!Balance, Numbers

LEMMA SharesBelow ==
    ASSUME NEW b, Numbers(b, EarningSongs), NEW target \in Nat, target > 0,
           target <= Splits!TotalOver(b, EarningSongs)
    PROVE  /\ Splits!Shares(target, b) \in [EarningSongs -> Nat]
           /\ \A s \in EarningSongs : Splits!Shares(target, b)[s] <= b[s]
           /\ \A s, t \in EarningSongs : b[t] <= b[s] => Splits!Shares(target, b)[t] <= Splits!Shares(target, b)[s]
           /\ Splits!TotalOver(Splits!Shares(target, b), EarningSongs) <= target
<1>1. PICK n \in Nat : n = Splits!TotalOver(b, EarningSongs)
  <2>1. EarningSongs \in SUBSET EarningSongs
    OBVIOUS
  <2> QED
    BY <2>1, SumRules
<1>2. n > 0 /\ target <= n
  BY <1>1
<1>3. PICK share \in [EarningSongs -> Nat] :
         \A s \in EarningSongs : share[s] = Splits!Share(target, b[s], n) /\ share[s] <= b[s] /\ n * share[s] <= target * b[s]
  <2>1. \A s \in EarningSongs : /\ Splits!Share(target, b[s], n) \in Nat /\ Splits!Share(target, b[s], n) <= b[s]
                                /\ n * Splits!Share(target, b[s], n) <= target * b[s]
    BY <1>2, ShareOfOne DEF Numbers
  <2>2. [s \in EarningSongs |-> Splits!Share(target, b[s], n)] \in [EarningSongs -> Nat]
    BY <2>1
  <2> QED
    BY <2>1, <2>2
<1>4. Splits!Shares(target, b) = share
  <2>1. ASSUME NEW s \in EarningSongs PROVE Splits!AtMost(b[s], Splits!Share(target, b[s], Splits!Total(b))) = share[s]
    <3>1. b[s] \in Nat /\ share[s] \in Nat /\ share[s] <= b[s] /\ Splits!Share(target, b[s], Splits!Total(b)) = share[s]
      BY <1>1, <1>3 DEF Numbers, Splits!Total
    <3> QED
      BY <3>1 DEF Splits!AtMost
  <2> QED
    BY <1>3, <2>1 DEF Splits!Shares
<1>5. ASSUME NEW s \in EarningSongs, NEW t \in EarningSongs, b[t] <= b[s] PROVE share[t] <= share[s]
  <2>1. b[s] \in Nat /\ b[t] \in Nat
    BY DEF Numbers
  <2>2. Splits!Share(target, b[t], n) <= Splits!Share(target, b[s], n)
    BY <1>2, <1>5, <2>1, ShareOfOne
  <2> QED
    BY <1>3, <2>2
<1>6. Splits!TotalOver(share, EarningSongs) <= target
  <2>1. Numbers(share, EarningSongs) /\ EarningSongs \in SUBSET EarningSongs
    BY DEF Numbers
  <2>2. PICK m \in Nat : m = Splits!TotalOver(share, EarningSongs)
    BY <2>1, SumRules
  <2>3. PICK f : f = [s \in EarningSongs |-> n * share[s]]
    OBVIOUS
  <2>4. PICK g : g = [s \in EarningSongs |-> target * b[s]]
    OBVIOUS
  <2>5. \A s \in EarningSongs : f[s] = n * share[s] /\ f[s] \in Nat /\ g[s] = target * b[s] /\ g[s] \in Nat /\ f[s] <= g[s]
    <3> SUFFICES ASSUME NEW s \in EarningSongs PROVE f[s] = n * share[s] /\ f[s] \in Nat /\ g[s] = target * b[s] /\ g[s] \in Nat /\ f[s] <= g[s]
      OBVIOUS
    <3>1. b[s] \in Nat /\ share[s] \in Nat
      BY DEF Numbers
    <3>2. n * share[s] \in Nat /\ target * b[s] \in Nat
      BY <3>1, TimesPlus
    <3> QED
      BY <1>3, <2>3, <2>4, <3>2
  <2>6. Numbers(f, EarningSongs) /\ Numbers(g, EarningSongs)
    BY <2>1, <2>5 DEF Numbers
  <2>7. Splits!TotalOver(f, EarningSongs) = n * m
    BY <2>1, <2>2, <2>5, SumTimes
  <2>8. Splits!TotalOver(g, EarningSongs) = target * n
    BY <1>1, <2>5, SumTimes
  <2>9. Splits!TotalOver(f, EarningSongs) <= Splits!TotalOver(g, EarningSongs)
    BY <2>5, <2>6, SumLess
  <2>10. m * n <= target * n
    <3>1. n * m = m * n
      OBVIOUS
    <3> QED
      BY <2>7, <2>8, <2>9, <3>1
  <2> QED
    BY <1>2, <2>2, <2>10, TimesLess
<1> QED
  BY <1>3, <1>4, <1>5, <1>6

LEMMA GivenInOrder ==
    ASSUME NEW b, Numbers(b, EarningSongs), NEW share \in [EarningSongs -> Nat], NEW room \in [EarningSongs -> Nat],
           NEW rest \in Nat, NEW s \in EarningSongs, NEW t \in EarningSongs,
           room[s] = b[s] - share[s], room[t] = b[t] - share[t], b[s] > b[t], share[s] >= share[t]
    PROVE  share[s] + Splits!LeftOver(rest, room, b)[s] >= share[t] + Splits!LeftOver(rest, room, b)[t]
<1>0. Numbers(room, EarningSongs)
  BY DEF Numbers
<1> DEFINE Left == Splits!LeftOver(rest, room, b)
<1>1. /\ Left[s] \in Nat /\ Left[t] \in Nat /\ Left[t] <= room[t]
      /\ Splits!Ahead(room, b, s) \in Nat /\ Splits!Ahead(room, b, t) \in Nat
      /\ Left[s] = Splits!AtMost(room[s], Splits!Positive(rest - Splits!Ahead(room, b, s)))
      /\ Left[t] = Splits!AtMost(room[t], Splits!Positive(rest - Splits!Ahead(room, b, t)))
  <2>1. /\ \A u \in EarningSongs : Splits!Ahead(room, b, u) \in Nat
        /\ Left \in [EarningSongs -> Nat]
        /\ \A u \in EarningSongs : Left[u] = Splits!AtMost(room[u], Splits!Positive(rest - Splits!Ahead(room, b, u)))
        /\ \A u \in EarningSongs : Left[u] <= room[u]
    BY <1>0, LeftOverNumbers
  <2> HIDE DEF Left
  <2> QED
    BY <2>1
<1>2. b[s] \in Nat /\ b[t] \in Nat /\ share[s] \in Nat /\ share[t] \in Nat /\ room[s] \in Nat /\ room[t] \in Nat
  BY DEF Numbers
<1>3. Splits!Ahead(room, b, s) + room[s] <= Splits!Ahead(room, b, t)
  <2>1. PICK A \in SUBSET EarningSongs : A = {u \in EarningSongs \ {s} : Splits!Before(b, u, s)}
    OBVIOUS
  <2>2. PICK B \in SUBSET EarningSongs : B = {u \in EarningSongs \ {t} : Splits!Before(b, u, t)}
    OBVIOUS
  <2>3. Splits!Before(b, s, t) /\ s # t
    BY <1>2 DEF Splits!Before
  <2>4. A \cup {s} \subseteq B
    <3>1. ASSUME NEW u \in A PROVE u \in B
      <4>1. u \in EarningSongs /\ u # s /\ Splits!Before(b, u, s) /\ b[u] \in Nat
        BY <2>1 DEF Numbers
      <4>2. Splits!Before(b, u, t) /\ u # t
        BY <1>2, <2>3, <4>1, Ordered
      <4> QED
        BY <2>2, <4>1, <4>2
    <3> QED
      BY <2>2, <2>3, <3>1
  <2>5. Splits!TotalOver(room, A \cup {s}) <= Splits!TotalOver(room, B)
    <3>1. Numbers(room, B) /\ A \cup {s} \in SUBSET B
      BY <1>0, <2>4, FS_Subset DEF Numbers
    <3> QED
      BY <3>1, SumSubset
  <2>6. Splits!TotalOver(room, A \cup {s}) = room[s] + Splits!TotalOver(room, A)
    <3>1. (A \cup {s}) \ {s} = A /\ A \cup {s} \in SUBSET EarningSongs /\ s \in A \cup {s}
      BY <2>1
    <3> QED
      BY <1>0, <3>1, SumRules
  <2>7. Splits!Ahead(room, b, s) = Splits!TotalOver(room, A) /\ Splits!Ahead(room, b, t) = Splits!TotalOver(room, B)
    BY <2>1, <2>2 DEF Splits!Ahead
  <2> QED
    BY <1>1, <1>2, <2>5, <2>6, <2>7
<1> QED
  BY <1>1, <1>2, <1>3 DEF Splits!AtMost, Splits!Positive

LEMMA AllocationSound ==
    ASSUME NEW totals \in [EarningSongs -> Nat], NEW allocated \in [EarningSongs -> Nat], NEW amount \in Nat
    PROVE  Allocates(Splits!AllocateAcrossSongs(totals, allocated, amount), Splits!Balance(totals, allocated), amount)
<1>1. PICK b : b = Splits!Balance(totals, allocated)
  OBVIOUS
<1>2. Numbers(b, EarningSongs) /\ EarningSongs \in SUBSET EarningSongs
  BY <1>1, BalanceNumbers
<1>3. PICK n \in Nat : n = Splits!TotalOver(b, EarningSongs)
  BY <1>2, SumRules
<1>4. PICK target \in Nat : target = Splits!AtMost(amount, n)
  BY DEF Splits!AtMost
<1>5. PICK split : split = Splits!AllocateAcrossSongs(totals, allocated, amount)
  OBVIOUS
<1>6. CASE target = 0
  <2>1. split = Splits!Zero
    BY <1>1, <1>3, <1>4, <1>5, <1>6 DEF Splits!AllocateAcrossSongs, Splits!Total
  <2>2. split \in [EarningSongs -> Nat] /\ \A s \in EarningSongs : split[s] = 0
    BY <2>1 DEF Splits!Zero
  <2>3. Splits!TotalOver(split, EarningSongs) = 0
    <3>1. Numbers(split, EarningSongs)
      BY <1>2, <2>2 DEF Numbers
    <3>2. \A s \in EarningSongs : split[s] = 0 * split[s]
      BY <2>2
    <3>3. Splits!TotalOver(split, EarningSongs) = 0 * Splits!TotalOver(split, EarningSongs)
      BY <3>1, <3>2, SumTimes
    <3>4. Splits!TotalOver(split, EarningSongs) \in Nat
      BY <1>2, <3>1, SumRules
    <3> QED
      BY <3>3, <3>4
  <2> QED
    BY <1>1, <1>2, <1>3, <1>4, <1>5, <1>6, <2>2, <2>3 DEF Allocates, Numbers
<1>7. CASE target > 0
  <2>1. target <= n
    BY <1>4 DEF Splits!AtMost
  <2>2. PICK share \in [EarningSongs -> Nat] : share = Splits!Shares(target, b)
    BY <1>2, <1>3, <1>7, <2>1, SharesBelow
  <2>3. /\ \A s \in EarningSongs : share[s] <= b[s]
        /\ \A s, t \in EarningSongs : b[t] <= b[s] => share[t] <= share[s]
        /\ Splits!TotalOver(share, EarningSongs) <= target
    BY <1>2, <1>3, <1>7, <2>1, <2>2, SharesBelow
  <2>4. Numbers(share, EarningSongs)
    BY <1>2 DEF Numbers
  <2>5. PICK m \in Nat : m = Splits!TotalOver(share, EarningSongs)
    BY <1>2, <2>4, SumRules
  <2>6. PICK room \in [EarningSongs -> Nat] : room = [s \in EarningSongs |-> b[s] - share[s]]
    <3>1. \A s \in EarningSongs : b[s] - share[s] \in Nat
      BY <1>2, <2>3 DEF Numbers
    <3> QED
      BY <3>1
  <2>7. \A s \in EarningSongs : room[s] = b[s] - share[s]
    BY <2>6
  <2>8. Numbers(room, EarningSongs)
    BY <1>2 DEF Numbers
  <2>9. PICK rest \in Nat : rest = target - m
    BY <2>3, <2>5
  <2>10. PICK left \in [EarningSongs -> Nat] : left = Splits!LeftOver(rest, room, b)
    BY <1>2, <2>8, LeftOverNumbers
  <2>11. split = Splits!Plus(share, left)
    BY <1>1, <1>3, <1>4, <1>5, <1>7, <2>2, <2>5, <2>6, <2>9, <2>10 DEF Splits!AllocateAcrossSongs, Splits!Total
  <2>12. split \in [EarningSongs -> Nat] /\ \A s \in EarningSongs : split[s] = share[s] + left[s]
    BY <2>11 DEF Splits!Plus
  <2>13. \A s \in EarningSongs : split[s] <= b[s]
    <3>1. \A s \in EarningSongs : left[s] <= room[s]
      BY <1>2, <2>8, <2>10, LeftOverNumbers
    <3> QED
      BY <1>2, <2>7, <2>12, <3>1 DEF Numbers
  <2>14. Splits!TotalOver(split, EarningSongs) = target
    <3>1. Numbers(left, EarningSongs)
      BY <1>2 DEF Numbers
    <3>2. Splits!TotalOver(split, EarningSongs) = m + Splits!TotalOver(left, EarningSongs)
      BY <2>4, <2>5, <2>12, <3>1, SumPlus
    <3>3. PICK k \in Nat : k = Splits!TotalOver(room, EarningSongs)
      BY <1>2, <2>8, SumRules
    <3>4. Splits!TotalOver(left, EarningSongs) = Splits!AtMost(rest, k)
      BY <1>2, <2>8, <2>10, <3>3, HandedOut
    <3>5. n = m + k
      <4>1. \A s \in EarningSongs : b[s] = share[s] + room[s]
        BY <1>2, <2>7 DEF Numbers
      <4> QED
        BY <1>3, <2>4, <2>5, <2>8, <3>3, <4>1, SumPlus
    <3> QED
      BY <2>1, <2>9, <3>2, <3>4, <3>5 DEF Splits!AtMost
  <2>15. ASSUME NEW s \in EarningSongs, NEW t \in EarningSongs, b[s] > b[t] PROVE split[s] >= split[t]
    <3>1. b[s] \in Nat /\ b[t] \in Nat
      BY <1>2 DEF Numbers
    <3>2. share[s] >= share[t]
      BY <2>3, <2>15, <3>1
    <3>3. share[s] + left[s] >= share[t] + left[t]
      BY <1>2, <2>7, <2>10, <2>15, <3>2, GivenInOrder
    <3> QED
      BY <2>12, <3>3
  <2> QED
    BY <1>1, <1>3, <1>4, <1>5, <2>12, <2>13, <2>14, <2>15 DEF Allocates
<1> QED
  BY <1>6, <1>7

(* The payouts of an artist in the order of their submission: what they leave  *)
(* reserved is the fold of their charges, the last of them charged last.      *)
LEMMA LastIndex ==
    ASSUME NEW S \in SUBSET Nat, IsFiniteSet(S), S # {}
    PROVE  Splits!Max(S) \in S /\ \A y \in S : Splits!Max(S) >= y
<1> DEFINE T == {s \in SUBSET S : s # {} => \E l \in s : \A t \in s : l >= t}
<1>1. ASSUME NEW s \in SUBSET S, \A x \in s : s \ {x} \in T PROVE s \in T
  <2> SUFFICES ASSUME s # {} PROVE \E l \in s : \A t \in s : l >= t
    OBVIOUS
  <2>1. PICK x \in s : TRUE
    OBVIOUS
  <2>2. CASE s \ {x} = {}
    BY <2>1, <2>2
  <2>3. CASE s \ {x} # {}
    <3>1. PICK l \in s \ {x} : \A t \in s \ {x} : l >= t
      BY <1>1, <2>3
    <3>2. x \in Nat /\ l \in Nat /\ \A t \in s : t \in Nat
      OBVIOUS
    <3>3. CASE l >= x
      BY <3>1, <3>3
    <3>4. CASE ~(l >= x)
      BY <3>1, <3>2, <3>4
    <3> QED
      BY <3>3, <3>4
  <2> QED
    BY <2>2, <2>3
<1>2. T \in SUBSET (SUBSET S)
  OBVIOUS
<1>3. T = SUBSET S
  <2> HIDE DEF T
  <2> QED
    BY <1>1, <1>2, SetInduction
<1>4. S \in T
  BY <1>3
<1>5. \E l \in S : \A t \in S : l >= t
  BY <1>4
<1> QED
  BY <1>5, Zenon DEF Splits!Max

LEMMA ChargesExist ==
    ASSUME NEW list, NEW totals, NEW D \in SUBSET Nat, IsFiniteSet(D)
    PROVE  \E g : Charges(g, list, totals, D)
<1> DEFINE T == {s \in SUBSET D : \E g : Charges(g, list, totals, s)}
<1>1. ASSUME NEW s \in SUBSET D, \A x \in s : s \ {x} \in T PROVE s \in T
  <2>1. CASE s = {}
    <3>1. PICK g : g = [t \in SUBSET {} |-> Splits!Zero]
      OBVIOUS
    <3>2. \A t \in SUBSET {} : Charge(g, list, totals, t) = Splits!Zero
      BY DEF Charge
    <3>3. Charges(g, list, totals, {})
      BY <3>1, <3>2 DEF Charges
    <3> QED
      BY <2>1, <3>3
  <2>2. CASE s # {}
    <3>0. IsFiniteSet(s) /\ \A t \in SUBSET s : IsFiniteSet(t) /\ t \in SUBSET Nat
      BY FS_Subset
    <3>1. PICK x \in s : x = Splits!Max(s) /\ \A y \in s : x >= y
      BY <2>2, <3>0, LastIndex
    <3>2. PICK g : Charges(g, list, totals, s \ {x})
      BY <1>1
    <3>3. PICK k : k = [t \in SUBSET s |-> IF x \in t THEN Splits!Charged(list[x], totals, g[t \ {x}]) ELSE g[t]]
      OBVIOUS
    <3>4. ASSUME NEW t \in SUBSET s PROVE k[t] = Charge(k, list, totals, t)
      <4>1. CASE x \in t
        <5>1. Splits!Max(t) \in t /\ \A y \in t : Splits!Max(t) >= y
          BY <3>0, <4>1, LastIndex
        <5>2. Splits!Max(t) = x
          <6>1. Splits!Max(t) \in Nat /\ x \in Nat /\ Splits!Max(t) >= x /\ x >= Splits!Max(t)
            BY <3>1, <4>1, <5>1
          <6> QED
            BY <6>1
        <5>3. k[t \ {x}] = g[t \ {x}] /\ k[t] = Splits!Charged(list[x], totals, g[t \ {x}])
          BY <3>3, <4>1
        <5> QED
          BY <4>1, <5>2, <5>3 DEF Charge
      <4>2. CASE x \notin t
        <5>1. t \in SUBSET (s \ {x}) /\ k[t] = g[t]
          BY <3>3, <4>2
        <5>2. g[t] = Charge(g, list, totals, t)
          BY <3>2, <5>1 DEF Charges
        <5>3. k[t \ {Splits!Max(t)}] = g[t \ {Splits!Max(t)}]
          BY <3>3, <4>2
        <5> QED
          BY <5>1, <5>2, <5>3 DEF Charge
      <4> QED
        BY <4>1, <4>2
    <3>5. Charges(k, list, totals, s)
      BY <3>3, <3>4 DEF Charges
    <3> QED
      BY <3>5
  <2> QED
    BY <2>1, <2>2
<1>2. T \in SUBSET (SUBSET D)
  OBVIOUS
<1>3. T = SUBSET D
  <2> HIDE DEF T
  <2> QED
    BY <1>1, <1>2, SetInduction
<1>4. D \in T
  BY <1>3
<1> QED
  BY <1>4

LEMMA ReservedIs ==
    ASSUME NEW list, NEW totals, DOMAIN list \in SUBSET Nat, IsFiniteSet(DOMAIN list)
    PROVE  \E g : Charges(g, list, totals, DOMAIN list) /\ Splits!ReservedBy(list, totals) = g[DOMAIN list]
<1>1. Splits!ReservedBy(list, totals) = (CHOOSE g : Charges(g, list, totals, DOMAIN list))[DOMAIN list]
  BY DEF Splits!ReservedBy, Splits!MapThenFoldSet, Charges, Charge
<1>2. \E g : Charges(g, list, totals, DOMAIN list)
  BY ChargesExist
<1>3. PICK g : g = CHOOSE h : Charges(h, list, totals, DOMAIN list)
  OBVIOUS
<1>4. Charges(g, list, totals, DOMAIN list)
  BY <1>2, <1>3, Zenon
<1> QED
  BY <1>1, <1>3, <1>4

LEMMA ChargedWithin ==
    ASSUME NEW payout \in Payouts, NEW totals \in [EarningSongs -> Nat], NEW reserved, Within(reserved, totals)
    PROVE  Within(Splits!Charged(payout, totals, reserved), totals)
<1>0. reserved \in [EarningSongs -> Nat] /\ \A e \in EarningSongs : reserved[e] <= totals[e]
  BY DEF Within
<1> DEFINE split == Splits!SplitOf(payout, totals, reserved)
<1>1. split \in [EarningSongs -> Nat] /\ \A e \in EarningSongs : split[e] <= totals[e] - reserved[e]
  <2>1. PICK valid : valid = Splits!ValidSaved(payout.saved, totals, reserved)
    OBVIOUS
  <2>2. \A e \in EarningSongs : Splits!AtMost(payout.saved[e], Splits!Positive(totals[e] - reserved[e])) \in 0 .. totals[e] - reserved[e]
    BY <1>0 DEF Splits!AtMost, Splits!Positive, Payouts
  <2>3. valid \in [EarningSongs -> Nat] /\ \A e \in EarningSongs : valid[e] <= totals[e] - reserved[e]
    <3>1. ASSUME NEW e \in EarningSongs PROVE /\ Splits!AtMost(payout.saved[e], Splits!Positive(totals[e] - reserved[e])) \in Nat
                                              /\ Splits!AtMost(payout.saved[e], Splits!Positive(totals[e] - reserved[e])) <= totals[e] - reserved[e]
      BY <1>0, <2>2
    <3> QED
      BY <2>1, <3>1 DEF Splits!ValidSaved
  <2>4. PICK new : new = Splits!AllocateAcrossSongs(totals, reserved, payout.amount)
    OBVIOUS
  <2>5. new \in [EarningSongs -> Nat] /\ \A e \in EarningSongs : new[e] <= totals[e] - reserved[e]
    <3>1. Allocates(new, Splits!Balance(totals, reserved), payout.amount)
      BY <1>0, <2>4, AllocationSound DEF Payouts
    <3>2. \A e \in EarningSongs : Splits!Balance(totals, reserved)[e] = totals[e] - reserved[e]
      BY <1>0, BalanceNumbers DEF Splits!Positive
    <3> QED
      BY <3>1, <3>2 DEF Allocates
  <2>6. split = valid \/ split = new
    BY <2>1, <2>4 DEF Splits!SplitOf
  <2> QED
    BY <2>3, <2>5, <2>6
<1> HIDE DEF split
<1>2. CASE payout.counts
  <2>1. Splits!Charged(payout, totals, reserved) = [e \in EarningSongs |-> reserved[e] + split[e]]
    BY <1>2 DEF Splits!Charged, Splits!Plus, split
  <2>2. \A e \in EarningSongs : reserved[e] + split[e] \in Nat /\ reserved[e] + split[e] <= totals[e]
    BY <1>0, <1>1
  <2> QED
    BY <2>1, <2>2 DEF Within
<1>3. CASE ~payout.counts
  BY <1>3 DEF Splits!Charged
<1> QED
  BY <1>2, <1>3

LEMMA SeqIndices ==
    ASSUME NEW list \in Seq(Payouts)
    PROVE  DOMAIN list \in SUBSET Nat /\ IsFiniteSet(DOMAIN list) /\ DOMAIN list = 1 .. Len(list) /\ \A i \in DOMAIN list : list[i] \in Payouts
<1>1. DOMAIN list = 1 .. Len(list) /\ Len(list) \in Nat
  OBVIOUS
<1> QED
  BY <1>1, FS_Interval

LEMMA ReservedWithin ==
    ASSUME NEW list \in Seq(Payouts), NEW totals \in [EarningSongs -> Nat]
    PROVE  Within(Splits!ReservedBy(list, totals), totals)
<1>0. DOMAIN list \in SUBSET Nat /\ IsFiniteSet(DOMAIN list) /\ \A i \in DOMAIN list : list[i] \in Payouts
  BY SeqIndices
<1>a. PICK D : D = DOMAIN list
  OBVIOUS
<1>1. PICK g : Charges(g, list, totals, D) /\ Splits!ReservedBy(list, totals) = g[D]
  BY <1>0, <1>a, ReservedIs
<1> DEFINE T == {s \in SUBSET D : Within(g[s], totals)}
<1>2. ASSUME NEW s \in SUBSET D, \A x \in s : s \ {x} \in T PROVE s \in T
  <2>1. g[s] = Charge(g, list, totals, s)
    BY <1>1 DEF Charges
  <2>2. CASE s = {}
    BY <2>1, <2>2 DEF Charge, Within, Splits!Zero
  <2>3. CASE s # {}
    <3>1. Splits!Max(s) \in s
      <4>1. IsFiniteSet(s) /\ s \in SUBSET Nat
        BY <1>0, <1>a, FS_Subset
      <4> QED
        BY <2>3, <4>1, LastIndex
    <3>2. Within(g[s \ {Splits!Max(s)}], totals)
      BY <1>2, <3>1
    <3>3. list[Splits!Max(s)] \in Payouts
      BY <1>0, <1>a, <3>1
    <3>4. Within(Splits!Charged(list[Splits!Max(s)], totals, g[s \ {Splits!Max(s)}]), totals)
      BY <3>2, <3>3, ChargedWithin
    <3> QED
      BY <2>1, <2>3, <3>4 DEF Charge
  <2> QED
    BY <2>2, <2>3
<1>3. T \in SUBSET (SUBSET D)
  OBVIOUS
<1>4. T = SUBSET D
  <2>1. IsFiniteSet(D)
    BY <1>0, <1>a
  <2> HIDE DEF T
  <2> QED
    BY <2>1, <1>2, <1>3, SetInduction
<1>5. D \in T
  BY <1>4
<1> QED
  BY <1>a, <1>1, <1>5

LEMMA ChargedAsSaved ==
    ASSUME NEW payout \in Payouts, Meets(payout), NEW totals \in [EarningSongs -> Nat], NEW reserved \in [EarningSongs -> Nat],
           \A e \in EarningSongs : reserved[e] + payout.saved[e] <= totals[e]
    PROVE  Splits!SplitOf(payout, totals, reserved) = payout.saved
<1>1. payout.saved \in [EarningSongs -> Nat]
  BY DEF Payouts
<1>2. \A e \in EarningSongs : Splits!AtMost(payout.saved[e], Splits!Positive(totals[e] - reserved[e])) = payout.saved[e]
  BY <1>1 DEF Splits!AtMost, Splits!Positive
<1>3. Splits!ValidSaved(payout.saved, totals, reserved) = payout.saved
  BY <1>1, <1>2 DEF Splits!ValidSaved
<1> QED
  BY <1>3 DEF Splits!SplitOf, Meets

LEMMA SavedNumbers ==
    ASSUME NEW list \in Seq(Payouts), NEW e \in EarningSongs
    PROVE  Numbers(SavedFor(list, e), DOMAIN list) /\ Numbers(SavedFor(list, e), CountingIn(list)) /\ SavedOn(list, e) \in Nat
<1>1. IsFiniteSet(DOMAIN list) /\ \A i \in DOMAIN list : list[i] \in Payouts
  BY SeqIndices
<1>2. CountingIn(list) \in SUBSET (DOMAIN list)
  BY DEF CountingIn
<1>3. \A i \in DOMAIN list : SavedFor(list, e)[i] \in Nat
  BY <1>1 DEF SavedFor, Payouts
<1>4. Numbers(SavedFor(list, e), DOMAIN list)
  BY <1>1, <1>3 DEF Numbers
<1>5. Numbers(SavedFor(list, e), CountingIn(list))
  BY <1>1, <1>2, <1>3, FS_Subset DEF Numbers
<1> QED
  BY <1>2, <1>4, <1>5, SumRules DEF SavedOn

LEMMA ReservedAsSaved ==
    ASSUME NEW list \in Seq(Payouts), NEW totals \in [EarningSongs -> Nat], Carried(list, totals), NEW e \in EarningSongs
    PROVE  Splits!ReservedBy(list, totals)[e] = SavedOn(list, e)
<1>0. DOMAIN list \in SUBSET Nat /\ IsFiniteSet(DOMAIN list) /\ \A i \in DOMAIN list : list[i] \in Payouts
  BY SeqIndices
<1>a. PICK D, C : D = DOMAIN list /\ C = CountingIn(list)
  OBVIOUS
<1>b. \A d \in EarningSongs : Numbers(SavedFor(list, d), C) /\ SavedOn(list, d) \in Nat /\ SavedOn(list, d) = Splits!TotalOver(SavedFor(list, d), C)
  BY <1>a, SavedNumbers DEF SavedOn
<1>1. PICK g : Charges(g, list, totals, D) /\ Splits!ReservedBy(list, totals) = g[D]
  BY <1>0, <1>a, ReservedIs
<1> DEFINE T == {s \in SUBSET D : /\ g[s] \in [EarningSongs -> Nat]
                                  /\ \A d \in EarningSongs : g[s][d] = Splits!TotalOver(SavedFor(list, d), C \cap s)}
<1>2. ASSUME NEW s \in SUBSET D, \A x \in s : s \ {x} \in T PROVE s \in T
  <2>1. g[s] = Charge(g, list, totals, s)
    BY <1>1 DEF Charges
  <2>2. CASE s = {}
    <3>1. \A d \in EarningSongs : Splits!TotalOver(SavedFor(list, d), C \cap s) = 0
      <4>1. C \cap s = {}
        BY <2>2
      <4> QED
        BY <1>b, <4>1, SumRules
    <3> QED
      BY <2>1, <2>2, <3>1 DEF Charge, Splits!Zero
  <2>3. CASE s # {}
    <3>1. PICK x \in s : x = Splits!Max(s)
      <4>1. IsFiniteSet(s) /\ s \in SUBSET Nat
        BY <1>0, <1>a, FS_Subset
      <4> QED
        BY <2>3, <4>1, LastIndex
    <3>2. PICK reserved \in [EarningSongs -> Nat] : reserved = g[s \ {x}]
      BY <1>2
    <3>3. \A d \in EarningSongs : reserved[d] = Splits!TotalOver(SavedFor(list, d), C \cap (s \ {x}))
      BY <1>2, <3>2
    <3>4. list[x] \in Payouts /\ Meets(list[x])
      BY <1>0, <1>a DEF Carried
    <3>5. g[s] = Splits!Charged(list[x], totals, reserved)
      BY <2>1, <2>3, <3>1, <3>2 DEF Charge
    <3>6. CASE ~list[x].counts
      <4>1. C \cap s = C \cap (s \ {x})
        BY <1>a, <3>6 DEF CountingIn
      <4>2. g[s] = reserved
        BY <3>5, <3>6 DEF Splits!Charged
      <4> QED
        BY <3>3, <4>1, <4>2
    <3>7. CASE list[x].counts
      <4>1. x \in C \cap s /\ (C \cap s) \ {x} = C \cap (s \ {x}) /\ C \cap s \in SUBSET C
        BY <1>a, <3>7 DEF CountingIn
      <4>2. ASSUME NEW d \in EarningSongs
            PROVE  /\ Splits!TotalOver(SavedFor(list, d), C \cap s) = reserved[d] + list[x].saved[d]
                   /\ reserved[d] + list[x].saved[d] <= totals[d]
        <5>1. Numbers(SavedFor(list, d), C) /\ SavedOn(list, d) <= totals[d] /\ SavedOn(list, d) \in Nat
          BY <1>b DEF Carried
        <5>2. Splits!TotalOver(SavedFor(list, d), C \cap s) = SavedFor(list, d)[x] + Splits!TotalOver(SavedFor(list, d), (C \cap s) \ {x})
          <6>1. PICK f : f = SavedFor(list, d)
            OBVIOUS
          <6>2. PICK A \in SUBSET C : A = C \cap s /\ x \in A
            BY <4>1
          <6>3. Splits!TotalOver(f, A) = f[x] + Splits!TotalOver(f, A \ {x})
            BY <5>1, <6>1, <6>2, SumRules
          <6> QED
            BY <6>1, <6>2, <6>3
        <5>3. SavedFor(list, d)[x] = list[x].saved[d] /\ list[x].saved[d] \in Nat
          BY <1>a, <3>4 DEF SavedFor, Payouts
        <5>4. Splits!TotalOver(SavedFor(list, d), C \cap s) <= SavedOn(list, d)
          <6>1. Splits!TotalOver(SavedFor(list, d), C \cap s) <= Splits!TotalOver(SavedFor(list, d), C)
            BY <4>1, <5>1, SumSubset
          <6> QED
            BY <1>b, <6>1
        <5>5. reserved[d] = Splits!TotalOver(SavedFor(list, d), (C \cap s) \ {x}) /\ reserved[d] \in Nat
          BY <3>3, <4>1
        <5>6. totals[d] \in Nat
          OBVIOUS
        <5> QED
          BY <5>1, <5>2, <5>3, <5>4, <5>5, <5>6
      <4>3. Splits!SplitOf(list[x], totals, reserved) = list[x].saved
        BY <3>4, <4>2, ChargedAsSaved
      <4>4. g[s] = [d \in EarningSongs |-> reserved[d] + list[x].saved[d]]
        BY <3>5, <3>7, <4>3 DEF Splits!Charged, Splits!Plus
      <4>5. \A d \in EarningSongs : reserved[d] + list[x].saved[d] \in Nat
        BY <3>4 DEF Payouts
      <4>6. g[s] \in [EarningSongs -> Nat]
        BY <4>4, <4>5
      <4>7. \A d \in EarningSongs : g[s][d] = Splits!TotalOver(SavedFor(list, d), C \cap s)
        BY <4>2, <4>4
      <4> QED
        BY <4>6, <4>7
    <3> QED
      BY <3>6, <3>7
  <2> QED
    BY <2>2, <2>3
<1>3. T \in SUBSET (SUBSET D)
  OBVIOUS
<1>4. T = SUBSET D
  <2>1. IsFiniteSet(D)
    BY <1>0, <1>a
  <2> HIDE DEF T
  <2> QED
    BY <2>1, <1>2, <1>3, SetInduction
<1>5. D \in T
  BY <1>4
<1>6. C \cap D = C
  BY <1>a DEF CountingIn
<1> QED
  BY <1>a, <1>b, <1>1, <1>5, <1>6

LEMMA SplitTypes == Splits!TypeOK <=> income \in [EarningSongs -> Nat] /\ payouts \in Seq(Payouts) /\ disturbed \in BOOLEAN
BY DEF Splits!TypeOK, Payouts

LEMMA SplitsStart == Splits!Init => SplitInv
<1> SUFFICES ASSUME Splits!Init PROVE SplitInv
  OBVIOUS
<1>1. income \in [EarningSongs -> Nat] /\ (\A e \in EarningSongs : income[e] = 0) /\ payouts = <<>> /\ disturbed = FALSE
  BY DEF Splits!Init, Splits!Zero
<1>2. <<>> \in Seq(Payouts)
  OBVIOUS
<1>3. Splits!TypeOK
  BY <1>1, <1>2, SplitTypes
<1>4. ASSUME NEW e \in EarningSongs PROVE SavedOn(<<>>, e) <= 0
  <2>1. CountingIn(<<>>) = {} /\ Numbers(SavedFor(<<>>, e), {})
    BY FS_EmptySet DEF CountingIn, Numbers
  <2>2. SavedOn(<<>>, e) = 0
    BY <2>1, SumRules DEF SavedOn
  <2> QED
    BY <2>2
<1>5. Carried(payouts, income)
  BY <1>1, <1>4 DEF Carried
<1> QED
  BY <1>3, <1>5 DEF SplitInv

\* Songs that earn more carry what they carried.
LEMMA KeepsEarning == ASSUME SplitInv, NEW s \in EarningSongs, Splits!Play(s) PROVE SplitInv'
<1>1. income \in [EarningSongs -> Nat] /\ payouts \in Seq(Payouts) /\ disturbed \in BOOLEAN
  BY SplitTypes DEF SplitInv
<1>2. income' = [income EXCEPT ![s] = @ + 1] /\ payouts' = payouts /\ disturbed' = disturbed
  BY DEF Splits!Play
<1>3. income' \in [EarningSongs -> Nat] /\ \A e \in EarningSongs : income[e] <= income'[e]
  BY <1>1, <1>2
<1>4. Splits!TypeOK'
  BY <1>1, <1>2, <1>3 DEF Splits!TypeOK, Payouts
<1>5. ASSUME ~disturbed PROVE Carried(payouts, income')
  <2>1. \A e \in EarningSongs : SavedOn(payouts, e) \in Nat
    BY <1>1, SavedNumbers
  <2> QED
    BY <1>1, <1>3, <1>5, <2>1 DEF SplitInv, Carried
<1>6. disturbed' \/ Carried(payouts', income')
  BY <1>1, <1>2, <1>5
<1> QED
  BY <1>4, <1>6 DEF SplitInv

LEMMA KeepsLoss == ASSUME SplitInv, NEW s \in EarningSongs, Splits!Forget(s) PROVE SplitInv'
<1>1. income \in [EarningSongs -> Nat] /\ payouts \in Seq(Payouts)
  BY SplitTypes DEF SplitInv
<1>2. PICK left \in 0 .. income[s] - 1 : income' = [income EXCEPT ![s] = left]
  BY DEF Splits!Forget
<1>3. left \in Nat
  BY <1>1, <1>2
<1>4. income' \in [EarningSongs -> Nat] /\ payouts' = payouts /\ disturbed' = TRUE
  BY <1>1, <1>2, <1>3 DEF Splits!Forget
<1>5. Splits!TypeOK'
  BY <1>1, <1>4 DEF Splits!TypeOK, Payouts
<1> QED
  BY <1>4, <1>5 DEF SplitInv

\* A payout is put on the list with a split the songs can carry.
LEMMA AmountNumber ==
    ASSUME income \in [EarningSongs -> Nat], payouts \in Seq(Payouts), NEW amount,
           amount = (Splits!Positive(Splits!Total(income) - Splits!Drawn) \div Quanta) * Quanta
    PROVE  amount \in Nat /\ (amount > 0 => amount > 1)
<1>1. Splits!Total(income) \in Nat
  <2>1. Numbers(income, EarningSongs) /\ EarningSongs \in SUBSET EarningSongs
    BY EarningAssumption DEF Numbers
  <2> QED
    BY <2>1, SumRules DEF Splits!Total
<1>2. Splits!Drawn \in Nat
  <2>1. Splits!Counting \in SUBSET (DOMAIN payouts) /\ Splits!Counting \in SUBSET Splits!Counting
    BY DEF Splits!Counting
  <2>2. PICK f : f = [i \in Splits!Counting |-> payouts[i].amount]
    OBVIOUS
  <2>3. IsFiniteSet(Splits!Counting) /\ \A i \in Splits!Counting : f[i] \in Nat
    BY <2>1, <2>2, SeqIndices, FS_Subset DEF Payouts
  <2>4. Numbers(f, Splits!Counting)
    BY <2>3 DEF Numbers
  <2> QED
    BY <2>1, <2>2, <2>4, SumRules DEF Splits!Drawn
<1>3. PICK free \in Nat : free = Splits!Positive(Splits!Total(income) - Splits!Drawn)
  BY <1>1, <1>2 DEF Splits!Positive
<1>4. PICK q \in Nat : q = Quanta /\ q > 1
  BY EarningAssumption
<1>5. PICK k \in Nat : k = free \div q
  BY <1>4, Quotient
<1>6. amount = k * q
  BY <1>3, <1>4, <1>5
<1>7. k >= 1 => k * q >= 1 * q
  BY <1>4, TimesMore
<1>8. k = 0 => k * q = 0
  BY <1>4
<1> QED
  BY <1>4, <1>5, <1>6, <1>7, <1>8

LEMMA CarriesNew ==
    ASSUME NEW list \in Seq(Payouts), NEW totals \in [EarningSongs -> Nat], Carried(list, totals), NEW amount \in Nat,
           NEW split, split = Splits!AllocateAcrossSongs(totals, Splits!ReservedBy(list, totals), amount),
           NEW entry, entry = [amount |-> amount, saved |-> split, counts |-> TRUE], Meets(entry)
    PROVE  Carried(Append(list, entry), totals)
<1>1. PICK reserved \in [EarningSongs -> Nat] : reserved = Splits!ReservedBy(list, totals)
  BY ReservedWithin DEF Within
<1>2. split \in [EarningSongs -> Nat] /\ \A e \in EarningSongs : split[e] <= Splits!Positive(totals[e] - reserved[e])
  <2>1. Allocates(split, Splits!Balance(totals, reserved), amount)
    BY <1>1, AllocationSound
  <2>2. \A e \in EarningSongs : Splits!Balance(totals, reserved)[e] = Splits!Positive(totals[e] - reserved[e])
    BY BalanceNumbers
  <2> QED
    BY <2>1, <2>2 DEF Allocates
<1>3. entry \in Payouts
  BY <1>2 DEF Payouts
<1>4. PICK n \in Nat : n = Len(list) /\ DOMAIN list = 1 .. n
  OBVIOUS
<1>5. PICK new \in Seq(Payouts) : new = Append(list, entry)
  <2>1. Append(list, entry) \in Seq(Payouts)
    BY <1>3, AppendProperties
  <2> QED
    BY <2>1
<1>6. DOMAIN new = 1 .. n + 1 /\ new[n + 1] = entry /\ \A i \in 1 .. n : new[i] = list[i]
  BY <1>3, <1>4, <1>5
<1>7. \A i \in DOMAIN new : Meets(new[i])
  <2>1. ASSUME NEW i \in DOMAIN new PROVE Meets(new[i])
    <3>1. i \in 1 .. n \/ i = n + 1
      BY <1>4, <1>6
    <3> QED
      BY <1>4, <1>6, <3>1 DEF Carried
  <2> QED
    BY <2>1
<1>8. ASSUME NEW e \in EarningSongs PROVE SavedOn(new, e) <= totals[e]
  <2>1. PICK f, C : f = SavedFor(new, e) /\ C = CountingIn(new)
    OBVIOUS
  <2>2. PICK g, B : g = SavedFor(list, e) /\ B = CountingIn(list)
    OBVIOUS
  <2>3. n + 1 \in C /\ C \ {n + 1} = B /\ C \in SUBSET C
    BY <1>4, <1>6, <2>1, <2>2 DEF CountingIn
  <2>4. Numbers(f, C) /\ Numbers(g, B)
    BY <2>1, <2>2, SavedNumbers
  <2>5. Splits!TotalOver(f, C) = f[n + 1] + Splits!TotalOver(f, B)
    <3>1. PICK x \in C : x = n + 1
      BY <2>3
    <3>2. Splits!TotalOver(f, C) = f[x] + Splits!TotalOver(f, C \ {x})
      BY <2>4, SumFirst
    <3> QED
      BY <2>3, <3>1, <3>2
  <2>6. f[n + 1] = split[e]
    BY <1>6, <2>1, <1>4 DEF SavedFor
  <2>7. \A i \in B : g[i] = f[i]
    BY <1>4, <1>6, <2>1, <2>2 DEF SavedFor, CountingIn
  <2>8. Splits!TotalOver(g, B) = Splits!TotalOver(f, B)
    BY <2>4, <2>7, SumSame
  <2>9. reserved[e] = Splits!TotalOver(g, B)
    BY <1>1, <2>2, ReservedAsSaved DEF SavedOn
  <2>10. SavedOn(new, e) = split[e] + reserved[e]
    BY <2>1, <2>5, <2>6, <2>8, <2>9 DEF SavedOn
  <2>11. SavedOn(list, e) = reserved[e] /\ reserved[e] <= totals[e]
    BY <1>1, ReservedAsSaved DEF Carried
  <2>12. split[e] \in Nat /\ reserved[e] \in Nat /\ totals[e] \in Nat /\ split[e] <= Splits!Positive(totals[e] - reserved[e])
    BY <1>1, <1>2
  <2> QED
    BY <2>10, <2>11, <2>12 DEF Splits!Positive
<1> QED
  BY <1>5, <1>7, <1>8 DEF Carried

LEMMA KeepsSplitSubmit == ASSUME SplitInv, Splits!Submit PROVE SplitInv'
<1>1. income \in [EarningSongs -> Nat] /\ payouts \in Seq(Payouts) /\ disturbed \in BOOLEAN
  BY SplitTypes DEF SplitInv
<1>2. PICK amount : amount = (Splits!Positive(Splits!Total(income) - Splits!Drawn) \div Quanta) * Quanta
  OBVIOUS
<1>3. PICK split : split = Splits!AllocateAcrossSongs(income, Splits!ReservedBy(payouts, income), amount)
  OBVIOUS
<1>4. PICK entry : entry = [amount |-> amount, saved |-> split, counts |-> TRUE]
  OBVIOUS
<1>5. amount > 0 /\ ~Splits!Differ(Splits!Total(split), amount) /\ payouts' = Append(payouts, entry) /\ income' = income /\ disturbed' = disturbed
  BY <1>2, <1>3, <1>4 DEF Splits!Submit
<1>6. amount \in Nat /\ amount > 1
  BY <1>1, <1>2, <1>5, AmountNumber
<1>7. Splits!ReservedBy(payouts, income) \in [EarningSongs -> Nat]
  BY <1>1, ReservedWithin DEF Within
<1>8. split \in [EarningSongs -> Nat]
  BY <1>1, <1>3, <1>6, <1>7, AllocationSound DEF Allocates
<1>9. entry \in Payouts
  BY <1>4, <1>6, <1>8 DEF Payouts
<1>10. Meets(entry)
  <2>1. Splits!Total(split) # 0
    BY <1>5, <1>6 DEF Splits!Differ
  <2> QED
    BY <1>4, <1>5, <2>1 DEF Meets
<1>11. Splits!TypeOK'
  BY <1>1, <1>5, <1>9 DEF Splits!TypeOK, Payouts
<1>12. ASSUME ~disturbed PROVE Carried(Append(payouts, entry), income)
  BY <1>1, <1>3, <1>4, <1>6, <1>10, <1>12, CarriesNew DEF SplitInv
<1>13. disturbed' \/ Carried(payouts', income')
  BY <1>1, <1>5, <1>12
<1> QED
  BY <1>11, <1>13 DEF SplitInv

LEMMA CarriesFewer ==
    ASSUME NEW list \in Seq(Payouts), NEW totals \in [EarningSongs -> Nat], Carried(list, totals),
           NEW fewer \in Seq(Payouts), DOMAIN fewer \in SUBSET (DOMAIN list),
           \A j \in DOMAIN fewer : /\ fewer[j].saved = list[j].saved /\ fewer[j].amount = list[j].amount
                                   /\ fewer[j].counts => list[j].counts
    PROVE  Carried(fewer, totals)
<1>1. \A j \in DOMAIN fewer : Meets(fewer[j])
  BY DEF Carried, Meets
<1>2. ASSUME NEW e \in EarningSongs PROVE SavedOn(fewer, e) <= totals[e]
  <2>1. PICK f, C : f = SavedFor(list, e) /\ C = CountingIn(list)
    OBVIOUS
  <2>2. PICK g, B : g = SavedFor(fewer, e) /\ B = CountingIn(fewer)
    OBVIOUS
  <2>3. B \in SUBSET C /\ \A j \in B : g[j] = f[j]
    BY <2>1, <2>2 DEF CountingIn, SavedFor
  <2>4. Numbers(f, C) /\ Numbers(g, B)
    BY <2>1, <2>2, SavedNumbers
  <2>5. Splits!TotalOver(g, B) = Splits!TotalOver(f, B)
    BY <2>3, <2>4, SumSame
  <2>6. Splits!TotalOver(f, B) <= Splits!TotalOver(f, C)
    BY <2>3, <2>4, SumSubset
  <2>7. SavedOn(fewer, e) <= SavedOn(list, e)
    BY <2>1, <2>2, <2>5, <2>6 DEF SavedOn
  <2>8. SavedOn(fewer, e) \in Nat /\ SavedOn(list, e) \in Nat /\ totals[e] \in Nat /\ SavedOn(list, e) <= totals[e]
    BY SavedNumbers DEF Carried
  <2> QED
    BY <2>7, <2>8
<1> QED
  BY <1>1, <1>2 DEF Carried

LEMMA KeepsDecided ==
    ASSUME SplitInv, NEW i \in DOMAIN payouts, Splits!Reject(i) \/ Splits!Reopen(i)
    PROVE  SplitInv'
<1>1. income \in [EarningSongs -> Nat] /\ payouts \in Seq(Payouts) /\ disturbed \in BOOLEAN
  BY SplitTypes DEF SplitInv
<1>2. PICK is \in BOOLEAN : payouts' = [payouts EXCEPT ![i].counts = is] /\ income' = income
                            /\ (disturbed' = TRUE \/ (disturbed' = disturbed /\ is = FALSE))
  <2>1. CASE Splits!Reject(i)
    <3>1. payouts' = [payouts EXCEPT ![i].counts = FALSE] /\ income' = income /\ disturbed' = disturbed
      BY <2>1 DEF Splits!Reject
    <3> QED
      BY <3>1
  <2>2. CASE Splits!Reopen(i)
    <3>1. payouts' = [payouts EXCEPT ![i].counts = TRUE] /\ income' = income /\ disturbed' = TRUE
      BY <2>2 DEF Splits!Reopen
    <3> WITNESS TRUE \in BOOLEAN
    <3> QED
      BY <3>1
  <2> QED
    BY <2>1, <2>2
<1>3. payouts[i] \in Payouts
  BY <1>1
<1>4. PICK entry : entry = [payouts[i] EXCEPT !.counts = is]
  OBVIOUS
<1>5. entry \in Payouts /\ entry.saved = payouts[i].saved /\ entry.amount = payouts[i].amount /\ entry.counts = is
  BY <1>3, <1>4 DEF Payouts
<1>6. payouts' = [payouts EXCEPT ![i] = entry]
  BY <1>2, <1>4
<1>7. payouts' \in Seq(Payouts) /\ DOMAIN payouts' = DOMAIN payouts
  BY <1>1, <1>5, <1>6
<1>8. \A j \in DOMAIN payouts : payouts'[j] = IF j = i THEN entry ELSE payouts[j]
  BY <1>1, <1>6
<1>9. Splits!TypeOK'
  BY <1>1, <1>2, <1>7 DEF Splits!TypeOK, Payouts
<1>10. ASSUME ~disturbed, is = FALSE PROVE Carried(payouts', income)
  <2>1. PICK fewer \in Seq(Payouts) : fewer = payouts'
    BY <1>7
  <2>2. \A j \in DOMAIN fewer : /\ fewer[j].saved = payouts[j].saved /\ fewer[j].amount = payouts[j].amount
                                /\ fewer[j].counts => payouts[j].counts
    BY <1>5, <1>7, <1>8, <1>10, <2>1
  <2>3. Carried(payouts, income)
    BY <1>10 DEF SplitInv
  <2>4. Carried(fewer, income)
    BY <1>1, <1>7, <2>1, <2>2, <2>3, CarriesFewer
  <2> QED
    BY <2>1, <2>4
<1>11. disturbed' \/ Carried(payouts', income')
  BY <1>1, <1>2, <1>10
<1> QED
  BY <1>9, <1>11 DEF SplitInv

LEMMA SplitsStep == ASSUME SplitInv, Splits!Next \/ UNCHANGED Splits!vars PROVE SplitInv'
<1>1. CASE \E s \in EarningSongs : Splits!Play(s) \/ Splits!Forget(s)
  BY <1>1, KeepsEarning, KeepsLoss
<1>2. CASE Splits!Submit
  BY <1>2, KeepsSplitSubmit
<1>3. CASE \E i \in DOMAIN payouts : Splits!Reject(i) \/ Splits!Reopen(i)
  BY <1>3, KeepsDecided
<1>4. CASE UNCHANGED Splits!vars
  <2>1. income' = income /\ payouts' = payouts /\ disturbed' = disturbed
    BY <1>4 DEF Splits!vars
  <2> QED
    BY <2>1 DEF SplitInv, Splits!TypeOK
<1> QED
  BY <1>1, <1>2, <1>3, <1>4 DEF Splits!Next

LEMMA SplitsFit == ASSUME SplitInv PROVE Splits!SplitSound
<1>1. income \in [EarningSongs -> Nat] /\ payouts \in Seq(Payouts)
  BY SplitTypes DEF SplitInv
<1>2. PICK reserved : reserved = Splits!ReservedBy(payouts, income)
  OBVIOUS
<1>3. reserved \in [EarningSongs -> Nat] /\ \A s \in EarningSongs : reserved[s] <= income[s]
  BY <1>1, <1>2, ReservedWithin DEF Within
<1>4. Splits!NoSongOverdrawn
  BY <1>2, <1>3 DEF Splits!NoSongOverdrawn
<1>5. PICK b : b = Splits!Balance(income, reserved)
  OBVIOUS
<1>6. Numbers(b, EarningSongs) /\ \A s \in EarningSongs : b[s] = income[s] - reserved[s]
  BY <1>1, <1>3, <1>5, BalanceNumbers DEF Splits!Positive
<1>7. Numbers(income, EarningSongs) /\ Numbers(reserved, EarningSongs) /\ EarningSongs \in SUBSET EarningSongs
  BY <1>1, <1>3, EarningAssumption DEF Numbers
<1>8. PICK i \in Nat, r \in Nat, n \in Nat : i = Splits!Total(income) /\ r = Splits!Total(reserved) /\ n = Splits!TotalOver(b, EarningSongs)
  BY <1>6, <1>7, SumRules DEF Splits!Total
<1>9. i = r + n
  <2>1. \A s \in EarningSongs : income[s] = reserved[s] + b[s]
    BY <1>1, <1>3, <1>6
  <2>2. Splits!TotalOver(income, EarningSongs) = Splits!TotalOver(reserved, EarningSongs) + Splits!TotalOver(b, EarningSongs)
    BY <1>6, <1>7, <2>1, SumPlus
  <2> QED
    BY <1>8, <2>2 DEF Splits!Total
<1>10. ASSUME NEW amount \in 1 .. Splits!Positive(i - r), NEW split, split = Splits!AllocateAcrossSongs(income, reserved, amount)
       PROVE  /\ Splits!Total(split) = amount
              /\ \A s, t \in EarningSongs : income[s] - reserved[s] > income[t] - reserved[t] => split[s] >= split[t]
  <2>1. amount \in Nat /\ amount <= n
    BY <1>8, <1>9 DEF Splits!Positive
  <2>2. Allocates(split, b, amount)
    BY <1>1, <1>3, <1>5, <1>10, <2>1, AllocationSound
  <2>3. Splits!Total(split) = amount
    BY <1>8, <2>1, <2>2 DEF Allocates, Splits!AtMost, Splits!Total
  <2> QED
    BY <1>6, <2>2, <2>3 DEF Allocates
<1>11. Splits!SplitExact
  BY <1>2, <1>8, <1>10 DEF Splits!SplitExact
<1> QED
  BY <1>4, <1>11 DEF Splits!SplitSound

LEMMA SplitsKept == ASSUME SplitInv PROVE Splits!HistoryStable
<1>1. income \in [EarningSongs -> Nat] /\ payouts \in Seq(Payouts)
  BY SplitTypes DEF SplitInv
<1>2. SUFFICES ASSUME ~disturbed, NEW i \in DOMAIN payouts, payouts[i].counts
               PROVE  Splits!SplitOf(payouts[i], income, Splits!ReservedBy(SubSeq(payouts, 1, i - 1), income)) = payouts[i].saved
  BY DEF Splits!HistoryStable, Splits!Counting
<1>3. Carried(payouts, income)
  BY <1>2 DEF SplitInv
<1>4. i \in Nat /\ i >= 1 /\ i <= Len(payouts) /\ DOMAIN payouts = 1 .. Len(payouts) /\ Len(payouts) \in Nat /\ payouts[i] \in Payouts
  BY <1>1
<1>5. PICK first : first = SubSeq(payouts, 1, i - 1)
  OBVIOUS
<1>6. first \in Seq(Payouts) /\ Len(first) = i - 1 /\ \A j \in 1 .. i - 1 : first[j] = payouts[j]
  BY <1>1, <1>4, <1>5, SubSeqProperties
<1>7. DOMAIN first = 1 .. i - 1 /\ DOMAIN first \in SUBSET (DOMAIN payouts)
  BY <1>4, <1>6
<1>8. Carried(first, income)
  BY <1>1, <1>3, <1>6, <1>7, CarriesFewer
<1>9. PICK reserved \in [EarningSongs -> Nat] : reserved = Splits!ReservedBy(first, income)
  BY <1>1, <1>6, ReservedWithin DEF Within
<1>10. ASSUME NEW e \in EarningSongs PROVE reserved[e] + payouts[i].saved[e] <= income[e]
  <2>1. PICK f, C : f = SavedFor(payouts, e) /\ C = CountingIn(payouts)
    OBVIOUS
  <2>2. PICK g, B : g = SavedFor(first, e) /\ B = CountingIn(first)
    OBVIOUS
  <2>3. B \subseteq C /\ i \notin B /\ i \in C /\ (\A j \in B : g[j] = f[j]) /\ f[i] = payouts[i].saved[e]
    BY <1>2, <1>4, <1>6, <1>7, <2>1, <2>2 DEF CountingIn, SavedFor
  <2>4. Numbers(f, C) /\ Numbers(g, B)
    BY <1>1, <1>6, <2>1, <2>2, SavedNumbers
  <2>5. PICK A \in SUBSET C : A = B \cup {i} /\ A \ {i} = B /\ i \in A
    <3>1. B \cup {i} \in SUBSET C
      BY <2>3
    <3>2. (B \cup {i}) \ {i} = B /\ i \in B \cup {i}
      BY <2>3
    <3> QED
      BY <3>1, <3>2
  <2>6. Splits!TotalOver(f, A) = f[i] + Splits!TotalOver(f, B)
    BY <2>4, <2>5, SumRules
  <2>7. Splits!TotalOver(f, A) <= Splits!TotalOver(f, C)
    BY <2>4, SumSubset
  <2>8. Splits!TotalOver(g, B) = Splits!TotalOver(f, B)
    BY <2>3, <2>4, SumSame
  <2>9. reserved[e] = Splits!TotalOver(g, B)
    BY <1>1, <1>6, <1>8, <1>9, <2>2, ReservedAsSaved DEF SavedOn
  <2>10. Splits!TotalOver(f, C) <= income[e] /\ Splits!TotalOver(f, C) \in Nat
    BY <1>1, <1>3, <2>1, SavedNumbers DEF Carried, SavedOn
  <2>11. reserved[e] \in Nat /\ f[i] \in Nat /\ income[e] \in Nat
    BY <1>1, <2>3, <2>4 DEF Numbers
  <2> QED
    BY <2>3, <2>6, <2>7, <2>8, <2>9, <2>10, <2>11
<1> QED
  BY <1>1, <1>3, <1>4, <1>5, <1>9, <1>10, ChargedAsSaved DEF Carried

-----------------------------------------------------------------------------
(* A playlist: the lists that its handlers make are folds over the places of a *)
(* list, the last of them last.                                               *)
LEMMA LastPlace ==
    ASSUME NEW S \in SUBSET Nat, IsFiniteSet(S), S # {}
    PROVE  Lists!Max(S) \in S /\ \A y \in S : Lists!Max(S) >= y
BY LastIndex DEF Splits!Max, Lists!Max

LEMMA IdsUptoExist ==
    ASSUME NEW list, NEW D \in SUBSET Nat, IsFiniteSet(D)
    PROVE  \E g : IdsUpto(g, list, D)
<1> DEFINE T == {s \in SUBSET D : \E g : IdsUpto(g, list, s)}
<1>1. ASSUME NEW s \in SUBSET D, \A x \in s : s \ {x} \in T PROVE s \in T
  <2>1. CASE s = {}
    <3>1. PICK g : g = [t \in SUBSET {} |-> <<>>]
      OBVIOUS
    <3>2. \A t \in SUBSET {} : IdsOf(g, list, t) = <<>>
      BY DEF IdsOf
    <3>3. IdsUpto(g, list, {})
      BY <3>1, <3>2 DEF IdsUpto
    <3> QED
      BY <2>1, <3>3
  <2>2. CASE s # {}
    <3>0. IsFiniteSet(s) /\ \A t \in SUBSET s : IsFiniteSet(t) /\ t \in SUBSET Nat
      BY FS_Subset
    <3>1. PICK x \in s : x = Lists!Max(s) /\ \A y \in s : x >= y
      BY <2>2, <3>0, LastPlace
    <3>2. PICK g : IdsUpto(g, list, s \ {x})
      BY <1>1
    <3>3. PICK k : k = [t \in SUBSET s |-> IF x \in t THEN Lists!NextId(g[t \ {x}], list[x]) ELSE g[t]]
      OBVIOUS
    <3>4. ASSUME NEW t \in SUBSET s PROVE k[t] = IdsOf(k, list, t)
      <4>1. CASE x \in t
        <5>1. Lists!Max(t) \in t /\ \A y \in t : Lists!Max(t) >= y
          BY <3>0, <4>1, LastPlace
        <5>2. Lists!Max(t) = x
          <6>1. Lists!Max(t) \in Nat /\ x \in Nat /\ Lists!Max(t) >= x /\ x >= Lists!Max(t)
            BY <3>1, <4>1, <5>1
          <6> QED
            BY <6>1
        <5>3. k[t \ {x}] = g[t \ {x}] /\ k[t] = Lists!NextId(g[t \ {x}], list[x])
          BY <3>3, <4>1
        <5> QED
          BY <4>1, <5>2, <5>3 DEF IdsOf
      <4>2. CASE x \notin t
        <5>1. t \in SUBSET (s \ {x}) /\ k[t] = g[t]
          BY <3>3, <4>2
        <5>2. g[t] = IdsOf(g, list, t)
          BY <3>2, <5>1 DEF IdsUpto
        <5>3. k[t \ {Lists!Max(t)}] = g[t \ {Lists!Max(t)}]
          BY <3>3, <4>2
        <5> QED
          BY <5>1, <5>2, <5>3 DEF IdsOf
      <4> QED
        BY <4>1, <4>2
    <3>5. IdsUpto(k, list, s)
      BY <3>3, <3>4 DEF IdsUpto
    <3> QED
      BY <3>5
  <2> QED
    BY <2>1, <2>2
<1>2. T \in SUBSET (SUBSET D)
  OBVIOUS
<1>3. T = SUBSET D
  <2> HIDE DEF T
  <2> QED
    BY <1>1, <1>2, SetInduction
<1>4. D \in T
  BY <1>3
<1> QED
  BY <1>4

LEMMA NormalIdsAre ==
    ASSUME NEW list, DOMAIN list \in SUBSET Nat, IsFiniteSet(DOMAIN list)
    PROVE  \E g : IdsUpto(g, list, DOMAIN list) /\ Lists!NormalIds(list) = g[DOMAIN list]
<1>1. Lists!NormalIds(list) = (CHOOSE g : IdsUpto(g, list, DOMAIN list))[DOMAIN list]
  BY DEF Lists!NormalIds, Lists!Folded, Lists!MapThenFoldSet, IdsUpto, IdsOf
<1>2. \E g : IdsUpto(g, list, DOMAIN list)
  BY IdsUptoExist
<1>3. PICK g : g = CHOOSE h : IdsUpto(h, list, DOMAIN list)
  OBVIOUS
<1>4. IdsUpto(g, list, DOMAIN list)
  BY <1>2, <1>3, Zenon
<1> QED
  BY <1>1, <1>3, <1>4

LEMMA TakenUptoExist ==
    ASSUME NEW S, NEW list, NEW D \in SUBSET Nat, IsFiniteSet(D)
    PROVE  \E g : TakenUpto(g, S, list, D)
<1> DEFINE T == {s \in SUBSET D : \E g : TakenUpto(g, S, list, s)}
<1>1. ASSUME NEW s \in SUBSET D, \A x \in s : s \ {x} \in T PROVE s \in T
  <2>1. CASE s = {}
    <3>1. PICK g : g = [t \in SUBSET {} |-> <<>>]
      OBVIOUS
    <3>2. \A t \in SUBSET {} : TakenOf(g, S, list, t) = <<>>
      BY DEF TakenOf
    <3>3. TakenUpto(g, S, list, {})
      BY <3>1, <3>2 DEF TakenUpto
    <3> QED
      BY <2>1, <3>3
  <2>2. CASE s # {}
    <3>0. IsFiniteSet(s) /\ \A t \in SUBSET s : IsFiniteSet(t) /\ t \in SUBSET Nat
      BY FS_Subset
    <3>1. PICK x \in s : x = Lists!Max(s) /\ \A y \in s : x >= y
      BY <2>2, <3>0, LastPlace
    <3>2. PICK g : TakenUpto(g, S, list, s \ {x})
      BY <1>1
    <3>3. PICK k : k = [t \in SUBSET s |-> IF x \in t THEN Lists!NextOf(S, g[t \ {x}], list[x]) ELSE g[t]]
      OBVIOUS
    <3>4. ASSUME NEW t \in SUBSET s PROVE k[t] = TakenOf(k, S, list, t)
      <4>1. CASE x \in t
        <5>1. Lists!Max(t) \in t /\ \A y \in t : Lists!Max(t) >= y
          BY <3>0, <4>1, LastPlace
        <5>2. Lists!Max(t) = x
          <6>1. Lists!Max(t) \in Nat /\ x \in Nat /\ Lists!Max(t) >= x /\ x >= Lists!Max(t)
            BY <3>1, <4>1, <5>1
          <6> QED
            BY <6>1
        <5>3. k[t \ {x}] = g[t \ {x}] /\ k[t] = Lists!NextOf(S, g[t \ {x}], list[x])
          BY <3>3, <4>1
        <5> QED
          BY <4>1, <5>2, <5>3 DEF TakenOf
      <4>2. CASE x \notin t
        <5>1. t \in SUBSET (s \ {x}) /\ k[t] = g[t]
          BY <3>3, <4>2
        <5>2. g[t] = TakenOf(g, S, list, t)
          BY <3>2, <5>1 DEF TakenUpto
        <5>3. k[t \ {Lists!Max(t)}] = g[t \ {Lists!Max(t)}]
          BY <3>3, <4>2
        <5> QED
          BY <5>1, <5>2, <5>3 DEF TakenOf
      <4> QED
        BY <4>1, <4>2
    <3>5. TakenUpto(k, S, list, s)
      BY <3>3, <3>4 DEF TakenUpto
    <3> QED
      BY <3>5
  <2> QED
    BY <2>1, <2>2
<1>2. T \in SUBSET (SUBSET D)
  OBVIOUS
<1>3. T = SUBSET D
  <2> HIDE DEF T
  <2> QED
    BY <1>1, <1>2, SetInduction
<1>4. D \in T
  BY <1>3
<1> QED
  BY <1>4

LEMMA OnlyIs ==
    ASSUME NEW S, NEW list, DOMAIN list \in SUBSET Nat, IsFiniteSet(DOMAIN list)
    PROVE  \E g : TakenUpto(g, S, list, DOMAIN list) /\ Lists!Only(S, list) = g[DOMAIN list]
<1>1. Lists!Only(S, list) = (CHOOSE g : TakenUpto(g, S, list, DOMAIN list))[DOMAIN list]
  BY DEF Lists!Only, Lists!Folded, Lists!MapThenFoldSet, TakenUpto, TakenOf
<1>2. \E g : TakenUpto(g, S, list, DOMAIN list)
  BY TakenUptoExist
<1>3. PICK g : g = CHOOSE h : TakenUpto(h, S, list, DOMAIN list)
  OBVIOUS
<1>4. TakenUpto(g, S, list, DOMAIN list)
  BY <1>2, <1>3, Zenon
<1> QED
  BY <1>1, <1>3, <1>4

LEMMA FirstIs ==
    ASSUME NEW order, NEW n \in DOMAIN order, DOMAIN order \in SUBSET (Nat \ {0}), NEW s, order[n][1] = s,
           \A k \in 1 .. n - 1 : k \in DOMAIN order /\ order[k][1] # s
    PROVE  Lists!First(order, s) = n
<1> DEFINE P(m) == order[m][1] = s /\ \A k \in 1 .. m - 1 : order[k][1] # s
<1>1. P(n)
  OBVIOUS
<1>2. PICK f : f = CHOOSE m \in DOMAIN order : P(m)
  OBVIOUS
<1>3. f \in DOMAIN order /\ P(f)
  <2> HIDE DEF P
  <2> QED
    BY <1>1, <1>2, Zenon
<1>4. f = Lists!First(order, s)
  BY <1>2 DEF Lists!First
<1>5. f \in Nat \ {0} /\ n \in Nat \ {0}
  BY <1>3
<1>6. ~(f < n)
  BY <1>3, <1>5
<1>7. ~(n < f)
  BY <1>1, <1>3, <1>5
<1> QED
  BY <1>4, <1>5, <1>6, <1>7

LEMMA NextIdGood ==
    ASSUME NEW order \in Seq(Lists!Entry), NEW k \in Nat, k + 1 <= Len(order), NEW ids, GoodIds(ids, order, k)
    PROVE  GoodIds(Lists!NextId(ids, order[k + 1]), order, k + 1)
<1>1. k + 1 \in 1 .. Len(order) /\ DOMAIN order = 1 .. Len(order) /\ Len(order) \in Nat
  OBVIOUS
<1>2. PICK s \in Items : s = order[k + 1][1]
  <2>1. order[k + 1] \in Lists!Entry
    BY <1>1
  <2> QED
    BY <2>1 DEF Lists!Entry
<1>3. ids \in Seq(Items) /\ Len(ids) \in Nat /\ Len(ids) <= k
  BY DEF GoodIds
<1>4. \A i \in 1 .. k + 1 : i \in 1 .. k \/ i = k + 1
  OBVIOUS
<1>5. CASE order[k + 1][1] \in Lists!Range(ids)
  <2>1. Lists!NextId(ids, order[k + 1]) = ids
    BY <1>5 DEF Lists!NextId
  <2>2. PICK a \in 1 .. Len(ids) : ids[a] = s
    BY <1>2, <1>5 DEF Lists!Range
  <2>3. \A i \in 1 .. k + 1 : \E b \in 1 .. Len(ids) : order[i][1] = ids[b]
    BY <1>2, <1>4, <2>2 DEF GoodIds
  <2>4. \A b \in 1 .. Len(ids) : \E i \in 1 .. k + 1 : order[i][1] = ids[b]
    BY DEF GoodIds
  <2>5. \A b \in 1 .. Len(ids) : Lists!First(order, ids[b]) \in 1 .. k + 1
    BY DEF GoodIds
  <2>6. Len(ids) <= k + 1
    BY <1>3
  <2>7. \A b, c \in 1 .. Len(ids) : b < c => Lists!First(order, ids[b]) < Lists!First(order, ids[c])
    BY DEF GoodIds
  <2>8. GoodIds(ids, order, k + 1)
    BY <1>3, <2>3, <2>4, <2>5, <2>6, <2>7 DEF GoodIds
  <2> QED
    BY <2>1, <2>8
<1>6. CASE order[k + 1][1] \notin Lists!Range(ids)
  <2>0. PICK longer : longer = Lists!NextId(ids, order[k + 1])
    OBVIOUS
  <2>1. longer = Append(ids, s) /\ longer = Lists!NextId(ids, order[k + 1])
    BY <1>2, <1>6, <2>0 DEF Lists!NextId
  <2>2. PICK n \in Nat : n = Len(ids)
    BY <1>3
  <2>3. longer \in Seq(Items) /\ Len(longer) = n + 1 /\ longer[n + 1] = s /\ \A a \in 1 .. n : longer[a] = ids[a]
    <3>1. ids \in Seq(Items) /\ s \in Items /\ longer = Append(ids, s) /\ n = Len(ids)
      BY <1>3, <2>1, <2>2
    <3> QED
      BY <3>1, AppendProperties
  <2>4. ASSUME NEW i \in 1 .. k PROVE order[i][1] # s
    <3>1. PICK a \in 1 .. Len(ids) : order[i][1] = ids[a]
      BY DEF GoodIds
    <3>2. a \in DOMAIN ids
      BY <1>3
    <3> QED
      BY <1>2, <1>6, <3>1, <3>2 DEF Lists!Range
  <2>5. Lists!First(order, s) = k + 1
    <3>1. \A i \in 1 .. (k + 1) - 1 : i \in DOMAIN order /\ order[i][1] # s
      BY <1>1, <2>4
    <3>2. k + 1 \in DOMAIN order /\ DOMAIN order \in SUBSET (Nat \ {0})
      BY <1>1
    <3> QED
      BY <1>2, <3>1, <3>2, FirstIs
  <2>6. \A a \in 1 .. n + 1 : a \in 1 .. n \/ a = n + 1
    OBVIOUS
  <2>7. \A a \in 1 .. n + 1 : \E i \in 1 .. k + 1 : order[i][1] = longer[a]
    <3>1. ASSUME NEW a \in 1 .. n PROVE \E i \in 1 .. k + 1 : order[i][1] = longer[a]
      BY <2>2, <2>3 DEF GoodIds
    <3>2. order[k + 1][1] = longer[n + 1] /\ k + 1 \in 1 .. k + 1
      BY <1>2, <2>3
    <3> QED
      BY <2>6, <3>1, <3>2
  <2>8. \A i \in 1 .. k + 1 : \E a \in 1 .. n + 1 : order[i][1] = longer[a]
    <3>1. ASSUME NEW i \in 1 .. k PROVE \E a \in 1 .. n + 1 : order[i][1] = longer[a]
      <4>1. PICK a \in 1 .. n : order[i][1] = ids[a]
        BY <2>2 DEF GoodIds
      <4> QED
        BY <2>3, <4>1
    <3>2. order[k + 1][1] = longer[n + 1] /\ n + 1 \in 1 .. n + 1
      BY <1>2, <2>3
    <3> QED
      BY <1>4, <3>1, <3>2
  <2>9. \A a \in 1 .. n : Lists!First(order, longer[a]) = Lists!First(order, ids[a]) /\ Lists!First(order, longer[a]) \in 1 .. k
    BY <2>2, <2>3 DEF GoodIds
  <2>10. \A a \in 1 .. n + 1 : Lists!First(order, longer[a]) \in 1 .. k + 1
    BY <2>3, <2>5, <2>6, <2>9
  <2>11. ASSUME NEW a \in 1 .. n + 1, NEW b \in 1 .. n + 1, a < b PROVE Lists!First(order, longer[a]) < Lists!First(order, longer[b])
    <3>1. a \in 1 .. n
      BY <2>11
    <3>2. CASE b \in 1 .. n
      <4>1. Lists!First(order, ids[a]) < Lists!First(order, ids[b])
        BY <2>2, <2>11, <3>1, <3>2 DEF GoodIds
      <4> QED
        BY <2>9, <3>1, <3>2, <4>1
    <3>3. CASE b = n + 1
      BY <2>3, <2>5, <2>9, <3>1, <3>3
    <3> QED
      BY <2>6, <3>2, <3>3
  <2>12. GoodIds(longer, order, k + 1)
    <3>1. Len(longer) <= k + 1
      BY <1>3, <2>2, <2>3
    <3> QED
      BY <2>3, <2>7, <2>8, <2>10, <2>11, <3>1 DEF GoodIds
  <2> QED
    BY <2>1, <2>12
<1> QED
  BY <1>5, <1>6

LEMMA IdsIndices ==
    ASSUME NEW E, NEW list \in Seq(E)
    PROVE  DOMAIN list \in SUBSET Nat /\ IsFiniteSet(DOMAIN list) /\ DOMAIN list = 1 .. Len(list) /\ Len(list) \in Nat
<1>1. DOMAIN list = 1 .. Len(list) /\ Len(list) \in Nat
  OBVIOUS
<1> QED
  BY <1>1, FS_Interval

\* The set of the first k places, without its last.
LEMMA FirstPlaces ==
    ASSUME NEW k \in Nat, NEW s, s = 1 .. k, s # {}
    PROVE  Lists!Max(s) = k /\ k - 1 \in Nat /\ k \in s /\ s \ {Lists!Max(s)} = 1 .. k - 1
<1>1. s \in SUBSET Nat /\ IsFiniteSet(s) /\ k \in s
  BY FS_Interval
<1>2. Lists!Max(s) \in s /\ Lists!Max(s) >= k
  BY <1>1, LastPlace
<1>3. Lists!Max(s) = k
  BY <1>2
<1> QED
  BY <1>1, <1>3

LEMMA NormalGood ==
    ASSUME NEW order \in Seq(Lists!Entry)
    PROVE  GoodIds(Lists!NormalIds(order), order, Len(order))
<1>a. PICK D : D = DOMAIN order
  OBVIOUS
<1>0. D \in SUBSET Nat /\ IsFiniteSet(D) /\ D = 1 .. Len(order) /\ Len(order) \in Nat
  BY <1>a, IdsIndices
<1>1. PICK g : IdsUpto(g, order, D) /\ Lists!NormalIds(order) = g[D]
  BY <1>0, <1>a, NormalIdsAre
<1> DEFINE T == {s \in SUBSET D : \A k \in Nat : s = 1 .. k => GoodIds(g[s], order, k)}
<1>2. ASSUME NEW s \in SUBSET D, \A x \in s : s \ {x} \in T PROVE s \in T
  <2> SUFFICES ASSUME NEW k \in Nat, s = 1 .. k PROVE GoodIds(g[s], order, k)
    OBVIOUS
  <2>1. g[s] = IdsOf(g, order, s)
    BY <1>1 DEF IdsUpto
  <2>2. CASE s = {}
    <3>1. g[s] = <<>> /\ ~(1 <= k)
      BY <2>1, <2>2 DEF IdsOf
    <3>2. k = 0 /\ <<>> \in Seq(Items) /\ Len(<<>>) = 0
      BY <3>1
    <3> QED
      BY <3>1, <3>2 DEF GoodIds
  <2>3. CASE s # {}
    <3>0. Lists!Max(s) = k /\ k - 1 \in Nat /\ k \in s /\ s \ {Lists!Max(s)} = 1 .. k - 1
      BY <2>3, FirstPlaces
    <3>1. PICK m \in Nat : m = k - 1 /\ m + 1 = k /\ k \in s /\ Lists!Max(s) = k /\ s \ {Lists!Max(s)} = 1 .. m
      BY <3>0
    <3>2. GoodIds(g[1 .. m], order, m)
      <4>1. s \ {k} \in T /\ s \ {k} = 1 .. m
        BY <1>2, <3>1
      <4> QED
        BY <4>1
    <3>3. m + 1 <= Len(order)
      BY <1>0, <3>1
    <3>4. g[s] = Lists!NextId(g[1 .. m], order[m + 1])
      BY <2>1, <2>3, <3>1 DEF IdsOf
    <3> QED
      BY <3>1, <3>2, <3>3, <3>4, NextIdGood
  <2> QED
    BY <2>2, <2>3
<1>3. T \in SUBSET (SUBSET D)
  OBVIOUS
<1>4. T = SUBSET D
  <2>1. IsFiniteSet(D)
    BY <1>0
  <2> HIDE DEF T
  <2> QED
    BY <2>1, <1>2, <1>3, SetInduction
<1>5. D \in T
  BY <1>4
<1> QED
  BY <1>0, <1>1, <1>5

LEMMA NextOfGood ==
    ASSUME NEW S, NEW E, NEW list \in Seq(E), NEW k \in Nat, k + 1 <= Len(list), NEW taken, GoodTaken(taken, S, list, E, k)
    PROVE  GoodTaken(Lists!NextOf(S, taken, list[k + 1]), S, list, E, k + 1)
<1>1. PICK e \in E : e = list[k + 1]
  OBVIOUS
<1>2. PICK n \in Nat : n = Len(taken) /\ n <= k /\ taken \in Seq(E)
  BY DEF GoodTaken
<1>3. \A i \in 1 .. k + 1 : i \in 1 .. k \/ i = k + 1
  OBVIOUS
<1>4. \A i \in 1 .. k : i \in 1 .. k + 1
  OBVIOUS
<1>5. CASE e \notin S
  <2>1. Lists!NextOf(S, taken, list[k + 1]) = taken
    BY <1>1, <1>5 DEF Lists!NextOf
  <2>2. \A i \in 1 .. k + 1 : list[i] \in S => \E a \in 1 .. n : list[i] = taken[a]
    BY <1>1, <1>2, <1>3, <1>5 DEF GoodTaken
  <2>3. \A a \in 1 .. n : taken[a] \in S /\ \E i \in 1 .. k + 1 : list[i] = taken[a]
    BY <1>2 DEF GoodTaken
  <2>4. ASSUME NEW a \in 1 .. n, NEW b \in 1 .. n, a < b
        PROVE  \E i, j \in 1 .. k + 1 : i < j /\ list[i] = taken[a] /\ list[j] = taken[b]
    <3>1. PICK i, j \in 1 .. k : i < j /\ list[i] = taken[a] /\ list[j] = taken[b]
      BY <1>2, <2>4 DEF GoodTaken
    <3> QED
      BY <1>4, <3>1
  <2> QED
    BY <1>2, <2>1, <2>2, <2>3, <2>4 DEF GoodTaken
<1>6. CASE e \in S
  <2>1. PICK longer : longer = Append(taken, e) /\ longer = Lists!NextOf(S, taken, list[k + 1])
    BY <1>1, <1>6 DEF Lists!NextOf
  <2>2. longer \in Seq(E) /\ Len(longer) = n + 1 /\ longer[n + 1] = e /\ \A a \in 1 .. n : longer[a] = taken[a]
    <3>1. taken \in Seq(E) /\ e \in E /\ longer = Append(taken, e) /\ n = Len(taken)
      BY <1>2, <2>1
    <3> QED
      BY <3>1, AppendProperties
  <2>3. \A a \in 1 .. n + 1 : a \in 1 .. n \/ a = n + 1
    OBVIOUS
  <2>4. ASSUME NEW a \in 1 .. n + 1 PROVE longer[a] \in S /\ \E i \in 1 .. k + 1 : list[i] = longer[a]
    <3>1. CASE a \in 1 .. n
      BY <1>2, <2>2, <3>1 DEF GoodTaken
    <3>2. CASE a = n + 1
      <4>1. k + 1 \in 1 .. k + 1 /\ list[k + 1] = longer[a]
        BY <1>1, <2>2, <3>2
      <4> QED
        BY <1>6, <2>2, <3>2, <4>1
    <3> QED
      BY <2>3, <3>1, <3>2
  <2>5. ASSUME NEW i \in 1 .. k + 1, list[i] \in S PROVE \E a \in 1 .. n + 1 : list[i] = longer[a]
    <3>1. CASE i \in 1 .. k
      <4>1. PICK a \in 1 .. n : list[i] = taken[a]
        BY <1>2, <2>5, <3>1 DEF GoodTaken
      <4> QED
        BY <2>2, <4>1
    <3>2. CASE i = k + 1
      <4>1. n + 1 \in 1 .. n + 1
        OBVIOUS
      <4> QED
        BY <1>1, <2>2, <3>2, <4>1
    <3> QED
      BY <1>3, <3>1, <3>2
  <2>6. ASSUME NEW a \in 1 .. n + 1, NEW b \in 1 .. n + 1, a < b
        PROVE  \E i, j \in 1 .. k + 1 : i < j /\ list[i] = longer[a] /\ list[j] = longer[b]
    <3>1. a \in 1 .. n
      BY <2>6
    <3>2. CASE b \in 1 .. n
      <4>1. PICK i, j \in 1 .. k : i < j /\ list[i] = taken[a] /\ list[j] = taken[b]
        BY <1>2, <2>6, <3>1, <3>2 DEF GoodTaken
      <4> QED
        BY <1>4, <2>2, <3>1, <3>2, <4>1
    <3>3. CASE b = n + 1
      <4>1. PICK i \in 1 .. k : list[i] = taken[a]
        BY <1>2, <3>1 DEF GoodTaken
      <4>2. i < k + 1 /\ i \in 1 .. k + 1 /\ k + 1 \in 1 .. k + 1 /\ list[i] = longer[a] /\ list[k + 1] = longer[b]
        BY <1>1, <2>2, <3>1, <3>3, <4>1
      <4> QED
        BY <4>2
    <3> QED
      BY <2>3, <3>2, <3>3
  <2>7. Len(longer) <= k + 1
    BY <1>2, <2>2
  <2>8. GoodTaken(longer, S, list, E, k + 1)
    BY <2>2, <2>4, <2>5, <2>6, <2>7 DEF GoodTaken
  <2> QED
    BY <2>1, <2>8
<1> QED
  BY <1>5, <1>6

LEMMA OnlyGood ==
    ASSUME NEW S, NEW E, NEW list \in Seq(E)
    PROVE  GoodTaken(Lists!Only(S, list), S, list, E, Len(list))
<1>a. PICK D : D = DOMAIN list
  OBVIOUS
<1>0. D \in SUBSET Nat /\ IsFiniteSet(D) /\ D = 1 .. Len(list) /\ Len(list) \in Nat
  BY <1>a, IdsIndices
<1>1. PICK g : TakenUpto(g, S, list, D) /\ Lists!Only(S, list) = g[D]
  BY <1>0, <1>a, OnlyIs
<1> DEFINE T == {s \in SUBSET D : \A k \in Nat : s = 1 .. k => GoodTaken(g[s], S, list, E, k)}
<1>2. ASSUME NEW s \in SUBSET D, \A x \in s : s \ {x} \in T PROVE s \in T
  <2> SUFFICES ASSUME NEW k \in Nat, s = 1 .. k PROVE GoodTaken(g[s], S, list, E, k)
    OBVIOUS
  <2>1. g[s] = TakenOf(g, S, list, s)
    BY <1>1 DEF TakenUpto
  <2>2. CASE s = {}
    <3>1. g[s] = <<>> /\ ~(1 <= k)
      BY <2>1, <2>2 DEF TakenOf
    <3>2. k = 0 /\ <<>> \in Seq(E) /\ Len(<<>>) = 0
      BY <3>1
    <3> QED
      BY <3>1, <3>2 DEF GoodTaken
  <2>3. CASE s # {}
    <3>0. Lists!Max(s) = k /\ k - 1 \in Nat /\ k \in s /\ s \ {Lists!Max(s)} = 1 .. k - 1
      BY <2>3, FirstPlaces
    <3>1. PICK m \in Nat : m = k - 1 /\ m + 1 = k /\ k \in s /\ Lists!Max(s) = k /\ s \ {Lists!Max(s)} = 1 .. m
      BY <3>0
    <3>2. GoodTaken(g[1 .. m], S, list, E, m)
      <4>1. s \ {k} \in T /\ s \ {k} = 1 .. m
        BY <1>2, <3>1
      <4> QED
        BY <4>1
    <3>3. m + 1 <= Len(list)
      BY <1>0, <3>1
    <3>4. g[s] = Lists!NextOf(S, g[1 .. m], list[m + 1])
      BY <2>1, <2>3, <3>1 DEF TakenOf
    <3> QED
      BY <3>1, <3>2, <3>3, <3>4, NextOfGood
  <2> QED
    BY <2>2, <2>3
<1>3. T \in SUBSET (SUBSET D)
  OBVIOUS
<1>4. T = SUBSET D
  <2>1. IsFiniteSet(D)
    BY <1>0
  <2> HIDE DEF T
  <2> QED
    BY <2>1, <1>2, <1>3, SetInduction
<1>5. D \in T
  BY <1>4
<1> QED
  BY <1>0, <1>1, <1>5

LEMMA ListsCount == ASSUME NEW S PROVE Lists!Cardinality(S) = Cardinality(S)
BY DEF Lists!Cardinality, Cardinality

LEMMA IsListOver == ASSUME NEW S, NEW n \in Nat, NEW f \in [1 .. n -> S] PROVE f \in Seq(S) /\ Len(f) = n
<1>1. f \in Seq(S)
  <2>1. f = [i \in 1 .. n |-> f[i]] /\ \A i \in 1 .. n : f[i] \in S
    OBVIOUS
  <2>2. [i \in 1 .. n |-> f[i]] \in Seq(S)
    BY <2>1, IsASeq
  <2> QED
    BY <2>1, <2>2
<1> QED
  BY <1>1, LenProperties

\* What a list from a set is: its elements, each at one place.
LEMMA SetToSeqIs ==
    ASSUME NEW S, IsFiniteSet(S)
    PROVE  /\ Lists!Rows(S) \in Seq(S) /\ Len(Lists!Rows(S)) = Cardinality(S)
           /\ \A s \in S : \E n \in 1 .. Len(Lists!Rows(S)) : Lists!Rows(S)[n] = s
<1>0. PICK r : r = Lists!Rows(S)
  OBVIOUS
<1>1. PICK n \in Nat : n = Cardinality(S)
  BY FS_CardinalityType
<1>2. PICK f \in [1 .. n -> S] : Lists!IsInjective(f)
  <2>1. PICK f \in Bijection(1 .. n, S) : TRUE
    BY <1>1, FS_CardinalityType DEF ExistsBijection
  <2>2. f \in [1 .. n -> S] /\ \A a, b \in 1 .. n : f[a] = f[b] => a = b
    BY <2>1 DEF Bijection, Injection, IsInjective
  <2>3. Lists!IsInjective(f)
    BY <2>2 DEF Lists!IsInjective
  <2> QED
    BY <2>2, <2>3
<1>3. r = CHOOSE g \in [1 .. n -> S] : Lists!IsInjective(g)
  BY <1>0, <1>1, ListsCount DEF Lists!Rows
<1>4. r \in [1 .. n -> S] /\ Lists!IsInjective(r)
  BY <1>2, <1>3, Zenon
<1>5. r \in Seq(S) /\ Len(r) = n
  BY <1>4, IsListOver
<1>6. r \in Injection(1 .. n, S)
  BY <1>4 DEF Lists!IsInjective, Injection, IsInjective
<1>7. Cardinality(1 .. n) = n
  BY FS_Interval
<1>8. r \in Surjection(1 .. n, S)
  BY <1>1, <1>6, <1>7, FS_Injection
<1>9. \A s \in S : \E m \in 1 .. n : r[m] = s
  BY <1>8 DEF Surjection
<1> QED
  BY <1>0, <1>1, <1>5, <1>9

\* What is listed of the songs of a playlist.
LEMMA ListedGood ==
    ASSUME NEW order \in Seq(Lists!Entry), NEW S \in SUBSET Items, NEW listed,
           listed = Lists!Only(S, Lists!NormalIds(order))
    PROVE  ListedFrom(listed, order, S)
<1>1. PICK ids : ids = Lists!NormalIds(order) /\ GoodIds(ids, order, Len(order))
  BY NormalGood
<1>2. ids \in Seq(Items) /\ Len(ids) \in Nat
  BY <1>1 DEF GoodIds
<1>3. GoodTaken(listed, S, ids, Items, Len(ids))
  BY <1>1, <1>2, OnlyGood
<1>4. PICK n \in Nat : n = Len(listed) /\ listed \in Seq(Items)
  BY <1>3 DEF GoodTaken
<1>5. \A a \in 1 .. n : listed[a] \in S /\ \E i \in 1 .. Len(ids) : ids[i] = listed[a]
  BY <1>3, <1>4 DEF GoodTaken
<1>6. listed \in Seq(S)
  <2>1. listed \in [1 .. n -> S]
    BY <1>4, <1>5
  <2> QED
    BY <2>1, IsListOver
<1>7. ASSUME NEW a \in 1 .. n PROVE \E i \in 1 .. Len(order) : order[i][1] = listed[a]
  <2>1. PICK i \in 1 .. Len(ids) : ids[i] = listed[a]
    BY <1>5
  <2> QED
    BY <1>1, <2>1 DEF GoodIds
<1>8. ASSUME NEW i \in 1 .. Len(order), order[i][1] \in S PROVE \E a \in 1 .. n : listed[a] = order[i][1]
  <2>1. PICK b \in 1 .. Len(ids) : ids[b] = order[i][1]
    BY <1>1 DEF GoodIds
  <2>2. \E a \in 1 .. n : ids[b] = listed[a]
    BY <1>3, <1>4, <1>8, <2>1 DEF GoodTaken
  <2> QED
    BY <2>1, <2>2
<1>9. ASSUME NEW a \in 1 .. n, NEW b \in 1 .. n, a < b
      PROVE  Lists!First(order, listed[a]) < Lists!First(order, listed[b]) /\ listed[a] # listed[b]
  <2>1. PICK i, j \in 1 .. Len(ids) : i < j /\ ids[i] = listed[a] /\ ids[j] = listed[b]
    BY <1>3, <1>4, <1>9 DEF GoodTaken
  <2>2. Lists!First(order, ids[i]) < Lists!First(order, ids[j]) /\ Lists!First(order, ids[i]) \in 1 .. Len(order)
    BY <1>1, <2>1 DEF GoodIds
  <2>3. Lists!First(order, listed[a]) < Lists!First(order, listed[b]) /\ Lists!First(order, listed[a]) \in 1 .. Len(order)
    BY <2>1, <2>2
  <2>4. listed[a] # listed[b]
    BY <2>3
  <2> QED
    BY <2>3, <2>4
<1> QED
  BY <1>4, <1>6, <1>7, <1>8, <1>9 DEF ListedFrom

\* A list in which no element is twice has as many as it is long.
LEMMA OnceEach ==
    ASSUME NEW S, NEW list \in Seq(S), \A a, b \in 1 .. Len(list) : a < b => list[a] # list[b]
    PROVE  /\ IsFiniteSet(Lists!Range(list)) /\ Cardinality(Lists!Range(list)) = Len(list) /\ Len(list) \in Nat
           /\ Lists!Range(list) \in SUBSET S
<1>1. PICK n \in Nat : n = Len(list) /\ DOMAIN list = 1 .. n
  OBVIOUS
<1>2. PICK R : R = Lists!Range(list)
  OBVIOUS
<1>3. R = {list[i] : i \in 1 .. n}
  BY <1>1, <1>2 DEF Lists!Range
<1>4. list \in [1 .. n -> R]
  BY <1>1, <1>3
<1>5. ASSUME NEW a \in 1 .. n, NEW b \in 1 .. n, list[a] = list[b] PROVE a = b
  <2>1. ~(a < b) /\ ~(b < a)
    BY <1>1, <1>5
  <2> QED
    BY <2>1
<1>6. list \in Injection(1 .. n, R)
  BY <1>4, <1>5 DEF Injection, IsInjective
<1>7. list \in Surjection(1 .. n, R)
  BY <1>3, <1>4 DEF Surjection
<1>8. IsFiniteSet(1 .. n) /\ Cardinality(1 .. n) = n
  BY FS_Interval
<1>9. IsFiniteSet(R) /\ (Cardinality(R) = n <=> list \in Injection(1 .. n, R))
  BY <1>7, <1>8, FS_Surjection
<1>10. R \in SUBSET S
  BY <1>1, <1>3
<1> QED
  BY <1>1, <1>2, <1>6, <1>9, <1>10

LEMMA JoinedIs ==
    ASSUME NEW S, NEW a, NEW b, a \in Seq(S), b \in Seq(S)
    PROVE  /\ Joined(a, b) \in Seq(S) /\ Len(Joined(a, b)) = Len(a) + Len(b)
           /\ \A i \in 1 .. Len(a) + Len(b) : Joined(a, b)[i] = IF i <= Len(a) THEN a[i] ELSE b[i - Len(a)]
<1>2. a \o b \in Seq(S) /\ Len(a \o b) = Len(a) + Len(b)
  OBVIOUS
<1>3. \A i \in 1 .. Len(a) + Len(b) : (a \o b)[i] = IF i <= Len(a) THEN a[i] ELSE b[i - Len(a)]
  OBVIOUS
<1> QED
  BY <1>2, <1>3 DEF Joined

LEMMA JoinedWhole ==
    ASSUME NEW T, NEW r, NEW k, NEW S, NEW listed, NEW l, Completes(T, r, k, S, listed, l)
    PROVE  /\ Joined(listed, r) \in Seq(S) /\ Len(Joined(listed, r)) = l + k
           /\ \A s \in S : \E i \in 1 .. l + k : Joined(listed, r)[i] = s
           /\ \A i \in 1 .. l + k : i <= l => Joined(listed, r)[i] = listed[i]
           /\ \A i \in 1 .. l + k : ~(i <= l) => Joined(listed, r)[i] \in T
<1>0. /\ l \in Nat /\ k \in Nat /\ T \subseteq S /\ r \in Seq(T) /\ listed \in Seq(S) /\ Len(listed) = l /\ Len(r) = k
      /\ \A s \in S : s \in T \/ \E i \in 1 .. l : listed[i] = s
      /\ \A s \in T : \E n \in 1 .. k : r[n] = s
  BY DEF Completes
<1>1. /\ Joined(listed, r) \in Seq(S) /\ Len(Joined(listed, r)) = l + k
      /\ \A i \in 1 .. l + k : Joined(listed, r)[i] = IF i <= l THEN listed[i] ELSE r[i - l]
  <2>1. r \in Seq(S)
    BY <1>0, SeqMonotonic
  <2>2. /\ Joined(listed, r) \in Seq(S) /\ Len(Joined(listed, r)) = Len(listed) + Len(r)
        /\ \A i \in 1 .. Len(listed) + Len(r) :
               Joined(listed, r)[i] = IF i <= Len(listed) THEN listed[i] ELSE r[i - Len(listed)]
    <3>1. listed \in Seq(S)
      BY <1>0
    <3> QED
      BY <2>1, <3>1, JoinedIs
  <2> QED
    BY <1>0, <2>2
<1>2. PICK shown : shown \in Seq(S) /\ Len(shown) = l + k /\ shown = Joined(listed, r)
  BY <1>1
<1>3. \A i \in 1 .. l + k : shown[i] = IF i <= l THEN listed[i] ELSE r[i - l]
  BY <1>1, <1>2
<1>4. ASSUME NEW s \in S PROVE \E i \in 1 .. l + k : shown[i] = s
  <2>1. CASE \E i \in 1 .. l : listed[i] = s
    <3>1. PICK i \in 1 .. l : listed[i] = s
      BY <2>1
    <3>2. i \in 1 .. l + k /\ i <= l
      BY <1>0
    <3> QED
      BY <1>0, <1>3, <3>1, <3>2
  <2>2. CASE s \in T
    <3>1. PICK i \in 1 .. k : r[i] = s
      BY <1>0, <2>2
    <3>2. l + i \in 1 .. l + k /\ ~(l + i <= l) /\ (l + i) - l = i
      BY <1>0
    <3> QED
      BY <1>0, <1>3, <3>1, <3>2
  <2> QED
    BY <1>0, <2>1, <2>2
<1>5. ASSUME NEW i \in 1 .. l + k, ~(i <= l) PROVE shown[i] \in T
  <2>1. i - l \in 1 .. k /\ shown[i] = r[i - l]
    BY <1>0, <1>3, <1>5
  <2> QED
    BY <1>0, <2>1
<1> QED
  BY <1>0, <1>2, <1>3, <1>4, <1>5

LEMMA UnlistedAre ==
    ASSUME NEW S, NEW listed, NEW l, IsFiniteSet(S), listed \in Seq(S), l \in Nat, Len(listed) = l,
           \A a, b \in 1 .. l : a < b => listed[a] # listed[b]
    PROVE  /\ Unlisted(S, listed) \subseteq S /\ IsFiniteSet(Unlisted(S, listed))
           /\ l + Cardinality(Unlisted(S, listed)) = Cardinality(S)
           /\ Cardinality(Unlisted(S, listed)) \in Nat
           /\ \A s \in S : s \in Unlisted(S, listed) \/ \E i \in 1 .. l : listed[i] = s
           /\ \A s \in Unlisted(S, listed) : \A i \in 1 .. l : listed[i] # s
<1>1. PICK R : R = Lists!Range(listed)
  OBVIOUS
<1>2. IsFiniteSet(R) /\ Cardinality(R) = l /\ R \in SUBSET S
  BY <1>1, OnceEach
<1>3. R = {listed[i] : i \in 1 .. l}
  <2>1. DOMAIN listed = 1 .. l
    OBVIOUS
  <2> QED
    BY <1>1, <2>1 DEF Lists!Range
<1>4. IsFiniteSet(S \ R) /\ Cardinality(S \ R) = Cardinality(S) - l /\ Cardinality(S) \in Nat
  <2>1. S \cap R = R
    BY <1>2
  <2>2. IsFiniteSet(S \ R) /\ Cardinality(S \ R) = Cardinality(S) - Cardinality(S \cap R)
    BY FS_Difference
  <2>3. Cardinality(S) \in Nat
    BY FS_CardinalityType
  <2> QED
    BY <1>2, <2>1, <2>2, <2>3
<1>5. PICK T : T = S \ R /\ T = Unlisted(S, listed)
  BY <1>1 DEF Unlisted
<1>6. /\ T \subseteq S /\ IsFiniteSet(T) /\ l + Cardinality(T) = Cardinality(S) /\ Cardinality(T) \in Nat
  BY <1>4, <1>5, FS_CardinalityType
<1>7. \A s \in S : s \in T \/ \E i \in 1 .. l : listed[i] = s
  BY <1>3, <1>5
<1>8. \A s \in T : \A i \in 1 .. l : listed[i] # s
  BY <1>3, <1>5
<1> QED
  BY <1>5, <1>6, <1>7, <1>8

LEMMA ListedJoined ==
    ASSUME NEW S, NEW listed, IsFiniteSet(S), listed \in Seq(S),
           \A a, b \in 1 .. Len(listed) : a < b => listed[a] # listed[b]
    PROVE  \E shown, l, n :
             /\ shown = Joined(listed, Lists!Rows(Unlisted(S, listed))) /\ l = Len(listed) /\ l \in Nat
             /\ shown \in Seq(S) /\ Lists!Range(shown) = S /\ n = Cardinality(S) /\ n \in Nat /\ Len(shown) = n
             /\ \A i \in 1 .. n : i <= l => shown[i] = listed[i]
             /\ \A i \in 1 .. n : ~(i <= l) => \A a \in 1 .. l : listed[a] # shown[i]
<1>1. PICK l \in Nat : l = Len(listed)
  OBVIOUS
<1>2. PICK T : /\ T = Unlisted(S, listed) /\ T \subseteq S /\ IsFiniteSet(T)
               /\ l + Cardinality(T) = Cardinality(S) /\ Cardinality(T) \in Nat
               /\ \A s \in S : s \in T \/ \E i \in 1 .. l : listed[i] = s
               /\ \A s \in T : \A i \in 1 .. l : listed[i] # s
  BY <1>1, UnlistedAre
<1>3. PICK r : /\ r = Lists!Rows(T) /\ r \in Seq(T) /\ Len(r) = Cardinality(T)
               /\ \A s \in T : \E n \in 1 .. Len(r) : r[n] = s
  <2>1. IsFiniteSet(T)
    BY <1>2
  <2>2. /\ Lists!Rows(T) \in Seq(T) /\ Len(Lists!Rows(T)) = Cardinality(T)
        /\ \A s \in T : \E n \in 1 .. Len(Lists!Rows(T)) : Lists!Rows(T)[n] = s
    BY <2>1, SetToSeqIs
  <2> QED
    BY <2>2
<1>4. PICK k \in Nat : k = Len(r) /\ l + k = Cardinality(S)
  BY <1>2, <1>3
<1>5. PICK shown :
      /\ shown = Joined(listed, r) /\ shown \in Seq(S) /\ Len(shown) = l + k
      /\ \A s \in S : \E i \in 1 .. l + k : shown[i] = s
      /\ \A i \in 1 .. l + k : i <= l => shown[i] = listed[i]
      /\ \A i \in 1 .. l + k : ~(i <= l) => shown[i] \in T
  <2>1. /\ T \subseteq S /\ r \in Seq(T) /\ listed \in Seq(S) /\ Len(listed) = l /\ Len(r) = k
        /\ \A s \in S : s \in T \/ \E i \in 1 .. l : listed[i] = s
        /\ \A s \in T : \E n \in 1 .. k : r[n] = s
    BY <1>1, <1>2, <1>3, <1>4
  <2>0. Completes(T, r, k, S, listed, l)
    BY <2>1 DEF Completes
  <2>2. PICK shown : shown = Joined(listed, r)
    OBVIOUS
  <2>3. /\ Joined(listed, r) \in Seq(S) /\ Len(Joined(listed, r)) = l + k
        /\ \A s \in S : \E i \in 1 .. l + k : Joined(listed, r)[i] = s
        /\ \A i \in 1 .. l + k : i <= l => Joined(listed, r)[i] = listed[i]
        /\ \A i \in 1 .. l + k : ~(i <= l) => Joined(listed, r)[i] \in T
    BY <2>0, JoinedWhole
  <2> QED
    BY <2>2, <2>3
<1>6. Lists!Range(shown) = S
  <2>1. DOMAIN shown = 1 .. l + k /\ \A i \in 1 .. l + k : shown[i] \in S
    BY <1>5
  <2> QED
    BY <1>5, <2>1 DEF Lists!Range
<1>7. \A i \in 1 .. l + k : ~(i <= l) => \A a \in 1 .. l : listed[a] # shown[i]
  BY <1>2, <1>5
<1>8. shown = Joined(listed, Lists!Rows(Unlisted(S, listed)))
  BY <1>2, <1>3, <1>5
<1> QED
  BY <1>1, <1>4, <1>5, <1>6, <1>7, <1>8

\* What is shown: what is listed, then the other songs.
LEMMA ShownGood ==
    ASSUME NEW order \in Seq(Lists!Entry), NEW S \in SUBSET Items, IsFiniteSet(S), NEW listed,
           listed = Lists!Only(S, Lists!NormalIds(order)), NEW shown,
           shown = Joined(listed, Lists!Rows(Unlisted(S, listed)))
    PROVE  /\ shown \in Seq(S) /\ Lists!Range(shown) = S /\ Len(shown) = Cardinality(S) /\ Len(shown) \in Nat
           /\ \A m, n \in 1 .. Len(shown) : m < n /\ (\E i \in 1 .. Len(order) : order[i][1] = shown[n]) =>
                  /\ \E i \in 1 .. Len(order) : order[i][1] = shown[m]
                  /\ Lists!First(order, shown[m]) < Lists!First(order, shown[n])
<1>1. /\ listed \in Seq(S)
      /\ \A a \in 1 .. Len(listed) : \E i \in 1 .. Len(order) : order[i][1] = listed[a]
      /\ \A i \in 1 .. Len(order) : order[i][1] \in S => \E a \in 1 .. Len(listed) : listed[a] = order[i][1]
      /\ \A a, b \in 1 .. Len(listed) :
             a < b => Lists!First(order, listed[a]) < Lists!First(order, listed[b]) /\ listed[a] # listed[b]
  <2>1. ListedFrom(listed, order, S)
    BY ListedGood
  <2> QED
    BY <2>1 DEF ListedFrom
<1>2. PICK l \in Nat : l = Len(listed)
  BY <1>1
<1>3. /\ shown \in Seq(S) /\ Lists!Range(shown) = S /\ Len(shown) = Cardinality(S) /\ Len(shown) \in Nat
      /\ \A i \in 1 .. Len(shown) : i <= l => shown[i] = listed[i]
      /\ \A i \in 1 .. Len(shown) : ~(i <= l) => \A a \in 1 .. l : listed[a] # shown[i]
  <2>1. \A a, b \in 1 .. Len(listed) : a < b => listed[a] # listed[b]
    BY <1>1
  <2> QED
    BY <1>1, <1>2, <2>1, ListedJoined
<1>4. PICK k \in Nat : k = Len(shown)
  BY <1>3
<1>5. ASSUME NEW m \in 1 .. k, NEW n \in 1 .. k, m < n, \E i \in 1 .. Len(order) : order[i][1] = shown[n]
      PROVE  /\ \E i \in 1 .. Len(order) : order[i][1] = shown[m]
             /\ Lists!First(order, shown[m]) < Lists!First(order, shown[n])
  <2>1. PICK i \in 1 .. Len(order) : order[i][1] = shown[n]
    BY <1>5
  <2>2. shown[n] \in S
    BY <1>3, <1>4
  <2>3. PICK a \in 1 .. l : listed[a] = shown[n]
    BY <1>1, <1>2, <2>1, <2>2
  <2>4. n <= l
    BY <1>3, <1>4, <2>3
  <2>6. m <= l /\ m \in 1 .. l /\ n \in 1 .. l
    BY <1>5, <2>4
  <2>5. m \in 1 .. l /\ n \in 1 .. l /\ shown[m] = listed[m] /\ shown[n] = listed[n]
    BY <1>3, <1>4, <2>4, <2>6
  <2> QED
    BY <1>1, <1>2, <1>5, <2>5
<1>6. \A m, n \in 1 .. k : m < n /\ (\E i \in 1 .. Len(order) : order[i][1] = shown[n]) =>
           /\ \E i \in 1 .. Len(order) : order[i][1] = shown[m]
           /\ Lists!First(order, shown[m]) < Lists!First(order, shown[n])
  BY <1>5
<1> QED
  BY <1>3, <1>4, <1>6

-----------------------------------------------------------------------------
(* The requests on a playlist.                                              *)

LEMMA OrdersAre ==
    ASSUME ListBounds, NEW o
    PROVE  o \in Lists!Orders <=> o \in Seq(Lists!Entry) /\ Len(o) <= MaxOrder
<1>1. MaxOrder \in Nat
  BY DEF ListBounds
<1>2. ASSUME o \in Lists!Orders PROVE o \in Seq(Lists!Entry) /\ Len(o) <= MaxOrder
  <2>1. PICK n \in 0 .. MaxOrder : o \in [1 .. n -> Lists!Entry]
    BY <1>2 DEF Lists!Orders
  <2>2. n \in Nat /\ n <= MaxOrder
    BY <1>1
  <2>3. o \in Seq(Lists!Entry) /\ Len(o) = n
    BY <2>1, <2>2, IsListOver
  <2> QED
    BY <2>2, <2>3
<1>3. ASSUME o \in Seq(Lists!Entry), Len(o) <= MaxOrder PROVE o \in Lists!Orders
  <2>1. PICK n \in Nat : n = Len(o)
    BY <1>3
  <2>2. o \in [1 .. n -> Lists!Entry] /\ n \in 0 .. MaxOrder
    BY <1>1, <1>3, <2>1, LenProperties
  <2>3. [1 .. n -> Lists!Entry] \in {[1 .. m -> Lists!Entry] : m \in 0 .. MaxOrder}
    BY <2>2
  <2> QED
    BY <2>2, <2>3 DEF Lists!Orders
<1> QED
  BY <1>2, <1>3

LEMMA EmptyFits == ASSUME ListBounds PROVE <<>> \in Lists!Orders
<1>1. PICK o : o = <<>>
  OBVIOUS
<1>2. o \in Seq(Lists!Entry) /\ Len(o) = 0
  BY <1>1
<1>3. Len(o) <= MaxOrder
  BY <1>2 DEF ListBounds
<1>4. o \in Lists!Orders
  BY <1>2, <1>3, OrdersAre
<1> QED
  BY <1>1, <1>4

LEMMA OneFits == ASSUME ListBounds, NEW e \in Lists!Entry PROVE <<e>> \in Lists!Orders
<1>1. PICK o : o = <<e>>
  OBVIOUS
<1>2. o \in Seq(Lists!Entry) /\ Len(o) = 1
  BY <1>1
<1>3. Len(o) <= MaxOrder
  BY <1>2 DEF ListBounds
<1>4. o \in Lists!Orders
  BY <1>2, <1>3, OrdersAre
<1> QED
  BY <1>1, <1>4

LEMMA TwoFit == ASSUME ListBounds, NEW e \in Lists!Entry, NEW f \in Lists!Entry PROVE <<e, f>> \in Lists!Orders
<1>1. PICK o : o = <<e, f>>
  OBVIOUS
<1>2. o \in Seq(Lists!Entry) /\ Len(o) = 2
  BY <1>1
<1>3. Len(o) <= MaxOrder
  BY <1>2 DEF ListBounds
<1>4. o \in Lists!Orders
  BY <1>2, <1>3, OrdersAre
<1> QED
  BY <1>1, <1>4

LEMMA IdIsEntry == ASSUME NEW s \in Items PROVE Lists!Id(s) \in Lists!Entry
BY DEF Lists!Id, Lists!Entry, Lists!Forms

LEMMA WishesFit == ASSUME ListBounds PROVE Lists!Wishes \subseteq Lists!Orders \cup {NoOrder}
<1> SUFFICES ASSUME NEW w \in Lists!Wishes, w # NoOrder PROVE w \in Lists!Orders
  OBVIOUS
<1>1. CASE w \in {<<Lists!Id(s)>> : s \in Items}
  BY <1>1, IdIsEntry, OneFits
<1>2. CASE w \in {<<<<s, f>>, Lists!Id(t)>> : s \in Items, t \in Items, f \in Lists!Forms}
  <2>1. PICK s \in Items, t \in Items, f \in Lists!Forms : w = <<<<s, f>>, Lists!Id(t)>>
    BY <1>2
  <2>2. <<s, f>> \in Lists!Entry /\ Lists!Id(t) \in Lists!Entry
    BY IdIsEntry DEF Lists!Entry
  <2> QED
    BY <2>1, <2>2, TwoFit
<1> QED
  BY <1>1, <1>2 DEF Lists!Wishes

LEMMA WithoutFits == ASSUME ListBounds, NEW o \in Lists!Orders, NEW e PROVE Lists!Without(o, e) \in Lists!Orders
<1>1. o \in Seq(Lists!Entry) /\ Len(o) <= MaxOrder
  BY OrdersAre
<1>2. PICK S : S = Lists!Entry \ {e}
  OBVIOUS
<1>3. GoodTaken(Lists!Only(S, o), S, o, Lists!Entry, Len(o))
  BY <1>1, OnlyGood
<1>4. Lists!Only(S, o) \in Seq(Lists!Entry) /\ Len(Lists!Only(S, o)) <= Len(o)
  BY <1>3 DEF GoodTaken
<1>5. Len(Lists!Only(S, o)) <= MaxOrder
  <2>1. Len(o) \in Nat /\ Len(Lists!Only(S, o)) \in Nat /\ MaxOrder \in Nat
    BY <1>1, <1>4 DEF ListBounds
  <2> QED
    BY <1>1, <1>4, <2>1
<1>6. Lists!Only(S, o) \in Lists!Orders
  BY <1>4, <1>5, OrdersAre
<1> QED
  BY <1>2, <1>6 DEF Lists!Without

LEMMA AppendIdFits ==
    ASSUME ListBounds, NEW o \in Lists!Orders, NEW s \in Items, Len(Lists!AppendId(o, s)) <= MaxOrder
    PROVE  Lists!AppendId(o, s) \in Lists!Orders
<1>1. CASE Lists!Id(s) \in Lists!Range(o)
  BY <1>1 DEF Lists!AppendId
<1>2. CASE Lists!Id(s) \notin Lists!Range(o)
  <2>1. o \in Seq(Lists!Entry) /\ Lists!Id(s) \in Lists!Entry
    BY OrdersAre, IdIsEntry
  <2>2. Append(o, Lists!Id(s)) \in Seq(Lists!Entry)
    BY <2>1, AppendProperties
  <2>3. Lists!AppendId(o, s) = Append(o, Lists!Id(s))
    BY <1>2 DEF Lists!AppendId
  <2> QED
    BY <2>2, <2>3, OrdersAre
<1> QED
  BY <1>1, <1>2

\* The ids of a wish that was sent are an order.
LEMMA SavedFits ==
    ASSUME ListBounds, NEW q, edit[q].copy \in Lists!Orders, edit[q].wish \in Lists!Orders \cup {NoOrder}
    PROVE  Lists!Saved(q) \in Lists!Orders
<1>1. CASE edit[q].wish = NoOrder
  BY <1>1 DEF Lists!Saved
<1>2. CASE edit[q].wish # NoOrder
  <2>1. PICK w : w = edit[q].wish /\ w \in Seq(Lists!Entry) /\ Len(w) <= MaxOrder
    BY <1>2, OrdersAre
  <2>2. PICK ids : ids = Lists!NormalIds(w) /\ GoodIds(ids, w, Len(w))
    BY <2>1, NormalGood
  <2>3. PICK n \in Nat : n = Len(ids) /\ ids \in Seq(Items) /\ n <= MaxOrder
    <3>1. ids \in Seq(Items) /\ Len(ids) <= Len(w)
      BY <2>2 DEF GoodIds
    <3>2. Len(ids) \in Nat /\ Len(w) \in Nat /\ MaxOrder \in Nat
      BY <2>1, <3>1 DEF ListBounds
    <3> QED
      BY <2>1, <3>1, <3>2
  <2>4. DOMAIN ids = 1 .. n /\ \A i \in 1 .. n : ids[i] \in Items
    BY <2>3
  <2>5. PICK o : o = [i \in 1 .. n |-> Lists!Id(ids[i])]
    OBVIOUS
  <2>6. o \in [1 .. n -> Lists!Entry]
    BY <2>4, <2>5, IdIsEntry
  <2>7. o \in Lists!Orders
    <3>1. o \in Seq(Lists!Entry) /\ Len(o) = n
      BY <2>6, IsListOver
    <3> QED
      BY <2>3, <3>1, OrdersAre
  <2>8. Lists!Saved(q) = [i \in DOMAIN ids |-> Lists!Id(ids[i])]
    BY <1>2, <2>1, <2>2 DEF Lists!Saved
  <2> QED
    BY <2>4, <2>5, <2>7, <2>8
<1> QED
  BY <1>1, <1>2

LEMMA IdleFits == ASSUME ListBounds PROVE Lists!Idle \in Lists!Request /\ Meant(Lists!Idle) /\ \A K : Spares(Lists!Idle, K)
<1>1. Lists!Idle \in Lists!Request
  <2>1. PICK o \in Lists!Orders : o = <<>>
    BY EmptyFits
  <2>2. PICK K : K = (SUBSET Items) \cup {Lists!NoSongs}
    OBVIOUS
  <2>4. Lists!NoSongs \in K
    BY <2>2
  <2>3. [pc |-> "idle", kind |-> "none", song |-> Lists!NoSong, copy |-> o, wish |-> NoOrder,
         songs |-> Lists!NoSongs, seen |-> {}] \in Lists!Request
    BY <2>2, <2>4 DEF Lists!Request
  <2> QED
    BY <2>1, <2>3 DEF Lists!Idle
<1> QED
  BY <1>1 DEF Lists!Idle, Meant, Spares

LEMMA ListsStart == ASSUME ListBounds, Lists!Init PROVE ListInv
<1>1. playlist \in Row
  <2>1. playlist \in [live : {TRUE}, order : {<<>>} \cup {<<e>> : e \in Lists!Entry}]
    BY DEF Lists!Init
  <2>2. playlist.order \in Lists!Orders
    <3>1. CASE playlist.order = <<>>
      BY <3>1, EmptyFits
    <3>2. CASE \E e \in Lists!Entry : playlist.order = <<e>>
      BY <3>2, OneFits
    <3> QED
      BY <2>1, <3>1, <3>2
  <2> QED
    BY <2>1, <2>2 DEF Row
<1>2. members \subseteq Items /\ kept = {} /\ writes = 0 /\ edit = [q \in Actors |-> Lists!Idle]
  BY DEF Lists!Init
<1>3. \A q \in Actors : edit[q] = Lists!Idle
  BY <1>2
<1>4. edit \in [Actors -> Lists!Request] /\ RequestsMeant /\ KeptSpared
  BY <1>2, <1>3, IdleFits DEF RequestsMeant, KeptSpared
<1>5. writes \in 0 .. MaxWrites
  BY <1>2 DEF ListBounds
<1> QED
  BY <1>1, <1>2, <1>4, <1>5 DEF ListInv, Lists!TypeOK, Lists!AddedStays, Row

LEMMA SparesLess == ASSUME NEW e, NEW K, NEW L, L \subseteq K, Spares(e, K) PROVE Spares(e, L)
BY DEF Spares

\* One request goes on, the row, the songs and what is kept fit it.
LEMMA RequestTurns ==
    ASSUME ListInv, NEW q \in Actors, NEW e \in Lists!Request, Meant(e),
           edit' = [edit EXCEPT ![q] = e], playlist' \in Row, writes' \in 0 .. MaxWrites, members' \subseteq Items,
           kept' \subseteq members', Spares(e, kept'), \A p \in Actors \ {q} : Spares(edit[p], kept')
    PROVE  ListInv'
<1>1. edit \in [Actors -> Lists!Request] /\ RequestsMeant
  BY DEF ListInv, Lists!TypeOK
<1>2. edit' \in [Actors -> Lists!Request]
  BY <1>1
<1>3. \A p \in Actors : edit'[p] = IF p = q THEN e ELSE edit[p]
  BY <1>1
<1>4. RequestsMeant'
  BY <1>1, <1>3 DEF RequestsMeant
<1>5. KeptSpared'
  BY <1>3 DEF KeptSpared
<1>6. kept' \subseteq Items
  OBVIOUS
<1>7. Lists!TypeOK'
  BY <1>2, <1>6 DEF Lists!TypeOK, Row
<1> QED
  BY <1>4, <1>5, <1>7 DEF ListInv, Lists!AddedStays

LEMMA RequestGoes ==
    ASSUME ListInv, NEW q \in Actors, NEW pc \in ListPcs, Lists!Goto(q, pc),
           pc \in {"check", "link"} => edit[q].kind = "add", pc # "unlink",
           pc \in {"validate", "save", "links", "set"} => edit[q].kind = "update",
           pc \in {"links", "set"} => edit[q].songs # Lists!NoSongs,
           playlist' \in Row, writes' \in 0 .. MaxWrites, members' \subseteq Items,
           kept' \subseteq members', \A p \in Actors : Spares(edit[p], kept')
    PROVE  ListInv'
<1>1. edit[q] \in Lists!Request /\ Meant(edit[q])
  BY DEF ListInv, Lists!TypeOK, RequestsMeant
<1>2. PICK e : e = [edit[q] EXCEPT !.pc = pc]
  OBVIOUS
<1>3. /\ e \in Lists!Request /\ e.pc = pc
      /\ e.kind = edit[q].kind /\ e.song = edit[q].song /\ e.songs = edit[q].songs
  BY <1>1, <1>2 DEF Lists!Request, ListPcs
<1>4. Meant(e)
  BY <1>1, <1>3 DEF Meant
<1>5. Spares(e, kept')
  <2>1. Spares(edit[q], kept')
    OBVIOUS
  <2> QED
    BY <1>3, <2>1 DEF Spares
<1>6. edit' = [edit EXCEPT ![q] = e]
  BY <1>2 DEF Lists!Goto
<1> QED
  BY <1>3, <1>4, <1>5, <1>6, RequestTurns

LEMMA RequestEnds ==
    ASSUME ListBounds, ListInv, NEW q \in Actors, Lists!End(q),
           playlist' \in Row, writes' \in 0 .. MaxWrites, members' \subseteq Items,
           kept' \subseteq members', \A p \in Actors : Spares(edit[p], kept')
    PROVE  ListInv'
<1>1. PICK e \in Lists!Request : e = Lists!Idle /\ Meant(e) /\ Spares(e, kept')
  BY IdleFits
<1>2. edit' = [edit EXCEPT ![q] = e]
  BY <1>1 DEF Lists!End
<1> QED
  BY <1>1, <1>2, RequestTurns

\* What holds of the variables of a step that leaves them alone.
LEMMA ListsAre ==
    ASSUME ListInv
    PROVE  /\ playlist \in Row /\ playlist.order \in Lists!Orders /\ writes \in 0 .. MaxWrites /\ members \subseteq Items
           /\ kept \subseteq members /\ \A q \in Actors : Spares(edit[q], kept) /\ edit[q] \in Lists!Request /\ Meant(edit[q])
BY DEF ListInv, Lists!TypeOK, Lists!AddedStays, KeptSpared, RequestsMeant, Row

\* A request takes nothing that another takes out for kept.
LEMMA KeepSpares ==
    ASSUME ListInv, NEW q \in Actors, Lists!Keep(q)
    PROVE  /\ \A p \in Actors : Spares(edit[p], kept')
           /\ kept' \subseteq kept \cup {edit[q].song}
<1>1. CASE Lists!TakesOut(edit[q].song) = {}
  <2>1. kept' = kept \cup {edit[q].song}
    BY <1>1 DEF Lists!Keep
  <2>2. ASSUME NEW p \in Actors PROVE Spares(edit[p], kept')
    <3>1. p \notin Lists!TakesOut(edit[q].song)
      BY <1>1
    <3>2. ~(edit[p].kind = "remove" /\ edit[p].song = edit[q].song) /\ ~(edit[p].kind = "update" /\ edit[p].songs # Lists!NoSongs)
      BY <3>1 DEF Lists!TakesOut
    <3>3. Spares(edit[p], kept)
      BY ListsAre
    <3> QED
      BY <2>1, <3>2, <3>3 DEF Spares
  <2> QED
    BY <2>1, <2>2
<1>2. CASE Lists!TakesOut(edit[q].song) # {}
  <2>1. kept' = kept
    BY <1>2 DEF Lists!Keep
  <2> QED
    BY <2>1, ListsAre
<1> QED
  BY <1>1, <1>2

LEMMA StartTurns ==
    ASSUME ListBounds, ListInv, NEW q \in Actors, NEW k, NEW pc, NEW s, Lists!Start(q, k, pc, s),
           <<k, pc>> \in {<<"add", "check">>, <<"remove", "unlink">>, <<"show", "songs">>},
           IF k = "show" THEN s = Lists!NoSong ELSE s \in Items,
           kept' \subseteq kept, k = "remove" => s \notin kept', UNCHANGED <<playlist, members, writes>>
    PROVE  ListInv'
<1>1. k \in {"add", "remove", "show"} /\ pc \in {"check", "unlink", "songs"}
  OBVIOUS
<1>2. Lists!Idle \in Lists!Request /\ playlist.order \in Lists!Orders
  BY IdleFits, ListsAre
<1>3. PICK e : e = [Lists!Idle EXCEPT !.pc = pc, !.kind = k, !.song = s, !.copy = playlist.order]
  OBVIOUS
<1>4. e \in Lists!Request
  BY <1>1, <1>2, <1>3 DEF Lists!Request
<1>5. e.pc = pc /\ e.kind = k /\ e.song = s /\ e.songs = Lists!NoSongs
  BY <1>3 DEF Lists!Idle
<1>6. Meant(e) /\ Spares(e, kept')
  BY <1>1, <1>5 DEF Meant, Spares
<1>7. edit' = [edit EXCEPT ![q] = e]
  BY <1>3 DEF Lists!Start
<1>8. \A p \in Actors : Spares(edit[p], kept')
  BY ListsAre, SparesLess
<1>9. playlist' \in Row /\ writes' \in 0 .. MaxWrites /\ members' \subseteq Items /\ kept' \subseteq members'
  BY ListsAre
<1> QED
  BY <1>4, <1>6, <1>7, <1>8, <1>9, RequestTurns

LEMMA ListGetForAdd ==
    ASSUME ListBounds, ListInv, NEW q \in Actors, NEW s \in Items, Lists!GetForAdd(q, s) PROVE ListInv'
BY StartTurns DEF Lists!GetForAdd

LEMMA ListGetForRemove ==
    ASSUME ListBounds, ListInv, NEW q \in Actors, NEW s \in Items, Lists!GetForRemove(q, s) PROVE ListInv'
BY StartTurns DEF Lists!GetForRemove

LEMMA ListGetForShow == ASSUME ListBounds, ListInv, NEW q \in Actors, Lists!GetForShow(q) PROVE ListInv'
BY StartTurns DEF Lists!GetForShow

LEMMA ListCheckAdd == ASSUME ListBounds, ListInv, NEW q \in Actors, Lists!CheckAdd(q) PROVE ListInv'
<1>1. edit[q].pc = "check" /\ edit[q].kind = "add" /\ UNCHANGED <<playlist, members, writes>>
  BY ListsAre DEF Lists!CheckAdd, Lists!At, Meant
<1>2. playlist' \in Row /\ writes' \in 0 .. MaxWrites /\ members' \subseteq Items
  BY <1>1, ListsAre
<1>3. CASE edit[q].song \in members
  <2>1. Lists!End(q) /\ Lists!Keep(q)
    BY <1>3 DEF Lists!CheckAdd
  <2>2. kept' \subseteq members' /\ \A p \in Actors : Spares(edit[p], kept')
    BY <1>1, <1>3, <2>1, KeepSpares, ListsAre
  <2> QED
    BY <1>2, <2>1, <2>2, RequestEnds
<1>4. CASE edit[q].song \notin members
  <2>1. Lists!Goto(q, "link") /\ kept' = kept
    BY <1>4 DEF Lists!CheckAdd
  <2>2. kept' \subseteq members' /\ \A p \in Actors : Spares(edit[p], kept')
    BY <1>1, <2>1, ListsAre
  <2> QED
    BY <1>1, <1>2, <2>1, <2>2, RequestGoes DEF ListPcs
<1> QED
  BY <1>3, <1>4

LEMMA ListLink == ASSUME ListBounds, ListInv, NEW q \in Actors, Lists!Link(q) PROVE ListInv'
<1>1. edit[q].pc = "link" /\ edit[q].kind = "add" /\ edit[q].song \in Items /\ UNCHANGED <<playlist, writes>>
  BY ListsAre DEF Lists!Link, Lists!At, Meant
<1>2. playlist' \in Row /\ writes' \in 0 .. MaxWrites
  BY <1>1, ListsAre
<1>3. CASE playlist.live
  <2>1. members' = members \cup {edit[q].song} /\ Lists!Goto(q, "order") /\ Lists!Keep(q)
    BY <1>3 DEF Lists!Link
  <2>2. kept' \subseteq members' /\ \A p \in Actors : Spares(edit[p], kept')
    BY <2>1, KeepSpares, ListsAre
  <2>3. members' \subseteq Items
    BY <1>1, <2>1, ListsAre
  <2> QED
    BY <1>1, <1>2, <2>1, <2>2, <2>3, RequestGoes DEF ListPcs
<1>4. CASE ~playlist.live
  <2>1. UNCHANGED <<members, kept>> /\ Lists!End(q)
    BY <1>4 DEF Lists!Link
  <2>2. members' \subseteq Items /\ kept' \subseteq members' /\ \A p \in Actors : Spares(edit[p], kept')
    BY <2>1, ListsAre
  <2> QED
    BY <1>2, <2>1, <2>2, RequestEnds
<1> QED
  BY <1>3, <1>4

\* A list that is written back goes into the row, if the row is there.
LEMMA WrittenBack ==
    ASSUME ListInv, NEW o \in Lists!Orders, Lists!WriteBack(o) \/ UNCHANGED playlist PROVE playlist' \in Row
<1>1. playlist \in Row
  BY ListsAre
<1>2. [playlist EXCEPT !.order = o] \in Row
  BY <1>1 DEF Row
<1> QED
  BY <1>1, <1>2 DEF Lists!WriteBack

LEMMA ListOrderAdded == ASSUME ListBounds, ListInv, NEW q \in Actors, Lists!OrderAdded(q) PROVE ListInv'
<1>1. edit[q].kind = "add" /\ edit[q].song \in Items /\ edit[q].copy \in Lists!Orders
  BY ListsAre DEF Lists!OrderAdded, Meant, Lists!Request
<1>2. PICK o : o = Lists!AppendId(edit[q].copy, edit[q].song)
  OBVIOUS
<1>3. Len(o) <= MaxOrder /\ (Lists!WriteBack(o) \/ UNCHANGED playlist) /\ Lists!End(q) /\ UNCHANGED <<members, kept, writes>>
  BY <1>2 DEF Lists!OrderAdded
<1>4. o \in Lists!Orders
  BY <1>1, <1>2, <1>3, AppendIdFits
<1>5. playlist' \in Row
  BY <1>3, <1>4, WrittenBack
<1>6. writes' \in 0 .. MaxWrites /\ members' \subseteq Items /\ kept' \subseteq members' /\ \A p \in Actors : Spares(edit[p], kept')
  BY <1>3, ListsAre
<1> QED
  BY <1>3, <1>5, <1>6, RequestEnds

LEMMA ListOrderRemoved == ASSUME ListBounds, ListInv, NEW q \in Actors, Lists!OrderRemoved(q) PROVE ListInv'
<1>1. edit[q].copy \in Lists!Orders
  BY ListsAre DEF Lists!Request
<1>2. PICK o : o = Lists!Without(edit[q].copy, Lists!Id(edit[q].song))
  OBVIOUS
<1>3. (Lists!WriteBack(o) \/ UNCHANGED playlist) /\ Lists!End(q) /\ UNCHANGED <<members, kept, writes>>
  BY <1>2 DEF Lists!OrderRemoved
<1>4. o \in Lists!Orders
  BY <1>1, <1>2, WithoutFits
<1>5. playlist' \in Row
  BY <1>3, <1>4, WrittenBack
<1>6. writes' \in 0 .. MaxWrites /\ members' \subseteq Items /\ kept' \subseteq members' /\ \A p \in Actors : Spares(edit[p], kept')
  BY <1>3, ListsAre
<1> QED
  BY <1>3, <1>5, <1>6, RequestEnds

LEMMA ListUnlink == ASSUME ListBounds, ListInv, NEW q \in Actors, Lists!Unlink(q) PROVE ListInv'
<1>1. edit[q].kind = "remove" /\ edit[q].song \notin kept
  BY ListsAre DEF Lists!Unlink, Lists!At, Meant, Spares
<1>2. members' = members \ {edit[q].song} /\ Lists!Goto(q, "order") /\ UNCHANGED <<playlist, kept, writes>>
  BY DEF Lists!Unlink
<1>3. /\ playlist' \in Row /\ writes' \in 0 .. MaxWrites /\ members' \subseteq Items /\ kept' \subseteq members'
      /\ \A p \in Actors : Spares(edit[p], kept')
  BY <1>1, <1>2, ListsAre
<1> QED
  BY <1>2, <1>3, RequestGoes DEF ListPcs

LEMMA ListGetForUpdate ==
    ASSUME ListBounds, ListInv, NEW q \in Actors, NEW wish \in Lists!Wishes,
           NEW songs \in (SUBSET Items) \cup {Lists!NoSongs}, Lists!GetForUpdate(q, wish, songs)
    PROVE  ListInv'
<1>1. Lists!Idle \in Lists!Request /\ playlist.order \in Lists!Orders /\ wish \in Lists!Orders \cup {NoOrder}
  BY IdleFits, ListsAre, WishesFit
<1>2. PICK e : e = [Lists!Idle EXCEPT !.pc = "validate", !.kind = "update", !.copy = playlist.order,
                                      !.wish = wish, !.songs = songs]
  OBVIOUS
<1>3. e \in Lists!Request
  BY <1>1, <1>2 DEF Lists!Request
<1>4. e.pc = "validate" /\ e.kind = "update" /\ e.songs = songs
  BY <1>2 DEF Lists!Idle
<1>5. kept' = (IF songs = Lists!NoSongs THEN kept ELSE {}) /\ UNCHANGED <<playlist, members>>
  BY DEF Lists!GetForUpdate
<1>6. Meant(e) /\ Spares(e, kept')
  BY <1>4, <1>5 DEF Meant, Spares
<1>7. edit' = [edit EXCEPT ![q] = e]
  BY <1>2 DEF Lists!GetForUpdate
<1>8. \A p \in Actors : Spares(edit[p], kept')
  BY <1>5, ListsAre, SparesLess
<1>9. writes' \in 0 .. MaxWrites
  BY ListsAre DEF Lists!GetForUpdate, ListBounds
<1>10. playlist' \in Row /\ members' \subseteq Items /\ kept' \subseteq members'
  BY <1>5, ListsAre
<1> QED
  BY <1>3, <1>6, <1>7, <1>8, <1>9, <1>10, RequestTurns

LEMMA ListValidate == ASSUME ListBounds, ListInv, NEW q \in Actors, Lists!Validate(q) PROVE ListInv'
<1>1. edit[q].kind = "update" /\ UNCHANGED <<playlist, members, kept, writes>>
  BY ListsAre DEF Lists!Validate, Lists!At, Meant
<1>2. /\ playlist' \in Row /\ writes' \in 0 .. MaxWrites /\ members' \subseteq Items /\ kept' \subseteq members'
      /\ \A p \in Actors : Spares(edit[p], kept')
  BY <1>1, ListsAre
<1>3. CASE Lists!Goto(q, "save")
  BY <1>1, <1>2, <1>3, RequestGoes DEF ListPcs
<1>4. CASE Lists!End(q)
  BY <1>2, <1>4, RequestEnds
<1> QED
  BY <1>3, <1>4 DEF Lists!Validate

LEMMA ListSave == ASSUME ListBounds, ListInv, NEW q \in Actors, Lists!Save(q) PROVE ListInv'
<1>1. edit[q].kind = "update" /\ edit[q].copy \in Lists!Orders /\ edit[q].wish \in Lists!Orders \cup {NoOrder}
  BY ListsAre DEF Lists!Save, Lists!At, Meant, Lists!Request
<1>2. PICK o \in Lists!Orders : o = Lists!Saved(q)
  BY <1>1, SavedFits
<1>3. playlist' = [live |-> TRUE, order |-> o] /\ UNCHANGED <<members, kept, writes>>
  BY <1>2 DEF Lists!Save
<1>4. /\ playlist' \in Row /\ writes' \in 0 .. MaxWrites /\ members' \subseteq Items /\ kept' \subseteq members'
      /\ \A p \in Actors : Spares(edit[p], kept')
  BY <1>3, ListsAre DEF Row
<1>5. CASE edit[q].songs = Lists!NoSongs
  <2>1. Lists!End(q)
    BY <1>5 DEF Lists!Save, Lists!ThenSongs
  <2> QED
    BY <1>4, <2>1, RequestEnds
<1>6. CASE edit[q].songs # Lists!NoSongs
  <2>1. Lists!Goto(q, "links")
    BY <1>6 DEF Lists!Save, Lists!ThenSongs
  <2> QED
    BY <1>1, <1>4, <1>6, <2>1, RequestGoes DEF ListPcs
<1> QED
  BY <1>5, <1>6

\* What is linked is noted, for an update and for an answer.
LEMMA ReadsFit ==
    ASSUME ListInv, NEW q \in Actors, NEW pc \in {"set", "answer"}, edit' = [edit EXCEPT ![q].pc = pc, ![q].seen = members],
           pc = "set" => edit[q].pc = "links", UNCHANGED <<playlist, members, kept, writes>>
    PROVE  ListInv'
<1>1. edit \in [Actors -> Lists!Request] /\ edit[q] \in Lists!Request /\ Meant(edit[q]) /\ members \in SUBSET Items
  BY ListsAre DEF ListInv, Lists!TypeOK
<1>2. PICK e : e = [edit[q] EXCEPT !.pc = pc, !.seen = members]
  OBVIOUS
<1>3. /\ e \in Lists!Request /\ e.pc = pc
      /\ e.kind = edit[q].kind /\ e.song = edit[q].song /\ e.songs = edit[q].songs
  BY <1>1, <1>2 DEF Lists!Request
<1>4. edit' = [edit EXCEPT ![q] = e]
  BY <1>1, <1>2
<1>5. Meant(e)
  BY <1>1, <1>3 DEF Meant
<1>6. \A p \in Actors : Spares(edit[p], kept')
  BY ListsAre
<1>7. Spares(e, kept')
  BY <1>3, <1>6 DEF Spares
<1>8. playlist' \in Row /\ writes' \in 0 .. MaxWrites /\ members' \subseteq Items /\ kept' \subseteq members'
  BY ListsAre
<1> QED
  BY <1>3, <1>4, <1>5, <1>6, <1>7, <1>8, RequestTurns

LEMMA ListReadLinks == ASSUME ListInv, NEW q \in Actors, Lists!ReadLinks(q) PROVE ListInv'
BY ReadsFit DEF Lists!ReadLinks, Lists!At

LEMMA ListReadSongs == ASSUME ListInv, NEW q \in Actors, Lists!ReadSongs(q) PROVE ListInv'
BY ReadsFit DEF Lists!ReadSongs, Lists!At

\* Nothing is kept while the songs of an update are set.
LEMMA ListSetSongs == ASSUME ListBounds, ListInv, NEW q \in Actors, Lists!SetSongs(q) PROVE ListInv'
<1>1. edit[q] \in Lists!Request /\ edit[q].kind = "update" /\ edit[q].songs # Lists!NoSongs
  BY ListsAre DEF Lists!SetSongs, Lists!At, Meant
<1>2. kept = {}
  BY <1>1, ListsAre DEF Spares
<1>3. Lists!NewSongs(q) \subseteq Items /\ members \subseteq Items
  BY <1>1, ListsAre DEF Lists!NewSongs, Lists!Request
<1>4. members' \subseteq Items
  BY <1>3 DEF Lists!SetSongs
<1>5. Lists!End(q) /\ UNCHANGED <<playlist, kept, writes>>
  BY DEF Lists!SetSongs
<1>6. playlist' \in Row /\ writes' \in 0 .. MaxWrites /\ kept' \subseteq members' /\ \A p \in Actors : Spares(edit[p], kept')
  BY <1>2, <1>5, ListsAre
<1> QED
  BY <1>4, <1>5, <1>6, RequestEnds

LEMMA ListAnswer == ASSUME ListBounds, ListInv, NEW q \in Actors, Lists!Answer(q) PROVE ListInv'
<1>1. Lists!End(q) /\ UNCHANGED <<playlist, members, kept, writes>>
  BY DEF Lists!Answer
<1>2. /\ playlist' \in Row /\ writes' \in 0 .. MaxWrites /\ members' \subseteq Items /\ kept' \subseteq members'
      /\ \A p \in Actors : Spares(edit[p], kept')
  BY <1>1, ListsAre
<1> QED
  BY <1>1, <1>2, RequestEnds

LEMMA ListDelete == ASSUME ListBounds, ListInv, Lists!Delete PROVE ListInv'
<1>1. playlist' = [live |-> FALSE, order |-> <<>>] /\ members' = {} /\ kept' = {} /\ UNCHANGED <<edit, writes>>
  BY DEF Lists!Delete
<1>2. PICK o \in Lists!Orders : o = <<>>
  BY EmptyFits
<1>3. playlist' \in [live : BOOLEAN, order : Lists!Orders]
  BY <1>1, <1>2
<1>4. Lists!TypeOK'
  BY <1>1, <1>3 DEF ListInv, Lists!TypeOK
<1>5. RequestsMeant'
  BY <1>1 DEF ListInv, RequestsMeant
<1>6. KeptSpared'
  BY <1>1 DEF KeptSpared, Spares
<1> QED
  BY <1>1, <1>4, <1>5, <1>6 DEF ListInv, Lists!AddedStays

LEMMA ListsRested == ASSUME ListInv, UNCHANGED Lists!vars PROVE ListInv'
BY DEF ListInv, Lists!TypeOK, RequestsMeant, KeptSpared, Lists!AddedStays, Lists!vars

LEMMA ListsStep == ASSUME ListBounds, ListInv, Lists!Next \/ UNCHANGED Lists!vars PROVE ListInv'
<1>1. CASE UNCHANGED Lists!vars
  BY <1>1, ListsRested
<1>2. CASE Lists!Delete
  BY <1>2, ListDelete
<1>3. ASSUME NEW q \in Actors, NEW s \in Items, Lists!GetForAdd(q, s) \/ Lists!GetForRemove(q, s) PROVE ListInv'
  BY <1>3, ListGetForAdd, ListGetForRemove
<1>4. ASSUME NEW q \in Actors, NEW wish \in Lists!Wishes, NEW songs \in (SUBSET Items) \cup {Lists!NoSongs},
             Lists!GetForUpdate(q, wish, songs)
      PROVE  ListInv'
  BY <1>4, ListGetForUpdate
<1>5. ASSUME NEW q \in Actors,
             \/ Lists!CheckAdd(q) \/ Lists!Link(q) \/ Lists!OrderAdded(q) \/ Lists!Unlink(q) \/ Lists!OrderRemoved(q)
      PROVE  ListInv'
  BY <1>5, ListCheckAdd, ListLink, ListOrderAdded, ListUnlink, ListOrderRemoved
<1>6. ASSUME NEW q \in Actors, Lists!Validate(q) \/ Lists!Save(q) \/ Lists!ReadLinks(q) \/ Lists!SetSongs(q)
      PROVE  ListInv'
  BY <1>6, ListValidate, ListSave, ListReadLinks, ListSetSongs
<1>7. ASSUME NEW q \in Actors, Lists!GetForShow(q) \/ Lists!ReadSongs(q) \/ Lists!Answer(q) PROVE ListInv'
  BY <1>7, ListGetForShow, ListReadSongs, ListAnswer
<1> QED
  BY <1>1, <1>2, <1>3, <1>4, <1>5, <1>6, <1>7 DEF Lists!Next

LEMMA ShownJoined ==
    ASSUME NEW q, NEW listed, listed = Lists!Only(edit[q].seen, Lists!NormalIds(edit[q].copy))
    PROVE  Lists!Shown(q) = Joined(listed, Lists!Rows(Unlisted(edit[q].seen, listed)))
BY DEF Lists!Shown, Lists!Rest, Joined, Unlisted

LEMMA ListedIs ==
    ASSUME NEW q, NEW s, edit[q].copy \in Seq(Lists!Entry)
    PROVE  Lists!Listed(q, s) <=> \E i \in 1 .. Len(edit[q].copy) : edit[q].copy[i][1] = s
<1>1. PICK o : o = edit[q].copy
  OBVIOUS
<1>2. DOMAIN o = 1 .. Len(o)
  BY <1>1
<1>3. PICK ids : ids = Lists!Ids(o) /\ ids = [i \in DOMAIN o |-> o[i][1]]
  BY DEF Lists!Ids
<1>4. s \in Lists!Range(ids) <=> \E i \in DOMAIN o : o[i][1] = s
  BY <1>3 DEF Lists!Range
<1> QED
  BY <1>1, <1>2, <1>3, <1>4 DEF Lists!Listed

LEMMA ShownOfOne ==
    ASSUME ListBounds, ListInv, NEW q \in Actors
    PROVE  /\ Lists!Range(Lists!Shown(q)) = edit[q].seen /\ Len(Lists!Shown(q)) = Lists!Cardinality(edit[q].seen)
           /\ \A m, n \in DOMAIN Lists!Shown(q) : m < n /\ Lists!Listed(q, Lists!Shown(q)[n]) =>
                  /\ Lists!Listed(q, Lists!Shown(q)[m])
                  /\ Lists!FirstIn(q, Lists!Shown(q)[m]) < Lists!FirstIn(q, Lists!Shown(q)[n])
<1>1. edit[q].copy \in Seq(Lists!Entry) /\ edit[q].seen \in SUBSET Items
  BY ListsAre, OrdersAre DEF Lists!Request
<1>2. IsFiniteSet(edit[q].seen)
  BY <1>1, FS_Subset DEF ListBounds
<1>3. PICK order : order = edit[q].copy
  OBVIOUS
<1>4. PICK S : S = edit[q].seen
  OBVIOUS
<1>5. PICK listed : listed = Lists!Only(S, Lists!NormalIds(order))
  OBVIOUS
<1>6. PICK shown : shown = Joined(listed, Lists!Rows(Unlisted(S, listed)))
  OBVIOUS
<1>7. /\ shown \in Seq(S) /\ Lists!Range(shown) = S /\ Len(shown) = Cardinality(S) /\ Len(shown) \in Nat
      /\ \A m, n \in 1 .. Len(shown) : m < n /\ (\E i \in 1 .. Len(order) : order[i][1] = shown[n]) =>
             /\ \E i \in 1 .. Len(order) : order[i][1] = shown[m]
             /\ Lists!First(order, shown[m]) < Lists!First(order, shown[n])
  <2>1. order \in Seq(Lists!Entry) /\ S \in SUBSET Items /\ IsFiniteSet(S)
    BY <1>1, <1>2, <1>3, <1>4
  <2> QED
    BY <1>5, <1>6, <2>1, ShownGood
<1>8. Lists!Shown(q) = shown
  BY <1>3, <1>4, <1>5, <1>6, ShownJoined
<1>9. \A s : Lists!Listed(q, s) <=> \E i \in 1 .. Len(order) : order[i][1] = s
  BY <1>1, <1>3, ListedIs
<1>10. \A s : Lists!FirstIn(q, s) = Lists!First(order, s)
  BY <1>3 DEF Lists!FirstIn
<1>11. DOMAIN shown = 1 .. Len(shown)
  BY <1>7
<1>12. \A m, n \in DOMAIN shown : m < n /\ Lists!Listed(q, shown[n]) =>
           Lists!Listed(q, shown[m]) /\ Lists!FirstIn(q, shown[m]) < Lists!FirstIn(q, shown[n])
  BY <1>7, <1>9, <1>10, <1>11
<1>13. Len(shown) = Lists!Cardinality(S)
  BY <1>7, ListsCount
<1> QED
  BY <1>4, <1>7, <1>8, <1>12, <1>13

LEMMA ShownFits == ASSUME ListBounds, ListInv PROVE Lists!TypeOK /\ Lists!ShownWhole /\ Lists!AddedStays
<1>1. Lists!ShownWhole
  BY ShownOfOne DEF Lists!ShownWhole
<1> QED
  BY <1>1 DEF ListInv

-----------------------------------------------------------------------------
(* The history and the pages that merge it with what is on the shelf: rows    *)
(* are ranked by their times, and the newest of a part are the newest of it   *)
(* as far as the part has them.                                               *)

LEMMA VisitsCount == ASSUME NEW S PROVE Visits!Cardinality(S) = Cardinality(S)
BY DEF Visits!Cardinality, Cardinality

LEMMA NewerAre ==
    ASSUME NEW S, Timed(S), NEW e \in S
    PROVE  /\ Visits!Newer(S, e) \in SUBSET S /\ \A f : f \in Visits!Newer(S, e) <=> f \in S /\ f.at > e.at
           /\ IsFiniteSet(Visits!Newer(S, e)) /\ IsFiniteSet(S)
<1>1. Visits!Newer(S, e) \in SUBSET S
  BY DEF Visits!Newer
<1>2. ASSUME NEW f PROVE f \in Visits!Newer(S, e) <=> f \in S /\ f.at > e.at
  <2>1. f \in S => f.at \in Nat /\ f.key \in Nat /\ e.at \in Nat /\ e.key \in Nat /\ (f.at = e.at => f = e)
    BY DEF Timed
  <2>2. f \in Visits!Newer(S, e) <=> f \in S /\ (f.at > e.at \/ (f.at = e.at /\ f.key > e.key))
    BY DEF Visits!Newer
  <2> QED
    BY <2>1, <2>2
<1>3. IsFiniteSet(S)
  BY DEF Timed
<1>4. IsFiniteSet(Visits!Newer(S, e))
  BY <1>1, <1>3, FS_Subset
<1> QED
  BY <1>1, <1>2, <1>3, <1>4

LEMMA FewerIn ==
    ASSUME NEW S, NEW T, IsFiniteSet(T), S \in SUBSET T, NEW e \in T, e \notin S
    PROVE  Cardinality(S) < Cardinality(T) /\ Cardinality(S) \in Nat /\ Cardinality(T) \in Nat
<1>1. IsFiniteSet(S) /\ Cardinality(S) <= Cardinality(T) /\ (Cardinality(S) = Cardinality(T) => S = T)
  BY FS_Subset
<1>2. Cardinality(S) \in Nat /\ Cardinality(T) \in Nat
  BY <1>1, FS_CardinalityType
<1>3. S # T
  OBVIOUS
<1> QED
  BY <1>1, <1>2, <1>3

LEMMA RankBelow ==
    ASSUME NEW S, Timed(S), NEW e \in S
    PROVE  Rank(S, e) \in Nat /\ Rank(S, e) < Cardinality(S) /\ Cardinality(S) \in Nat
<1>1. PICK N : N = Visits!Newer(S, e)
  OBVIOUS
<1>2. N \in SUBSET S /\ IsFiniteSet(S) /\ (e \in N <=> e \in S /\ e.at > e.at)
  BY <1>1, NewerAre
<1>3. e \notin N
  <2>1. e.at \in Nat
    BY DEF Timed
  <2> QED
    BY <1>2, <2>1
<1>4. Cardinality(N) < Cardinality(S) /\ Cardinality(N) \in Nat /\ Cardinality(S) \in Nat
  BY <1>2, <1>3, FewerIn
<1> QED
  BY <1>1, <1>4 DEF Rank

LEMMA RankGrows ==
    ASSUME NEW S, Timed(S), NEW e \in S, NEW f \in S, f.at > e.at
    PROVE  Rank(S, f) < Rank(S, e)
<1>1. PICK N : N = Visits!Newer(S, e)
  OBVIOUS
<1>2. PICK L : L = Visits!Newer(S, f)
  OBVIOUS
<1>3. /\ IsFiniteSet(N) /\ (\A g : g \in N <=> g \in S /\ g.at > e.at)
      /\ (\A g : g \in L <=> g \in S /\ g.at > f.at)
  BY <1>1, <1>2, NewerAre
<1>4. e.at \in Nat /\ f.at \in Nat /\ \A g \in S : g.at \in Nat
  BY DEF Timed
<1>5. L \in SUBSET N /\ f \in N /\ f \notin L
  BY <1>3, <1>4
<1>6. Cardinality(L) < Cardinality(N)
  BY <1>3, <1>5, FewerIn
<1> QED
  BY <1>1, <1>2, <1>6 DEF Rank

LEMMA RankOnce ==
    ASSUME NEW S, Timed(S), NEW e \in S, NEW f \in S, Rank(S, e) = Rank(S, f)
    PROVE  e = f
<1>1. e.at \in Nat /\ f.at \in Nat /\ (e.at = f.at => e = f)
  BY DEF Timed
<1>2. Rank(S, e) \in Nat /\ Rank(S, f) \in Nat
  BY RankBelow
<1>3. ~(e.at > f.at)
  BY <1>2, RankGrows
<1>4. ~(f.at > e.at)
  BY <1>2, RankGrows
<1> QED
  BY <1>1, <1>3, <1>4

LEMMA RankOnto ==
    ASSUME NEW S, Timed(S), NEW n \in Nat, n < Cardinality(S)
    PROVE  \E e \in S : Rank(S, e) = n
<1>1. PICK c \in Nat : c = Cardinality(S) /\ IsFiniteSet(S)
  BY FS_CardinalityType DEF Timed
<1>2. \A e \in S : Rank(S, e) \in 0 .. (c - 1)
  BY <1>1, RankBelow
<1>3. IsFiniteSet(0 .. (c - 1)) /\ Cardinality(0 .. (c - 1)) = c
  <2>1. PICK b \in Int : b = c - 1
    BY <1>1
  <2>2. IsFiniteSet(0 .. b) /\ Cardinality(0 .. b) = IF 0 > b THEN 0 ELSE b - 0 + 1
    BY FS_Interval
  <2>3. (IF 0 > b THEN 0 ELSE b - 0 + 1) = c
    BY <1>1, <2>1
  <2> QED
    BY <2>1, <2>2, <2>3
<1>4. PICK r : r = [e \in S |-> Rank(S, e)]
  OBVIOUS
<1>5. r \in [S -> 0 .. (c - 1)] /\ \A e \in S : r[e] = Rank(S, e)
  BY <1>2, <1>4
<1>6. \A e, f \in S : r[e] = r[f] => e = f
  BY <1>5, RankOnce
<1>7. r \in Injection(S, 0 .. (c - 1))
  BY <1>5, <1>6 DEF Injection, IsInjective
<1>8. r \in Surjection(S, 0 .. (c - 1))
  BY <1>1, <1>3, <1>7, FS_Injection
<1>9. n \in 0 .. (c - 1)
  BY <1>1
<1>10. \E e \in S : r[e] = n
  BY <1>8, <1>9 DEF Surjection
<1> QED
  BY <1>5, <1>10

\* Each row is at the place of its rank.
LEMMA NewestAre ==
    ASSUME NEW S, Timed(S)
    PROVE  /\ Visits!NewestFirst(S) \in Seq(S) /\ Len(Visits!NewestFirst(S)) = Cardinality(S) /\ Cardinality(S) \in Nat
           /\ \A i \in 1 .. Cardinality(S) : Visits!NewestFirst(S)[i] \in S /\ Rank(S, Visits!NewestFirst(S)[i]) = i - 1
           /\ \A e \in S : Rank(S, e) + 1 \in 1 .. Cardinality(S) /\ Visits!NewestFirst(S)[Rank(S, e) + 1] = e
<1>1. PICK c \in Nat : c = Cardinality(S)
  BY FS_CardinalityType DEF Timed
<1>2. PICK l : l = [n \in 1 .. c |-> CHOOSE e \in S : Rank(S, e) = n - 1]
  OBVIOUS
<1>3. Visits!NewestFirst(S) = l
  <2>1. Visits!NewestFirst(S) = [n \in 1 .. Visits!Cardinality(S) |-> CHOOSE e \in S : Visits!Cardinality(Visits!Newer(S, e)) = n - 1]
    BY DEF Visits!NewestFirst
  <2> QED
    BY <1>1, <1>2, <2>1, VisitsCount DEF Rank
<1>4. ASSUME NEW n \in 1 .. c PROVE l[n] \in S /\ Rank(S, l[n]) = n - 1
  <2>1. PICK m \in Nat : m = n - 1 /\ m < c
    BY <1>1
  <2>2. \E e \in S : Rank(S, e) = m
    BY <1>1, <2>1, RankOnto
  <2>3. l[n] = CHOOSE e \in S : Rank(S, e) = m
    BY <1>2, <2>1
  <2>4. l[n] \in S /\ Rank(S, l[n]) = m
    BY <2>2, <2>3, Zenon
  <2> QED
    BY <2>1, <2>4
<1>5. l \in Seq(S) /\ Len(l) = c
  <2>1. l = [n \in 1 .. c |-> l[n]] /\ \A n \in 1 .. c : l[n] \in S
    BY <1>2, <1>4
  <2>2. [n \in 1 .. c |-> l[n]] \in Seq(S)
    BY <2>1, IsASeq
  <2>3. DOMAIN l = 1 .. c
    BY <1>2
  <2> QED
    BY <2>1, <2>2, <2>3, LenProperties
<1>6. ASSUME NEW e \in S PROVE Rank(S, e) + 1 \in 1 .. c /\ l[Rank(S, e) + 1] = e
  <2>1. PICK r \in Nat : r = Rank(S, e) /\ r < c
    BY <1>1, RankBelow
  <2>2. PICK n \in 1 .. c : n = r + 1 /\ n - 1 = r
    BY <1>1, <2>1
  <2>3. l[n] \in S /\ Rank(S, l[n]) = Rank(S, e)
    BY <1>4, <2>1, <2>2
  <2>4. l[n] = e
    BY <2>3, RankOnce
  <2> QED
    BY <2>1, <2>2, <2>4
<1> QED
  BY <1>1, <1>3, <1>4, <1>5, <1>6

LEMMA TimedIn == ASSUME NEW S, Timed(S), NEW T \in SUBSET S PROVE Timed(T)
<1>1. IsFiniteSet(T)
  BY FS_Subset DEF Timed
<1> QED
  BY <1>1 DEF Timed

LEMMA RankIn ==
    ASSUME NEW S, Timed(S), NEW T \in SUBSET S, NEW e \in T
    PROVE  Rank(T, e) <= Rank(S, e) /\ Rank(T, e) \in Nat /\ Rank(S, e) \in Nat
<1>1. PICK N : N = Visits!Newer(S, e)
  OBVIOUS
<1>2. PICK L : L = Visits!Newer(T, e)
  OBVIOUS
<1>3. Timed(T) /\ e \in S
  BY TimedIn
<1>4. N \in SUBSET S /\ IsFiniteSet(N) /\ (\A g : g \in N <=> g \in S /\ g.at > e.at)
  BY <1>1, <1>3, NewerAre
<1>5. L \in SUBSET T /\ (\A g : g \in L <=> g \in T /\ g.at > e.at)
  BY <1>2, <1>3, NewerAre
<1>6. L \in SUBSET N
  BY <1>4, <1>5
<1>7. Cardinality(L) <= Cardinality(N)
  BY <1>4, <1>6, FS_Subset
<1>8. Rank(T, e) \in Nat /\ Rank(S, e) \in Nat
  BY <1>3, RankBelow
<1> QED
  BY <1>1, <1>2, <1>7, <1>8 DEF Rank

LEMMA RankKept ==
    ASSUME NEW U, NEW M, NEW n \in Nat, NEW e, Timed(U), HasNewest(M, U, n), e \in U, Rank(U, e) < n
    PROVE  e \in M /\ Timed(M) /\ Rank(M, e) = Rank(U, e)
<1>1. M \in SUBSET U /\ e \in M /\ Timed(M)
  BY TimedIn DEF HasNewest
<1>2. PICK N : N = Visits!Newer(U, e)
  OBVIOUS
<1>3. PICK L : L = Visits!Newer(M, e)
  OBVIOUS
<1>4. N \in SUBSET U /\ (\A g : g \in N <=> g \in U /\ g.at > e.at)
  BY <1>2, NewerAre
<1>5. L \in SUBSET M /\ (\A g : g \in L <=> g \in M /\ g.at > e.at)
  BY <1>1, <1>3, NewerAre
<1>6. ASSUME NEW g \in N PROVE g \in L
  <2>1. g \in U /\ g.at > e.at
    BY <1>4
  <2>2. Rank(U, g) < Rank(U, e) /\ Rank(U, g) \in Nat /\ Rank(U, e) \in Nat
    BY <2>1, RankGrows, RankBelow
  <2>3. g \in M
    BY <2>1, <2>2 DEF HasNewest
  <2> QED
    BY <1>5, <2>1, <2>3
<1>7. L = N
  BY <1>1, <1>4, <1>5, <1>6
<1> QED
  BY <1>1, <1>2, <1>3, <1>7 DEF Rank

LEMMA NewestAgree ==
    ASSUME NEW U, NEW M, NEW n \in Nat, Timed(U), HasNewest(M, U, n)
    PROVE  AgreeUpto(Visits!NewestFirst(M), Visits!NewestFirst(U), U, n)
<1>1. M \in SUBSET U /\ Timed(M) /\ IsFiniteSet(U)
  BY TimedIn DEF HasNewest, Timed
<1>2. PICK A : A = Visits!NewestFirst(M)
  OBVIOUS
<1>3. PICK B : B = Visits!NewestFirst(U)
  OBVIOUS
<1>4. PICK a \in Nat : a = Cardinality(M)
  BY <1>1, NewestAre
<1>5. PICK b \in Nat : b = Cardinality(U)
  BY NewestAre
<1>6. /\ A \in Seq(M) /\ Len(A) = a
      /\ \A e \in M : A[Rank(M, e) + 1] = e
  BY <1>1, <1>2, <1>4, NewestAre
<1>7. /\ B \in Seq(U) /\ Len(B) = b
      /\ \A i \in 1 .. b : B[i] \in U /\ Rank(U, B[i]) = i - 1
  BY <1>3, <1>5, NewestAre
<1>8. a <= b /\ (a = b => M = U)
  BY <1>1, <1>4, <1>5, FS_Subset
<1>9. ASSUME NEW i \in 1 .. b, i <= n PROVE i <= a /\ A[i] = B[i]
  <2>1. PICK e \in U : e = B[i] /\ Rank(U, e) = i - 1
    BY <1>7
  <2>2. Rank(U, e) < n
    BY <1>9, <2>1
  <2>3. e \in M /\ Rank(M, e) = Rank(U, e)
    BY <2>2, RankKept
  <2>4. Rank(M, e) < a
    BY <1>1, <1>4, <2>3, RankBelow
  <2>5. Rank(M, e) + 1 = i
    BY <2>1, <2>3
  <2> QED
    BY <1>4, <1>6, <2>1, <2>3, <2>4, <2>5
<1>10. a >= n \/ a = b
  <2>1. CASE n <= b
    <3>1. CASE n = 0
      BY <3>1
    <3>2. CASE n # 0
      BY <1>9, <2>1, <3>2
    <3> QED
      BY <3>1, <3>2
  <2>2. CASE ~(n <= b)
    <3>1. CASE b = 0
      BY <1>8, <3>1
    <3>2. CASE b # 0
      <4>1. b \in 1 .. b /\ b <= n
        BY <2>2, <3>2
      <4>2. b <= a
        BY <1>9, <4>1
      <4> QED
        BY <1>8, <4>2
    <3> QED
      BY <3>1, <3>2
  <2> QED
    BY <2>1, <2>2
<1>11. A \in Seq(U)
  BY <1>1, <1>6, SeqMonotonic
<1>12. \A i \in 1 .. a : i <= n => A[i] = B[i]
  BY <1>8, <1>9
<1> QED
  BY <1>2, <1>3, <1>6, <1>7, <1>8, <1>10, <1>11, <1>12 DEF AgreeUpto

\* The newest n of each source together have the newest n of all.
LEMMA UptoIs ==
    ASSUME NEW E, NEW s \in Seq(E), NEW n \in Nat
    PROVE  /\ Visits!Upto(s, n) \in Seq(E)
           /\ Len(Visits!Upto(s, n)) = IF Len(s) < n THEN Len(s) ELSE n
           /\ \A i \in 1 .. Len(s) : i <= n => Visits!Upto(s, n)[i] = s[i]
<1>1. PICK k \in Nat : k = IF Len(s) < n THEN Len(s) ELSE n
  OBVIOUS
<1>2. k <= Len(s) /\ Len(s) \in Nat
  BY <1>1
<1>3. \A i \in 1 .. k : s[i] \in E
  BY <1>2
<1>4. SubSeq(s, 1, k) \in Seq(E) /\ Len(SubSeq(s, 1, k)) = (IF 1 <= k THEN k - 1 + 1 ELSE 0)
      /\ \A i \in 1 .. k - 1 + 1 : SubSeq(s, 1, k)[i] = s[1 + i - 1]
  BY <1>3, SubSeqProperties
<1>5. SubSeq(s, 1, k) \in Seq(E) /\ Len(SubSeq(s, 1, k)) = k /\ \A i \in 1 .. k : SubSeq(s, 1, k)[i] = s[i]
  <2>1. k - 1 + 1 = k /\ \A i \in 1 .. k : 1 + i - 1 = i
    OBVIOUS
  <2> QED
    BY <1>4, <2>1
<1>6. Visits!Upto(s, n) = SubSeq(s, 1, k)
  BY <1>1 DEF Visits!Upto
<1>7. \A i \in 1 .. Len(s) : i <= n => i \in 1 .. k
  BY <1>1
<1> QED
  BY <1>1, <1>5, <1>6, <1>7

LEMMA TopsAre ==
    ASSUME NEW S, NEW n \in Nat, Timed(S)
    PROVE  Tops(S, n) \in SUBSET S /\ \A e \in S : Rank(S, e) < n => e \in Tops(S, n)
<1>1. PICK l : l = Visits!NewestFirst(S)
  OBVIOUS
<1>2. PICK c \in Nat : c = Cardinality(S)
  BY NewestAre
<1>3. l \in Seq(S) /\ Len(l) = c /\ \A e \in S : Rank(S, e) + 1 \in 1 .. c /\ l[Rank(S, e) + 1] = e
  BY <1>1, <1>2, NewestAre
<1>4. PICK u : u = Visits!Upto(l, n)
  OBVIOUS
<1>5. /\ u \in Seq(S) /\ Len(u) = IF Len(l) < n THEN Len(l) ELSE n
      /\ \A i \in 1 .. Len(l) : i <= n => u[i] = l[i]
  BY <1>3, <1>4, UptoIs
<1>6. Tops(S, n) = {u[i] : i \in DOMAIN u}
  BY <1>1, <1>4 DEF Tops, Visits!Range
<1>7. DOMAIN u = 1 .. Len(u)
  BY <1>5
<1>8. Tops(S, n) \in SUBSET S
  BY <1>5, <1>6
<1>9. ASSUME NEW e \in S, Rank(S, e) < n PROVE e \in Tops(S, n)
  <2>1. PICK r \in Nat : r = Rank(S, e)
    BY RankBelow
  <2>2. r + 1 \in 1 .. c /\ l[r + 1] = e /\ r + 1 <= n
    BY <1>3, <1>9, <2>1
  <2>3. r + 1 \in 1 .. Len(u) /\ u[r + 1] = e
    BY <1>2, <1>3, <1>5, <2>2
  <2> QED
    BY <1>6, <1>7, <2>3
<1> QED
  BY <1>8, <1>9

LEMMA MergedAgrees ==
    ASSUME NEW sources, NEW n \in Nat, Timed(UNION sources)
    PROVE  AgreeUpto(Visits!Merged(sources, n), Visits!Whole(sources), UNION sources, n)
<1>1. PICK M : M = UNION {Tops(S, n) : S \in sources}
  OBVIOUS
<1>2. PICK U : U = UNION sources /\ Timed(U)
  OBVIOUS
<1>3. ASSUME NEW S \in sources PROVE S \in SUBSET U /\ Timed(S)
  <2>1. S \in SUBSET U
    BY <1>2
  <2> QED
    BY <1>2, <2>1, TimedIn
<1>4. M \in SUBSET U
  BY <1>1, <1>3, TopsAre
<1>5. ASSUME NEW e \in U, Rank(U, e) < n PROVE e \in M
  <2>1. PICK S \in sources : e \in S
    BY <1>2
  <2>2. Timed(S) /\ S \in SUBSET U
    BY <1>3
  <2>3. Rank(S, e) <= Rank(U, e) /\ Rank(S, e) \in Nat /\ Rank(U, e) \in Nat
    BY <1>2, <2>1, <2>2, RankIn
  <2>4. Rank(S, e) < n
    BY <1>5, <2>3
  <2>5. e \in Tops(S, n)
    BY <2>1, <2>2, <2>4, TopsAre
  <2> QED
    BY <1>1, <2>5
<1>6. HasNewest(M, U, n)
  BY <1>4, <1>5 DEF HasNewest
<1>7. AgreeUpto(Visits!NewestFirst(M), Visits!NewestFirst(U), U, n)
  BY <1>2, <1>6, NewestAgree
<1>8. Visits!Merged(sources, n) = Visits!NewestFirst(M)
  BY <1>1 DEF Visits!Merged, Tops
<1>9. Visits!Whole(sources) = Visits!NewestFirst(U)
  BY <1>2 DEF Visits!Whole
<1> QED
  BY <1>2, <1>7, <1>8, <1>9

LEMMA AfterIs ==
    ASSUME NEW E, NEW s \in Seq(E), NEW a \in Nat, NEW z \in Nat
    PROVE  /\ After(s, a, z) \in Seq(E)
           /\ Len(After(s, a, z)) = IF Len(s) <= a THEN 0 ELSE IF Len(s) < a + z THEN Len(s) - a ELSE z
           /\ \A i \in 1 .. Len(After(s, a, z)) : After(s, a, z)[i] = s[a + i] /\ a + i \in 1 .. Len(s) /\ a + i <= a + z
<1>1. PICK l \in Nat : l = Len(s)
  OBVIOUS
<1>2. PICK b \in Int : b = a + 1
  OBVIOUS
<1>3. PICK t : t = SubSeq(s, b, l)
  OBVIOUS
<1>4. \A i \in b .. l : s[i] \in E
  BY <1>1, <1>2
<1>5. t \in Seq(E) /\ Len(t) = (IF b <= l THEN l - b + 1 ELSE 0) /\ \A i \in 1 .. l - b + 1 : t[i] = s[b + i - 1]
  BY <1>1, <1>2, <1>3, <1>4, SubSeqProperties
<1>6. PICK k \in Nat : k = Len(t)
  BY <1>5
<1>7. k = IF l <= a THEN 0 ELSE l - a
  BY <1>1, <1>2, <1>5, <1>6
<1>8. \A i \in 1 .. k : t[i] = s[a + i]
  <2>1. \A i \in 1 .. k : i \in 1 .. l - b + 1 /\ b + i - 1 = a + i
    BY <1>1, <1>2, <1>7
  <2> QED
    BY <1>5, <2>1
<1>9. PICK u : u = Visits!Upto(t, z)
  OBVIOUS
<1>10. /\ u \in Seq(E) /\ Len(u) = IF k < z THEN k ELSE z
       /\ \A i \in 1 .. k : i <= z => u[i] = t[i]
  BY <1>5, <1>6, <1>9, UptoIs
<1>11. u = After(s, a, z)
  BY <1>1, <1>2, <1>3, <1>9 DEF After
<1>12. Len(u) = IF l <= a THEN 0 ELSE IF l < a + z THEN l - a ELSE z
  BY <1>1, <1>7, <1>10
<1>13. ASSUME NEW i \in 1 .. Len(u) PROVE u[i] = s[a + i] /\ a + i \in 1 .. l /\ a + i <= a + z
  <2>1. i \in 1 .. k /\ i <= z
    BY <1>7, <1>10
  <2> QED
    BY <1>1, <1>7, <1>8, <1>10, <2>1
<1> QED
  BY <1>1, <1>10, <1>11, <1>12, <1>13

LEMMA AfterAgrees ==
    ASSUME NEW E, NEW A, NEW B, NEW a \in Nat, NEW z \in Nat, AgreeUpto(A, B, E, a + z)
    PROVE  After(A, a, z) = After(B, a, z)
<1>1. /\ A \in Seq(E) /\ B \in Seq(E) /\ Len(A) \in Nat /\ Len(B) \in Nat /\ Len(A) <= Len(B)
      /\ Len(A) >= a + z \/ Len(A) = Len(B)
      /\ \A i \in 1 .. Len(A) : i <= a + z => A[i] = B[i]
  BY DEF AgreeUpto
<1>2. PICK u : u = After(A, a, z)
  OBVIOUS
<1>3. PICK v : v = After(B, a, z)
  OBVIOUS
<1>4. /\ u \in Seq(E) /\ Len(u) = IF Len(A) <= a THEN 0 ELSE IF Len(A) < a + z THEN Len(A) - a ELSE z
      /\ \A i \in 1 .. Len(u) : u[i] = A[a + i] /\ a + i \in 1 .. Len(A) /\ a + i <= a + z
  <2>1. A \in Seq(E)
    BY <1>1
  <2>2. /\ After(A, a, z) \in Seq(E)
        /\ Len(After(A, a, z)) = IF Len(A) <= a THEN 0 ELSE IF Len(A) < a + z THEN Len(A) - a ELSE z
        /\ \A i \in 1 .. Len(After(A, a, z)) : After(A, a, z)[i] = A[a + i] /\ a + i \in 1 .. Len(A) /\ a + i <= a + z
    BY <2>1, AfterIs
  <2> QED
    BY <1>2, <2>2
<1>5. /\ v \in Seq(E) /\ Len(v) = IF Len(B) <= a THEN 0 ELSE IF Len(B) < a + z THEN Len(B) - a ELSE z
      /\ \A i \in 1 .. Len(v) : v[i] = B[a + i]
  <2>1. B \in Seq(E)
    BY <1>1
  <2>2. /\ After(B, a, z) \in Seq(E)
        /\ Len(After(B, a, z)) = IF Len(B) <= a THEN 0 ELSE IF Len(B) < a + z THEN Len(B) - a ELSE z
        /\ \A i \in 1 .. Len(After(B, a, z)) : After(B, a, z)[i] = B[a + i] /\ a + i \in 1 .. Len(B) /\ a + i <= a + z
    BY <2>1, AfterIs
  <2> QED
    BY <1>3, <2>2
<1>6. Len(u) = Len(v)
  BY <1>1, <1>4, <1>5
<1>7. \A i \in 1 .. Len(u) : u[i] = v[i]
  BY <1>1, <1>4, <1>5, <1>6
<1>8. u = v
  BY <1>4, <1>5, <1>6, <1>7, SeqEqual
<1> QED
  BY <1>2, <1>3, <1>8

LEMMA SliceAgrees ==
    ASSUME NEW sources, Timed(UNION sources), NEW page \in Nat \ {0}, NEW size \in Nat, NEW n \in Nat, n >= page * size
    PROVE  Visits!Slice(Visits!Merged(sources, n), page, size) = Visits!Slice(Visits!Whole(sources), page, size)
<1>1. PICK a \in Nat : a = (page - 1) * size
  OBVIOUS
<1>2. a + size <= n
  <2>1. page * size = (page - 1) * size + size
    OBVIOUS
  <2> QED
    BY <1>1, <2>1
<1>3. PICK A : A = Visits!Merged(sources, n)
  OBVIOUS
<1>4. PICK B : B = Visits!Whole(sources)
  OBVIOUS
<1>5. AgreeUpto(A, B, UNION sources, n)
  BY <1>3, <1>4, MergedAgrees
<1>6. AgreeUpto(A, B, UNION sources, a + size)
  BY <1>2, <1>5 DEF AgreeUpto
<1>7. After(A, a, size) = After(B, a, size)
  BY <1>6, AfterAgrees
<1>8. Visits!Slice(A, page, size) = After(A, a, size) /\ Visits!Slice(B, page, size) = After(B, a, size)
  BY <1>1 DEF Visits!Slice, After
<1> QED
  BY <1>3, <1>4, <1>7, <1>8

-----------------------------------------------------------------------------
(* The rows, the shelf and the touches under way.                             *)

LEMMA ShelfRowsAre ==
    ASSUME HistInv, NEW S \in SUBSET Visits!Shelf, IsFiniteSet(S)
    PROVE  /\ IsFiniteSet(Visits!ShelfRows(S))
           /\ \A e \in Visits!ShelfRows(S) : \E s \in Visits!Shelf : e = ShelfRow(s) /\ shelf[s] # 0
<1>1. PICK T \in SUBSET S : T = {t \in S : shelf[t] # 0}
  OBVIOUS
<1>2. IsFiniteSet(T)
  BY <1>1, FS_Subset
<1>3. Visits!ShelfRows(S) = {ShelfRow(s) : s \in T}
  BY <1>1 DEF Visits!ShelfRows, ShelfRow
<1>4. PICK R : R = {ShelfRow(s) : s \in T}
  OBVIOUS
<1>5. PICK f : f = [s \in T |-> ShelfRow(s)]
  OBVIOUS
<1>6. f \in Surjection(T, R)
  BY <1>4, <1>5 DEF Surjection
<1>7. IsFiniteSet(R)
  BY <1>2, <1>6, FS_Surjection
<1>8. \A e \in R : \E s \in Visits!Shelf : e = ShelfRow(s) /\ shelf[s] # 0
  BY <1>1, <1>4
<1> QED
  BY <1>3, <1>4, <1>7, <1>8

LEMMA SourcesTimed ==
    ASSUME HistBounds, HistInv
    PROVE  Timed(entries \cup Visits!ShelfRows(Recommended) \cup Visits!ShelfRows(Own))
<1>1. PICK R : R = Visits!ShelfRows(Recommended) \cup Visits!ShelfRows(Own)
  OBVIOUS
<1>2. IsFiniteSet(R) /\ \A e \in R : \E s \in Visits!Shelf : e = ShelfRow(s) /\ shelf[s] # 0
  <2>1. Recommended \in SUBSET Visits!Shelf /\ Own \in SUBSET Visits!Shelf /\ IsFiniteSet(Recommended) /\ IsFiniteSet(Own)
    BY DEF Visits!Shelf, HistBounds
  <2>2. /\ IsFiniteSet(Visits!ShelfRows(Recommended))
        /\ \A e \in Visits!ShelfRows(Recommended) : \E s \in Visits!Shelf : e = ShelfRow(s) /\ shelf[s] # 0
    BY <2>1, ShelfRowsAre
  <2>3. /\ IsFiniteSet(Visits!ShelfRows(Own))
        /\ \A e \in Visits!ShelfRows(Own) : \E s \in Visits!Shelf : e = ShelfRow(s) /\ shelf[s] # 0
    BY <2>1, ShelfRowsAre
  <2>4. IsFiniteSet(Visits!ShelfRows(Recommended) \cup Visits!ShelfRows(Own))
    BY <2>2, <2>3, FS_Union
  <2> QED
    BY <1>1, <2>2, <2>3, <2>4
<1>3. /\ IsFiniteSet(entries) /\ \A e \in entries : e.at \in Nat /\ e.at # 0 /\ e.key \in Nat
      /\ \A s \in Visits!Shelf : shelf[s] \in Nat
      /\ TimesOnce
  BY DEF HistInv, Visits!TypeOK
<1>4. \A s \in Visits!Shelf : ShelfRow(s).at = shelf[s] /\ ShelfRow(s).key = 0
  BY DEF ShelfRow
<1>5. PICK U : U = entries \cup R
  OBVIOUS
<1>6. IsFiniteSet(U)
  BY <1>2, <1>3, <1>5, FS_Union
<1>7. \A e \in U : e.at \in Nat /\ e.key \in Nat
  BY <1>2, <1>3, <1>4, <1>5
<1>8. ASSUME NEW e \in U, NEW f \in U, e.at = f.at PROVE e = f
  <2>1. CASE e \in entries /\ f \in entries
    BY <1>3, <1>8, <2>1 DEF TimesOnce
  <2>2. CASE e \in entries /\ f \in R
    BY <1>2, <1>3, <1>4, <1>8, <2>2 DEF TimesOnce
  <2>3. CASE e \in R /\ f \in entries
    BY <1>2, <1>3, <1>4, <1>8, <2>3 DEF TimesOnce
  <2>4. CASE e \in R /\ f \in R
    <3>1. PICK s \in Visits!Shelf : e = ShelfRow(s) /\ shelf[s] # 0
      BY <1>2, <2>4
    <3>2. PICK t \in Visits!Shelf : f = ShelfRow(t) /\ shelf[t] # 0
      BY <1>2, <2>4
    <3>3. s = t
      BY <1>3, <1>4, <1>8, <3>1, <3>2 DEF TimesOnce
    <3> QED
      BY <3>1, <3>2, <3>3
  <2> QED
    BY <1>5, <2>1, <2>2, <2>3, <2>4
<1>9. Timed(U)
  BY <1>6, <1>7, <1>8 DEF Timed
<1>10. entries \cup Visits!ShelfRows(Recommended) \cup Visits!ShelfRows(Own) = U
  BY <1>1, <1>5
<1> QED
  BY <1>9, <1>10

\* One row more tells whether another page follows.
LEMMA NextAgrees ==
    ASSUME NEW sources, Timed(UNION sources), NEW m \in Nat
    PROVE  Len(Visits!Merged(sources, m + 1)) > m <=> Len(Visits!Whole(sources)) > m
<1>1. PICK n \in Nat : n = m + 1
  OBVIOUS
<1>2. PICK A : A = Visits!Merged(sources, n)
  OBVIOUS
<1>3. PICK B : B = Visits!Whole(sources)
  OBVIOUS
<1>4. AgreeUpto(A, B, UNION sources, n)
  BY <1>2, <1>3, MergedAgrees
<1>5. Len(A) \in Nat /\ Len(B) \in Nat /\ Len(A) <= Len(B) /\ (Len(A) >= n \/ Len(A) = Len(B))
  BY <1>4 DEF AgreeUpto
<1>6. Len(A) > m <=> Len(B) > m
  BY <1>1, <1>5
<1> QED
  BY <1>1, <1>2, <1>3, <1>6

LEMMA PageAgrees ==
    ASSUME HistBounds, HistInv, NEW size \in PageSizes, NEW page \in Nat \ {0}
    PROVE  /\ Visits!LibraryPage(page, size) = Visits!Slice(Visits!Whole(Visits!LibrarySources), page, size)
           /\ Visits!HistoryPage(page, size) = Visits!Slice(Visits!Whole(Visits!HistorySources), page, size)
           /\ Visits!LikedPage(page, size) = Visits!Slice(Visits!Whole(Visits!LikedSources), page, size)
           /\ Visits!LikedHasNext(page, size) = (Len(Visits!Whole(Visits!LikedSources)) > page * size)
<1>1. PICK U : U = entries \cup Visits!ShelfRows(Recommended) \cup Visits!ShelfRows(Own)
  OBVIOUS
<1>2. Timed(U)
  BY <1>1, SourcesTimed
<1>3. size \in Nat
  BY DEF HistBounds
<1>4. PICK n \in Nat : n = page * size
  BY <1>3
<1>5. PICK L : L = Visits!LibrarySources
  OBVIOUS
<1>6. PICK H : H = Visits!HistorySources
  OBVIOUS
<1>7. PICK K : K = Visits!LikedSources
  OBVIOUS
<1>8. UNION L \in SUBSET U /\ UNION H \in SUBSET U /\ UNION K \in SUBSET U
  BY <1>1, <1>5, <1>6, <1>7 DEF Visits!LibrarySources, Visits!HistorySources, Visits!LikedSources
<1>9. Timed(UNION L) /\ Timed(UNION H) /\ Timed(UNION K)
  BY <1>2, <1>8, TimedIn
<1>10. Visits!Slice(Visits!Merged(L, n), page, size) = Visits!Slice(Visits!Whole(L), page, size)
  BY <1>3, <1>4, <1>9, SliceAgrees
<1>11. Visits!Slice(Visits!Merged(H, n), page, size) = Visits!Slice(Visits!Whole(H), page, size)
  BY <1>3, <1>4, <1>9, SliceAgrees
<1>12. Visits!Slice(Visits!Merged(K, n + 1), page, size) = Visits!Slice(Visits!Whole(K), page, size)
  <2>1. PICK m \in Nat : m = n + 1 /\ m >= page * size
    BY <1>4
  <2> QED
    BY <1>3, <1>9, <2>1, SliceAgrees
<1>13. Len(Visits!Merged(K, n + 1)) > n <=> Len(Visits!Whole(K)) > n
  BY <1>9, NextAgrees
<1>14. Visits!LibraryPage(page, size) = Visits!Slice(Visits!Whole(Visits!LibrarySources), page, size)
  BY <1>4, <1>5, <1>10 DEF Visits!LibraryPage, Visits!Taken
<1>15. Visits!HistoryPage(page, size) = Visits!Slice(Visits!Whole(Visits!HistorySources), page, size)
  BY <1>4, <1>6, <1>11 DEF Visits!HistoryPage, Visits!Taken
<1>16. Visits!LikedPage(page, size) = Visits!Slice(Visits!Whole(Visits!LikedSources), page, size)
  BY <1>4, <1>7, <1>12 DEF Visits!LikedPage, Visits!LikedMerged, Visits!Taken
<1>17. Visits!LikedHasNext(page, size) = (Len(Visits!Whole(Visits!LikedSources)) > page * size)
  BY <1>4, <1>7, <1>13 DEF Visits!LikedHasNext, Visits!LikedMerged, Visits!Taken
<1> QED
  BY <1>14, <1>15, <1>16, <1>17

LEMMA PagesAgree == ASSUME HistBounds, HistInv PROVE Visits!PagesWhole
<1>1. Visits!Cardinality(entries) \in Nat
  BY VisitsCount, FS_CardinalityType DEF HistInv
<1>2. IsFiniteSet(Visits!Shelf)
  BY FS_Union DEF HistBounds, Visits!Shelf
<1>3. Visits!Cardinality(Visits!Shelf) \in Nat
  BY <1>2, VisitsCount, FS_CardinalityType
<1>4. \A page \in 1 .. (Visits!Cardinality(entries) + Visits!Cardinality(Visits!Shelf)) : page \in Nat \ {0}
  BY <1>1, <1>3
<1> QED
  BY <1>4, PageAgrees DEF Visits!PagesWhole

LEMMA VisitsStart == ASSUME HistBounds, Visits!Init PROVE HistInv
<1>1. /\ shelf = [s \in Visits!Shelf |-> 0] /\ clock = 2 /\ touched = {}
      /\ advisory = [i \in Items |-> Visits!NoOne] /\ touch = [h \in Actors |-> Visits!Resting]
  BY DEF Visits!Init
<1>2. PICK i \in Items, twice \in {FALSE, TRUE} :
        entries = IF twice THEN {[key |-> 1, item |-> i, at |-> 1], [key |-> 2, item |-> i, at |-> 2]} ELSE {}
  BY DEF Visits!Init
<1>3. MaxClock \in Nat /\ MaxClock >= 2
  BY DEF HistBounds
<1>4. PICK a : a = [key |-> 1, item |-> i, at |-> 1]
  OBVIOUS
<1>5. PICK b : b = [key |-> 2, item |-> i, at |-> 2]
  OBVIOUS
<1>6. entries \subseteq {a, b}
  BY <1>2, <1>4, <1>5
<1>7. IsFiniteSet(entries)
  <2>1. IsFiniteSet({a} \cup {b})
    BY FS_Singleton, FS_Union
  <2>2. {a, b} = {a} \cup {b}
    OBVIOUS
  <2> QED
    BY <1>6, <2>1, <2>2, FS_Subset
<1>8. KeysOnce /\ TimesOnce
  BY <1>1, <1>4, <1>5, <1>6 DEF KeysOnce, TimesOnce
<1>9. \A h \in Actors : TouchFits(h) /\ TouchHolds(h)
  BY <1>1 DEF TouchFits, TouchHolds, Visits!Resting
<1>10. Visits!OneEntry
  BY <1>1 DEF Visits!OneEntry
<1>11. entries \subseteq [key : 1 .. MaxClock, item : Items, at : 1 .. MaxClock]
  BY <1>3, <1>4, <1>5, <1>6
<1>12. shelf \in [Visits!Shelf -> 0 .. MaxClock] /\ clock \in 2 .. MaxClock
  BY <1>1, <1>3
<1>13. Visits!Resting \in Visits!Touch
  BY <1>3 DEF Visits!Resting, Visits!Touch
<1>14. touch \in [Actors -> Visits!Touch] /\ advisory \in [Items -> Actors \cup {Visits!NoOne}]
  BY <1>1, <1>13
<1>15. Visits!TypeOK
  BY <1>1, <1>11, <1>12, <1>14 DEF Visits!TypeOK
<1> QED
  BY <1>7, <1>8, <1>9, <1>10, <1>15 DEF HistInv

LEMMA HistTypes ==
    ASSUME HistBounds, HistInv
    PROVE  /\ entries \subseteq [key : 1 .. MaxClock, item : Items, at : 1 .. MaxClock] /\ IsFiniteSet(entries)
           /\ shelf \in [Visits!Shelf -> 0 .. MaxClock] /\ clock \in Nat /\ clock >= 2 /\ clock <= MaxClock
           /\ advisory \in [Items -> Actors \cup {Visits!NoOne}] /\ touch \in [Actors -> Visits!Touch]
           /\ touched \subseteq Items /\ MaxClock \in Nat /\ Visits!NoOne \notin Actors
BY DEF HistInv, Visits!TypeOK, HistBounds

\* The rows of the items stay, so that those touched have one row still.
LEMMA RowsStay ==
    ASSUME HistInv, UNCHANGED entries, UNCHANGED touched PROVE Visits!OneEntry' /\ IsFiniteSet(entries')
<1>1. Visits!OneEntry /\ IsFiniteSet(entries)
  BY DEF HistInv
<1> QED
  BY <1>1 DEF Visits!OneEntry, Visits!Rows

LEMMA VisitBegins ==
    ASSUME HistBounds, HistInv, NEW h \in Actors, NEW i \in Items, Visits!Begin(h, i) PROVE HistInv'
<1>1. /\ clock < MaxClock /\ clock' = clock + 1
      /\ touch' = [touch EXCEPT ![h] = [pc |-> "lock", item |-> i, now |-> clock + 1, current |-> 0]]
      /\ UNCHANGED <<entries, shelf, advisory, touched>>
  BY DEF Visits!Begin, Visits!Tick
<1>2. PICK t : t = [pc |-> "lock", item |-> i, now |-> clock + 1, current |-> 0]
  OBVIOUS
<1>3. t.pc = "lock" /\ t.item = i /\ t.now = clock + 1
  BY <1>2
<1>4. t \in Visits!Touch
  BY <1>1, <1>2, HistTypes DEF Visits!Touch
<1>5. touch' \in [Actors -> Visits!Touch] /\ \A g \in Actors : touch'[g] = IF g = h THEN t ELSE touch[g]
  BY <1>1, <1>2, <1>4, HistTypes
<1>6. Visits!TypeOK'
  BY <1>1, <1>5, HistTypes DEF Visits!TypeOK
<1>7. KeysOnce' /\ TimesOnce'
  <2>1. KeysOnce /\ TimesOnce
    BY DEF HistInv
  <2>2. \A e \in entries : e.key \in Nat /\ e.at \in Nat
    BY HistTypes
  <2>3. \A s \in Visits!Shelf : shelf[s] \in Nat
    BY HistTypes
  <2> QED
    BY <1>1, <2>1, <2>2, <2>3, HistTypes DEF KeysOnce, TimesOnce
<1>8. ASSUME NEW g \in Actors PROVE TouchFits(g)'
  <2>1. TimesOnce /\ \A k \in Actors : TouchFits(k)
    BY DEF HistInv
  <2>2. \A e \in entries : e.at \in Nat /\ e.at <= clock
    BY <2>1, HistTypes DEF TimesOnce
  <2>3. \A s \in Visits!Shelf : shelf[s] \in Nat /\ shelf[s] <= clock
    BY <2>1, HistTypes DEF TimesOnce
  <2>4. \A k \in Actors : touch[k].pc # "idle" => touch[k].now \in 1 .. clock
    BY <2>1 DEF TouchFits
  <2>5. CASE g = h
    BY <1>1, <1>3, <1>5, <2>2, <2>3, <2>4, <2>5, HistTypes DEF TouchFits
  <2>6. CASE g # h
    BY <1>1, <1>3, <1>5, <2>1, <2>4, <2>6, HistTypes DEF TouchFits
  <2> QED
    BY <2>5, <2>6
<1>9. ASSUME NEW g \in Actors PROVE TouchHolds(g)'
  <2>1. TouchHolds(g)
    BY DEF HistInv
  <2> QED
    BY <1>1, <1>3, <1>5, <2>1 DEF TouchHolds
<1> QED
  BY <1>1, <1>6, <1>7, <1>8, <1>9, RowsStay DEF HistInv

LEMMA VisitLocks == ASSUME HistBounds, HistInv, NEW h \in Actors, Visits!Lock(h) PROVE HistInv'
<1>1. /\ touch[h].pc = "lock" /\ advisory[touch[h].item] = Visits!NoOne
      /\ advisory' = [advisory EXCEPT ![touch[h].item] = h] /\ touch' = [touch EXCEPT ![h].pc = "read"]
      /\ UNCHANGED <<entries, shelf, clock, touched>>
  BY DEF Visits!Lock, Visits!Free, Visits!At
<1>2. PICK i \in Items : i = touch[h].item
  BY <1>1 DEF HistInv, TouchFits
<1>3. PICK t : t = [touch[h] EXCEPT !.pc = "read"]
  OBVIOUS
<1>4. t \in Visits!Touch /\ t.pc = "read" /\ t.item = i /\ t.now = touch[h].now
  BY <1>2, <1>3, HistTypes DEF Visits!Touch
<1>5. touch' \in [Actors -> Visits!Touch] /\ \A g \in Actors : touch'[g] = IF g = h THEN t ELSE touch[g]
  BY <1>1, <1>3, <1>4, HistTypes
<1>6. /\ advisory' \in [Items -> Actors \cup {Visits!NoOne}]
      /\ \A j \in Items : advisory'[j] = IF j = i THEN h ELSE advisory[j]
  BY <1>1, <1>2, HistTypes
<1>7. Visits!TypeOK'
  BY <1>1, <1>5, <1>6 DEF HistInv, Visits!TypeOK
<1>8. KeysOnce' /\ TimesOnce'
  BY <1>1 DEF HistInv, KeysOnce, TimesOnce
<1>9. ASSUME NEW g \in Actors PROVE TouchFits(g)'
  BY <1>1, <1>2, <1>4, <1>5 DEF HistInv, TouchFits
<1>10. ASSUME NEW g \in Actors PROVE TouchHolds(g)'
  <2>1. CASE g = h
    BY <1>2, <1>4, <1>5, <1>6, <2>1 DEF TouchHolds
  <2>2. CASE g # h
    <3>1. TouchHolds(g) /\ TouchFits(g)
      BY DEF HistInv
    <3>2. touch[g].pc \in {"read", "create", "collapse"} => touch[g].item \in Items /\ advisory[touch[g].item] = g
      BY <3>1 DEF TouchHolds, TouchFits
    <3>3. touch[g].pc \in {"read", "create", "collapse"} => touch[g].item # i
      BY <1>1, <1>2, <3>2, HistTypes
    <3> QED
      BY <1>1, <1>5, <1>6, <2>2, <3>1, <3>2, <3>3 DEF TouchHolds
  <2> QED
    BY <2>1, <2>2
<1> QED
  BY <1>1, <1>7, <1>8, <1>9, <1>10, RowsStay DEF HistInv

\* The rows of an item have a latest one.
LEMMA LatestIs ==
    ASSUME HistBounds, HistInv, NEW i, Visits!Rows(i) # {}
    PROVE  Visits!Latest(i) \in Visits!Rows(i)
<1>1. PICK R : R = Visits!Rows(i)
  OBVIOUS
<1>2. R \in SUBSET entries
  BY <1>1 DEF Visits!Rows
<1>3. IsFiniteSet(R) /\ \A e \in R : e.at \in Nat /\ e.key \in Nat
  BY <1>2, HistTypes, FS_Subset
<1>4. \A e, f \in R : e.at = f.at => e = f
  BY <1>2 DEF HistInv, TimesOnce
<1>5. Timed(R)
  BY <1>3, <1>4 DEF Timed
<1>6. PICK n \in Nat : n = 0 /\ n < Cardinality(R)
  BY <1>1, <1>3, FS_CardinalityType, FS_EmptySet
<1>7. PICK e \in R : Rank(R, e) = n
  BY <1>5, <1>6, RankOnto
<1>8. ASSUME NEW f \in R PROVE ~(f.at > e.at)
  <2>1. f.at > e.at => Rank(R, f) < Rank(R, e)
    BY <1>5, RankGrows
  <2>2. Rank(R, f) \in Nat
    BY <1>5, RankBelow
  <2> QED
    BY <1>6, <1>7, <2>1, <2>2
<1>9. \A f \in R : f.at < e.at \/ (f.at = e.at /\ f.key <= e.key)
  BY <1>3, <1>4, <1>8
<1>10. Visits!Latest(i) = CHOOSE a \in R : \A f \in R : f.at < a.at \/ (f.at = a.at /\ f.key <= a.key)
  BY <1>1 DEF Visits!Latest
<1>11. Visits!Latest(i) \in R
  BY <1>9, <1>10, Zenon
<1> QED
  BY <1>1, <1>11

LEMMA VisitReads == ASSUME HistBounds, HistInv, NEW h \in Actors, Visits!Read(h) PROVE HistInv'
<1>1. touch[h].pc = "read" /\ UNCHANGED <<entries, shelf, clock, advisory, touched>>
  BY DEF Visits!Read, Visits!At
<1>2. PICK i \in Items : i = touch[h].item /\ advisory[i] = h
  BY <1>1 DEF HistInv, TouchFits, TouchHolds
<1>0. PICK R : R = Visits!Rows(i)
  OBVIOUS
<1>3. R = Visits!Rows(i) /\ \A e : e \in R <=> e \in entries /\ e.item = i
  BY <1>0 DEF Visits!Rows
<1>4. PICK c : c = IF R = {} THEN 0 ELSE Visits!Latest(i).key
  OBVIOUS
<1>5. PICK pc : pc = IF R = {} THEN "create" ELSE "collapse"
  OBVIOUS
<1>6. c \in 0 .. MaxClock /\ (R # {} => \E e \in R : e.key = c)
  <2>1. CASE R = {}
    BY <1>4, <2>1, HistTypes
  <2>2. CASE R # {}
    <3>1. Visits!Latest(i) \in R /\ c = Visits!Latest(i).key
      BY <1>3, <1>4, <2>2, LatestIs
    <3>2. PICK e \in R : e = Visits!Latest(i) /\ e \in entries
      BY <1>3, <3>1
    <3>3. e.key \in 1 .. MaxClock
      BY <3>2, HistTypes
    <3> QED
      BY <2>2, <3>1, <3>2, <3>3, HistTypes
  <2> QED
    BY <2>1, <2>2
<1>7. PICK t : t = [touch[h] EXCEPT !.pc = pc, !.current = c]
  OBVIOUS
<1>8. t \in Visits!Touch /\ t.pc = pc /\ t.item = i /\ t.now = touch[h].now /\ t.current = c
  <2>1. touch[h] \in Visits!Touch
    BY HistTypes
  <2> QED
    BY <1>2, <1>5, <1>6, <1>7, <2>1 DEF Visits!Touch
<1>9. touch' = [touch EXCEPT ![h] = t]
  BY <1>2, <1>3, <1>4, <1>5, <1>7, HistTypes DEF Visits!Read
<1>10. touch' \in [Actors -> Visits!Touch] /\ \A g \in Actors : touch'[g] = IF g = h THEN t ELSE touch[g]
  BY <1>8, <1>9, HistTypes
<1>11. Visits!TypeOK'
  BY <1>1, <1>10 DEF HistInv, Visits!TypeOK
<1>12. KeysOnce' /\ TimesOnce'
  BY <1>1 DEF HistInv, KeysOnce, TimesOnce
<1>13. ASSUME NEW g \in Actors PROVE TouchFits(g)'
  BY <1>1, <1>2, <1>5, <1>8, <1>10 DEF HistInv, TouchFits
<1>14. ASSUME NEW g \in Actors PROVE TouchHolds(g)'
  <2>1. CASE g = h
    BY <1>1, <1>2, <1>3, <1>5, <1>6, <1>8, <1>10, <2>1 DEF TouchHolds
  <2>2. CASE g # h
    BY <1>1, <1>10, <2>2 DEF HistInv, TouchHolds
  <2> QED
    BY <2>1, <2>2
<1> QED
  BY <1>1, <1>11, <1>12, <1>13, <1>14, RowsStay DEF HistInv

\* A touch that ends gives its lock back; those of other items go on.
LEMMA CommitIs ==
    ASSUME HistBounds, HistInv, NEW h \in Actors, touch[h].pc \in {"create", "collapse"}, Visits!Commit(h)
    PROVE  /\ touch[h].item \in Items /\ advisory' \in [Items -> Actors \cup {Visits!NoOne}]
           /\ touch' \in [Actors -> Visits!Touch]
           /\ \A g \in Actors : touch'[g] = IF g = h THEN Visits!Resting ELSE touch[g]
           /\ touched' = touched \cup {touch[h].item} /\ touched' \subseteq Items
           /\ \A g \in Actors : g # h /\ touch[g].pc \in {"read", "create", "collapse"} =>
                  touch[g].item # touch[h].item /\ touch[g].item \in Items /\ advisory'[touch[g].item] = g
<1>1. /\ advisory' = [advisory EXCEPT ![touch[h].item] = Visits!NoOne] /\ touched' = touched \cup {touch[h].item}
      /\ touch' = [touch EXCEPT ![h] = Visits!Resting]
  BY DEF Visits!Commit
<1>2. PICK i \in Items : i = touch[h].item /\ advisory[i] = h
  BY DEF HistInv, TouchFits, TouchHolds
<1>3. Visits!Resting \in Visits!Touch
  BY HistTypes DEF Visits!Resting, Visits!Touch
<1>4. touch' \in [Actors -> Visits!Touch] /\ \A g \in Actors : touch'[g] = IF g = h THEN Visits!Resting ELSE touch[g]
  BY <1>1, <1>3, HistTypes
<1>5. /\ advisory' \in [Items -> Actors \cup {Visits!NoOne}]
      /\ \A j \in Items : advisory'[j] = IF j = i THEN Visits!NoOne ELSE advisory[j]
  BY <1>1, <1>2, HistTypes
<1>6. ASSUME NEW g \in Actors, g # h, touch[g].pc \in {"read", "create", "collapse"}
      PROVE  touch[g].item # i /\ touch[g].item \in Items /\ advisory'[touch[g].item] = g
  <2>1. touch[g].item \in Items /\ advisory[touch[g].item] = g
    BY <1>6 DEF HistInv, TouchFits, TouchHolds
  <2> QED
    BY <1>2, <1>5, <1>6, <2>1
<1>7. touched' \subseteq Items
  BY <1>1, <1>2, HistTypes
<1> QED
  BY <1>1, <1>2, <1>4, <1>5, <1>6, <1>7

\* One row of an item is written in place of all that it had.
LEMMA RowWritten ==
    ASSUME HistBounds, HistInv, NEW h \in Actors, touch[h].pc \in {"create", "collapse"}, Visits!Commit(h), UNCHANGED shelf,
           clock' \in Nat, clock <= clock', clock' <= MaxClock,
           NEW r \in [key : 1 .. MaxClock, item : Items, at : 1 .. MaxClock], r.item = touch[h].item,
           \A e : e \in entries' <=> e = r \/ (e \in entries /\ e.item # touch[h].item),
           r.key <= clock', r.at <= clock',
           \A e \in entries : e.item # touch[h].item => e.key # r.key /\ e.at # r.at,
           \A s \in Visits!Shelf : shelf[s] # r.at,
           \A g \in Actors : g # h /\ touch[g].pc # "idle" => touch[g].now # r.at
    PROVE  HistInv'
<1>1. PICK i \in Items : i = touch[h].item
  BY CommitIs
<1>2. /\ advisory' \in [Items -> Actors \cup {Visits!NoOne}] /\ touch' \in [Actors -> Visits!Touch]
      /\ \A g \in Actors : touch'[g] = IF g = h THEN Visits!Resting ELSE touch[g]
      /\ touched' = touched \cup {i} /\ touched' \subseteq Items
      /\ \A g \in Actors : g # h /\ touch[g].pc \in {"read", "create", "collapse"} =>
             touch[g].item # i /\ touch[g].item \in Items /\ advisory'[touch[g].item] = g
  BY <1>1, CommitIs
<1>3. \A e : e \in entries' <=> e = r \/ (e \in entries /\ e.item # i)
  BY <1>1
<1>4. IsFiniteSet(entries')
  <2>1. IsFiniteSet(entries \cup {r})
    BY HistTypes, FS_Singleton, FS_Union
  <2>2. entries' \in SUBSET (entries \cup {r})
    BY <1>3
  <2> QED
    BY <2>1, <2>2, FS_Subset
<1>5. Visits!TypeOK'
  <2>1. entries' \subseteq [key : 1 .. MaxClock, item : Items, at : 1 .. MaxClock]
    BY <1>3, HistTypes
  <2>2. shelf' \in [Visits!Shelf -> 0 .. MaxClock] /\ clock' \in 2 .. MaxClock
    BY HistTypes
  <2> QED
    BY <1>2, <2>1, <2>2 DEF Visits!TypeOK
<1>6. KeysOnce /\ TimesOnce
  BY DEF HistInv
<1>7. KeysOnce'
  BY <1>1, <1>3, <1>6 DEF KeysOnce
<1>8. TimesOnce'
  <2>1. \A e, f \in entries' : e.at = f.at => e = f
    BY <1>1, <1>3, <1>6 DEF TimesOnce
  <2>2. \A e \in entries : e.key \in Nat /\ e.at \in Nat /\ e.key <= clock /\ e.at <= clock
    BY <1>6, HistTypes DEF TimesOnce
  <2>3. \A e \in entries' : e.key <= clock' /\ e.at <= clock'
    BY <1>3, <2>2, HistTypes
  <2>4. \A s \in Visits!Shelf : shelf[s] \in Nat /\ shelf[s] <= clock
    BY <1>6, HistTypes DEF TimesOnce
  <2>5. \A s \in Visits!Shelf : shelf'[s] <= clock'
    BY <2>4, HistTypes
  <2>6. \A s, t \in Visits!Shelf : shelf'[s] = shelf'[t] /\ shelf'[s] # 0 => s = t
    BY <1>6 DEF TimesOnce
  <2>7. \A e \in entries', s \in Visits!Shelf : e.at # shelf'[s]
    BY <1>3, <1>6 DEF TimesOnce
  <2> QED
    BY <2>1, <2>3, <2>5, <2>6, <2>7 DEF TimesOnce
<1>9. ASSUME NEW g \in Actors PROVE TouchFits(g)'
  <2>1. CASE g = h
    BY <1>2, <2>1 DEF TouchFits, Visits!Resting
  <2>2. CASE g # h
    <3>1. TouchFits(g)
      BY DEF HistInv
    <3>2. SUFFICES ASSUME touch[g].pc # "idle"
          PROVE  /\ touch[g].item \in Items /\ touch[g].now \in 1 .. clock'
                 /\ \A e \in entries' : e.at # touch[g].now
                 /\ \A s \in Visits!Shelf : shelf'[s] # touch[g].now
                 /\ \A k \in Actors : touch'[k].pc # "idle" /\ touch'[k].now = touch[g].now => k = g
      BY <1>2, <2>2 DEF TouchFits
    <3>3. touch[g].now \in 1 .. clock'
      BY <3>1, <3>2, HistTypes DEF TouchFits
    <3>4. \A e \in entries' : e.at # touch[g].now
      BY <1>3, <2>2, <3>1, <3>2 DEF TouchFits
    <3>5. \A k \in Actors : touch'[k].pc # "idle" /\ touch'[k].now = touch[g].now => k = g
      BY <1>2, <3>1, <3>2 DEF TouchFits, Visits!Resting
    <3> QED
      BY <3>1, <3>2, <3>3, <3>4, <3>5 DEF TouchFits
  <2> QED
    BY <2>1, <2>2
<1>10. ASSUME NEW g \in Actors PROVE TouchHolds(g)'
  <2>1. CASE g = h
    BY <1>2, <2>1 DEF TouchHolds, Visits!Resting
  <2>2. CASE g # h
    <3>1. TouchHolds(g)
      BY DEF HistInv
    <3>2. touch'[g] = touch[g]
      BY <1>2, <2>2
    <3>3. touch[g].pc = "create" => \A e \in entries' : e.item # touch[g].item
      BY <1>1, <1>2, <1>3, <2>2, <3>1 DEF TouchHolds
    <3>4. touch[g].pc = "collapse" => \E e \in entries' : e.item = touch[g].item /\ e.key = touch[g].current
      BY <1>1, <1>2, <1>3, <2>2, <3>1 DEF TouchHolds
    <3> QED
      BY <1>2, <2>2, <3>2, <3>3, <3>4 DEF TouchHolds
  <2> QED
    BY <2>1, <2>2
<1>11. ASSUME NEW j \in touched' PROVE Visits!Cardinality(Visits!Rows(j)') = 1
  <2>1. CASE j = i
    <3>1. Visits!Rows(j)' = {r}
      BY <1>1, <1>3, <2>1 DEF Visits!Rows
    <3>2. Cardinality({r}) = 1
      BY FS_Singleton
    <3> QED
      BY <3>1, <3>2, VisitsCount
  <2>2. CASE j # i
    <3>1. Visits!Rows(j)' = Visits!Rows(j)
      BY <1>1, <1>3, <2>2 DEF Visits!Rows
    <3>2. j \in touched
      BY <1>2, <2>2
    <3> QED
      BY <3>1, <3>2 DEF HistInv, Visits!OneEntry
  <2> QED
    BY <2>1, <2>2
<1>12. Visits!OneEntry'
  BY <1>11 DEF Visits!OneEntry
<1> QED
  BY <1>4, <1>5, <1>7, <1>8, <1>9, <1>10, <1>12 DEF HistInv

LEMMA VisitCreates == ASSUME HistBounds, HistInv, NEW h \in Actors, Visits!Create(h) PROVE HistInv'
<1>1. /\ touch[h].pc = "create" /\ clock < MaxClock /\ clock' = clock + 1 /\ Visits!Commit(h) /\ UNCHANGED shelf
      /\ entries' = entries \cup {[key |-> Visits!NewKey, item |-> touch[h].item, at |-> clock + 1]}
  BY DEF Visits!Create, Visits!At, Visits!Tick
<1>2. touch[h].item \in Items /\ \A e \in entries : e.item # touch[h].item
  BY <1>1 DEF HistInv, TouchFits, TouchHolds
<1>3. clock' \in 1 .. MaxClock /\ clock' \in Nat /\ clock <= clock' /\ clock' <= MaxClock
  BY <1>1, HistTypes
<1>4. PICK r : r = [key |-> clock', item |-> touch[h].item, at |-> clock']
  OBVIOUS
<1>5. r \in [key : 1 .. MaxClock, item : Items, at : 1 .. MaxClock] /\ r.item = touch[h].item /\ r.key = clock' /\ r.at = clock'
  BY <1>2, <1>3, <1>4
<1>6. \A e : e \in entries' <=> e = r \/ (e \in entries /\ e.item # touch[h].item)
  BY <1>1, <1>2, <1>4 DEF Visits!NewKey
<1>7. TimesOnce /\ \A g \in Actors : TouchFits(g)
  BY DEF HistInv
<1>8. \A e \in entries : e.key # r.key /\ e.at # r.at
  <2>1. \A e \in entries : e.key \in Nat /\ e.at \in Nat /\ e.key <= clock /\ e.at <= clock
    BY <1>7, HistTypes DEF TimesOnce
  <2> QED
    BY <1>1, <1>5, <2>1, HistTypes
<1>9. \A s \in Visits!Shelf : shelf[s] # r.at
  <2>1. \A s \in Visits!Shelf : shelf[s] \in Nat /\ shelf[s] <= clock
    BY <1>7, HistTypes DEF TimesOnce
  <2> QED
    BY <1>1, <1>5, <2>1, HistTypes
<1>10. \A g \in Actors : g # h /\ touch[g].pc # "idle" => touch[g].now # r.at
  <2>1. \A g \in Actors : touch[g].pc # "idle" => touch[g].now \in 1 .. clock
    BY <1>7 DEF TouchFits
  <2> QED
    BY <1>1, <1>5, <2>1, HistTypes
<1>11. r.key <= clock' /\ r.at <= clock'
  BY <1>3, <1>5
<1> QED
  BY <1>1, <1>3, <1>5, <1>6, <1>8, <1>9, <1>10, <1>11, RowWritten

LEMMA VisitCollapses == ASSUME HistBounds, HistInv, NEW h \in Actors, Visits!Collapse(h) PROVE HistInv'
<1>1. /\ touch[h].pc = "collapse" /\ Visits!Commit(h) /\ UNCHANGED <<shelf, clock>>
      /\ entries' = {IF e.key = touch[h].current THEN [e EXCEPT !.at = touch[h].now] ELSE e : e \in entries \ Visits!Others(h)}
  BY DEF Visits!Collapse, Visits!At
<1>2. PICK c \in entries : c.item = touch[h].item /\ c.key = touch[h].current
  BY <1>1 DEF HistInv, TouchHolds
<1>3. /\ TouchFits(h) /\ TimesOnce /\ KeysOnce
  BY DEF HistInv
<1>4. /\ touch[h].item \in Items /\ touch[h].now \in 1 .. clock
      /\ \A e \in entries : e.at # touch[h].now
      /\ \A s \in Visits!Shelf : shelf[s] # touch[h].now
      /\ \A g \in Actors : touch[g].pc # "idle" /\ touch[g].now = touch[h].now => g = h
  BY <1>1, <1>3 DEF TouchFits
<1>5. PICK r : r = [c EXCEPT !.at = touch[h].now]
  OBVIOUS
<1>6. touch[h].now \in 1 .. MaxClock
  BY <1>4, HistTypes
<1>7. c \in [key : 1 .. MaxClock, item : Items, at : 1 .. MaxClock]
  BY HistTypes
<1>8. r \in [key : 1 .. MaxClock, item : Items, at : 1 .. MaxClock] /\ r.item = touch[h].item /\ r.key = c.key /\ r.at = touch[h].now
  BY <1>2, <1>5, <1>6, <1>7
<1>9. PICK E : E = entries \ Visits!Others(h)
  OBVIOUS
<1>10. \A e : e \in E <=> e \in entries /\ (e.item # touch[h].item \/ e.key = touch[h].current)
  BY <1>9 DEF Visits!Others, Visits!Rows
<1>11. \A e \in entries : e.key = touch[h].current => e = c
  BY <1>2, <1>3 DEF KeysOnce
<1>12. ASSUME NEW e PROVE e \in entries' <=> e = r \/ (e \in entries /\ e.item # touch[h].item)
  <2>1. e \in entries' <=> \E f \in E : e = IF f.key = touch[h].current THEN [f EXCEPT !.at = touch[h].now] ELSE f
    BY <1>1, <1>9
  <2>2. ASSUME e \in entries' PROVE e = r \/ (e \in entries /\ e.item # touch[h].item)
    <3>1. PICK f \in E : e = IF f.key = touch[h].current THEN [f EXCEPT !.at = touch[h].now] ELSE f
      BY <2>1, <2>2
    <3>2. CASE f.key = touch[h].current
      BY <1>5, <1>10, <1>11, <3>1, <3>2
    <3>3. CASE f.key # touch[h].current
      BY <1>10, <3>1, <3>3
    <3> QED
      BY <3>2, <3>3
  <2>3. ASSUME e = r PROVE e \in entries'
    <3>1. c \in E
      BY <1>2, <1>10
    <3> QED
      BY <1>2, <1>5, <2>1, <2>3, <3>1
  <2>4. ASSUME e \in entries, e.item # touch[h].item PROVE e \in entries'
    <3>1. e \in E /\ e.key # touch[h].current
      BY <1>2, <1>10, <1>11, <2>4
    <3> QED
      BY <2>1, <3>1
  <2> QED
    BY <2>2, <2>3, <2>4
<1>13. clock' \in Nat /\ clock <= clock' /\ clock' <= MaxClock
  BY <1>1, HistTypes
<1>14. r.key <= clock' /\ r.at <= clock'
  BY <1>1, <1>2, <1>3, <1>4, <1>8, HistTypes DEF TimesOnce
<1>15. \A e \in entries : e.item # touch[h].item => e.key # r.key /\ e.at # r.at
  BY <1>2, <1>4, <1>8, <1>11
<1>16. (\A s \in Visits!Shelf : shelf[s] # r.at) /\ \A g \in Actors : g # h /\ touch[g].pc # "idle" => touch[g].now # r.at
  BY <1>4, <1>8
<1> QED
  BY <1>1, <1>8, <1>12, <1>13, <1>14, <1>15, <1>16, RowWritten

LEMMA VisitDeleted == ASSUME HistBounds, HistInv, NEW d, Visits!DeleteEntry(d) PROVE HistInv'
<1>1. /\ d \in entries /\ entries' = entries \ {d} /\ touched' = touched \ {d.item}
      /\ \A h \in Actors : ~(touch[h].pc = "collapse" /\ touch[h].current = d.key)
      /\ UNCHANGED <<shelf, clock, advisory, touch>>
  BY DEF Visits!DeleteEntry, Visits!At
<1>2. IsFiniteSet(entries')
  BY <1>1, HistTypes, FS_Subset
<1>3. Visits!TypeOK'
  BY <1>1 DEF HistInv, Visits!TypeOK
<1>4. KeysOnce' /\ TimesOnce'
  BY <1>1 DEF HistInv, KeysOnce, TimesOnce
<1>5. ASSUME NEW g \in Actors PROVE TouchFits(g)'
  BY <1>1 DEF HistInv, TouchFits
<1>6. ASSUME NEW g \in Actors PROVE TouchHolds(g)'
  BY <1>1 DEF HistInv, TouchHolds
<1>7. ASSUME NEW j \in touched' PROVE Visits!Cardinality(Visits!Rows(j)') = 1
  <2>1. Visits!Rows(j)' = Visits!Rows(j)
    BY <1>1 DEF Visits!Rows
  <2> QED
    BY <1>1, <2>1 DEF HistInv, Visits!OneEntry
<1>8. Visits!OneEntry'
  BY <1>7 DEF Visits!OneEntry
<1> QED
  BY <1>2, <1>3, <1>4, <1>5, <1>6, <1>8 DEF HistInv

\* The shelf gets a time of its own, or loses one.
LEMMA ShelfMoves ==
    ASSUME HistBounds, HistInv, NEW s \in Visits!Shelf, Visits!Place(s) \/ Visits!Withdraw(s) PROVE HistInv'
<1>1. UNCHANGED <<entries, advisory, touch, touched>>
  BY DEF Visits!Place, Visits!Withdraw
<1>2. PICK n : /\ shelf' = [shelf EXCEPT ![s] = n]
               /\ (n = 0 /\ clock' = clock) \/ (n = clock + 1 /\ clock' = clock + 1 /\ clock < MaxClock)
  BY DEF Visits!Place, Visits!Withdraw, Visits!Tick
<1>3. n \in 0 .. MaxClock /\ n \in Nat /\ n <= clock' /\ clock' \in 2 .. MaxClock /\ clock <= clock' /\ clock' \in Nat
  BY <1>2, HistTypes
<1>4. shelf' \in [Visits!Shelf -> 0 .. MaxClock] /\ \A t \in Visits!Shelf : shelf'[t] = IF t = s THEN n ELSE shelf[t]
  BY <1>2, <1>3, HistTypes
<1>5. Visits!TypeOK'
  BY <1>1, <1>3, <1>4 DEF HistInv, Visits!TypeOK
<1>6. KeysOnce /\ TimesOnce
  BY DEF HistInv
<1>7. \A e \in entries : e.key \in Nat /\ e.at \in Nat /\ e.at # 0 /\ e.key <= clock /\ e.at <= clock
  BY <1>6, HistTypes DEF TimesOnce
<1>8. \A t \in Visits!Shelf : shelf[t] \in Nat /\ shelf[t] <= clock
  BY <1>6, HistTypes DEF TimesOnce
<1>9. KeysOnce'
  BY <1>1, <1>6 DEF KeysOnce
<1>10. TimesOnce'
  <2>1. \A e \in entries' : e.key <= clock' /\ e.at <= clock'
    BY <1>1, <1>3, <1>7, HistTypes
  <2>2. \A t \in Visits!Shelf : shelf'[t] <= clock'
    BY <1>3, <1>4, <1>8, HistTypes
  <2>3. \A t, u \in Visits!Shelf : shelf'[t] = shelf'[u] /\ shelf'[t] # 0 => t = u
    BY <1>2, <1>4, <1>6, <1>8, HistTypes DEF TimesOnce
  <2>4. \A e \in entries', t \in Visits!Shelf : e.at # shelf'[t]
    BY <1>1, <1>2, <1>4, <1>6, <1>7, HistTypes DEF TimesOnce
  <2>5. \A e, f \in entries' : e.at = f.at => e = f
    BY <1>1, <1>6 DEF TimesOnce
  <2> QED
    BY <2>1, <2>2, <2>3, <2>4, <2>5 DEF TimesOnce
<1>11. ASSUME NEW g \in Actors PROVE TouchFits(g)'
  <2>1. TouchFits(g)
    BY DEF HistInv
  <2>2. touch[g].pc # "idle" => touch[g].now \in 1 .. clock'
    BY <1>3, <2>1, HistTypes DEF TouchFits
  <2>3. touch[g].pc # "idle" => touch[g].now # n
    BY <1>2, <2>1, HistTypes DEF TouchFits
  <2> QED
    BY <1>1, <1>4, <2>1, <2>2, <2>3 DEF TouchFits
<1>12. ASSUME NEW g \in Actors PROVE TouchHolds(g)'
  BY <1>1 DEF HistInv, TouchHolds
<1> QED
  BY <1>1, <1>5, <1>9, <1>10, <1>11, <1>12, RowsStay DEF HistInv

LEMMA VisitsRested == ASSUME HistInv, UNCHANGED Visits!vars PROVE HistInv'
<1>1. UNCHANGED <<entries, shelf, clock, advisory, touch, touched>>
  BY DEF Visits!vars
<1>2. Visits!TypeOK' /\ KeysOnce' /\ TimesOnce'
  BY <1>1 DEF HistInv, Visits!TypeOK, KeysOnce, TimesOnce
<1>3. \A g \in Actors : TouchFits(g)' /\ TouchHolds(g)'
  BY <1>1 DEF HistInv, TouchFits, TouchHolds
<1> QED
  BY <1>1, <1>2, <1>3, RowsStay DEF HistInv

LEMMA VisitsStep == ASSUME HistBounds, HistInv, Visits!Next \/ UNCHANGED Visits!vars PROVE HistInv'
<1>1. CASE UNCHANGED Visits!vars
  BY <1>1, VisitsRested
<1>2. ASSUME NEW h \in Actors, NEW i \in Items, Visits!Begin(h, i) PROVE HistInv'
  BY <1>2, VisitBegins
<1>3. ASSUME NEW h \in Actors, Visits!Lock(h) \/ Visits!Read(h) \/ Visits!Create(h) \/ Visits!Collapse(h) PROVE HistInv'
  BY <1>3, VisitLocks, VisitReads, VisitCreates, VisitCollapses
<1>4. ASSUME NEW e \in entries, Visits!DeleteEntry(e) PROVE HistInv'
  BY <1>4, VisitDeleted
<1>5. ASSUME NEW s \in Visits!Shelf, Visits!Place(s) \/ Visits!Withdraw(s) PROVE HistInv'
  BY <1>5, ShelfMoves
<1> QED
  BY <1>1, <1>2, <1>3, <1>4, <1>5 DEF Visits!Next

-----------------------------------------------------------------------------
(* The parts side by side: a behaviour is one of its part, the others rest.    *)

LEMMA TapsKeptStart == ASSUME Init PROVE TapsKept
<1> SUFFICES ASSUME part = "toggles" PROVE TapsInv
  BY DEF TapsKept
<1>1. Toggling!Init
  BY DEF Init
<1> QED
  BY <1>1, TapsStart

LEMMA TapsKeptStep == ASSUME Next \/ UNCHANGED vars, TapsKept PROVE TapsKept'
<1> SUFFICES ASSUME part' = "toggles" PROVE TapsInv'
  BY DEF TapsKept
<1>1. part' = part /\ (part = "toggles" => Toggling!Next \/ UNCHANGED Toggling!vars)
  BY DEF Next, vars, ToggleVars, Toggling!vars
<1> QED
  BY <1>1, TapsStep DEF TapsKept

(* Taps that name one state reach it whatever their order, and one alone has   *)
(* its effect and does not fail, whatever is tapped and by however many        *)
(* requests (serializers.py:792, views.py:3338).                              *)
THEOREM TapsMeet == Spec => []TapsAgree
<1>1. Init => TapsKept
  BY TapsKeptStart
<1>2. TapsKept /\ [Next]_vars => TapsKept'
  BY TapsKeptStep
<1>3. TapsKept => TapsAgree
  BY TapsInvAgree DEF TapsKept, TapsAgree
<1> QED
  BY <1>1, <1>2, <1>3, PTL DEF Spec

LEMMA NoticesKeptStart == ASSUME NoticeBounds, Init PROVE NoticesKept
<1> SUFFICES ASSUME part = "notices" PROVE NoticesInv
  BY DEF NoticesKept
<1>1. Notices!Init
  BY DEF Init
<1> QED
  BY <1>1, NoticesStart

LEMMA NoticesKeptStep == ASSUME NoticeBounds, Next \/ UNCHANGED vars, NoticesKept PROVE NoticesKept'
<1> SUFFICES ASSUME part' = "notices" PROVE NoticesInv'
  BY DEF NoticesKept
<1>1. part' = part /\ (part = "notices" => Notices!Next \/ UNCHANGED Notices!vars)
  BY DEF Next, vars, NoticeVars, Notices!vars
<1> QED
  BY <1>1, NoticesStep DEF NoticesKept

(* However many callbacks overlap, one recent row of a text is left, an unread *)
(* row is pushed or its event lost, an open socket knows every unread row, and *)
(* the present status is announced or will be (notification_service.py:73,    *)
(* consumers.py:92, signals.py:569).                                          *)
THEOREM NoticesArrive == ASSUME NoticeBounds PROVE Spec => []NoticesReach
<1>1. Init => NoticesKept
  BY NoticesKeptStart
<1>2. NoticesKept /\ [Next]_vars => NoticesKept'
  BY NoticesKeptStep
<1>3. NoticesKept => NoticesReach
  BY NoticesInvReach DEF NoticesKept, NoticesReach
<1> QED
  BY <1>1, <1>2, <1>3, PTL DEF Spec

LEMMA PassesKeptStart == ASSUME MixBounds, Init PROVE PassesKept
<1> SUFFICES ASSUME part = "mixes" PROVE MixInv
  BY DEF PassesKept
<1>1. Mixing!Init
  BY DEF Init
<1> QED
  BY <1>1, MixesStart

LEMMA PassesKeptStep == ASSUME MixBounds, Next \/ UNCHANGED vars, PassesKept PROVE PassesKept'
<1> SUFFICES ASSUME part' = "mixes" PROVE MixInv'
  BY DEF PassesKept
<1>1. part' = part /\ (part = "mixes" => Mixing!Next \/ UNCHANGED Mixing!vars)
  BY DEF Next, vars, MixVars, Mixing!vars
<1> QED
  BY <1>1, MixesStep DEF PassesKept

(* However many passes of the clean-up overlap, with their locks expired and    *)
(* their stamps taken away, none deletes a row it had seen stamped or one that *)
(* was opened or kept before its last look (recommendation_runtime.py:369).   *)
THEOREM MixesStay == ASSUME MixBounds PROVE Spec => []MixesKept
<1>1. Init => PassesKept
  BY PassesKeptStart
<1>2. PassesKept /\ [Next]_vars => PassesKept'
  BY PassesKeptStep
<1>3. PassesKept => MixesKept
  BY MixInvKept DEF PassesKept, MixesKept
<1> QED
  BY <1>1, <1>2, <1>3, PTL DEF Spec

LEMMA CataloguesKeptStart == ASSUME RankBounds, Init PROVE CataloguesKept
<1> SUFFICES ASSUME part = "rankings" PROVE RankInv
  BY DEF CataloguesKept
<1>1. Rankings!Init
  BY DEF Init
<1> QED
  BY <1>1, RankingsStart

LEMMA CataloguesKeptStep == ASSUME RankBounds, Next \/ UNCHANGED vars, CataloguesKept PROVE CataloguesKept'
<1> SUFFICES ASSUME part' = "rankings" PROVE RankInv'
  BY DEF CataloguesKept
<1>1. part' = part /\ (part = "rankings" => Rankings!Next \/ UNCHANGED Rankings!vars)
  BY DEF Next, vars, RankingVars, Rankings!vars
<1> QED
  BY <1>1, RankingsStep DEF CataloguesKept

(* However many requests, refreshes and changes overlap, and whatever expires, *)
(* an answer shows a song as the catalogue has it if its last change was       *)
(* announced, and one request at a time builds an entry (signals.py:853,       *)
(* views.py:5796).                                                            *)
THEOREM CatalogueShown == ASSUME RankBounds PROVE Spec => []ListsCurrent
<1>1. Init => CataloguesKept
  BY CataloguesKeptStart
<1>2. CataloguesKept /\ [Next]_vars => CataloguesKept'
  BY CataloguesKeptStep
<1>3. CataloguesKept => ListsCurrent
  BY RankInvCurrent DEF CataloguesKept, ListsCurrent
<1> QED
  BY <1>1, <1>2, <1>3, PTL DEF Spec

LEMMA BannersSteadyStart == ASSUME BannerBounds, Init PROVE BannersSteady
<1> SUFFICES ASSUME part = "banners" PROVE BannerInv
  BY DEF BannersSteady
<1>1. Banner!Init
  BY DEF Init
<1> QED
  BY <1>1, BannersStart

LEMMA BannersSteadyStep == ASSUME BannerBounds, Next \/ UNCHANGED vars, BannersSteady PROVE BannersSteady'
<1> SUFFICES ASSUME part' = "banners" PROVE BannerInv'
  BY DEF BannersSteady
<1>1. part' = part /\ (part = "banners" => Banner!Next \/ UNCHANGED Banner!vars)
  BY DEF Next, vars, BannerVars, Banner!vars
<1>2. BannerInv
  BY <1>1 DEF BannersSteady
<1>3. CASE UNCHANGED Banner!vars
  BY <1>2, <1>3, BannersRested
<1> QED
  BY <1>1, <1>2, <1>3, BannersStep

(* However many requests and administrators overlap, and whatever fails, the   *)
(* total agrees with the views counted but for requests that died; no banner   *)
(* that is switched off is served, and none is refused while one is active,    *)
(* but for an old list (views.py:3986, 4007, 4036).                            *)
THEOREM EveryViewCounted == ASSUME BannerBounds PROVE Spec => []BannersCounted
<1>1. Init => BannersSteady
  BY BannersSteadyStart
<1>2. BannersSteady /\ [Next]_vars => BannersSteady'
  BY BannersSteadyStep
<1>3. BannersSteady => BannersCounted
  BY BannersCountedFrom DEF BannersSteady, BannersCounted
<1> QED
  BY <1>1, <1>2, <1>3, PTL DEF Spec

LEMMA PayoutsKeptStart == ASSUME Init PROVE PayoutsKept
<1> SUFFICES ASSUME part = "splits" PROVE SplitInv
  BY DEF PayoutsKept
<1>1. Splits!Init
  BY DEF Init
<1> QED
  BY <1>1, SplitsStart

LEMMA PayoutsKeptStep == ASSUME Next \/ UNCHANGED vars, PayoutsKept PROVE PayoutsKept'
<1> SUFFICES ASSUME part' = "splits" PROVE SplitInv'
  BY DEF PayoutsKept
<1>1. part' = part /\ (part = "splits" => Splits!Next \/ UNCHANGED Splits!vars)
  BY DEF Next, vars, SplitVars, Splits!vars
<1> QED
  BY <1>1, SplitsStep DEF PayoutsKept

(* Whatever the artist earned, lost, requested and was refused, no song is     *)
(* charged with more than it has earned, a new amount is split to the last    *)
(* quantum with no less for the larger balance, and until income is lost or a *)
(* payout put back each payout keeps the split it was requested with          *)
(* (views.py:349, 386, 407).                                                  *)
THEOREM SplitsStay == Spec => []SplitsHold
<1>1. Init => PayoutsKept
  BY PayoutsKeptStart
<1>2. PayoutsKept /\ [Next]_vars => PayoutsKept'
  BY PayoutsKeptStep
<1>3. PayoutsKept => SplitsHold
  BY SplitsFit, SplitsKept DEF PayoutsKept, SplitsHold, SplitInv
<1> QED
  BY <1>1, <1>2, <1>3, PTL DEF Spec

LEMMA PlaylistsHoldStart == ASSUME ListBounds, Init PROVE PlaylistsHold
<1> SUFFICES ASSUME part = "lists" PROVE ListInv
  BY DEF PlaylistsHold
<1>1. Lists!Init
  BY DEF Init
<1> QED
  BY <1>1, ListsStart

LEMMA PlaylistsHoldStep == ASSUME ListBounds, Next \/ UNCHANGED vars, PlaylistsHold PROVE PlaylistsHold'
<1> SUFFICES ASSUME part' = "lists" PROVE ListInv'
  BY DEF PlaylistsHold
<1>1. part' = part /\ (part = "lists" => Lists!Next \/ UNCHANGED Lists!vars)
  BY DEF Next, vars, ListVars, Lists!vars
<1> QED
  BY <1>1, ListsStep DEF PlaylistsHold

(* However many additions, removals, updates and deletions of a playlist       *)
(* overlap, and whatever older clients left in its list, it is shown with each *)
(* linked song once, in its order, and a song that was added stays until a     *)
(* request takes it out (serializers.py:2336, views.py:4352).                  *)
THEOREM PlaylistShown == ASSUME ListBounds PROVE Spec => []PlaylistsWhole
<1>1. Init => PlaylistsHold
  BY PlaylistsHoldStart
<1>2. PlaylistsHold /\ [Next]_vars => PlaylistsHold'
  BY PlaylistsHoldStep
<1>3. PlaylistsHold => PlaylistsWhole
  BY ShownFits DEF PlaylistsHold, PlaylistsWhole
<1> QED
  BY <1>1, <1>2, <1>3, PTL DEF Spec

LEMMA HistoryHoldsStart == ASSUME HistBounds, Init PROVE HistoryHolds
<1> SUFFICES ASSUME part = "visits" PROVE HistInv
  BY DEF HistoryHolds
<1>1. Visits!Init
  BY DEF Init
<1> QED
  BY <1>1, VisitsStart

LEMMA HistoryHoldsStep == ASSUME HistBounds, Next \/ UNCHANGED vars, HistoryHolds PROVE HistoryHolds'
<1> SUFFICES ASSUME part' = "visits" PROVE HistInv'
  BY DEF HistoryHolds
<1>1. part' = part /\ (part = "visits" => Visits!Next \/ UNCHANGED Visits!vars)
  BY DEF Next, vars, VisitVars, Visits!vars
<1> QED
  BY <1>1, VisitsStep DEF HistoryHolds

(* However many touches of items overlap with deletions, likes and withdrawals, *)
(* and though an older version left rows twice, a touched item has one row of  *)
(* the history until that is deleted, and the pages of library, history and    *)
(* liked playlists are slices of the whole of their sources, of any size       *)
(* (views.py:691, 1462, 1533, 1391).                                           *)
THEOREM HistoryStays == ASSUME HistBounds PROVE Spec => []HistoryWhole
<1>1. Init => HistoryHolds
  BY HistoryHoldsStart
<1>2. HistoryHolds /\ [Next]_vars => HistoryHolds'
  BY HistoryHoldsStep
<1>3. HistoryHolds => HistoryWhole
  BY PagesAgree DEF HistInv, HistoryHolds, HistoryWhole
<1> QED
  BY <1>1, <1>2, <1>3, PTL DEF Spec
=============================================================================
