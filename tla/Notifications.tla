---------------------------- MODULE Notifications ----------------------------
(***************************************************************************)
(* Notifications of one account in one app.  A handler commits a change,   *)
(* its commit callback reads the row again and announces it under the      *)
(* account's row lock, within a window refreshing the row of the same text *)
(* instead of adding one; a second callback pushes the unread row to the   *)
(* account's socket group.  The account marks rows as read and opens       *)
(* sockets, which join the group and then count the unread rows.           *)
(* A text is abstracted to the subject and the status it tells of.         *)
(***************************************************************************)
EXTENDS Integers, Sequences, FiniteSets

CONSTANTS
    NoSubject,
    Subjects,     \* rows that are announced: a release, a payment, a like ...
    Handlers,     \* requests, with their callbacks, under way at once
    Sockets,
    MaxRows,      \* notifications (a bound)
    MaxChanges,   \* changes of subjects (a bound)
    MaxFaults     \* events lost by the channel layer (a bound)

VARIABLES
    kind,      \* Subjects -> its entry of Kinds
    status,    \* Subjects -> its status, committed
    row,       \* Subjects -> which row it is: a like given again is a new one
    changes,   \* changes made to subjects
    notes,     \* the notifications, in the order of their identifiers
    task,      \* Handlers -> the handler or callback under way
    socket,    \* Sockets -> Socket
    told,      \* subjects announced in their present status since they got it
    pushed,    \* rows pushed since they were last made unread
    lost,      \* rows whose event the channel layer lost
    faults

vars == <<kind, status, row, changes, notes, task, socket, told, pushed, lost, faults>>
subjects == <<kind, status, row, changes>>
delivery == <<socket, pushed, lost, faults>>

-----------------------------------------------------------------------------
(* What the receivers differ in.  announced: the statuses they announce,    *)
(* "accepted" and "refused" standing for all that are ("accepted" alone: the *)
(* row exists); locked: its old status cannot change before it is saved;    *)
(* fresh: created anew it is another row; asks: the recipient's settings    *)
(* are asked; broadcast: inserted for everyone, without lock or window.     *)
Statuses == {"none", "accepted", "refused"}
Kind == [announced : SUBSET Statuses, locked : BOOLEAN, fresh : BOOLEAN, asks : BOOLEAN, broadcast : BOOLEAN]
StatusKind == [announced |-> {"accepted", "refused"}, locked |-> FALSE, fresh |-> FALSE, asks |-> FALSE, broadcast |-> FALSE]
RowKind == [StatusKind EXCEPT !.announced = {"accepted"}, !.locked = TRUE, !.fresh = TRUE]

FollowCreated == RowKind
UserPlaylistLiked == [RowKind EXCEPT !.fresh = FALSE, !.asks = TRUE]
SongLiked == RowKind
AlbumLiked == RowKind
SongPublished == [StatusKind EXCEPT !.announced = {"accepted"}, !.asks = TRUE]
AlbumCreated == [RowKind EXCEPT !.asks = TRUE]
PlaylistPublic == [StatusKind EXCEPT !.announced = {"accepted"}, !.asks = TRUE]
CatalogPlaylistCreated == [RowKind EXCEPT !.broadcast = TRUE]
ReleaseStatus == [StatusKind EXCEPT !.locked = TRUE]
AuthStatus == StatusKind
ImageStatus == [StatusKind EXCEPT !.asks = TRUE]
PaymentStatus == [StatusKind EXCEPT !.asks = TRUE]
DepositStatus == StatusKind
SongOwnerStatus == StatusKind
Kinds == {FollowCreated, UserPlaylistLiked, SongLiked, AlbumLiked, SongPublished, AlbumCreated,
          PlaylistPublic, CatalogPlaylistCreated, ReleaseStatus, AuthStatus, ImageStatus,
          PaymentStatus, DepositStatus, SongOwnerStatus}

Note == [subject : Subjects, status : Statuses, read : BOOLEAN, recent : BOOLEAN]
Ids == 1..MaxRows
Socket == [pc : {"closed", "joined", "open"}, knows : SUBSET Ids]

\* old: the status before the save; status, row: what is announced, at which row.
Task == [pc : {"idle", "save", "deliver", "send", "read", "push"}, subject : Subjects \cup {NoSubject},
         old : Statuses, status : Statuses, row : 0..MaxChanges, note : 0..MaxRows]
Idle == [pc |-> "idle", subject |-> NoSubject, old |-> "none", status |-> "none", row |-> 0, note |-> 0]

At(h, pc) == task[h].pc = pc
Subject(h) == task[h].subject
Goto(h, pc) == task' = [task EXCEPT ![h].pc = pc]
End(h) == task' = [task EXCEPT ![h] = Idle]
Rows == DOMAIN notes
Unread(n) == ~notes[n].read

-----------------------------------------------------------------------------
(* A handler saves a subject.  The receivers compare the status read before *)
(* the save with the one saved.                                             *)
NextRow(s, st) == IF kind[s].fresh /\ st = "accepted" THEN row[s] + 1 ELSE row[s]
Announces(s, old, new) == old # new /\ new \in kind[s].announced

Change(s, st) ==
    /\ status' = [status EXCEPT ![s] = st]
    /\ row' = [row EXCEPT ![s] = NextRow(s, st)]
    /\ changes' = changes + 1
    /\ told' = IF st = status[s] THEN told ELSE told \ {s}
    /\ UNCHANGED kind

Committed(h, s, old, st) ==
    task' = [task EXCEPT ![h] =
        IF Announces(s, old, st)
        THEN [Idle EXCEPT !.pc = "deliver", !.subject = s, !.status = st, !.row = NextRow(s, st)]
        ELSE Idle]

\* The old status is read under the row's lock, or the row is created or deleted.
SaveLocked(h, s, st) ==
    /\ At(h, "idle") /\ changes < MaxChanges
    /\ kind[s].locked /\ st # status[s]
    /\ st \in kind[s].announced \cup {"none"}
    /\ Change(s, st)
    /\ Committed(h, s, status[s], st)
    /\ UNCHANGED <<notes, delivery>>

\* pre_save reads the old status ...
Capture(h, s, st) ==
    /\ At(h, "idle") /\ changes < MaxChanges
    /\ ~kind[s].locked
    /\ st \in kind[s].announced \cup {"none"}
    /\ task' = [task EXCEPT ![h] = [Idle EXCEPT !.pc = "save", !.subject = s, !.old = status[s], !.status = st]]
    /\ UNCHANGED <<subjects, notes, told, delivery>>

\* ... and the save follows, without a lock between them.
Save(h) ==
    /\ At(h, "save") /\ changes < MaxChanges
    /\ Change(Subject(h), task[h].status)
    /\ Committed(h, Subject(h), task[h].old, task[h].status)
    /\ UNCHANGED <<notes, delivery>>

(* The commit callback reads the subject again: it may have changed since. *)
Deliver(h) ==
    /\ At(h, "deliver")
    /\ IF status[Subject(h)] = task[h].status /\ row[Subject(h)] = task[h].row
       THEN Goto(h, "send") ELSE End(h)
    /\ UNCHANGED <<subjects, notes, told, delivery>>

-----------------------------------------------------------------------------
(* _refresh_or_create_notification, one transaction under the account's row *)
(* lock.                                                                    *)
SameText(h, n) == notes[n].subject = Subject(h) /\ notes[n].status = task[h].status

\* Mutant: whatever was said about the subject counts.
ExistingAnyStatus(h) == {n \in Rows : notes[n].recent /\ notes[n].subject = Subject(h)}
\* The rows of the same text within the window.
Existing(h) == {n \in Rows : notes[n].recent /\ SameText(h, n)}

\* A row made unread again is pushed again.
ShouldPublish(n) == notes[n].read

Tell(s, st) == told' = IF status[s] = st THEN told \cup {s} ELSE told

\* Row n turns unread: whatever was pushed of it before no longer counts.
TurnsUnread(n) ==
    /\ pushed' = pushed \ {n}
    /\ socket' = [k \in Sockets |-> [socket[k] EXCEPT !.knows = @ \ {n}]]
    /\ UNCHANGED <<lost, faults>>

Refresh(h) ==
    /\ At(h, "send") /\ ~kind[Subject(h)].broadcast
    /\ \E n \in Existing(h) :
        /\ \A m \in Existing(h) : m <= n
        /\ notes' = [notes EXCEPT ![n].read = FALSE, ![n].recent = TRUE]
        /\ Tell(notes[n].subject, notes[n].status)
        /\ IF notes[n].read THEN TurnsUnread(n) ELSE UNCHANGED delivery
        /\ IF ShouldPublish(n) THEN task' = [task EXCEPT ![h].pc = "read", ![h].note = n] ELSE End(h)
    /\ UNCHANGED subjects

Create(h) ==
    /\ At(h, "send") /\ Len(notes) < MaxRows
    /\ kind[Subject(h)].broadcast \/ Existing(h) = {}
    /\ notes' = Append(notes, [subject |-> Subject(h), status |-> task[h].status, read |-> FALSE, recent |-> TRUE])
    /\ Tell(Subject(h), task[h].status)
    /\ task' = [task EXCEPT ![h].pc = "read", ![h].note = Len(notes) + 1]
    /\ UNCHANGED <<subjects, delivery>>

\* The recipient's settings refuse the event.
Refused(h) ==
    /\ At(h, "send") /\ kind[Subject(h)].asks
    /\ End(h)
    /\ UNCHANGED <<subjects, notes, told, delivery>>

\* Two minutes pass.
LeaveWindow(n) ==
    /\ notes[n].recent
    /\ notes' = [notes EXCEPT ![n].recent = FALSE]
    /\ UNCHANGED <<subjects, task, told, delivery>>

(* publish_notification_by_id: the row is read, then sent to the group.      *)
PublishRead(h) ==
    /\ At(h, "read")
    /\ IF Unread(task[h].note) THEN Goto(h, "push") ELSE End(h)
    /\ UNCHANGED <<subjects, notes, told, delivery>>

InGroup(k) == socket[k].pc # "closed"

Push(h) ==
    /\ At(h, "push")
    /\ pushed' = pushed \cup {task[h].note}
    /\ socket' = [k \in Sockets |-> IF InGroup(k) THEN [socket[k] EXCEPT !.knows = @ \cup {task[h].note}] ELSE socket[k]]
    /\ End(h)
    /\ UNCHANGED <<subjects, notes, told, lost, faults>>

\* The channel layer fails: the error is logged, the event is gone.
PushFails(h) ==
    /\ At(h, "push") /\ faults < MaxFaults
    /\ faults' = faults + 1
    /\ lost' = lost \cup {task[h].note}
    /\ End(h)
    /\ UNCHANGED <<subjects, notes, told, socket, pushed>>

-----------------------------------------------------------------------------
(* The account marks one row, or every row up to the largest unread one, as  *)
(* read: one transaction under the account's row lock.  (The event it pushes *)
(* tells the badge, not the rows, and is left out.)                          *)
MarkRead(ids) ==
    /\ notes' = [n \in Rows |-> [notes[n] EXCEPT !.read = @ \/ n \in ids]]
    /\ UNCHANGED <<subjects, task, told, delivery>>

MarkOne == \E n \in Rows : Unread(n) /\ MarkRead({n})
MarkAll == \E m \in Rows : Unread(m) /\ (\A n \in Rows : Unread(n) => n <= m) /\ MarkRead(1..m)

(* A socket joins the group before it counts the unread rows; its events wait *)
(* until both are done.                                                      *)
Join(k) ==
    /\ socket[k].pc = "closed"
    /\ socket' = [socket EXCEPT ![k].pc = "joined"]
    /\ UNCHANGED <<subjects, notes, task, told, pushed, lost, faults>>

Count(k) ==
    /\ socket[k].pc = "joined"
    /\ socket' = [socket EXCEPT ![k].pc = "open", ![k].knows = @ \cup {n \in Rows : Unread(n)}]
    /\ UNCHANGED <<subjects, notes, task, told, pushed, lost, faults>>

Disconnect(k) ==
    /\ InGroup(k)
    /\ socket' = [socket EXCEPT ![k] = [pc |-> "closed", knows |-> {}]]
    /\ UNCHANGED <<subjects, notes, task, told, pushed, lost, faults>>

-----------------------------------------------------------------------------
Init ==
    /\ kind \in [Subjects -> Kinds]
    /\ status = [s \in Subjects |-> "none"]
    /\ row = [s \in Subjects |-> 0]
    /\ changes = 0
    /\ notes = <<>>
    /\ task = [h \in Handlers |-> Idle]
    /\ socket = [k \in Sockets |-> [pc |-> "closed", knows |-> {}]]
    /\ told = {} /\ pushed = {} /\ lost = {} /\ faults = 0

HandlerNext(h) ==
    \/ \E s \in Subjects, st \in Statuses : SaveLocked(h, s, st) \/ Capture(h, s, st)
    \/ Save(h) \/ Deliver(h) \/ Refresh(h) \/ Create(h) \/ Refused(h)
    \/ PublishRead(h) \/ Push(h) \/ PushFails(h)

Next ==
    \/ \E h \in Handlers : HandlerNext(h)
    \/ \E n \in Rows : LeaveWindow(n)
    \/ MarkOne \/ MarkAll
    \/ \E k \in Sockets : Join(k) \/ Count(k) \/ Disconnect(k)

Spec == Init /\ [][Next]_vars

-----------------------------------------------------------------------------
(* Every variable keeps its type. *)
TypeOK ==
    /\ kind \in [Subjects -> Kinds]
    /\ status \in [Subjects -> Statuses]
    /\ row \in [Subjects -> 0..MaxChanges]
    /\ changes \in 0..MaxChanges
    /\ notes \in Seq(Note) /\ Len(notes) <= MaxRows
    /\ task \in [Handlers -> Task]
    /\ socket \in [Sockets -> Socket]
    /\ told \subseteq Subjects /\ pushed \subseteq Ids /\ lost \subseteq Ids
    /\ faults \in 0..MaxFaults

(* Overlapping callbacks never leave two rows of one text within the window  *)
(* (notification_service.py:73): the account's lock keeps the search and the *)
(* insert together, and a row that was read is found as well.                *)
OneRecent ==
    \A m, n \in Rows :
        (/\ notes[m].recent /\ notes[n].recent /\ notes[m].subject = notes[n].subject
         /\ notes[m].status = notes[n].status /\ ~kind[notes[n].subject].broadcast) => m = n

\* Row n is on its way to the group.
OnItsWay(n) == \E h \in Handlers : task[h].note = n /\ task[h].pc \in {"read", "push"}

(* An unread row was pushed since it turned unread, is about to be, or its   *)
(* event was lost (notification_service.py:84, realtime_notifications.py:100):*)
(* also when it is read and refreshed between its commit and its callback.   *)
UnreadPushed == \A n \in Rows : Unread(n) => n \in pushed \cup lost \/ OnItsWay(n)

(* An open socket knows every unread row, or will be told (consumers.py:92):  *)
(* nothing falls between its count and its membership in the group.          *)
SocketKnows ==
    \A k \in Sockets, n \in Rows :
        socket[k].pc = "open" /\ Unread(n) => n \in socket[k].knows \cup lost \/ OnItsWay(n)

\* A callback that will announce the present status of s.
Pending(s) == \E h \in Handlers : Subject(h) = s /\ task[h].pc \in {"deliver", "send"} /\ task[h].status = status[s]

(* The present status of a subject saved under a lock has been announced      *)
(* since it was reached, or a callback is about to (signals.py:569 and the    *)
(* other receivers), however quickly the changes follow each other and        *)
(* however late their callbacks read the row again.                           *)
StatusTold ==
    \A s \in Subjects :
        (kind[s].locked /\ ~kind[s].asks /\ status[s] \in kind[s].announced) => s \in told \/ Pending(s)
=============================================================================
