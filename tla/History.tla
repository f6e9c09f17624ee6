------------------------------ MODULE History ------------------------------
(***************************************************************************)
(* The listening history of one user and the library pages made of it.     *)
(* Opening an item touches its row under an advisory lock and collapses    *)
(* rows an older version left twice; the pages merge the history with      *)
(* liked recommendations and the user's own playlists, each by its time.   *)
(***************************************************************************)
EXTENDS Integers, FiniteSets, Sequences, Functions

CONSTANTS
    Items,      \* items the history is of
    Recommended,  \* recommended playlists the user may like
    Own,          \* playlists the user may make
    Handlers,   \* requests under way at once
    MaxClock,   \* writes, each at a time of its own (a bound)
    PageSizes   \* sizes a client asks for

VARIABLES
    entries,    \* the rows [key, item, at]; key is the primary key
    shelf,      \* Shelf -> when it was liked or made, 0 if it is not there
    clock,
    advisory,   \* Items -> the handler that holds the advisory lock
    touch,      \* Handlers -> the touch under way
    touched     \* items touched since the user last deleted one of their rows

Shelf == Recommended \cup Own

vars == <<entries, shelf, clock, advisory, touch, touched>>

NoOne == "none"
NoItem == "none"
Touch == [pc : {"idle", "lock", "read", "create", "collapse"}, item : Items \cup {NoItem},
          now : 0..MaxClock, current : 0..MaxClock]
Resting == [pc |-> "idle", item |-> NoItem, now |-> 0, current |-> 0]

At(h, pc) == touch[h].pc = pc
Rows(i) == {e \in entries : e.item = i}
Tick == clock < MaxClock /\ clock' = clock + 1

\* The time a touch will write is taken before it waits for the lock.
Begin(h, i) ==
    /\ At(h, "idle") /\ Tick
    /\ touch' = [touch EXCEPT ![h] = [pc |-> "lock", item |-> i, now |-> clock + 1, current |-> 0]]
    /\ UNCHANGED <<entries, shelf, advisory, touched>>

\* Mutant: no lock is waited for.
FreeAlways(i) == TRUE
Free(i) == advisory[i] = NoOne

Lock(h) ==
    /\ At(h, "lock") /\ Free(touch[h].item)
    /\ advisory' = [advisory EXCEPT ![touch[h].item] = h]
    /\ touch' = [touch EXCEPT ![h].pc = "read"]
    /\ UNCHANGED <<entries, shelf, clock, touched>>

\* The latest row is locked.
Latest(i) == CHOOSE e \in Rows(i) : \A f \in Rows(i) : f.at < e.at \/ (f.at = e.at /\ f.key <= e.key)

Read(h) ==
    /\ At(h, "read")
    /\ touch' = [touch EXCEPT ![h].pc = IF Rows(touch[h].item) = {} THEN "create" ELSE "collapse",
                              ![h].current = IF Rows(touch[h].item) = {} THEN 0 ELSE Latest(touch[h].item).key]
    /\ UNCHANGED <<entries, shelf, clock, advisory, touched>>

Commit(h) ==
    /\ advisory' = [advisory EXCEPT ![touch[h].item] = NoOne]
    /\ touched' = touched \cup {touch[h].item}
    /\ touch' = [touch EXCEPT ![h] = Resting]

NewKey == clock + 1

Create(h) ==
    /\ At(h, "create") /\ Tick
    /\ entries' = entries \cup {[key |-> NewKey, item |-> touch[h].item, at |-> clock + 1]}
    /\ Commit(h)
    /\ UNCHANGED shelf

Others(h) == {e \in Rows(touch[h].item) : e.key # touch[h].current}

Collapse(h) ==
    /\ At(h, "collapse")
    /\ entries' = {IF e.key = touch[h].current THEN [e EXCEPT !.at = touch[h].now] ELSE e : e \in entries \ Others(h)}
    /\ Commit(h)
    /\ UNCHANGED <<shelf, clock>>

\* The user deletes a row, which waits for a touch that locked it.
DeleteEntry(e) ==
    /\ e \in entries /\ \A h \in Handlers : ~(At(h, "collapse") /\ touch[h].current = e.key)
    /\ entries' = entries \ {e}
    /\ touched' = touched \ {e.item}
    /\ UNCHANGED <<shelf, clock, advisory, touch>>

\* A recommendation is liked, a playlist made; both may go.
Place(s) ==
    /\ shelf[s] = 0 /\ Tick
    /\ shelf' = [shelf EXCEPT ![s] = clock + 1]
    /\ UNCHANGED <<entries, advisory, touch, touched>>

Withdraw(s) ==
    /\ shelf[s] # 0
    /\ shelf' = [shelf EXCEPT ![s] = 0]
    /\ UNCHANGED <<entries, clock, advisory, touch, touched>>

Init ==
    /\ \E twice \in {FALSE, TRUE}, i \in Items :
         entries = IF twice THEN {[key |-> 1, item |-> i, at |-> 1], [key |-> 2, item |-> i, at |-> 2]} ELSE {}
    /\ shelf = [s \in Shelf |-> 0]
    /\ clock = 2
    /\ advisory = [i \in Items |-> NoOne]
    /\ touch = [h \in Handlers |-> Resting]
    /\ touched = {}

Next ==
    \/ \E h \in Handlers : (\E i \in Items : Begin(h, i)) \/ Lock(h) \/ Read(h) \/ Create(h) \/ Collapse(h)
    \/ \E e \in entries : DeleteEntry(e)
    \/ \E s \in Shelf : Place(s) \/ Withdraw(s)

Spec == Init /\ [][Next]_vars

-----------------------------------------------------------------------------
(* The pages: of each source the newest rows up to the end of the page, merged *)
(* by time, of which the page is a slice.                                     *)
Newer(S, e) == {f \in S : f.at > e.at \/ (f.at = e.at /\ f.key > e.key)}
NewestFirst(S) == [n \in 1..Cardinality(S) |-> CHOOSE e \in S : Cardinality(Newer(S, e)) = n - 1]
Upto(seq, n) == SubSeq(seq, 1, IF Len(seq) < n THEN Len(seq) ELSE n)
Slice(seq, page, size) == Upto(SubSeq(seq, (page - 1) * size + 1, Len(seq)), size)

ShelfRows(S) == {[key |-> 0, item |-> s, at |-> shelf[s]] : s \in {t \in S : shelf[t] # 0}}

Taken(page, size) == page * size
Merged(sources, n) == NewestFirst(UNION {Range(Upto(NewestFirst(S), n)) : S \in sources})

LibrarySources == {entries, ShelfRows(Recommended)}
LibraryPage(page, size) == Slice(Merged(LibrarySources, Taken(page, size)), page, size)

HistorySources == {entries, ShelfRows(Recommended), ShelfRows(Own)}
HistoryPage(page, size) == Slice(Merged(HistorySources, Taken(page, size)), page, size)

\* The liked playlists take one row more to know whether another page follows.
LikedSources == {ShelfRows(Recommended), ShelfRows(Own)}
LikedMerged(page, size) == Merged(LikedSources, Taken(page, size) + 1)
LikedPage(page, size) == Slice(LikedMerged(page, size), page, size)
LikedHasNext(page, size) == Len(LikedMerged(page, size)) > page * size

-----------------------------------------------------------------------------
(* Every variable keeps its type. *)
TypeOK ==
    /\ entries \subseteq [key : 1..MaxClock, item : Items, at : 1..MaxClock]
    /\ shelf \in [Shelf -> 0..MaxClock]
    /\ clock \in 2..MaxClock
    /\ advisory \in [Items -> Handlers \cup {NoOne}]
    /\ touch \in [Handlers -> Touch]
    /\ touched \subseteq Items

(* An item that was touched and not deleted since has exactly one row, also    *)
(* when touches of it overlap and when rows were left twice (views.py:691:     *)
(* collapse legacy duplicates).                                               *)
OneEntry == \A i \in touched : Cardinality(Rows(i)) = 1

(* The pages of the library, of the history and of the liked playlists are the *)
(* whole of their sources, newest first, each entry once (views.py:1462, 1533, *)
(* 1391), whichever size a client asks for, and the last page says so.         *)
Whole(sources) == NewestFirst(UNION sources)

PagesWhole ==
    \A size \in PageSizes : \A page \in 1..(Cardinality(entries) + Cardinality(Shelf)) :
        /\ LibraryPage(page, size) = Slice(Whole(LibrarySources), page, size)
        /\ HistoryPage(page, size) = Slice(Whole(HistorySources), page, size)
        /\ LikedPage(page, size) = Slice(Whole(LikedSources), page, size)
        /\ LikedHasNext(page, size) = (Len(Whole(LikedSources)) > page * size)
=============================================================================
