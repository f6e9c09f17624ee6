------------------------- MODULE ServicesInvariants -------------------------
(***************************************************************************)
(* What the proofs about the services are made of: for each part what its  *)
(* constants are assumed to be (...Bounds), its inductive invariant        *)
(* (...Inv) with the parts of it, and the words its lemmas are stated in.  *)
(***************************************************************************)
EXTENDS MCServices, Sequences

-----------------------------------------------------------------------------
(* Likes, follows and playlist links that are put on or taken back.          *)

(* While the taps under way agree, each of them will write what they agree on *)
(* and none has failed; a like that is to be turned over is the only one.     *)
TapsAim == agreed # "any" => ~failed /\ \A q \in Toggling!UnderWay : tap[q] = agreed
LikesTurn ==
    kind \in Toggling!Rows /\ agreed # "any" =>
        \A q \in Toggling!UnderWay : tap[q] # relation /\ \A p \in Toggling!UnderWay : p = q
TapsInv == Toggling!TypeOK /\ Toggling!WishReached /\ TapsAim /\ LikesTurn

-----------------------------------------------------------------------------
(* Notices: the rows, the handlers' tasks and the sockets.                   *)

NoticeBounds == MaxRows \in Nat /\ MaxChanges \in Nat /\ MaxFaults \in Nat

(* What a task under way is about exists.                                     *)
TasksAim ==
    \A h \in Actors :
        /\ ~Notices!At(h, "idle") => Notices!Subject(h) \in Subjects
        /\ Notices!At(h, "save") => ~announced[Notices!Subject(h)].locked
        /\ task[h].pc \in {"read", "push"} => task[h].note \in Notices!Rows
RowsCounted == \A s \in Subjects : row[s] <= changes

(* A callback that finds the row it was registered for, or has found it.      *)
Finds(h, s) ==
    /\ Notices!Subject(h) = s /\ task[h].status = status[s]
    /\ Notices!At(h, "send") \/ (Notices!At(h, "deliver") /\ task[h].row = row[s])
WillTell ==
    \A s \in Subjects :
        (announced[s].locked /\ ~announced[s].asks /\ status[s] \in announced[s].announced) =>
            s \in told \/ \E h \in Actors : Finds(h, s)

NoticesInv == Notices!TypeOK /\ TasksAim /\ RowsCounted /\ Notices!OneRecent /\ Notices!UnreadPushed /\ Notices!SocketKnows /\ WillTell

(* Steps of one task that leave the rows and the sockets alone: it is on no   *)
(* row's way before or after.                                                 *)
Aside(h) ==
    /\ UNCHANGED <<notes, Notices!delivery>>
    /\ \A g \in Actors : g # h => task'[g] = task[g]
    /\ task[h].pc \notin {"read", "push"} \/ task'[h] = task[h]

-----------------------------------------------------------------------------
(* Generated playlists: the rows, the requests, the generator and the passes. *)

MixBounds == MaxKeys \in Nat /\ MaxPasses \in Nat /\ MaxMixFaults \in Nat

(* A row that no pass will dispose of any more: it is gone, or new, or kept,  *)
(* or was opened.                                                             *)
Past(ref) == ref[2] <= mix[ref[1]].key
Spent(ref) ==
    /\ Past(ref)
    /\ \/ ref[2] # mix[ref[1]].key
       \/ ~mix[ref[1]].live \/ ~mix[ref[1]].expired \/ mix[ref[1]].kept \/ mix[ref[1]].views
Loose(ref) == ref[2] = mix[ref[1]].key /\ Mixing!Disposable(ref[1])

Numbered == \A m \in Mixes : mix[m].live \/ stamp[m] = "recent" => mix[m].key >= 1

(* A like or a save comes after the row was kept, a viewer after it was opened. *)
RequestAims(p) ==
    ~Mixing!At(p, "idle") =>
        /\ Mixing!Mix(p) \in Mixes /\ 1 <= request[p].key /\ request[p].key <= mix[Mixing!Mix(p)].key
        /\ request[p].kind = "show" => Mixing!At(p, "stamp")
        /\ Mixing!At(p, "open") \/ Mixing!At(p, "viewer") => request[p].kind = "detail"
        /\ request[p].pc \in {"keep", "toggle", "add", "remove", "renew"} => request[p].kind \in {"like", "save"}
        /\ request[p].pc \in {"stamp", "toggle", "add", "remove", "renew"} /\ request[p].kind \in {"like", "save"} /\ Mixing!Present(p)
              => mix[Mixing!Mix(p)].kept \/ ~mix[Mixing!Mix(p)].expired
        /\ Mixing!At(p, "viewer") /\ Mixing!Present(p) => mix[Mixing!Mix(p)].views
RequestsAim == \A p \in Requests : RequestAims(p)

DurablyUsed(ref) ==
    /\ Past(ref)
    /\ ref[2] = mix[ref[1]].key /\ mix[ref[1]].live => mix[ref[1]].kept \/ mix[ref[1]].views \/ mix[ref[1]].viewed
UsedDurable == \A ref \in used : DurablyUsed(ref)

(* What a pass found is loose or spent; what it protects is stamped or spent; *)
(* and what it protects but did not find stamped is spent.                    *)
PassHolds(c) ==
    /\ Mixing!CAt(c, "idle") => cleaner[c] = Mixing!NoPass
    /\ \A ref \in cleaner[c].found : Spent(ref) \/ Loose(ref)
    /\ \A ref \in cleaner[c].protected : Past(ref)
    /\ ~cleaner[c].blind => \A ref \in cleaner[c].protected : Spent(ref) \/ Mixing!Stamped(ref)
    /\ ~cleaner[c].blind /\ cleaner[c].pc \in {"look", "delete", "forget"}
          => \A ref \in cleaner[c].found \cap cleaner[c].protected : Spent(ref)
    /\ Mixing!CAt(c, "delete") => \A ref \in cleaner[c].found \ cleaner[c].victims : Spent(ref)
    /\ Mixing!CAt(c, "forget") => \A ref \in cleaner[c].found : Spent(ref)
PassesHold == \A c \in Actors : PassHolds(c)

MixInv ==
    Mixing!TypeOK /\ Numbered /\ RequestsAim /\ UsedDurable /\ PassesHold /\ Mixing!StampedKept /\ Mixing!UsedKept

(* What every step but the passing of two hours does to a row: it is replaced *)
(* by a newer one once it is gone, or it does not expire, is not unopened, and *)
(* is not let go without a new expiry; and a like, a save or a viewer comes    *)
(* only to a row that is kept, opened or unexpired.                           *)
Steady(m) ==
    \/ ~mix[m].live /\ mix'[m].key = mix[m].key + 1 /\ ~mix'[m].expired
    \/ /\ mix'[m].key = mix[m].key
       /\ mix'[m].live => mix[m].live
       /\ mix'[m].live /\ mix[m].views => mix'[m].views
       /\ mix'[m].live /\ mix'[m].expired => mix[m].expired /\ (mix[m].kept => mix'[m].kept)
       /\ mix'[m].live /\ mix'[m].expired /\ ~mix'[m].kept /\ ~mix'[m].views =>
             /\ mix'[m].liked => mix[m].liked
             /\ mix'[m].saved => mix[m].saved
             /\ mix'[m].viewed => mix[m].viewed

(* An update by key: it only makes a live row more durable, and notes its use. *)
Firmer(m, made) ==
    /\ made \in Mixing!Row /\ made.key = mix[m].key /\ made.live
    /\ made.kept \/ made.views \/ made.viewed
    /\ mix[m].views => made.views
    /\ made.expired => mix[m].expired /\ (mix[m].kept => made.kept)
    /\ made.expired /\ ~made.kept /\ ~made.views =>
         (made.liked => mix[m].liked) /\ (made.saved => mix[m].saved) /\ (made.viewed => mix[m].viewed)

-----------------------------------------------------------------------------
(* Lists kept under the version of the catalogue.                            *)

RankBounds == NoVersion \notin Nat /\ {MaxBegun, MaxRaises, MaxCacheFaults} \subseteq Nat

\* What a list says of one song: a ranking may still hold one that is not
\* published any more, its rows are read again.
Shows(level, songs, s, list) ==
    IF level = "answer" THEN s \in songs <=> s \in list ELSE s \in list => s \in songs

\* No ranking kept under version k, or about to be, hides song s.
Ranked(memory, asked, list, k, s) ==
    /\ \A songs \in memory["ranking"][k] : Shows("ranking", songs, s, list)
    /\ \A q \in Actors :
        asked[q].pc = "store" /\ asked[q].level = "ranking" /\ asked[q].key["ranking"] = k =>
            Shows("ranking", asked[q].got, s, list)

\* What request r will keep as an answer shows song s as it is.
Answering(memory, asked, list, r, s) ==
    /\ r.pc = "store" /\ r.level = "answer" => Shows("answer", r.got, s, list)
    /\ r.pc = "hydrate" => Shows("ranking", r.got, s, list)
    /\ r.key["ranking"] # NoVersion => Ranked(memory, asked, list, r.key["ranking"], s)

\* Everything kept under version k, or about to be, shows song s as it is.
Current(memory, asked, list, k, s) ==
    /\ Ranked(memory, asked, list, k, s)
    /\ \A songs \in memory["answer"][k] : Shows("answer", songs, s, list)
    /\ \A q \in Actors : asked[q].key["answer"] = k => Answering(memory, asked, list, asked[q], s)

\* What request r has, and all it may still find, shows song s as it is.
Settled(memory, asked, list, r, s) ==
    /\ \A level \in Rankings!Levels : r.key[level] # NoVersion => Current(memory, asked, list, r.key[level], s)
    /\ r.pc = "answer" => Shows("answer", r.got, s, list)
    /\ r.pc = "hydrate" => Shows("ranking", r.got, s, list)

\* The keys of a request follow its step, its level and the list it is for.
Keyed(list, r) ==
    /\ r.pc = "idle" => r = Rankings!Idle
    /\ r.pc \in {"get", "claim", "wait", "build", "store"} => r.key[r.level] # NoVersion
    /\ r.pc = "hydrate" => r.level = "ranking" /\ r.key["ranking"] = NoVersion
    /\ r.pc = "answer" => r.level = "answer" /\ r.key["answer"] = NoVersion
    /\ r.level = "ranking" /\ ~r.forced /\ r.pc # "idle" => (r.key["answer"] # NoVersion <=> list.answer # "none")
    /\ r.forced =>
        /\ list.ranking = "kept" /\ r.pc \in {"build", "store"}
        /\ r.key["answer"] = NoVersion /\ r.level = "ranking"
    /\ r.level = "answer" => r.key["ranking"] = NoVersion
    /\ r.level = "answer" /\ r.pc # "idle" => list.answer # "none"

\* A request has the locks of what it has claimed, and while no lock expired
\* and no wait was given up it has claimed what it builds.
Owns(list, late, locks, r) ==
    /\ \A level \in r.mine : list[level] = "claimed" /\ r.key[level] # NoVersion
            /\ (~late => <<level, r.key[level]>> \in locks)
    /\ r.pc \in {"get", "claim", "wait"} => r.level \notin r.mine
    /\ r.pc \in {"claim", "wait"} => list[r.level] = "claimed"
    /\ ~late /\ r.pc \in {"build", "store"} /\ list[r.level] = "claimed" => r.level \in r.mine
    /\ ~late /\ r.pc # "idle" /\ r.level = "ranking" /\ ~r.forced /\ list.answer = "claimed" => "answer" \in r.mine

RankInv ==
    /\ Rankings!TypeOK /\ Rankings!OneBuilds
    /\ version + (IF writer.pc = "saved" THEN 1 ELSE 0) <= catalogueChanges
    /\ \A q \in Actors : Keyed(view, reader[q]) /\ Owns(view, slow, building, reader[q])
            /\ reader[q].steady \subseteq raised
    /\ \A s \in raised : Current(cache, reader, published, version, s)
    /\ \A q \in Actors : \A s \in reader[q].steady : Settled(cache, reader, published, reader[q], s)

-----------------------------------------------------------------------------
(* Banners that are shown in turn, and counted.                              *)

BannerBounds ==
    /\ IsFiniteSet(Actors) /\ IsFiniteSet(Banners) /\ 0 \notin Banners
    /\ NoTotal \notin Nat /\ NoList \notin Seq(Banners)

BannerRequest ==
    [pc : Banner!Steps, ids : Seq(Banners), ad : Banners \cup {0}, some : BOOLEAN, excused : BOOLEAN, found : Banner!States]
BannerEdit == [pc : {"idle", "save", "invalidate"}, ad : Banners \cup {0}, views : Nat]

\* What a request knows at each of its steps, of banners in these rows and a total.
Follows(rows, t, r) ==
    /\ r.pc \in {"count", "total", "insert", "fetch", "commit"} => r.ad \in Banners
    /\ r.pc = "draw" => r.ids # <<>>
    /\ r.pc \in {"total", "insert", "fetch", "commit", "served"} => r.found = "active"
    /\ r.pc = "commit" => t # NoTotal
    /\ r.some => Banner!ActiveIn(rows) # {}
    /\ r.pc = "store" /\ r.ids = <<>> => ~r.some
    /\ r.pc = "nothing" /\ r.some => r.excused

\* The cached list is the active one, or marked old, or about to be deleted.
ListFollows == cached # NoList /\ ~old /\ ~Banner!Pending => cached = Banner!active_ids

BannerInv ==
    /\ Banner!TypeOK /\ show \in [Actors -> BannerRequest] /\ admin \in [Admins -> BannerEdit]
    /\ \A a \in Admins : admin[a].pc = "save" => admin[a].ad \in Banners
    /\ \A q \in Actors : Follows(banner, total, show[q])
    /\ ListFollows /\ Banner!TotalAgrees

OnWay == {q \in Actors : show[q].pc \in {"total", "insert"}}

-----------------------------------------------------------------------------
(* Payouts split over songs.                                                 *)

\* h[s] is the sum of f over s, whichever element is taken first.
Adds(h, f, D) ==
    /\ h \in [SUBSET D -> Nat] /\ h[{}] = 0
    /\ \A s \in SUBSET D : \A x \in s : h[s] = f[x] + h[s \ {x}]

Numbers(f, S) == IsFiniteSet(S) /\ \A x \in S : f[x] \in Nat

\* What an allocation gives: no more than a song can carry, all of the amount
\* that can be carried, and not less to the larger balance.
Allocates(split, b, amount) ==
    /\ split \in [EarningSongs -> Nat]
    /\ \A s \in EarningSongs : split[s] <= b[s]
    /\ Splits!TotalOver(split, EarningSongs) = Splits!AtMost(amount, Splits!TotalOver(b, EarningSongs))
    /\ \A s, t \in EarningSongs : b[s] > b[t] => split[s] >= split[t]

\* What the payouts of the set s leave reserved when those of smaller index do as g says.
Charge(g, list, totals, s) ==
    IF s = {} THEN Splits!Zero
    ELSE Splits!Charged(list[Splits!Max(s)], totals, g[s \ {Splits!Max(s)}])

\* g charges the payouts of the set D.
Charges(g, list, totals, D) == g = [s \in SUBSET D |-> Charge(g, list, totals, s)]

Payouts == [amount : Nat, saved : [EarningSongs -> Nat], counts : BOOLEAN]

\* What of the saved splits of the payouts that count falls on a song.
CountingIn(list) == {i \in DOMAIN list : list[i].counts}
SavedFor(list, e) == [i \in DOMAIN list |-> list[i].saved[e]]
SavedOn(list, e) == Splits!TotalOver(SavedFor(list, e), CountingIn(list))

\* A charge never exceeds what a song has earned.
Within(reserved, totals) == reserved \in [EarningSongs -> Nat] /\ \A e \in EarningSongs : reserved[e] <= totals[e]

(* While nothing was lost or put back, the payouts that count are charged as   *)
(* they were saved, and the songs can carry them all.                         *)
Meets(payout) == Splits!Total(payout.saved) # 0 /\ ~Splits!Differ(Splits!Total(payout.saved), payout.amount)
Carried(list, totals) ==
    /\ \A i \in DOMAIN list : Meets(list[i])
    /\ \A e \in EarningSongs : SavedOn(list, e) <= totals[e]

SplitInv == Splits!TypeOK /\ (~disturbed => Carried(payouts, income))

-----------------------------------------------------------------------------
(* A playlist and the requests on it.                                        *)

\* What the entries of the set s leave when those of smaller index do as g says.
IdsOf(g, list, s) == IF s = {} THEN <<>> ELSE Lists!NextId(g[s \ {Lists!Max(s)}], list[Lists!Max(s)])
IdsUpto(g, list, D) == g = [s \in SUBSET D |-> IdsOf(g, list, s)]

\* What the entries of the set s leave when those of smaller index do as g says.
TakenOf(g, S, list, s) == IF s = {} THEN <<>> ELSE Lists!NextOf(S, g[s \ {Lists!Max(s)}], list[Lists!Max(s)])
TakenUpto(g, S, list, D) == g = [s \in SUBSET D |-> TakenOf(g, S, list, s)]

\* The ids of the first k places, each where it comes first.
GoodIds(ids, order, k) ==
    /\ ids \in Seq(Items) /\ Len(ids) <= k
    /\ \A a \in 1 .. Len(ids) : \E i \in 1 .. k : order[i][1] = ids[a]
    /\ \A i \in 1 .. k : \E a \in 1 .. Len(ids) : order[i][1] = ids[a]
    /\ \A a \in 1 .. Len(ids) : Lists!First(order, ids[a]) \in 1 .. k
    /\ \A a, b \in 1 .. Len(ids) : a < b => Lists!First(order, ids[a]) < Lists!First(order, ids[b])

\* What of the first k places is in S, in their order.
GoodTaken(taken, S, list, E, k) ==
    /\ taken \in Seq(E) /\ Len(taken) <= k
    /\ \A a \in 1 .. Len(taken) : taken[a] \in S /\ \E i \in 1 .. k : list[i] = taken[a]
    /\ \A i \in 1 .. k : list[i] \in S => \E a \in 1 .. Len(taken) : list[i] = taken[a]
    /\ \A a, b \in 1 .. Len(taken) : a < b => \E i, j \in 1 .. k : i < j /\ list[i] = taken[a] /\ list[j] = taken[b]

\* A list made of the songs of an order that are in S, each once, those of an
\* earlier first place first.
ListedFrom(listed, order, S) ==
    /\ listed \in Seq(S)
    /\ \A a \in 1 .. Len(listed) : \E i \in 1 .. Len(order) : order[i][1] = listed[a]
    /\ \A i \in 1 .. Len(order) : order[i][1] \in S => \E a \in 1 .. Len(listed) : listed[a] = order[i][1]
    /\ \A a, b \in 1 .. Len(listed) :
           a < b => Lists!First(order, listed[a]) < Lists!First(order, listed[b]) /\ listed[a] # listed[b]

Joined(s, t) == s \o t

\* A list, followed by a list without repetition of the other elements of S.
Completes(T, r, k, S, listed, l) ==
    /\ l \in Nat /\ k \in Nat /\ T \subseteq S /\ r \in Seq(T) /\ listed \in Seq(S) /\ Len(listed) = l /\ Len(r) = k
    /\ \A s \in S : s \in T \/ \E i \in 1 .. l : listed[i] = s
    /\ \A s \in T : \E n \in 1 .. k : r[n] = s

\* The elements of S that are not listed.
Unlisted(S, listed) == S \ Lists!Range(listed)

ListBounds == MaxOrder \in Nat /\ MaxOrder >= 2 /\ MaxWrites \in Nat /\ IsFiniteSet(Items)

\* What a request does follows from its kind.
Meant(e) ==
    /\ e.pc \in {"check", "link"} => e.kind = "add"
    /\ e.pc = "unlink" => e.kind = "remove"
    /\ e.pc \in {"validate", "save", "links", "set"} => e.kind = "update"
    /\ e.pc \in {"links", "set"} => e.songs # Lists!NoSongs
    /\ e.kind \in {"add", "remove"} => e.song \in Items

\* A song that a request under way may take out is not among those that are kept.
Spares(e, K) ==
    /\ e.kind = "remove" => e.song \notin K
    /\ e.kind = "update" /\ e.songs # Lists!NoSongs => K = {}

RequestsMeant == \A q \in Actors : Meant(edit[q])
KeptSpared == \A q \in Actors : Spares(edit[q], kept)
ListInv == Lists!TypeOK /\ RequestsMeant /\ KeptSpared /\ Lists!AddedStays

Row == [live : BOOLEAN, order : Lists!Orders]

ListPcs == {"idle", "check", "link", "order", "unlink", "validate", "save", "links", "set", "songs", "answer"}

-----------------------------------------------------------------------------
(* The history and the pages that merge it with the shelf.                   *)

Timed(S) ==
    /\ IsFiniteSet(S) /\ \A e \in S : e.at \in Nat /\ e.key \in Nat
    /\ \A e, f \in S : e.at = f.at => e = f

Rank(S, e) == Cardinality(Visits!Newer(S, e))

\* M has the rows of U whose rank is below n.
HasNewest(M, U, n) == M \in SUBSET U /\ \A e \in U : Rank(U, e) < n => e \in M

\* Two lists that agree up to n.
AgreeUpto(A, B, E, n) ==
    /\ A \in Seq(E) /\ B \in Seq(E) /\ Len(A) \in Nat /\ Len(B) \in Nat /\ Len(A) <= Len(B)
    /\ Len(A) >= n \/ Len(A) = Len(B)
    /\ \A i \in 1 .. Len(A) : i <= n => A[i] = B[i]

Tops(S, n) == Visits!Range(Visits!Upto(Visits!NewestFirst(S), n))

\* What comes after the first a of a list, no more than z of it.
After(s, a, z) == Visits!Upto(SubSeq(s, a + 1, Len(s)), z)

HistBounds ==
    /\ IsFiniteSet(Recommended) /\ IsFiniteSet(Own) /\ PageSizes \subseteq Nat
    /\ MaxClock \in Nat /\ MaxClock >= 2 /\ Visits!NoOne \notin Actors

KeysOnce == \A e, f \in entries : e.key = f.key => e = f
\* No two rows are of one time.
TimesOnce ==
    /\ \A e, f \in entries : e.at = f.at => e = f
    /\ \A e \in entries : e.key <= clock /\ e.at <= clock
    /\ \A s \in Visits!Shelf : shelf[s] <= clock
    /\ \A s, t \in Visits!Shelf : shelf[s] = shelf[t] /\ shelf[s] # 0 => s = t
    /\ \A e \in entries, s \in Visits!Shelf : e.at # shelf[s]

\* The time that a touch will write is nobody else's.
TouchFits(h) ==
    touch[h].pc # "idle" =>
        /\ touch[h].item \in Items /\ touch[h].now \in 1 .. clock
        /\ \A e \in entries : e.at # touch[h].now
        /\ \A s \in Visits!Shelf : shelf[s] # touch[h].now
        /\ \A g \in Actors : touch[g].pc # "idle" /\ touch[g].now = touch[h].now => g = h
\* A touch that has the lock of its item knows the rows of it.
TouchHolds(h) ==
    touch[h].pc \in {"read", "create", "collapse"} =>
        /\ advisory[touch[h].item] = h
        /\ touch[h].pc = "create" => \A e \in entries : e.item # touch[h].item
        /\ touch[h].pc = "collapse" => \E e \in entries : e.item = touch[h].item /\ e.key = touch[h].current

HistInv ==
    /\ Visits!TypeOK /\ Visits!OneEntry /\ IsFiniteSet(entries) /\ KeysOnce /\ TimesOnce
    /\ \A h \in Actors : TouchFits(h) /\ TouchHolds(h)

ShelfRow(s) == [key |-> 0, item |-> s, at |-> shelf[s]]

-----------------------------------------------------------------------------
(* The parts side by side: a behaviour is one of its part, the others rest.  *)

TapsKept == part = "toggles" => TapsInv

NoticesKept == part = "notices" => NoticesInv

PassesKept == part = "mixes" => MixInv

CataloguesKept == part = "rankings" => RankInv

BannersSteady == part = "banners" => BannerInv

PayoutsKept == part = "splits" => SplitInv

PlaylistsHold == part = "lists" => ListInv

HistoryHolds == part = "visits" => HistInv
=============================================================================
