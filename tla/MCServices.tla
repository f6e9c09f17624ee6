----------------------------- MODULE MCServices ------------------------------
(***************************************************************************)
(* The services that share no state with one another, checked in one run:   *)
(* a behaviour is one of a single part, while the others rest.              *)
(***************************************************************************)
EXTENDS Naturals, FiniteSets, TLC

CONSTANTS
    \* Actors, Items: the parts share these sets, so that one small group of
    \* permutations serves them all.
    Actors,      \* handlers, clean-up passes or requests under way at once
    Items,       \* what a history is of, the songs of a playlist
    NoSubject, Subjects, Sockets, MaxRows, MaxChanges, MaxFaults,
    NoMix, Mixes, Requests, MaxKeys, MaxPasses, MaxMixFaults,
    Taps,
    Recommended, Own, MaxClock, PageSizes,
    NoOrder, MaxOrder, MaxWrites,
    CachedSongs, NoVersion, MaxBegun, MaxRaises, MaxCacheFaults,
    Banners, NoList, NoTotal, Admins, MaxServes,
    EarningSongs, Quanta, MaxIncome, MaxPayouts

\* Ties between songs are broken by their primary keys; a payout is a whole
\* number of PAYOUT_QUANTUM, which is a whole number of FINANCE_QUANTUM.
ASSUME EarningAssumption ==
    /\ EarningSongs \subseteq Nat /\ IsFiniteSet(EarningSongs)
    /\ Quanta \in Nat /\ Quanta > 1 /\ MaxIncome \in Nat /\ MaxPayouts \in Nat

VARIABLES
    part,
    announced, status, row, changes, notes, task, socket, told, pushed, lost, faults,
    personal, mix, stamp, request, generator, lock, cleaner, used, passes, mixFaults,
    kind, relation, tap, agreed, failed,
    entries, shelf, clock, advisory, touch, touched,
    playlist, members, edit, kept, writes,
    banner, total, cached, cursor, show, admin, served, cut, old, shows, bannerEdits, bannerFaults,
    view, published, writer, version, cache, building, reader, raised, slow, begun, catalogueChanges,
    cacheFaults,
    income, payouts, disturbed

Notices == INSTANCE Notifications WITH Handlers <- Actors, kind <- announced
Mixing == INSTANCE GeneratedPlaylists WITH Cleaners <- Actors, MaxFaults <- MaxMixFaults, faults <- mixFaults
Toggling == INSTANCE Toggles
Visits == INSTANCE History WITH Handlers <- Actors
Lists == INSTANCE UserPlaylists WITH Songs <- Items, Requests <- Actors, request <- edit
Banner == INSTANCE BannerRotation WITH Requests <- Actors, request <- show, begun <- shows, changes <- bannerEdits, faults <- bannerFaults,
               MaxEdits <- MaxPasses, MaxFaults <- MaxMixFaults, NoRow <- NoTotal
Rankings == INSTANCE RankingCache WITH Songs <- CachedSongs, Readers <- Actors, announced <- raised,
                MaxChanges <- MaxRaises, MaxFaults <- MaxCacheFaults, changes <- catalogueChanges, faults <- cacheFaults
Splits == INSTANCE PayoutAllocation WITH Songs <- EarningSongs

NoticeVars ==
    <<announced, status, row, changes, notes, task, socket, told, pushed, lost, faults>>
MixVars ==
    <<personal, mix, stamp, request, generator, lock, cleaner, used, passes, mixFaults>>
ToggleVars ==
    <<kind, relation, tap, agreed, failed>>
VisitVars ==
    <<entries, shelf, clock, advisory, touch, touched>>
ListVars ==
    <<playlist, members, edit, kept, writes>>
BannerVars ==
    <<banner, total, cached, cursor, show, admin, served, cut, old, shows, bannerEdits, bannerFaults>>
RankingVars ==
    <<view, published, writer, version, cache, building, reader, raised, slow, begun, catalogueChanges,
      cacheFaults>>
SplitVars ==
    <<income, payouts, disturbed>>
vars == <<part, NoticeVars, MixVars, ToggleVars, VisitVars, ListVars, BannerVars, RankingVars, SplitVars>>

Parts == {"notices", "mixes", "toggles", "visits", "lists", "banners", "rankings", "splits"}

\* The part of a behaviour is in one of its initial states; the others have none.
None == "none"

NoticesRest ==
    /\ announced = None /\ status = None /\ row = None /\ changes = None /\ notes = None
    /\ task = None /\ socket = None /\ told = None /\ pushed = None /\ lost = None
    /\ faults = None
MixesRest ==
    /\ personal = None /\ mix = None /\ stamp = None /\ request = None /\ generator = None
    /\ lock = None /\ cleaner = None /\ used = None /\ passes = None /\ mixFaults = None
TogglesRest ==
    /\ kind = None /\ relation = None /\ tap = None /\ agreed = None /\ failed = None
VisitsRest ==
    /\ entries = None /\ shelf = None /\ clock = None /\ advisory = None /\ touch = None
    /\ touched = None
ListsRest ==
    /\ playlist = None /\ members = None /\ edit = None /\ kept = None /\ writes = None
BannersRest ==
    /\ banner = None /\ total = None /\ cached = None /\ cursor = None /\ show = None
    /\ admin = None /\ served = None /\ cut = None /\ old = None /\ shows = None
    /\ bannerEdits = None /\ bannerFaults = None
RankingsRest ==
    /\ view = None /\ published = None /\ writer = None /\ version = None /\ cache = None
    /\ building = None /\ reader = None /\ raised = None /\ slow = None /\ begun = None
    /\ catalogueChanges = None /\ cacheFaults = None
SplitsRest ==
    /\ income = None /\ payouts = None /\ disturbed = None

Init ==
    /\ part \in Parts
    /\ IF part = "notices" THEN Notices!Init ELSE NoticesRest
    /\ IF part = "mixes" THEN Mixing!Init ELSE MixesRest
    /\ IF part = "toggles" THEN Toggling!Init ELSE TogglesRest
    /\ IF part = "visits" THEN Visits!Init ELSE VisitsRest
    /\ IF part = "lists" THEN Lists!Init ELSE ListsRest
    /\ IF part = "banners" THEN Banner!Init ELSE BannersRest
    /\ IF part = "rankings" THEN Rankings!Init ELSE RankingsRest
    /\ IF part = "splits" THEN Splits!Init ELSE SplitsRest

Next ==
    \/ /\ part = "notices" /\ Notices!Next
       /\ UNCHANGED <<part, MixVars, ToggleVars, VisitVars, ListVars, BannerVars, RankingVars, SplitVars>>
    \/ /\ part = "mixes" /\ Mixing!Next
       /\ UNCHANGED <<part, NoticeVars, ToggleVars, VisitVars, ListVars, BannerVars, RankingVars, SplitVars>>
    \/ /\ part = "toggles" /\ Toggling!Next
       /\ UNCHANGED <<part, NoticeVars, MixVars, VisitVars, ListVars, BannerVars, RankingVars, SplitVars>>
    \/ /\ part = "visits" /\ Visits!Next
       /\ UNCHANGED <<part, NoticeVars, MixVars, ToggleVars, ListVars, BannerVars, RankingVars, SplitVars>>
    \/ /\ part = "lists" /\ Lists!Next
       /\ UNCHANGED <<part, NoticeVars, MixVars, ToggleVars, VisitVars, BannerVars, RankingVars, SplitVars>>
    \/ /\ part = "banners" /\ Banner!Next
       /\ UNCHANGED <<part, NoticeVars, MixVars, ToggleVars, VisitVars, ListVars, RankingVars, SplitVars>>
    \/ /\ part = "rankings" /\ Rankings!Next
       /\ UNCHANGED <<part, NoticeVars, MixVars, ToggleVars, VisitVars, ListVars, BannerVars, SplitVars>>
    \/ /\ part = "splits" /\ Splits!Next
       /\ UNCHANGED <<part, NoticeVars, MixVars, ToggleVars, VisitVars, ListVars, BannerVars, RankingVars>>

Spec == Init /\ [][Next]_vars

Symmetry == Permutations(Actors) \cup Permutations(Items)

-----------------------------------------------------------------------------
(* Types. Overlapping callbacks leave one recent row of a text; an unread row *)
(* was pushed, is on its way or its event was lost; an open socket knows      *)
(* every unread row; the present status has been announced, or will be        *)
(* (notification_service.py:73, consumers.py:92, signals.py:569).             *)
NoticesReach == part = "notices" => Notices!TypeOK /\ Notices!OneRecent /\ Notices!UnreadPushed /\ Notices!SocketKnows /\ Notices!StatusTold

(* Types. No pass of the clean-up deletes a row it had seen stamped within    *)
(* the hour, nor one ever opened or kept since it was last rewritten          *)
(* (recommendation_runtime.py:369, 374).                                      *)
MixesKept == part = "mixes" => Mixing!TypeOK /\ Mixing!StampedKept /\ Mixing!UsedKept

(* Types. Taps that name one state reach it, a lone tap has its effect and    *)
(* does not fail (serializers.py:792, views.py:3338).                         *)
TapsAgree == part = "toggles" => Toggling!TypeOK /\ Toggling!WishReached /\ Toggling!LoneTapSucceeds

(* Types. A touched item has one row of the history, and the pages are slices *)
(* of the whole of their sources (views.py:691, 1462, 1533, 1391).            *)
HistoryWhole == part = "visits" => Visits!TypeOK /\ Visits!OneEntry /\ Visits!PagesWhole

(* Types. A playlist shows every linked song once, in its order, and a song   *)
(* that was added stays until it is taken out (serializers.py:2336,           *)
(* views.py:4352).                                                            *)
PlaylistsWhole == part = "lists" => Lists!TypeOK /\ Lists!ShownWhole /\ Lists!AddedStays

(* Types. The total agrees with the views counted; no banner that is switched *)
(* off is served, and none is refused while one is active, but for an old     *)
(* list (views.py:3986, 4007, 4036).                                          *)
BannersCounted == part = "banners" => Banner!TypeOK /\ Banner!TotalAgrees /\ Banner!ServedActive /\ Banner!BannerShown

(* Types. A list shows a song as the catalogue has it if its last change was  *)
(* announced, and one request at a time builds an entry (signals.py:853,      *)
(* views.py:5796).                                                            *)
ListsCurrent == part = "rankings" => Rankings!TypeOK /\ Rankings!AnswerCurrent /\ Rankings!OneBuilds

(* Types. No song is charged with more than it has earned, a new amount is    *)
(* split to the last quantum, and a payout that counts keeps the split it was *)
(* requested with (views.py:349, 386, 407).                                *)
SplitsHold == part = "splits" => Splits!TypeOK /\ Splits!SplitSound /\ Splits!HistoryStable
=============================================================================
