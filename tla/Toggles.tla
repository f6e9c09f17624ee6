------------------------------ MODULE Toggles ------------------------------
(***************************************************************************)
(* Likes, saves, follows and recorded download qualities: what one user    *)
(* has with one target.  A handler looks the relation up, decides what it  *)
(* should be and writes it in a later call; the client of a follow may     *)
(* name the state it wants.                                                *)
(***************************************************************************)
EXTENDS Naturals

CONSTANT Taps   \* requests under way at once

VARIABLES
    kind,       \* which of the views the taps are of
    relation,   \* what is stored
    tap,        \* Taps -> what the handler under way will write
    agreed,     \* what all the handlers since the relation was at rest lead to
    failed      \* a handler failed since it was at rest

vars == <<kind, relation, tap, agreed, failed>>

Rows == {"song like", "album like", "playlist like"}
Links == {"user playlist like", "playlist save"}
\* A follow is a row too, but made by get_or_create.
Kinds == Rows \cup Links \cup {"follow", "download"}
Values == {"off", "on", "128", "320"}
NoTap == "none"

UnderWay == {q \in Taps : tap[q] # NoTap}
Opposite == IF relation = "on" THEN "off" ELSE "on"

\* Mutant: the wish of the client is overlooked.
WantToggled(wish) == Opposite
Want(wish) == IF wish = "toggle" THEN Opposite ELSE wish

\* A tap that comes alone decides; one that asks for the same by name agrees.
Agreement(wish) ==
    IF UnderWay = {} THEN Want(wish) ELSE IF wish = agreed THEN agreed ELSE "any"

\* The handler finds its target and looks up what is stored.
Look(q, wish) ==
    /\ tap[q] = NoTap
    /\ tap' = [tap EXCEPT ![q] = Want(wish)]
    /\ agreed' = Agreement(wish)
    /\ failed' = (failed /\ UnderWay # {})
    /\ UNCHANGED <<kind, relation>>

LikeSong(q) == kind = "song like" /\ Look(q, "toggle")
LikeAlbum(q) == kind = "album like" /\ Look(q, "toggle")
LikePlaylist(q) == kind = "playlist like" /\ Look(q, "toggle")
LikeUserPlaylist(q) == kind = "user playlist like" /\ Look(q, "toggle")
SavePlaylist(q) == kind = "playlist save" /\ Look(q, "toggle")
Follow(q, wish) == kind = "follow" /\ wish \in {"toggle", "off", "on"} /\ Look(q, wish)
\* The row of a download is written here, its quality in the next call.
Download(q, quality) == kind = "download" /\ quality \in {"128", "320"} /\ Look(q, quality)

Write(q) ==
    /\ relation' = tap[q]
    /\ tap' = [tap EXCEPT ![q] = NoTap]
    /\ UNCHANGED <<kind, agreed>>

\* create() of a like that exists by now breaks its unique constraint.
WriteRow(q) ==
    /\ kind \in Rows /\ tap[q] # NoTap
    /\ failed' = (failed \/ (tap[q] = "on" /\ relation = "on"))
    /\ Write(q)

\* add(), remove() and get_or_create() take what is there; so does the cache.
WriteLink(q) ==
    /\ kind \notin Rows /\ tap[q] # NoTap
    /\ UNCHANGED failed
    /\ Write(q)

\* The request is lost before it writes; the client may try again.
Lose(q) ==
    /\ tap[q] # NoTap
    /\ agreed' = "any"
    /\ tap' = [tap EXCEPT ![q] = NoTap]
    /\ UNCHANGED <<kind, relation, failed>>

Init ==
    /\ kind \in Kinds
    /\ relation = "off"
    /\ tap = [q \in Taps |-> NoTap]
    /\ agreed = "any"
    /\ failed = FALSE

Next ==
    \E q \in Taps :
        \/ LikeSong(q) \/ LikeAlbum(q) \/ LikePlaylist(q) \/ LikeUserPlaylist(q) \/ SavePlaylist(q)
        \/ \E wish \in Values \cup {"toggle"} : Follow(q, wish) \/ Download(q, wish)
        \/ WriteRow(q) \/ WriteLink(q) \/ Lose(q)

Spec == Init /\ [][Next]_vars

-----------------------------------------------------------------------------
(* Every variable keeps its type. *)
TypeOK ==
    /\ kind \in Kinds
    /\ relation \in Values
    /\ tap \in [Taps -> Values \cup {NoTap}]
    /\ agreed \in Values \cup {"any"}
    /\ failed \in BOOLEAN

(* A lone tap has its effect, and taps that name one state reach it however   *)
(* they interleave (serializers.py:792: newer clients can safely retry        *)
(* without reversing the follow state).                                      *)
WishReached == UnderWay = {} /\ agreed # "any" => relation = agreed

(* Of taps on a like that overlap one may fail on the unique constraint        *)
(* (views.py:3338); one that came alone never does.                           *)
LoneTapSucceeds == failed /\ UnderWay = {} => agreed = "any"
=============================================================================
