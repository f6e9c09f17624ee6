--------------------------- MODULE BannerRotation ---------------------------
(***************************************************************************)
(* The public banner: a cached list of the active ones, a shared cursor in  *)
(* Redis, durable counters, and a locked fallback in the database, while    *)
(* administrators switch banners on and off, edit and delete them.          *)
(***************************************************************************)
EXTENDS Naturals, Sequences, FiniteSets, Functions

CONSTANTS
    Banners,     \* keys
    Requests,    \* public requests under way at once
    Admins,      \* administrators' requests under way at once
    NoList,      \* the cache has no list
    NoRow,       \* there is no row of the total yet
    MaxServes, MaxEdits, MaxFaults   \* bounds on the requests, edits and faults of a behaviour

VARIABLES
    banner,    \* Banners -> row
    total,     \* BannerAdServeCounter.total_serves
    cached,    \* banner-active-ids:v2
    cursor,    \* sedabox:banner-rotation:v2
    request,   \* Requests -> public request
    admin,     \* Admins -> administrator's request
    served,    \* views that were counted
    cut,       \* requests that died between the two counters
    old,       \* the cached list was not the active one when it was stored, or should have been deleted
    begun, changes, faults

vars == <<banner, total, cached, cursor, request, admin, served, cut, old, begun, changes, faults>>

States == {"none", "active", "inactive"}
Row == [state : States, view_count : Nat]

Steps == {"idle", "load", "store", "draw", "count", "total", "insert", "fetch", "forget", "clear", "choose", "commit",
          "served", "nothing", "error"}
\* some: a banner has been active since the request began; excused: it met an old list; found: as ad was counted
Idle == [pc |-> "idle", ids |-> <<>>, ad |-> 0, some |-> FALSE, excused |-> FALSE, found |-> "none"]
IdleAdmin == [pc |-> "idle", ad |-> 0, views |-> 0]

ActiveIn(rows) == {b \in Banners : rows[b].state = "active"}
\* In one order, always the same (the code's is that of their creation).
active_ids == CHOOSE ids \in Injection(1..Cardinality(ActiveIn(banner)), ActiveIn(banner)) : TRUE

At(q, pc) == request[q].pc = pc
Go(q, pc) == request' = [request EXCEPT ![q].pc = pc]
Fault == faults < MaxFaults /\ faults' = faults + 1
Pending == \E a \in Admins : admin[a].pc = "invalidate"
Locked == \E q \in Requests : At(q, "commit")

-----------------------------------------------------------------------------
(* _active_ids: the cached list, or a new one, which is cached.               *)
Start(q) ==
    /\ At(q, "idle") /\ begun < MaxServes
    /\ begun' = begun + 1
    /\ \E hit \in {FALSE, cached # NoList} :
        request' = [request EXCEPT ![q] =
            [Idle EXCEPT !.some = ActiveIn(banner) # {}, !.excused = hit /\ (old \/ Pending),
                !.ids = IF hit THEN cached ELSE <<>>,
                !.pc = IF ~hit THEN "load" ELSE IF cached = <<>> THEN "nothing" ELSE "draw"]]
    /\ UNCHANGED <<banner, total, cached, cursor, admin, served, cut, old, changes, faults>>

Load(q) ==
    /\ At(q, "load")
    /\ request' = [request EXCEPT ![q].pc = "store", ![q].ids = active_ids]
    /\ UNCHANGED <<banner, total, cached, cursor, admin, served, cut, old, begun, changes, faults>>

Store(q) ==
    /\ At(q, "store")
    /\ \/ cached' = request[q].ids /\ old' = (request[q].ids # active_ids) /\ UNCHANGED faults
       \/ Fault /\ UNCHANGED <<cached, old>>
    /\ Go(q, IF request[q].ids = <<>> THEN "nothing" ELSE "draw")
    /\ UNCHANGED <<banner, total, cursor, admin, served, cut, begun, changes>>

-----------------------------------------------------------------------------
(* _redis_path: the next of the list, if it is still active.                  *)
Draw(q) ==
    LET ids == request[q].ids IN
    /\ At(q, "draw")
    /\ cursor' = cursor + 1
    /\ request' = [request EXCEPT ![q].pc = "count", ![q].ad = ids[(cursor % Len(ids)) + 1]]
    /\ UNCHANGED <<banner, total, cached, admin, served, cut, old, begun, changes, faults>>

\* Redis is out of reach; the cursor may have moved.
DrawFails(q) ==
    /\ At(q, "draw") /\ Fault
    /\ cursor' \in {cursor, cursor + 1}
    /\ request' = [request EXCEPT ![q].pc = "clear", ![q].ids = <<>>]
    /\ UNCHANGED <<banner, total, cached, admin, served, cut, old, begun, changes>>

Takes(b) == banner[b].state = "active"

\* The conditional UPDATE of the view count.
Count(q) ==
    LET b == request[q].ad IN
    /\ At(q, "count")
    /\ IF Takes(b)
       THEN /\ banner' = [banner EXCEPT ![b].view_count = @ + 1]
            /\ served' = served + 1
            /\ request' = [request EXCEPT ![q].pc = "total", ![q].ids = <<>>, ![q].found = banner[b].state]
       ELSE request' = [request EXCEPT ![q].pc = "forget", ![q].ids = <<>>] /\ UNCHANGED <<banner, served>>
    /\ UNCHANGED <<total, cached, cursor, admin, cut, old, begun, changes, faults>>

\* Mutant: an insertion that another one was ahead of is given up.
AfterInsertOnce(t) == IF t = NoRow THEN 1 ELSE t
AfterInsert(t) == IF t = NoRow THEN 1 ELSE t + 1

\* _increment_durable_serve_counter: an UPDATE, without a row an INSERT, without success the UPDATE again.
Increment(q) ==
    /\ ~Locked
    /\ \/ /\ At(q, "total") /\ total = NoRow
          /\ Go(q, "insert") /\ UNCHANGED total
       \/ /\ At(q, "total") /\ total # NoRow
          /\ total' = total + 1 /\ Go(q, "fetch")
       \/ At(q, "insert") /\ total' = AfterInsert(total) /\ Go(q, "fetch")
    /\ UNCHANGED <<banner, cached, cursor, admin, served, cut, old, begun, changes, faults>>

Fetch(q) ==
    /\ At(q, "fetch")
    /\ request' = IF banner[request[q].ad].state = "none"
                  THEN [request EXCEPT ![q].pc = "clear", ![q].ad = 0, ![q].found = "none"]
                  ELSE [request EXCEPT ![q].pc = "served"]
    /\ UNCHANGED <<banner, total, cached, cursor, admin, served, cut, old, begun, changes, faults>>

-----------------------------------------------------------------------------
(* The fallback: the list is forgotten, the counter's row locked.             *)
Forget ==
    \/ cached' = NoList /\ old' = FALSE /\ UNCHANGED faults
    \/ Fault /\ old' = (cached # NoList) /\ UNCHANGED cached

AfterClear == "choose"

\* After a banner that was off the list is deleted twice.
Clear(q) ==
    /\ Forget
    /\ \/ At(q, "forget") /\ Go(q, "clear")
       \/ At(q, "clear") /\ Go(q, AfterClear)
    /\ UNCHANGED <<banner, total, cursor, admin, served, cut, begun, changes>>

Choose(q) ==
    LET ids == active_ids
        t == IF total = NoRow THEN 0 ELSE total IN
    /\ At(q, "choose") /\ ~Locked
    /\ total' = t
    /\ request' = IF ids = <<>> THEN [request EXCEPT ![q].pc = "nothing"]
                  ELSE [request EXCEPT ![q].pc = "commit", ![q].ad = ids[(t % Len(ids)) + 1], ![q].found = "active"]
    /\ UNCHANGED <<banner, cached, cursor, admin, served, cut, old, begun, changes, faults>>

\* Both counters in one transaction; a banner deleted meanwhile is an error.
Commit(q) ==
    LET b == request[q].ad IN
    /\ At(q, "commit")
    /\ IF banner[b].state # "none"
       THEN /\ banner' = [banner EXCEPT ![b].view_count = @ + 1]
            /\ total' = total + 1 /\ served' = served + 1
            /\ Go(q, "served")
       ELSE Go(q, "error") /\ UNCHANGED <<banner, total, served>>
    /\ UNCHANGED <<cached, cursor, admin, cut, old, begun, changes, faults>>

Answer(q) ==
    /\ request[q].pc \in {"served", "nothing", "error"}
    /\ request' = [request EXCEPT ![q] = Idle]
    /\ UNCHANGED <<banner, total, cached, cursor, admin, served, cut, old, begun, changes, faults>>

\* A process dies.
Crash(q) ==
    /\ ~At(q, "idle") /\ Fault
    /\ cut' = cut + (IF request[q].pc \in {"total", "insert"} THEN 1 ELSE 0)
    /\ request' = [request EXCEPT ![q] = Idle]
    /\ UNCHANGED <<banner, total, cached, cursor, admin, served, old, begun, changes>>

-----------------------------------------------------------------------------
(* Administrators: each save and deletion is followed by that of the list.    *)
Save(rows) ==
    /\ banner' = rows
    /\ request' = [q \in Requests |-> [request[q] EXCEPT !.some = @ /\ ActiveIn(rows) # {}]]

Begin(a) == admin[a].pc = "idle" /\ changes < MaxEdits /\ changes' = changes + 1

Create(a, b, state) ==
    /\ Begin(a) /\ banner[b] = [state |-> "none", view_count |-> 0]
    /\ Save([banner EXCEPT ![b].state = state])
    /\ admin' = [admin EXCEPT ![a].pc = "invalidate"]
    /\ UNCHANGED <<total, cached, cursor, served, cut, old, begun, faults>>

\* An edit saves the whole row it has read.
Read(a, b) ==
    /\ Begin(a) /\ banner[b].state # "none"
    /\ admin' = [admin EXCEPT ![a] = [pc |-> "save", ad |-> b, views |-> banner[b].view_count]]
    /\ UNCHANGED <<banner, total, cached, cursor, request, served, cut, old, begun, faults>>

Edit(a, state) ==
    /\ admin[a].pc = "save"
    /\ Save([banner EXCEPT ![admin[a].ad] = [state |-> state, view_count |-> admin[a].views]])
    /\ admin' = [admin EXCEPT ![a] = [IdleAdmin EXCEPT !.pc = "invalidate"]]
    /\ UNCHANGED <<total, cached, cursor, served, cut, old, begun, changes, faults>>

Delete(a, b) ==
    /\ Begin(a) /\ banner[b].state # "none"
    /\ Save([banner EXCEPT ![b].state = "none"])
    /\ admin' = [admin EXCEPT ![a].pc = "invalidate"]
    /\ UNCHANGED <<total, cached, cursor, served, cut, old, begun, faults>>

\* _invalidate_banner_active_cache; the process may die before it.
Invalidate(a) ==
    /\ admin[a].pc = "invalidate"
    /\ Forget
    /\ admin' = [admin EXCEPT ![a] = IdleAdmin]
    /\ UNCHANGED <<banner, total, cursor, request, served, cut, begun, changes>>

-----------------------------------------------------------------------------
Init ==
    /\ banner \in [Banners -> {[state |-> x, view_count |-> 0] : x \in States}]
    /\ total = NoRow /\ cached = NoList /\ cursor = 0
    /\ request = [q \in Requests |-> Idle]
    /\ admin = [a \in Admins |-> IdleAdmin]
    /\ served = 0 /\ cut = 0 /\ old = FALSE
    /\ begun = 0 /\ changes = 0 /\ faults = 0

Next ==
    \/ \E q \in Requests :
        \/ Start(q) \/ Load(q) \/ Store(q) \/ Draw(q) \/ DrawFails(q) \/ Count(q) \/ Increment(q) \/ Fetch(q)
        \/ Clear(q) \/ Choose(q) \/ Commit(q) \/ Answer(q) \/ Crash(q)
    \/ \E a \in Admins :
        \/ \E b \in Banners : Read(a, b) \/ Delete(a, b)
        \/ \E b \in Banners, x \in {"active", "inactive"} : Create(a, b, x)
        \/ \E x \in {"active", "inactive"} : Edit(a, x)
        \/ Invalidate(a)

Spec == Init /\ [][Next]_vars

-----------------------------------------------------------------------------
(* Every variable keeps its type. *)
TypeOK ==
    /\ banner \in [Banners -> Row]
    /\ total \in Nat \cup {NoRow}
    /\ cached = NoList \/ cached \in Seq(Banners)
    /\ \A q \in Requests : request[q].pc \in Steps /\ request[q].ids \in Seq(Banners) /\ request[q].found \in States
    /\ \A a \in Admins : admin[a].pc \in {"idle", "save", "invalidate"}
    /\ cursor \in Nat /\ served \in Nat /\ cut \in Nat /\ old \in BOOLEAN

(* The total is the number of the views that were counted, but for those on    *)
(* their way to it and those of a process that died (views.py:3986             *)
(* _increment_durable_serve_counter: durable serve/view counts).                *)
TotalAgrees ==
    served = (IF total = NoRow THEN 0 ELSE total) + cut
             + Cardinality({q \in Requests : request[q].pc \in {"total", "insert"}})

(* A banner that was switched off is not served, whatever list the request has  *)
(* (views.py:4007 updated).                                                     *)
ServedActive == \A q \in Requests : At(q, "served") => request[q].found = "active"

(* While there is an active banner one is served: "No banner" is answered only   *)
(* by a list that a slow request stored or that is still to be deleted           *)
(* (views.py:4036 get).                                                          *)
BannerShown == \A q \in Requests : At(q, "nothing") /\ request[q].some => request[q].excused
=============================================================================
