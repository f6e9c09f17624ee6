---------------------------- MODULE StreamAccess ----------------------------
(***************************************************************************)
(* The StreamAccess table of one listener: signed stream grants that turn  *)
(* into rows when they are opened, the audio ads injected between songs,   *)
(* the one play a row may account for, and the maintenance worker that     *)
(* deletes old rows.  Every query of the code filters on the requesting    *)
(* user, so rows of two listeners never meet.                              *)
(*                                                                         *)
(* The database runs in autocommit: outside transaction.atomic() every     *)
(* ORM call is a transaction of its own, and requests of the same listener *)
(* interleave between them.  One action below is one such call.            *)
(***************************************************************************)
EXTENDS Naturals, FiniteSets

CONSTANTS
    Rows,          \* primary keys the table can hand out (a bound)
    Requests,      \* requests of the listener in progress at once (a bound)
    Faulty,        \* requests that an exception or a crash may end
    Grants,        \* signed stream URLs put on song cards
    NoRow, NoGrant,
    AdFrequency,   \* PlayConfiguration.ad_frequency
    AdsAvailable,  \* some AudioAd exists
    Plans,         \* values request.user.plan = 'premium' may take
    MaxDay,        \* last day of the model's clock (a bound)
    GrantMaxAge,   \* STREAM_GRANT_MAX_AGE_SECONDS, in days
    UnusedTTL,     \* STREAM_ACCESS_UNUSED_TTL_HOURS, in days
    AbandonedTTL,  \* STREAM_ACCESS_ABANDONED_TTL_DAYS
    UsedTTL        \* STREAM_ACCESS_USED_TTL_DAYS

ASSUME NullAssumption == NoRow \notin Rows /\ NoGrant \notin Grants
ASSUME AdAssumption == AdFrequency \in Nat /\ AdsAvailable \in BOOLEAN /\ Plans \subseteq BOOLEAN
ASSUME FaultAssumption == Faulty \subseteq Requests
ASSUME DayAssumption == {MaxDay, GrantMaxAge, UnusedTTL, AbandonedTTL, UsedTTL} \subseteq Nat

VARIABLES
    access,   \* Rows -> StreamAccess record
    request,  \* Requests -> state of the handler serving it
    sweep,    \* the maintenance worker: ids selected, not yet deleted
    today,    \* day, for created_at and the age of a grant
    clock,    \* timestamps for unwrapped_at, finer than a day
    served,   \* Rows -> whether the client was given the row's stream, and when
              \* the row had been marked if it was given without an ad
    plays     \* Rows -> PlayCount rows created for the row

vars == <<access, request, sweep, today, clock, served, plays>>

Lifetimes == {"unborn", "live", "deleted"}

Access ==
    [life : Lifetimes, grant : Grants \cup {NoGrant}, created : Nat,
     unwrapped : BOOLEAN, unwrapped_at : Nat,
     ad_required : BOOLEAN, ad_seen : BOOLEAN,
     one_time_used : BOOLEAN, locked : BOOLEAN]

\* How a request came to its row.
Routes == {"none", "link", "reissued", "ad"}

Steps == {"idle", "lookup", "create", "read", "reissue", "mark", "last_ad", "count",
          "assign", "serve", "ad_mark", "credit"}

Handler ==
    [pc : Steps, row : Rows \cup {NoRow}, grant : Grants \cup {NoGrant},
     premium : BOOLEAN, via : Routes, marked_at : Nat, last_ad_at : Nat]

Idle == [pc |-> "idle", row |-> NoRow, grant |-> NoGrant,
         premium |-> FALSE, via |-> "none", marked_at |-> 0, last_ad_at |-> 0]

-----------------------------------------------------------------------------
Live == {r \in Rows : access[r].life = "live"}
Unborn == {r \in Rows : access[r].life = "unborn"}

AdPending(r) == access[r].ad_required /\ ~access[r].ad_seen
PendingAds == {r \in Live : AdPending(r)}

\* Rows whose unwrapped_at is set and whose ad has been watched.
SeenAds == {r \in Live : /\ access[r].ad_required /\ access[r].ad_seen
                         /\ access[r].unwrapped_at > 0}

Newest == {r \in SeenAds : \A s \in SeenAds : access[r].unwrapped_at >= access[s].unwrapped_at}

\* Mutant: the query returns the row where its timestamp is meant.
LastAdAtRow == IF SeenAds = {} THEN {0} ELSE Newest

\* The newest unwrapped_at of a watched ad, 0 (None) when there is none: a set
\* of one timestamp.
LastAdAt == IF SeenAds = {} THEN {0} ELSE {access[r].unwrapped_at : r \in Newest}

\* The rows the aggregate since_last_ad counts.
SinceLastAd(at) == {r \in Live : access[r].unwrapped /\ access[r].unwrapped_at > at}

NewAccess(grant) ==
    [life |-> "live", grant |-> grant, created |-> today,
     unwrapped |-> FALSE, unwrapped_at |-> 0,
     ad_required |-> FALSE, ad_seen |-> FALSE,
     one_time_used |-> FALSE, locked |-> FALSE]

\* An UPDATE waits while another transaction holds the row.
Writable(r) == r \in Live => ~access[r].locked

Goto(q, step) == request' = [request EXCEPT ![q].pc = step]
Respond(q) == request' = [request EXCEPT ![q] = Idle]

Init ==
    /\ access = [r \in Rows |-> [life |-> "unborn", grant |-> NoGrant, created |-> 0,
                                 unwrapped |-> FALSE, unwrapped_at |-> 0,
                                 ad_required |-> FALSE, ad_seen |-> FALSE,
                                 one_time_used |-> FALSE, locked |-> FALSE]]
    /\ request = [q \in Requests |-> Idle]
    /\ sweep = {}
    /\ today = 0
    /\ clock = 0
    /\ served = [r \in Rows |-> [ever |-> FALSE, direct_at |-> 0]]
    /\ plays = [r \in Rows |-> 0]

-----------------------------------------------------------------------------
(* StreamShortRedirectView.get                                             *)

\* A card is serialized on day 0: its grant is valid up to GrantMaxAge.
GrantValid == today <= GrantMaxAge

\* The first query of the view: a pending ad blocks every link.  The plan is
\* the one the authentication step read.
OpenStart(q, step, r, g) ==
    /\ request[q].pc = "idle"
    /\ PendingAds = {}
    /\ \E premium \in Plans :
         request' = [request EXCEPT ![q] = [Idle EXCEPT !.pc = step, !.row = r,
                                                        !.grant = g, !.premium = premium,
                                                        !.via = "link"]]
    /\ UNCHANGED <<access, sweep, today, clock, served, plays>>

OpenGrant(q, g) == GrantValid /\ OpenStart(q, "lookup", NoRow, g)

\* Short links are handed out for rows that no grant stands for.
OpenShortLink(q, r) ==
    /\ access[r].life # "unborn" /\ access[r].grant = NoGrant
    /\ OpenStart(q, "read", r, NoGrant)

\* A link of another listener: a fresh row is issued and the client told to
\* open that one instead.
OpenForeignLink(q, r) ==
    /\ request[q].pc = "idle" /\ PendingAds = {}
    /\ r \in Unborn
    /\ access' = [access EXCEPT ![r] = NewAccess(NoGrant)]
    /\ UNCHANGED <<request, sweep, today, clock, served, plays>>

HolderOf(g) == {r \in Live : access[r].grant = g}

\* materialize_stream_grant: the row of this grant, if it has been opened.
GrantLookup(q) ==
    /\ request[q].pc = "lookup"
    /\ LET holders == HolderOf(request[q].grant) IN
         IF holders = {}
         THEN Goto(q, "create")
         ELSE \E r \in holders :
                request' = [request EXCEPT ![q] = [@ EXCEPT !.pc = "read", !.row = r]]
    /\ UNCHANGED <<access, sweep, today, clock, served, plays>>

\* The INSERT, or the row that won the unique index on unwrap_token.
GrantCreate(q) ==
    /\ request[q].pc = "create"
    /\ LET holders == HolderOf(request[q].grant) IN
         IF holders = {}
         THEN \E r \in Unborn :
                /\ access' = [access EXCEPT ![r] = NewAccess(request[q].grant)]
                /\ request' = [request EXCEPT ![q] = [@ EXCEPT !.pc = "read", !.row = r]]
         ELSE /\ \E r \in holders :
                   request' = [request EXCEPT ![q] = [@ EXCEPT !.pc = "read", !.row = r]]
              /\ UNCHANGED access
    /\ UNCHANGED <<sweep, today, clock, served, plays>>

\* The row is loaded; a deleted row is a 404, an opened one gets a new link.
ReadAccess(q) ==
    /\ request[q].pc = "read"
    /\ IF request[q].row \notin Live THEN Respond(q)
       ELSE Goto(q, IF access[request[q].row].unwrapped THEN "reissue" ELSE "mark")
    /\ UNCHANGED <<access, sweep, today, clock, served, plays>>

\* _create_stream_access for a link that has already been used.
Reissue(q) ==
    /\ request[q].pc = "reissue"
    /\ \E r \in Unborn :
         /\ access' = [access EXCEPT ![r] = NewAccess(NoGrant)]
         /\ request' = [request EXCEPT ![q] = [@ EXCEPT !.pc = "last_ad", !.row = r,
                                                        !.via = "reissued"]]
    /\ UNCHANGED <<sweep, today, clock, served, plays>>

\* save(update_fields=['unwrapped', 'unwrapped_at']); updating a row that has
\* been deleted raises and ends the request.
MarkUnwrapped(q) ==
    LET r == request[q].row IN
    /\ request[q].pc = "mark"
    /\ Writable(r)
    /\ IF r \in Live
       THEN /\ clock' = clock + 1
            /\ access' = [access EXCEPT ![r] = [@ EXCEPT !.unwrapped = TRUE,
                                                         !.unwrapped_at = clock']]
            /\ request' = [request EXCEPT ![q] = [@ EXCEPT !.pc = "last_ad", !.marked_at = clock']]
       ELSE Respond(q) /\ UNCHANGED <<access, clock>>
    /\ UNCHANGED <<sweep, today, served, plays>>

\* _stream_access_stats, first query.
ReadLastAd(q) ==
    /\ request[q].pc = "last_ad"
    /\ \E at \in LastAdAt :
         request' = [request EXCEPT ![q] = [@ EXCEPT !.pc = "count", !.last_ad_at = at]]
    /\ UNCHANGED <<access, sweep, today, clock, served, plays>>

\* Mutant: off by one on the frequency.
AdDueLate(q) ==
    /\ ~request[q].premium
    /\ AdFrequency > 0
    /\ Cardinality(SinceLastAd(request[q].last_ad_at)) > AdFrequency
    /\ AdsAvailable

AdDue(q) ==
    /\ ~request[q].premium
    /\ AdFrequency > 0
    /\ Cardinality(SinceLastAd(request[q].last_ad_at)) >= AdFrequency
    /\ AdsAvailable

\* _stream_access_stats, second query, and the decision taken on it.  A
\* reissued link with no ad due is answered without a stream.
CountSinceLastAd(q) ==
    /\ request[q].pc = "count"
    /\ IF AdDue(q) THEN Goto(q, "assign")
       ELSE IF request[q].via = "reissued" THEN Respond(q)
       ELSE Goto(q, "serve")
    /\ UNCHANGED <<access, sweep, today, clock, served, plays>>

\* save(update_fields=['ad_required', 'ad_seen', 'ad_submit_id', 'ad_object']).
AssignAd(q) ==
    LET r == request[q].row IN
    /\ request[q].pc = "assign"
    /\ Writable(r)
    /\ IF r \in Live
       THEN access' = [access EXCEPT ![r] = [@ EXCEPT !.ad_required = TRUE, !.ad_seen = FALSE]]
       ELSE UNCHANGED access
    /\ Respond(q)
    /\ UNCHANGED <<sweep, today, clock, served, plays>>

\* _get_stream_response: the signed URL and the play id reach the client.
Serve(q) ==
    /\ request[q].pc = "serve"
    /\ served' = [served EXCEPT ![request[q].row] =
                    [ever |-> TRUE, direct_at |-> IF request[q].via = "ad" THEN @.direct_at
                                                  ELSE request[q].marked_at]]
    /\ Respond(q)
    /\ UNCHANGED <<access, sweep, today, clock, plays>>

-----------------------------------------------------------------------------
(* AdSubmitView.post                                                       *)

\* The row of the submit id the client was given, its ad not yet seen.
AdSubmit(q, r) ==
    /\ request[q].pc = "idle"
    /\ r \in PendingAds
    /\ request' = [request EXCEPT ![q] = [Idle EXCEPT !.pc = "ad_mark", !.row = r,
                                                      !.via = "ad"]]
    /\ UNCHANGED <<access, sweep, today, clock, served, plays>>

\* save(update_fields=['ad_seen']), then the stream is returned.
AdMarkSeen(q) ==
    LET r == request[q].row IN
    /\ request[q].pc = "ad_mark"
    /\ Writable(r)
    /\ IF r \in Live
       THEN /\ access' = [access EXCEPT ![r].ad_seen = TRUE]
            /\ Goto(q, "serve")
       ELSE Respond(q) /\ UNCHANGED access
    /\ UNCHANGED <<sweep, today, clock, served, plays>>

-----------------------------------------------------------------------------
(* PlayCountView.post                                                      *)

\* Mutant: a plain SELECT in the place of SELECT ... FOR UPDATE.
LockableUnlocked(r) == r \in Live

\* FOR UPDATE waits for the transaction that holds the row.
Lockable(r) == r \in Live /\ ~access[r].locked

\* SELECT ... FOR UPDATE of the row by its play id, and the check on it.
PlayLock(q, r) ==
    /\ request[q].pc = "idle"
    /\ served[r].ever
    /\ Lockable(r)
    /\ ~access[r].one_time_used
    /\ access' = [access EXCEPT ![r].locked = TRUE]
    /\ request' = [request EXCEPT ![q] = [Idle EXCEPT !.pc = "credit", !.row = r]]
    /\ UNCHANGED <<sweep, today, clock, served, plays>>

\* PlayCount, the m2m row and one_time_used are committed together.
PlayCommit(q) ==
    LET r == request[q].row IN
    /\ request[q].pc = "credit"
    /\ access' = [access EXCEPT ![r] = [@ EXCEPT !.one_time_used = TRUE, !.locked = FALSE]]
    /\ plays' = [plays EXCEPT ![r] = @ + 1]
    /\ Respond(q)
    /\ UNCHANGED <<sweep, today, clock, served>>

\* An exception or the death of the process ends a request between two calls.
\* Committed calls stay; the open transaction of a play is rolled back.
Fail(q) ==
    /\ q \in Faulty
    /\ request[q].pc # "idle"
    /\ access' = IF request[q].pc = "credit"
                 THEN [access EXCEPT ![request[q].row].locked = FALSE]
                 ELSE access
    /\ Respond(q)
    /\ UNCHANGED <<sweep, today, clock, served, plays>>

-----------------------------------------------------------------------------
(* cleanup_runtime_state                                                   *)

\* Mutant: the cutoff is inclusive.
OlderInclusive(r, ttl) == today >= access[r].created + ttl

Older(r, ttl) == today > access[r].created + ttl

AdSettled(r) == ~access[r].ad_required \/ access[r].ad_seen

UnusedRows    == {r \in Live : AdSettled(r) /\ Older(r, UnusedTTL) /\ ~access[r].unwrapped}
AbandonedRows == {r \in Live : /\ AdSettled(r) /\ Older(r, AbandonedTTL)
                               /\ access[r].unwrapped /\ ~access[r].one_time_used}
UsedRows      == {r \in Live : AdSettled(r) /\ Older(r, UsedTTL) /\ access[r].one_time_used}

\* _delete_in_batches: ids are listed by the filtered query ...
SweepSelect ==
    /\ sweep = {}
    /\ \E rows \in {UnusedRows, AbandonedRows, UsedRows} : \E ids \in SUBSET rows :
         ids # {} /\ sweep' = ids
    /\ UNCHANGED <<access, request, today, clock, served, plays>>

\* ... and deleted by primary key alone.
SweepDelete ==
    /\ sweep # {}
    /\ \A r \in sweep : Writable(r)
    /\ access' = [r \in Rows |-> IF r \in sweep THEN [access[r] EXCEPT !.life = "deleted"]
                                 ELSE access[r]]
    /\ sweep' = {}
    /\ UNCHANGED <<request, today, clock, served, plays>>

\* A request and a sweep last less than a day.
NextDay ==
    /\ today < MaxDay
    /\ sweep = {} /\ \A q \in Requests : request[q].pc = "idle"
    /\ today' = today + 1
    /\ UNCHANGED <<access, request, sweep, clock, served, plays>>

-----------------------------------------------------------------------------
Step(q) ==
    \/ GrantLookup(q) \/ GrantCreate(q) \/ ReadAccess(q) \/ Reissue(q)
    \/ MarkUnwrapped(q) \/ ReadLastAd(q) \/ CountSinceLastAd(q) \/ AssignAd(q) \/ Serve(q)
    \/ AdMarkSeen(q)
    \/ PlayCommit(q) \/ Fail(q)

Next ==
    \/ \E q \in Requests, g \in Grants : OpenGrant(q, g)
    \/ \E q \in Requests, r \in Rows :
         OpenShortLink(q, r) \/ OpenForeignLink(q, r) \/ AdSubmit(q, r) \/ PlayLock(q, r)
    \/ \E q \in Requests : Step(q)
    \/ SweepSelect \/ SweepDelete
    \/ NextDay

Spec == Init /\ [][Next]_vars

-----------------------------------------------------------------------------
TypeOK ==
    /\ access \in [Rows -> Access]
    /\ request \in [Requests -> Handler]
    /\ sweep \subseteq Rows
    /\ today \in Nat /\ clock \in Nat
    /\ served \in [Rows -> [ever : BOOLEAN, direct_at : Nat]]
    /\ plays \in [Rows -> Nat]

\* A row accounts for at most one PlayCount, whatever requests race for it
\* and whichever of them fail, and the row says so: a play that is paid is
\* never lost from the row, a row marked used was paid (PlayCountView.post).
PlayedOnce ==
    \A r \in Rows : plays[r] = IF access[r].one_time_used THEN 1 ELSE 0

\* Why PlayedOnce holds: whoever is between the lock and the commit of a play
\* holds the row alone, the row is there and unused, and no play is recorded
\* for a key the table has not handed out (PlayCountView.post).
RowLockHeld ==
    /\ \A q \in Requests : request[q].pc = "credit" =>
         /\ request[q].row \in Live
         /\ access[request[q].row].locked /\ ~access[request[q].row].one_time_used
    /\ \A p, q \in Requests :
         (request[p].pc = "credit" /\ request[q].pc = "credit" /\ request[p].row = request[q].row)
           => p = q
    /\ \A r \in Unborn : ~access[r].one_time_used

\* A free listener with no ad waiting has heard fewer than AdFrequency streams
\* without an ad since the last one, however many requests interleave: each
\* marks its row before it counts (StreamShortRedirectView.get).
DirectSince(at) == {r \in Rows : served[r].direct_at > at}

AdBound ==
    (AdFrequency > 0 /\ AdsAvailable /\ Plans = {FALSE} /\ PendingAds = {})
        => \A at \in LastAdAt : Cardinality(DirectSince(at)) < AdFrequency

\* When no row is cleaned up before the grants that may stand for it expire, a
\* grant opens at most one row in its whole life, so that its song cannot be
\* opened and paid a second time by the same link.
GrantOneRow ==
    (\A ttl \in {UnusedTTL, AbandonedTTL, UsedTTL} : GrantMaxAge <= ttl)
        => \A g \in Grants : Cardinality({r \in Rows : access[r].grant = g}) <= 1
=============================================================================
