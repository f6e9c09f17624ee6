------------------------------ MODULE Accounts ------------------------------
(***************************************************************************)
(* The row of one user: its subscription, quality, roles and ban.  A        *)
(* handler reads the row whole and later saves all of it, or the columns    *)
(* it names, from that copy; only a payment and the acceptance of an artist *)
(* lock the row first.  A subscription ends when its time is over: the next *)
(* request that reads the row takes the plan back.                          *)
(***************************************************************************)
EXTENDS Naturals

CONSTANTS
    Requests,    \* requests under way at once
    AdminColumns,\* the columns administrators change
    MaxPeriods,  \* paid periods, the later of which end later (a bound)
    MaxBegun     \* requests of a behaviour (a bound)

VARIABLES
    account,     \* the row
    paid,        \* payments: the last one's period is the one paid for
    ended,       \* periods that are over
    request,     \* Requests -> the handler under way
    intact,      \* since the last payment no administrator set the plan, and no older copy was saved
    begun

vars == <<account, paid, ended, request, intact, begun>>

Columns == {"plan", "settings", "quality", "roles", "banned"}
Roles == {"audience", "artist"}
\* period: the payment whose time the settings hold, 0 for none; stacked: by an older
\* version, which added the time to what was left.
Settings == [period : 0..MaxPeriods, stacked : BOOLEAN]
NoSettings == [period |-> 0, stacked |-> FALSE]
Account == [plan : {"free", "premium"}, settings : Settings,
            quality : {"medium", "high"}, roles : SUBSET Roles, banned : BOOLEAN]

Signed == {"profile", "quality", "stream", "password", "pay"}
Kinds == Signed \cup {"login", "register", "verify", "reset", "ban", "admin"}
\* Handlers that save every column; the others name the columns.
Whole == {"profile", "password", "reset", "admin"}
\* Handlers that answer with the user, whose serializer normalizes the plan.
Answering == {"profile", "login", "verify"}

\* copy: the row as read and changed; means: the columns it changes; stale: those changed since it was read.
Request == [pc : {"idle", "normalize", "act", "save", "answer"}, kind : Kinds \cup {"none"}, copy : Account,
            means : SUBSET Columns, stale : SUBSET Columns]
NoAccount == [plan |-> "free", settings |-> NoSettings, quality |-> "medium", roles |-> {}, banned |-> FALSE]
Idle == [pc |-> "idle", kind |-> "none", copy |-> NoAccount, means |-> {}, stale |-> {}]

At(q, pc) == request[q].pc = pc
Kind(q) == request[q].kind
Copy(q) == request[q].copy
Go(q, r) == request' = [request EXCEPT ![q] = r]
With(row, columns, copy) == [c \in Columns |-> IF c \in columns THEN copy[c] ELSE row[c]]

\* A change of columns makes the copies of all other requests stale.
GoStale(q, r, columns) ==
    request' = [o \in Requests |-> IF o = q THEN r ELSE IF At(o, "idle") THEN Idle
                                   ELSE [request[o] EXCEPT !.stale = @ \cup columns]]
Subscription == {"plan", "settings"}

-----------------------------------------------------------------------------
(* normalize_expired_premium: whether a copy has to be saved, and as what.    *)
\* Mutant: the period under way counts as over.
OverEarly(copy) == copy.settings.period # 0 /\ copy.settings.period <= ended + 1
Over(copy) == copy.settings.period # 0 /\ copy.settings.period <= ended
Due(copy) == copy.plan = "premium" /\ (Over(copy) \/ copy.settings.stacked)
Normal(copy) == IF Over(copy) THEN [copy EXCEPT !.plan = "free", !.settings = NoSettings]
                ELSE [copy EXCEPT !.settings.stacked = FALSE]
NormalColumns(copy) == IF Over(copy) THEN {"plan", "settings"} ELSE {"settings"}

\* What follows is request r, which keeps the normalized copy.
Normalized(q, r) ==
    IF Due(Copy(q))
    THEN LET columns == NormalColumns(Copy(q)) IN
         /\ account' = With(account, columns, Normal(Copy(q)))
         /\ intact' = (intact /\ columns \cap request[q].stale = {})
         /\ GoStale(q, IF r = Idle THEN Idle ELSE [r EXCEPT !.copy = Normal(Copy(q))], columns)
    ELSE Go(q, r) /\ UNCHANGED <<account, intact>>

Normalize(q) ==
    /\ At(q, "normalize")
    /\ Normalized(q, [request[q] EXCEPT !.pc = "act"])
    /\ UNCHANGED <<paid, ended, begun>>

Answer(q) ==
    /\ At(q, "answer")
    /\ Normalized(q, Idle)
    /\ UNCHANGED <<paid, ended, begun>>

-----------------------------------------------------------------------------
(* The row is read: by the token, or by the telephone number or identifier.   *)
Read(q, kind, pc, copy, means) ==
    /\ At(q, "idle") /\ begun < MaxBegun
    /\ Go(q, [Idle EXCEPT !.pc = pc, !.kind = kind, !.copy = copy, !.means = means])
    /\ begun' = begun + 1
    /\ UNCHANGED <<account, paid, ended, intact>>

Authenticate(q, kind) == ~account.banned /\ Read(q, kind, "normalize", account, {})

\* A password login counts attempts, in other columns.
Login(q) == ~account.banned /\ Read(q, "login", "save", account, {})
Register(q) ==
    /\ "audience" \notin account.roles
    /\ Read(q, "register", "save", [account EXCEPT !.roles = @ \cup {"audience"}], {"roles"})
Verify(q, artist) ==
    /\ ~account.banned
    /\ Read(q, "verify", "save", [account EXCEPT !.roles = IF artist THEN @ \cup {"artist"} ELSE @],
            IF artist THEN {"roles"} ELSE {})
Reset(q) == ~account.banned /\ Read(q, "reset", "save", account, {})
Ban(q, banned) == Read(q, "ban", "save", [account EXCEPT !.banned = banned], {"banned"})
Administer(q, column, copy) == column \in AdminColumns /\ Read(q, "admin", "save", copy, {column})

\* With the user of the request, its plan taken back if it was over.
Act(q, kind, r) ==
    /\ At(q, "act") /\ Kind(q) = kind
    /\ Go(q, r)
    /\ UNCHANGED <<account, paid, ended, intact, begun>>

PatchProfile(q) == Act(q, "profile", [request[q] EXCEPT !.pc = "save"])
ChangePassword(q) == Act(q, "password", [request[q] EXCEPT !.pc = "save"])

\* Both views refuse the high quality to who has no subscription.
Choice(q, quality) ==
    IF quality = "high" /\ Copy(q).plan # "premium" THEN Idle
    ELSE [request[q] EXCEPT !.pc = "save", !.copy.quality = quality, !.means = {"quality"}]
ChooseQuality(q, quality) == Act(q, "quality", Choice(q, quality))
PatchQuality(q, quality) == Act(q, "profile", Choice(q, quality))
PatchRoles(q, roles) ==
    Act(q, "profile", [request[q] EXCEPT !.pc = "save", !.copy.roles = roles, !.means = {"roles"}])

\* _get_stream_response: the quality of the copy chooses the file.
Stream(q) == Act(q, "stream", Idle)

\* Mutant: every handler saves the whole row.
SavedWhole(q) == Columns
Saved(q) == IF Kind(q) \in Whole THEN Columns ELSE request[q].means

Save(q) ==
    LET saved == With(account, Saved(q), Copy(q)) IN
    /\ At(q, "save")
    /\ account' = saved
    /\ intact' = (intact /\ Saved(q) \cap request[q].stale \cap Subscription = {}
                  /\ (Kind(q) = "admin" => "plan" \notin request[q].means))
    /\ GoStale(q, IF Kind(q) \in Answering THEN [request[q] EXCEPT !.pc = "answer"] ELSE Idle,
               request[q].means \cup {c \in Columns : saved[c] # account[c]})
    /\ UNCHANGED <<paid, ended, begun>>

-----------------------------------------------------------------------------
(* In one transaction that locks the row and reads it again.                  *)
PaidFor == [account EXCEPT !.plan = "premium", !.settings = [period |-> paid + 1, stacked |-> FALSE]]

Activate(q) ==
    /\ At(q, "act") /\ Kind(q) = "pay" /\ paid < MaxPeriods
    /\ account' = PaidFor
    /\ GoStale(q, Idle, Subscription)
    /\ paid' = paid + 1 /\ intact' = TRUE
    /\ UNCHANGED <<ended, begun>>

\* provision_artist_profile adds the role of an artist.
Provision ==
    /\ "artist" \notin account.roles
    /\ account' = [account EXCEPT !.roles = @ \cup {"artist"}]
    /\ request' = [o \in Requests |-> IF At(o, "idle") THEN Idle
                                      ELSE [request[o] EXCEPT !.stale = @ \cup {"roles"}]]
    /\ UNCHANGED <<paid, ended, intact, begun>>

\* Thirty days since a payment have passed.
End ==
    /\ ended < paid
    /\ ended' = ended + 1
    /\ UNCHANGED <<account, paid, request, intact, begun>>

-----------------------------------------------------------------------------
(* The subscriptions of the older version have a period and may be stacked;   *)
(* the oldest have none and do not end.                                      *)
Init ==
    /\ \E plan \in {"free", "premium"}, period \in {0, 1}, stacked \in BOOLEAN, role \in Roles :
        /\ plan = "free" => period = 0
        /\ period = 0 => ~stacked
        /\ account = [plan |-> plan, settings |-> [period |-> period, stacked |-> stacked], quality |-> "medium",
                      roles |-> {role}, banned |-> FALSE]
        /\ paid = period
    /\ ended = 0
    /\ request = [q \in Requests |-> Idle]
    /\ intact = TRUE /\ begun = 0

Next ==
    \/ \E q \in Requests :
        \/ \E kind \in Signed : Authenticate(q, kind)
        \/ Login(q) \/ Register(q) \/ Reset(q)
        \/ \E b \in BOOLEAN : Verify(q, b) \/ Ban(q, b)
        \/ \E plan \in {"free", "premium"} : Administer(q, "plan", [account EXCEPT !.plan = plan])
        \/ \E roles \in SUBSET Roles :
            Administer(q, "roles", [account EXCEPT !.roles = roles]) \/ PatchRoles(q, roles)
        \/ \E quality \in {"medium", "high"} : ChooseQuality(q, quality) \/ PatchQuality(q, quality)
        \/ \E quality \in {"medium", "high"} :
            Administer(q, "quality", [account EXCEPT !.quality = quality])
        \/ \E banned \in BOOLEAN : Administer(q, "banned", [account EXCEPT !.banned = banned])
        \/ Normalize(q) \/ PatchProfile(q) \/ ChangePassword(q) \/ Stream(q) \/ Activate(q) \/ Save(q) \/ Answer(q)
    \/ Provision \/ End

Spec == Init /\ [][Next]_vars

-----------------------------------------------------------------------------
(* Every variable keeps its type. *)
TypeOK ==
    /\ account \in Account
    /\ paid \in 0..MaxPeriods /\ ended \in 0..paid
    /\ request \in [Requests -> Request]
    /\ intact \in BOOLEAN /\ begun \in 0..MaxBegun

(* A handler changes the columns it is about.  Another column it only sets back *)
(* when it saves the whole row and has read it before that column changed: no  *)
(* login, verification, chosen quality or end of a subscription undoes a ban or *)
(* a role (signals aside, each save names its update_fields).                  *)
Meant ==
    \A q \in Requests, c \in {"quality", "roles", "banned"} :
        At(q, "save") /\ ~At(q, "save")' /\ account'[c] # account[c]
        => c \in request[q].means \/ (Kind(q) \in Whole /\ c \in request[q].stale)

(* Until the thirty days of the last payment are over the user is premium and  *)
(* the settings hold its period, whatever was paid before (subscriptions.py:94 *)
(* Reset Premium to exactly 30 days from this successful payment), unless an   *)
(* administrator set the plan or a copy read before the payment was saved.    *)
PaidPremium == intact /\ paid > ended => account.plan = "premium" /\ account.settings.period = paid

(* views.py:1248: High quality streaming is only available for premium users. *)
HighForPremium ==
    \A q \in Requests :
        At(q, "act") /\ Kind(q) = "stream" /\ Copy(q).quality = "high" => Copy(q).plan = "premium"
=============================================================================
