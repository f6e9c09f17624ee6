--------------------------- MODULE DeviceSessions ---------------------------
(***************************************************************************)
(* The device sessions of one user: RefreshToken rows that a login creates *)
(* or takes over, that a refresh rotates, and that logout, revocation, a   *)
(* change of password and the maintenance worker put out of use.           *)
(*                                                                         *)
(* A device is recognised by what its request says of it (user agent,      *)
(* address, device name): its identity, which changes when the device      *)
(* moves to another network and which two devices may share.  Statements   *)
(* run in autocommit except for the rotation, which holds the row's lock   *)
(* from its check to its commit; a statement that writes a locked row      *)
(* waits for it.                                                           *)
(***************************************************************************)
EXTENDS Naturals, FiniteSets

CONSTANTS
    Requests,    \* requests in progress at once (a bound)
    Faulty,      \* requests an exception or a crash may end
    Identities, NoIdentity,
    MaxRow,      \* last session row (a bound)
    MaxToken     \* last refresh token (a bound)

ASSUME BoundAssumption == MaxRow \in Nat /\ MaxToken \in Nat
ASSUME RequestAssumption == Faulty \subseteq Requests /\ NoIdentity \notin Identities

VARIABLES
    session,    \* Rows -> RefreshToken row; a higher row is a newer one
    issued,     \* the last refresh token signed
    request,    \* Requests -> state of the handler
    purge,      \* rows the maintenance worker has selected
    exchanged,  \* Tokens -> how often the token was rotated
    ended       \* tokens of sessions that were revoked or deleted under them

vars == <<session, issued, request, purge, exchanged, ended>>

Rows == 1..MaxRow
Tokens == 1..MaxToken

Lifetimes == {"unborn", "live", "deleted"}

\* token 0 is the empty hash of a row whose login has not signed its token yet.
Session == [life : Lifetimes, ident : Identities \cup {NoIdentity}, token : 0..MaxToken,
            revoked : BOOLEAN, expired : BOOLEAN, locked : BOOLEAN]

Steps == {"idle", "create", "prune", "save", "lock", "rotate",
          "logout", "revoke", "others", "change"}

Handler == [pc : Steps, row : 0..MaxRow, ident : Identities \cup {NoIdentity},
            token : 0..MaxToken]

NoSession == [life |-> "unborn", ident |-> NoIdentity, token |-> 0,
              revoked |-> FALSE, expired |-> FALSE, locked |-> FALSE]
NoRequest == [pc |-> "idle", row |-> 0, ident |-> NoIdentity, token |-> 0]

-----------------------------------------------------------------------------
Live == {s \in Rows : session[s].life = "live"}
Unrevoked == {s \in Live : ~session[s].revoked}

\* revoked_at IS NULL and expires_at > now
Usable == {s \in Unrevoked : ~session[s].expired}
Free(s) == ~session[s].locked

SameDevice(i) == {s \in Live : session[s].ident = i}
Matching(t) == {s \in Usable : session[s].token = t}
Newest(S) == {s \in S : \A r \in S : r <= s}

Idle(q) == request[q].pc = "idle"
At(q, step) == request[q].pc = step
Become(q, step, s, i, t) ==
    request' = [request EXCEPT ![q] = [pc |-> step, row |-> s, ident |-> i, token |-> t]]
Goto(q, step, s) == request' = [request EXCEPT ![q] = [@ EXCEPT !.pc = step, !.row = s]]
Respond(q) == request' = [request EXCEPT ![q] = NoRequest]

\* Rows written off together, each of them free when the statement gets to it.
Revoke(S) ==
    /\ \A s \in S : Free(s)
    /\ session' = [s \in Rows |-> IF s \in S THEN [session[s] EXCEPT !.revoked = TRUE]
                                  ELSE session[s]]
    /\ ended' = ended \cup {session[s].token : s \in S}

Delete(S) ==
    /\ \A s \in S : Free(s)
    /\ session' = [s \in Rows |-> IF s \in S THEN [NoSession EXCEPT !.life = "deleted"]
                                  ELSE session[s]]
    /\ ended' = ended \cup {session[s].token : s \in S}

Init ==
    /\ session = [s \in Rows |-> NoSession]
    /\ issued = 0
    /\ request = [q \in Requests |-> NoRequest]
    /\ purge = {}
    /\ exchanged = [t \in Tokens |-> 0]
    /\ ended = {}

-----------------------------------------------------------------------------
(* issue_tokens_for_user, after the password or the code was accepted.     *)

\* The newest session of this device, whatever its state.
LoginFind(q, i) ==
    /\ Idle(q)
    /\ \/ SameDevice(i) = {} /\ Become(q, "create", 0, i, 0)
       \/ \E s \in Newest(SameDevice(i)) : Become(q, "prune", s, i, 0)
    /\ UNCHANGED <<session, issued, purge, exchanged, ended>>

LoginCreate(q) ==
    /\ At(q, "create")
    /\ \E s \in Rows :
         /\ session[s].life = "unborn"
         /\ \A r \in Rows : r < s => session[r].life # "unborn"
         /\ session' = [session EXCEPT ![s] = [@ EXCEPT !.life = "live",
                                                        !.ident = request[q].ident]]
         /\ Goto(q, "save", s)
    /\ UNCHANGED <<issued, purge, exchanged, ended>>

LoginPrune(q) ==
    /\ At(q, "prune")
    /\ Delete(SameDevice(request[q].ident) \ {request[q].row})
    /\ Goto(q, "save", request[q].row)
    /\ UNCHANGED <<issued, purge, exchanged>>

\* Mutant: the hash is stored when the row is created only.
SignedInAtCreation(row, t) ==
    [row EXCEPT !.token = IF @ = 0 THEN t ELSE @, !.revoked = FALSE, !.expired = FALSE]

\* Mutant: the hash of a token that was never signed.
SignedInNextHash(row, t) == [row EXCEPT !.token = t + 1, !.revoked = FALSE, !.expired = FALSE]

SignedIn(row, t) == [row EXCEPT !.token = t, !.revoked = FALSE, !.expired = FALSE]

LoginSave(q) ==
    /\ At(q, "save")
    /\ LET s == request[q].row IN
         /\ s \in Live /\ Free(s)
         /\ issued < MaxToken /\ issued' = issued + 1
         /\ session' = [session EXCEPT ![s] = SignedIn(@, issued + 1)]
         /\ Respond(q)
    /\ UNCHANGED <<purge, exchanged, ended>>

\* save(update_fields=...) raises when the row is gone.
LoginLost(q) ==
    /\ At(q, "save") /\ request[q].row \notin Live
    /\ Respond(q)
    /\ UNCHANGED <<session, issued, purge, exchanged, ended>>

-----------------------------------------------------------------------------
(* TokenRefreshView.post                                                   *)

RefreshMatch(q, t, i) ==
    /\ Idle(q)
    /\ \E s \in Matching(t) : Become(q, "lock", s, i, t)
    /\ UNCHANGED <<session, issued, purge, exchanged, ended>>

\* Mutant: no FOR UPDATE.
NoLock(s) == TRUE

Lockable(s) == Free(s)

\* Mutant: only the hash is checked again.
RecheckHash(s, t) == s \in Live /\ session[s].token = t

Recheck(s, t) == s \in Matching(t)

RefreshLock(q) ==
    /\ At(q, "lock") /\ Lockable(request[q].row)
    /\ LET s == request[q].row IN
         IF Recheck(s, request[q].token)
         THEN session' = [session EXCEPT ![s].locked = TRUE] /\ Goto(q, "rotate", s)
         ELSE Respond(q) /\ UNCHANGED session
    /\ UNCHANGED <<issued, purge, exchanged, ended>>

\* The row takes the new hash, thirty more days and the request's identity.
Rotated(row, t, i) ==
    [row EXCEPT !.token = t, !.expired = FALSE, !.ident = i, !.locked = FALSE]

RefreshRotate(q) ==
    /\ At(q, "rotate")
    /\ issued < MaxToken /\ issued' = issued + 1
    /\ session' = [session EXCEPT ![request[q].row] = Rotated(@, issued + 1, request[q].ident)]
    /\ exchanged' = [exchanged EXCEPT ![request[q].token] = @ + 1]
    /\ Respond(q)
    /\ UNCHANGED <<purge, ended>>

-----------------------------------------------------------------------------
(* LogoutView, SessionRevokeView, SessionRevokeOtherView                   *)

LogoutMatch(q, t) ==
    /\ Idle(q)
    /\ \E s \in Matching(t) : Become(q, "logout", s, NoIdentity, 0)
    /\ UNCHANGED <<session, issued, purge, exchanged, ended>>

\* By primary key: the token the row holds now need not be the one matched.
LogoutRevoke(q) ==
    /\ At(q, "logout")
    /\ Revoke({request[q].row} \cap Unrevoked)
    /\ Respond(q)
    /\ UNCHANGED <<issued, purge, exchanged>>

RevokeFind(q, current, s) ==
    /\ Idle(q)
    /\ current \in Usable /\ s \in Live \ {current}
    /\ Become(q, "revoke", s, NoIdentity, 0)
    /\ UNCHANGED <<session, issued, purge, exchanged, ended>>

\* Without effect, and answered with an error, when the row is gone.
RevokeSave(q) ==
    /\ At(q, "revoke")
    /\ Revoke({request[q].row} \cap Live)
    /\ Respond(q)
    /\ UNCHANGED <<issued, purge, exchanged>>

OthersMatch(q, t) ==
    /\ Idle(q)
    /\ \E s \in Matching(t) : Become(q, "others", s, NoIdentity, 0)
    /\ UNCHANGED <<session, issued, purge, exchanged, ended>>

OthersRevoke(q) ==
    /\ At(q, "others")
    /\ Revoke(Usable \ {request[q].row})
    /\ Respond(q)
    /\ UNCHANGED <<issued, purge, exchanged>>

-----------------------------------------------------------------------------
(* Passwords, time and the maintenance worker                              *)

\* ChangePasswordView, authenticated by the access token of session s.
ChangeStart(q, s, i) ==
    /\ Idle(q) /\ s \in Usable
    /\ Become(q, "change", s, i, 0)
    /\ UNCHANGED <<session, issued, purge, exchanged, ended>>

ChangeRevoke(q) ==
    /\ At(q, "change")
    /\ Revoke(Unrevoked \ SameDevice(request[q].ident))
    /\ Respond(q)
    /\ UNCHANGED <<issued, purge, exchanged>>

\* PasswordResetView, and an administrator who blocks or changes an employee.
RevokeAll ==
    /\ Unrevoked # {} /\ Revoke(Unrevoked)
    /\ UNCHANGED <<issued, request, purge, exchanged>>

Expire(s) ==
    /\ s \in Live /\ ~session[s].expired
    /\ session' = [session EXCEPT ![s].expired = TRUE]
    /\ UNCHANGED <<issued, request, purge, exchanged, ended>>

\* cleanup_runtime_state: ids by their filter, then a deletion by primary key.
PurgeSelect ==
    /\ purge = {}
    /\ purge' = {s \in Live : session[s].expired} /\ purge' # {}
    /\ UNCHANGED <<session, issued, request, exchanged, ended>>

PurgeDelete ==
    /\ purge # {} /\ purge' = {}
    /\ Delete(purge \cap Live)
    /\ UNCHANGED <<issued, request, exchanged>>

\* An exception or a crash: what is not committed is rolled back.
Fail(q) ==
    /\ q \in Faulty /\ ~Idle(q)
    /\ session' = IF At(q, "rotate") THEN [session EXCEPT ![request[q].row].locked = FALSE]
                  ELSE session
    /\ Respond(q)
    /\ UNCHANGED <<issued, purge, exchanged, ended>>

-----------------------------------------------------------------------------
Login(q) == (\E i \in Identities : LoginFind(q, i)) \/ LoginCreate(q) \/ LoginPrune(q)
            \/ LoginSave(q) \/ LoginLost(q)

Refresh(q) == (\E t \in Tokens, i \in Identities : RefreshMatch(q, t, i))
              \/ RefreshLock(q) \/ RefreshRotate(q)

SignOut(q) == \/ \E t \in Tokens : LogoutMatch(q, t) \/ OthersMatch(q, t)
              \/ LogoutRevoke(q) \/ OthersRevoke(q)
              \/ (\E c, s \in Rows : RevokeFind(q, c, s)) \/ RevokeSave(q)

ChangePassword(q) == (\E s \in Rows, i \in Identities : ChangeStart(q, s, i)) \/ ChangeRevoke(q)

Next ==
    \/ \E q \in Requests : Login(q) \/ Refresh(q) \/ SignOut(q) \/ ChangePassword(q) \/ Fail(q)
    \/ RevokeAll
    \/ \E s \in Rows : Expire(s)
    \/ PurgeSelect \/ PurgeDelete

Spec == Init /\ [][Next]_vars

-----------------------------------------------------------------------------
\* Every variable holds what the columns and the handlers can hold.
TypeOK ==
    /\ session \in [Rows -> Session]
    /\ issued \in 0..MaxToken
    /\ request \in [Requests -> Handler]
    /\ purge \subseteq Rows
    /\ exchanged \in [Tokens -> Nat]
    /\ ended \subseteq 0..MaxToken

\* A refresh token is exchanged at most once, however many requests present it
\* together (the lock and the second check of TokenRefreshView.post).
RotatedOnce == \A t \in Tokens : exchanged[t] <= 1

\* Once its session was revoked or deleted under it, a token is never accepted
\* again, not even after a login has taken the row over.
EndedUnusable == \A t \in ended : t \in Tokens => Matching(t) = {}

\* ... nor is it exchanged by a refresh that had matched it before.
EndedNotExchanged == [][\A t \in ended \cap Tokens : exchanged'[t] = exchanged[t]]_vars
=============================================================================
