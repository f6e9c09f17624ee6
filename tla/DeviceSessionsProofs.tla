------------------------ MODULE DeviceSessionsProofs ------------------------
(***************************************************************************)
(* For any number of sessions, tokens and concurrent requests: a refresh   *)
(* token is exchanged at most once, and never again once its session was   *)
(* ended.                                                                  *)
(***************************************************************************)
EXTENDS DeviceSessions, TLAPS

Idents == Identities \cup {NoIdentity}

LEMMA SessionFields ==
    ASSUME NEW row \in Session
    PROVE  /\ row.life \in Lifetimes /\ row.ident \in Idents /\ row.token \in 0..MaxToken
           /\ row.revoked \in BOOLEAN /\ row.expired \in BOOLEAN /\ row.locked \in BOOLEAN
  BY DEF Session, Idents

LEMMA SignedInRow ==
    ASSUME NEW row \in Session, NEW t \in 0..MaxToken
    PROVE  /\ SignedIn(row, t) \in Session
           /\ SignedIn(row, t).token = t /\ SignedIn(row, t).locked = row.locked
  BY DEF Session, SignedIn

LEMMA RotatedRow ==
    ASSUME NEW row \in Session, NEW t \in 0..MaxToken, NEW i \in Idents
    PROVE  /\ Rotated(row, t, i) \in Session
           /\ Rotated(row, t, i).token = t /\ Rotated(row, t, i).locked = FALSE
           /\ Rotated(row, t, i).revoked = row.revoked
  BY DEF Session, Rotated, Idents

LEMMA RevokedRow ==
    ASSUME NEW row \in Session
    PROVE  /\ [row EXCEPT !.revoked = TRUE] \in Session
           /\ [row EXCEPT !.revoked = TRUE].token = row.token
           /\ [row EXCEPT !.revoked = TRUE].locked = row.locked
           /\ [row EXCEPT !.revoked = TRUE].revoked = TRUE
  BY DEF Session

LEMMA ExpiredRow ==
    ASSUME NEW row \in Session
    PROVE  /\ [row EXCEPT !.expired = TRUE] \in Session
           /\ [row EXCEPT !.expired = TRUE].token = row.token
           /\ [row EXCEPT !.expired = TRUE].locked = row.locked
           /\ [row EXCEPT !.expired = TRUE].revoked = row.revoked
  BY DEF Session

LEMMA LockedRow ==
    ASSUME NEW row \in Session, NEW b \in BOOLEAN
    PROVE  /\ [row EXCEPT !.locked = b] \in Session
           /\ [row EXCEPT !.locked = b].token = row.token
           /\ [row EXCEPT !.locked = b].locked = b
           /\ [row EXCEPT !.locked = b].revoked = row.revoked
  BY DEF Session

LEMMA CreatedRow ==
    ASSUME NEW row \in Session, NEW i \in Idents
    PROVE  /\ [row EXCEPT !.life = "live", !.ident = i] \in Session
           /\ [row EXCEPT !.life = "live", !.ident = i].token = row.token
           /\ [row EXCEPT !.life = "live", !.ident = i].locked = row.locked
           /\ [row EXCEPT !.life = "live", !.ident = i].revoked = row.revoked
  BY DEF Session, Idents, Lifetimes

LEMMA NoSessionType ==
    /\ NoSession \in Session /\ NoSession.token = 0 /\ NoSession.locked = FALSE
    /\ [NoSession EXCEPT !.life = "deleted"] \in Session
    /\ [NoSession EXCEPT !.life = "deleted"].token = 0
    /\ [NoSession EXCEPT !.life = "deleted"].locked = FALSE
  <1>1. NoSession \in Session /\ NoSession.token = 0 /\ NoSession.locked = FALSE
    BY BoundAssumption DEF Session, NoSession, Lifetimes
  <1>2. ASSUME NEW row \in Session
        PROVE  LET gone == [row EXCEPT !.life = "deleted"] IN
                 gone \in Session /\ gone.token = row.token /\ gone.locked = row.locked
    BY DEF Session, Lifetimes
  <1> QED BY <1>1, <1>2

LEMMA HandlerFields ==
    ASSUME NEW h \in Handler
    PROVE  h.pc \in Steps /\ h.row \in 0..MaxRow /\ h.ident \in Idents /\ h.token \in 0..MaxToken
  BY DEF Handler, Idents

\* What a step of request q does to the handlers when it does not take a lock.
Away(q) ==
    /\ request' \in [Requests -> Handler]
    /\ request'[q].pc # "rotate"
    /\ \A p \in Requests \ {q} : request'[p] = request[p]

LEMMA Moves ==
    ASSUME request \in [Requests -> Handler], NEW q \in Requests, NEW step \in Steps,
           step # "rotate", NEW s \in 0..MaxRow
    PROVE  /\ Respond(q) => Away(q)
           /\ Goto(q, step, s) => Away(q)
           /\ \A i \in Idents, t \in 0..MaxToken : Become(q, step, s, i, t) => Away(q)
  <1>1. request[q] \in Handler /\ NoRequest \in Handler /\ NoRequest.pc # "rotate"
    BY BoundAssumption DEF NoRequest, Handler, Steps
  <1>2. Respond(q) => Away(q)
    BY <1>1 DEF Respond, Away
  <1>3. /\ [request[q] EXCEPT !.pc = step, !.row = s] \in Handler
        /\ [request[q] EXCEPT !.pc = step, !.row = s].pc = step
    BY <1>1 DEF Handler
  <1>4. Goto(q, step, s) => Away(q)
    BY <1>3 DEF Goto, Away
  <1>5. ASSUME NEW i \in Idents, NEW t \in 0..MaxToken
        PROVE  [pc |-> step, row |-> s, ident |-> i, token |-> t] \in Handler
    BY DEF Handler, Idents
  <1>6. ASSUME NEW i \in Idents, NEW t \in 0..MaxToken, Become(q, step, s, i, t)
        PROVE  Away(q)
    BY <1>5, <1>6 DEF Become, Away
  <1> QED BY <1>2, <1>4, <1>6

-----------------------------------------------------------------------------
(* The inductive invariant.                                                *)

\* Hashes are those of signed tokens, and no two rows have the same one.
Hashes ==
    /\ \A s \in Rows : session[s].token <= issued
    /\ \A r, s \in Rows : session[r].token = session[s].token /\ session[s].token # 0 => r = s

\* A rotation in progress is alone on its row, which still has its token.
Locks ==
    /\ \A q \in Requests : At(q, "rotate") =>
         LET s == request[q].row IN
           s \in Rows /\ session[s].locked /\ session[s].token = request[q].token
    /\ \A p, q \in Requests :
         At(p, "rotate") /\ At(q, "rotate") /\ request[p].row = request[q].row => p = q

\* A token that was exchanged is on no row.
Spent ==
    /\ RotatedOnce
    /\ \A t \in Tokens : exchanged[t] # 0 => t <= issued /\ \A s \in Rows : session[s].token # t

\* A row with an ended token is revoked, and no rotation is in progress on it.
Finished ==
    \A t \in ended : t <= issued
      /\ (t # 0 => \A s \in Rows : session[s].token = t => session[s].revoked /\ ~session[s].locked)

Core == Hashes /\ Locks /\ Spent /\ Finished
Inv == TypeOK /\ Core

LEMMA InvInit == Init => Inv
  <1> SUFFICES ASSUME Init PROVE Inv
    OBVIOUS
  <1>1. NoRequest \in Handler /\ NoRequest.pc = "idle"
    BY BoundAssumption DEF NoRequest, Handler, Steps
  <1>2. TypeOK
    BY <1>1, NoSessionType, BoundAssumption DEF Init, TypeOK
  <1>3. \A s \in Rows : session[s].token = 0
    BY NoSessionType DEF Init
  <1>4. \A q \in Requests : ~At(q, "rotate")
    BY <1>1 DEF Init, At
  <1>5. Hashes /\ Locks
    BY <1>3, <1>4 DEF Init, Hashes, Locks
  <1>6. Spent /\ Finished
    BY <1>3 DEF Init, Spent, Finished, RotatedOnce
  <1> QED BY <1>2, <1>5, <1>6 DEF Inv, Core

-----------------------------------------------------------------------------
(* Steps that sign no token and take no lock: the rows keep their tokens,  *)
(* or are deleted while they are free.                                     *)

Quiet(s) ==
    \/ /\ session'[s].token = session[s].token
       /\ session'[s].locked = session[s].locked
       /\ session[s].revoked => session'[s].revoked
    \/ /\ session'[s].token = 0
       /\ ~session[s].locked /\ ~session'[s].locked

LEMMA QuietStep ==
    ASSUME Inv, TypeOK', NEW S \in SUBSET Rows,
           \A s \in Rows : Quiet(s),
           \A q \in Requests : request'[q].pc = "rotate" => request'[q] = request[q],
           ended' = ended \cup {session[s].token : s \in S},
           \A s \in S : ~session[s].locked /\ (session'[s].revoked \/ session'[s].token = 0),
           UNCHANGED <<issued, exchanged>>
    PROVE  Core'
  <1> USE DEF Inv, Core
  <1>0. /\ \A s \in Rows : session[s].token \in 0..MaxToken /\ session'[s].token \in 0..MaxToken
        /\ issued \in 0..MaxToken
    BY SessionFields DEF TypeOK
  <1>1. Hashes'
    <2>1. \A s \in Rows : session'[s].token <= issued
      BY <1>0 DEF Hashes, Quiet, Tokens
    <2>2. \A r, s \in Rows : session'[r].token = session'[s].token /\ session'[s].token # 0
                               => r = s
      BY <1>0 DEF Hashes, Quiet
    <2> QED BY <2>1, <2>2 DEF Hashes
  <1>2. Locks'
    <2>1. ASSUME NEW q \in Requests, At(q, "rotate")'
          PROVE  /\ At(q, "rotate") /\ request'[q] = request[q]
                 /\ request[q].row \in Rows
                 /\ session'[request[q].row].locked
                 /\ session'[request[q].row].token = request[q].token
      <3>1. At(q, "rotate") /\ request'[q] = request[q]
        BY <2>1 DEF At
      <3>2. /\ request[q].row \in Rows /\ session[request[q].row].locked
            /\ session[request[q].row].token = request[q].token
        BY <3>1 DEF Locks
      <3>3. Quiet(request[q].row)
        BY <3>2
      <3> QED BY <3>1, <3>2, <3>3 DEF Quiet
    <2>2. \A p, q \in Requests :
            At(p, "rotate")' /\ At(q, "rotate")' /\ request'[p].row = request'[q].row => p = q
      BY <2>1 DEF Locks
    <2> QED BY <2>1, <2>2 DEF Locks, At
  <1>3. Spent'
    BY <1>0 DEF Spent, RotatedOnce, Quiet, Tokens
  <1>4. Finished'
    <2> SUFFICES ASSUME NEW t \in ended'
                 PROVE  /\ t <= issued
                        /\ t # 0 => \A s \in Rows : session'[s].token = t
                                      => session'[s].revoked /\ ~session'[s].locked
      BY DEF Finished
    <2>1. CASE t \in ended
      BY <2>1 DEF Finished, Quiet
    <2>2. CASE \E r \in S : t = session[r].token
      <3> PICK r \in S : t = session[r].token
        BY <2>2
      <3>1. t <= issued
        BY DEF Hashes
      <3>2. ASSUME t # 0, NEW s \in Rows, session'[s].token = t
            PROVE  session'[s].revoked /\ ~session'[s].locked
        <4>1. session[s].token = t
          BY <3>2 DEF Quiet
        <4>2. s = r
          BY <4>1, <3>2 DEF Hashes
        <4> QED BY <4>2, <3>2 DEF Quiet
      <3> QED BY <3>1, <3>2
    <2> QED BY <2>1, <2>2
  <1> QED BY <1>1, <1>2, <1>3, <1>4

\* The same when no row is written off.
LEMMA QuietStepKeeping ==
    ASSUME Inv, TypeOK', \A s \in Rows : Quiet(s),
           \A q \in Requests : request'[q].pc = "rotate" => request'[q] = request[q],
           UNCHANGED <<issued, exchanged, ended>>
    PROVE  Core'
  <1> DEFINE S == {}
             tokens == {session[s].token : s \in S}
  <1>1. S \in SUBSET Rows /\ tokens = {} /\ \A s \in S : FALSE
    OBVIOUS
  <1>2. ended' = ended \cup tokens
    BY <1>1
  <1>3. \A s \in S : ~session[s].locked /\ (session'[s].revoked \/ session'[s].token = 0)
    BY <1>1
  <1>4. S \in SUBSET Rows
    BY <1>1
  <1> HIDE DEF S
  <1> QED BY <1>2, <1>3, <1>4, QuietStep

-----------------------------------------------------------------------------
\* The handlers move without taking a lock.
Unlocking == UNCHANGED request \/ \E q \in Requests : Away(q)

LEMMA MovesQuietly ==
    ASSUME TypeOK, Unlocking
    PROVE  /\ request' \in [Requests -> Handler]
           /\ \A q \in Requests : request'[q].pc = "rotate" => request'[q] = request[q]
  BY DEF Unlocking, Away, TypeOK

\* Nothing is written but the handlers' own state.
LEMMA ReadStep ==
    ASSUME Inv, Unlocking, purge' \subseteq Rows,
           UNCHANGED <<session, issued, exchanged, ended>>
    PROVE  Inv'
  <1>1. TypeOK'
    BY MovesQuietly DEF Inv, TypeOK
  <1>2. \A s \in Rows : Quiet(s)
    BY DEF Quiet
  <1> QED BY <1>1, <1>2, MovesQuietly, QuietStepKeeping DEF Inv

\* Rows are written off together.
LEMMA WriteOffStep ==
    ASSUME Inv, NEW S \in SUBSET Rows, Revoke(S) \/ Delete(S), Unlocking, purge' \subseteq Rows,
           UNCHANGED <<issued, exchanged>>
    PROVE  Inv'
  <1>0. \A s \in Rows : session[s] \in Session
    BY DEF Inv, TypeOK
  <1>1. ended' = ended \cup {session[s].token : s \in S}
    BY DEF Revoke, Delete
  <1>2. ASSUME NEW s \in Rows
        PROVE  session'[s] \in Session /\ Quiet(s)
    <2>1. CASE Revoke(S)
      BY <1>0, <2>1, RevokedRow DEF Revoke, Quiet, Free
    <2>2. CASE Delete(S)
      BY <1>0, <2>2, NoSessionType DEF Delete, Quiet, Free
    <2> QED BY <2>1, <2>2
  <1>3. \A s \in S : ~session[s].locked /\ (session'[s].revoked \/ session'[s].token = 0)
    <2>1. CASE Revoke(S)
      BY <1>0, <2>1, RevokedRow DEF Revoke, Free
    <2>2. CASE Delete(S)
      BY <2>2, NoSessionType DEF Delete, Free
    <2> QED BY <2>1, <2>2
  <1>4. session' \in [Rows -> Session]
    <2>1. CASE Revoke(S)
      BY <2>1, <1>2 DEF Revoke
    <2>2. CASE Delete(S)
      BY <2>2, <1>2 DEF Delete
    <2> QED BY <2>1, <2>2
  <1>5. ended' \subseteq 0..MaxToken
    BY <1>0, <1>1, SessionFields DEF Inv, TypeOK
  <1>6. TypeOK'
    BY <1>4, <1>5, MovesQuietly DEF Inv, TypeOK
  <1> QED BY <1>1, <1>2, <1>3, <1>6, MovesQuietly, QuietStep DEF Inv

\* One row changes, and keeps its token, its lock and its revocation.
LEMMA RowStep ==
    ASSUME Inv, NEW s \in Rows, NEW row \in Session,
           row.token = session[s].token, row.locked = session[s].locked,
           row.revoked = session[s].revoked,
           session' = [session EXCEPT ![s] = row],
           Unlocking, UNCHANGED <<issued, purge, exchanged, ended>>
    PROVE  Inv'
  <1>1. TypeOK'
    BY MovesQuietly DEF Inv, TypeOK
  <1>2. \A r \in Rows : Quiet(r)
    BY DEF Quiet, Inv, TypeOK
  <1> QED BY <1>1, <1>2, MovesQuietly, QuietStepKeeping DEF Inv

-----------------------------------------------------------------------------
(* The steps that sign a token or hold the lock.                           *)

\* A login gives a free row a token no row has had.
LEMMA SaveStep ==
    ASSUME Inv, NEW q \in Requests, LoginSave(q), Away(q)
    PROVE  Inv'
  <1> USE DEF Inv, Core
  <1> DEFINE s == request[q].row
             t == issued + 1
  <1>0. /\ \A r \in Rows : session[r] \in Session /\ session[r].token \in 0..MaxToken
        /\ issued \in Nat /\ t \in Tokens /\ t \in 0..MaxToken /\ s \in Rows
    <2>1. \A r \in Rows : session[r] \in Session
      BY DEF TypeOK
    <2>2. issued \in Nat /\ t \in Tokens /\ t \in 0..MaxToken
      BY BoundAssumption DEF TypeOK, LoginSave, Tokens
    <2>3. s \in Rows
      BY DEF LoginSave, Live
    <2> QED BY <2>1, <2>2, <2>3, SessionFields
  <1>1. /\ SignedIn(session[s], t) \in Session
        /\ session' = [session EXCEPT ![s] = SignedIn(session[s], t)]
    BY <1>0, SignedInRow DEF LoginSave
  <1>2. /\ session'[s].token = t /\ session'[s].locked = FALSE /\ ~session[s].locked
        /\ \A r \in Rows \ {s} : session'[r] = session[r]
    BY <1>0, <1>1, SignedInRow DEF TypeOK, LoginSave, Free
  <1>3. issued' = t /\ UNCHANGED <<purge, exchanged, ended>>
    BY DEF LoginSave
  <1> HIDE DEF s
  <1>4. TypeOK'
    BY <1>0, <1>1, <1>3 DEF TypeOK, Away
  <1>5. Hashes'
    BY <1>0, <1>2, <1>3 DEF Hashes
  <1>6. Locks'
    <2>1. ASSUME NEW p \in Requests, At(p, "rotate")'
          PROVE  /\ At(p, "rotate") /\ request'[p] = request[p]
                 /\ request[p].row \in Rows /\ request[p].row # s
      BY <1>2, <2>1 DEF At, Away, Locks
    <2> QED BY <1>2, <2>1 DEF Locks, At
  <1>7. Spent'
    <2> SUFFICES ASSUME NEW u \in Tokens
                 PROVE  /\ exchanged[u] <= 1
                        /\ exchanged[u] # 0 => u <= t /\ \A r \in Rows : session'[r].token # u
      BY <1>3 DEF Spent, RotatedOnce
    <2>1. /\ exchanged[u] <= 1
          /\ exchanged[u] # 0 => u <= issued /\ \A r \in Rows : session[r].token # u
      BY DEF Spent, RotatedOnce
    <2>2. u \in Nat
      BY DEF Tokens
    <2> QED BY <1>0, <1>2, <2>1, <2>2
  <1>8. Finished'
    <2> SUFFICES ASSUME NEW u \in ended
                 PROVE  /\ u <= t
                        /\ u # 0 => \A r \in Rows : session'[r].token = u
                                      => session'[r].revoked /\ ~session'[r].locked
      BY <1>3 DEF Finished
    <2>1. /\ u <= issued /\ u \in Nat
          /\ u # 0 => \A r \in Rows : session[r].token = u
                        => session[r].revoked /\ ~session[r].locked
      BY DEF Finished, TypeOK
    <2> QED BY <1>0, <1>2, <2>1
  <1> QED BY <1>4, <1>5, <1>6, <1>7, <1>8

\* A refresh locks a free row that still has the token it presents.
LEMMA LockStep ==
    ASSUME Inv, NEW q \in Requests, RefreshLock(q)
    PROVE  Inv'
  <1> USE DEF Inv, Core
  <1> DEFINE s == request[q].row
             h == [request[q] EXCEPT !.pc = "rotate", !.row = s]
  <1>1. CASE ~Recheck(s, request[q].token)
    <2>1. Away(q)
      BY <1>1, Moves, BoundAssumption DEF RefreshLock, TypeOK, Steps
    <2> QED BY <1>1, <2>1, ReadStep DEF RefreshLock, Unlocking, TypeOK
  <1>2. CASE Recheck(s, request[q].token)
    <2>0. /\ \A r \in Rows : session[r] \in Session
          /\ s \in Rows /\ session[s].token = request[q].token /\ ~session[s].revoked
          /\ ~session[s].locked
      BY <1>2 DEF TypeOK, RefreshLock, Recheck, Matching, Usable, Unrevoked, Live, Lockable, Free
    <2>1. /\ session' = [session EXCEPT ![s] = [session[s] EXCEPT !.locked = TRUE]]
          /\ request' = [request EXCEPT ![q] = h]
          /\ UNCHANGED <<issued, purge, exchanged, ended>>
      BY <1>2, <2>0 DEF RefreshLock, Goto, TypeOK
    <2>2. /\ request[q] \in Handler /\ h \in Handler /\ h.pc = "rotate" /\ h.row = s
          /\ h.token = request[q].token
      BY <2>0 DEF TypeOK, Handler, Steps
    <2>3. /\ \A r \in Rows : /\ session'[r].token = session[r].token
                             /\ session'[r].revoked = session[r].revoked
                             /\ session'[r] \in Session
          /\ session'[s].locked
          /\ \A r \in Rows \ {s} : session'[r] = session[r]
      BY <2>0, <2>1, LockedRow DEF TypeOK
    <2>4. \A r \in Rows : session[r].token \in 0..MaxToken
      BY <2>0, SessionFields
    <2>5. TypeOK'
      BY <2>0, <2>1, <2>2, LockedRow DEF TypeOK
    <2>6. Hashes'
      BY <2>1, <2>3 DEF Hashes
    <2>7. Locks'
      <3>1. \A p \in Requests : At(p, "rotate") => request[p].row # s
        BY <2>0 DEF Locks
      <3>2. \A p \in Requests \ {q} : request'[p] = request[p]
        BY <2>1 DEF TypeOK
      <3>3. request'[q].row = s /\ request'[q].token = session'[s].token
        BY <2>0, <2>1, <2>2, <2>3 DEF TypeOK
      <3>4. ASSUME NEW p \in Requests \ {q}, At(p, "rotate")'
            PROVE  /\ At(p, "rotate") /\ request'[p].row # s /\ request'[p].row \in Rows
                   /\ session'[request'[p].row].locked
                   /\ session'[request'[p].row].token = request'[p].token
        BY <2>3, <3>1, <3>2, <3>4 DEF Locks, At
      <3>5. \A p \in Requests : At(p, "rotate")' =>
              /\ request'[p].row \in Rows /\ session'[request'[p].row].locked
              /\ session'[request'[p].row].token = request'[p].token
        BY <2>0, <2>3, <3>3, <3>4
      <3>6. ASSUME NEW p \in Requests, NEW r \in Requests,
                   At(p, "rotate")', At(r, "rotate")', request'[p].row = request'[r].row
            PROVE  p = r
        <4>1. CASE p # q /\ r # q
          BY <3>2, <3>4, <3>6, <4>1 DEF Locks
        <4>2. CASE p = q \/ r = q
          BY <3>3, <3>4, <3>6, <4>2
        <4> QED BY <4>1, <4>2
      <3> QED BY <3>5, <3>6 DEF Locks
    <2>8. Spent'
      BY <2>1, <2>3 DEF Spent, RotatedOnce
    <2>9. Finished'
      <3> SUFFICES ASSUME NEW u \in ended, u # 0, NEW r \in Rows, session'[r].token = u
                   PROVE  session'[r].revoked /\ ~session'[r].locked
        BY <2>1 DEF Finished
      <3>1. session[r].revoked /\ ~session[r].locked
        BY <2>3 DEF Finished
      <3> QED BY <2>0, <2>3, <3>1
    <2> QED BY <2>5, <2>6, <2>7, <2>8, <2>9
  <1> QED BY <1>1, <1>2

\* A rotation replaces the token of the row it holds, which nobody else has.
LEMMA RotateStep ==
    ASSUME Inv, NEW q \in Requests, RefreshRotate(q), Away(q)
    PROVE  Inv'
  <1> USE DEF Inv, Core
  <1> DEFINE s == request[q].row
             t == issued + 1
             old == request[q].token
  <1>0. /\ \A r \in Rows : session[r] \in Session /\ session[r].token \in 0..MaxToken
        /\ issued \in Nat /\ t \in Tokens /\ t \in 0..MaxToken
        /\ s \in Rows /\ session[s].locked /\ session[s].token = old
        /\ \A p \in Requests \ {q} : At(p, "rotate") => request[p].row # s
    <2>1. \A r \in Rows : session[r] \in Session
      BY DEF TypeOK
    <2>2. issued \in Nat /\ t \in Tokens /\ t \in 0..MaxToken
      BY BoundAssumption DEF TypeOK, RefreshRotate, Tokens
    <2>3. At(q, "rotate")
      BY DEF RefreshRotate
    <2> QED BY <2>1, <2>2, <2>3, SessionFields DEF Locks
  <1>1. request[q].ident \in Idents
    BY HandlerFields DEF TypeOK
  <1>2. /\ session'[s] \in Session /\ session'[s].token = t /\ session'[s].locked = FALSE
        /\ \A r \in Rows \ {s} : session'[r] = session[r]
        /\ session' \in [Rows -> Session]
    <2> DEFINE row == Rotated(session[s], t, request[q].ident)
    <2>1. session' = [session EXCEPT ![s] = row]
      BY DEF RefreshRotate
    <2>2. row \in Session /\ row.token = t /\ row.locked = FALSE
      BY <1>0, <1>1, RotatedRow
    <2>3. session \in [Rows -> Session]
      BY DEF TypeOK
    <2> HIDE DEF row, s
    <2> QED BY <1>0, <2>1, <2>2, <2>3
  <1>3. /\ issued' = t /\ UNCHANGED <<purge, ended>>
        /\ exchanged' = [exchanged EXCEPT ![old] = @ + 1]
    BY DEF RefreshRotate
  <1> HIDE DEF s, old
  <1>4. TypeOK'
    <2>1. exchanged' \in [Tokens -> Nat]
      <3>1. exchanged \in [Tokens -> Nat]
        BY DEF TypeOK
      <3>2. CASE old \in Tokens
        <4>1. exchanged[old] + 1 \in Nat
          BY <3>1, <3>2
        <4> QED BY <1>3, <3>1, <4>1
      <3>3. CASE old \notin Tokens
        <4>1. \A u \in Tokens : exchanged'[u] = exchanged[u]
          BY <1>3, <3>1, <3>3
        <4> QED BY <1>3, <3>1, <4>1
      <3> QED BY <3>2, <3>3
    <2> QED BY <1>0, <1>2, <1>3, <2>1 DEF TypeOK, Away
  <1>5. Hashes'
    BY <1>0, <1>2, <1>3 DEF Hashes
  <1>6. Locks'
    <2>1. ASSUME NEW p \in Requests, At(p, "rotate")'
          PROVE  /\ At(p, "rotate") /\ request'[p] = request[p]
                 /\ request[p].row \in Rows /\ request[p].row # s
      BY <1>0, <2>1 DEF At, Away, Locks
    <2> QED BY <1>2, <2>1 DEF Locks, At
  <1>7. Spent'
    <2> SUFFICES ASSUME NEW u \in Tokens
                 PROVE  /\ exchanged'[u] <= 1
                        /\ exchanged'[u] # 0 => u <= t /\ \A r \in Rows : session'[r].token # u
      BY <1>3 DEF Spent, RotatedOnce
    <2>0. u \in Nat \ {0}
      BY DEF Tokens
    <2>1. CASE u = old
      <3>1. exchanged[u] = 0
        BY <1>0, <2>1 DEF Spent, TypeOK
      <3>2. exchanged'[u] = 1
        BY <1>3, <2>1, <3>1 DEF TypeOK
      <3>3. u <= issued
        BY <1>0, <2>1 DEF Hashes
      <3>4. \A r \in Rows : session'[r].token # u
        BY <1>0, <1>2, <2>0, <2>1, <3>3 DEF Hashes
      <3> QED BY <1>0, <2>0, <3>2, <3>3, <3>4
    <2>2. CASE u # old
      <3>1. exchanged'[u] = exchanged[u]
        BY <1>3, <2>2 DEF TypeOK
      <3> QED BY <1>0, <1>2, <2>0, <3>1 DEF Spent, RotatedOnce
    <2> QED BY <2>1, <2>2
  <1>8. Finished'
    <2> SUFFICES ASSUME NEW u \in ended
                 PROVE  /\ u <= t
                        /\ u # 0 => \A r \in Rows : session'[r].token = u
                                      => session'[r].revoked /\ ~session'[r].locked
      BY <1>3 DEF Finished
    <2>1. /\ u <= issued /\ u \in Nat
          /\ u # 0 => \A r \in Rows : session[r].token = u
                        => session[r].revoked /\ ~session[r].locked
      BY DEF Finished, TypeOK
    <2> QED BY <1>0, <1>2, <2>1
  <1> QED BY <1>4, <1>5, <1>6, <1>7, <1>8

\* A rotation that fails gives its row back as it was.
LEMMA FailStep ==
    ASSUME Inv, NEW q \in Requests, Fail(q), Away(q)
    PROVE  Inv'
  <1> USE DEF Inv, Core
  <1>1. CASE ~At(q, "rotate")
    BY <1>1, ReadStep DEF Fail, Unlocking, TypeOK
  <1>2. CASE At(q, "rotate")
    <2> DEFINE s == request[q].row
    <2>0. /\ \A r \in Rows : session[r] \in Session
          /\ s \in Rows /\ UNCHANGED <<issued, purge, exchanged, ended>>
          /\ \A p \in Requests \ {q} : At(p, "rotate") => request[p].row # s
          /\ session' = [session EXCEPT ![s] = [session[s] EXCEPT !.locked = FALSE]]
      BY <1>2 DEF Locks, TypeOK, Fail
    <2>1. /\ session' \in [Rows -> Session]
          /\ \A r \in Rows : /\ session'[r].token = session[r].token
                             /\ session'[r].revoked = session[r].revoked
          /\ session'[s].locked = FALSE
          /\ \A r \in Rows \ {s} : session'[r] = session[r]
      BY <2>0, LockedRow DEF TypeOK
    <2> HIDE DEF s
    <2>2. TypeOK'
      BY <2>0, <2>1 DEF TypeOK, Away
    <2>3. Hashes' /\ Spent'
      BY <2>0, <2>1 DEF Hashes, Spent, RotatedOnce
    <2>4. Locks'
      <3>1. ASSUME NEW p \in Requests, At(p, "rotate")'
            PROVE  /\ At(p, "rotate") /\ request'[p] = request[p]
                   /\ request[p].row \in Rows /\ request[p].row # s
        BY <2>0, <3>1 DEF At, Away, Locks
      <3> QED BY <2>1, <3>1 DEF Locks, At
    <2>5. Finished'
      BY <2>0, <2>1 DEF Finished
    <2> QED BY <2>2, <2>3, <2>4, <2>5
  <1> QED BY <1>1, <1>2

-----------------------------------------------------------------------------
LEMMA InvStep == Inv /\ [Next]_vars => Inv'
  <1> SUFFICES ASSUME Inv, [Next]_vars PROVE Inv'
    OBVIOUS
  <1>0. /\ request \in [Requests -> Handler] /\ purge \subseteq Rows
        /\ \A s \in Rows : session[s] \in Session
        /\ \A q \in Requests : request[q].row \in 0..MaxRow /\ request[q].ident \in Idents
    BY HandlerFields DEF Inv, TypeOK
  <1>t. Rows \subseteq 0..MaxRow /\ Tokens \subseteq 0..MaxToken /\ 0 \in 0..MaxRow
          /\ 0 \in 0..MaxToken /\ Identities \subseteq Idents /\ NoIdentity \in Idents
    BY BoundAssumption DEF Rows, Tokens, Idents
  <1>1. ASSUME NEW q \in Requests, Login(q) PROVE Inv'
    <2>1. ASSUME NEW i \in Identities, LoginFind(q, i) PROVE Inv'
      <3>1. Become(q, "create", 0, i, 0) => Away(q)
        BY <1>0, <1>t, Moves DEF Steps
      <3>2. ASSUME NEW s \in Rows, Become(q, "prune", s, i, 0) PROVE Away(q)
        BY <1>0, <1>t, <3>2, Moves DEF Steps
      <3>3. Away(q)
        BY <2>1, <3>1, <3>2 DEF LoginFind, Newest, SameDevice, Live
      <3> QED BY <1>0, <2>1, <3>3, ReadStep DEF LoginFind, Unlocking
    <2>2. CASE LoginCreate(q)
      <3> PICK s \in Rows :
             /\ session' = [session EXCEPT ![s] = [@ EXCEPT !.life = "live",
                                                            !.ident = request[q].ident]]
             /\ Goto(q, "save", s)
        BY <2>2 DEF LoginCreate
      <3>1. Away(q)
        BY <1>0, <1>t, Moves DEF Steps
      <3> DEFINE row == [session[s] EXCEPT !.life = "live", !.ident = request[q].ident]
      <3>2. /\ row \in Session /\ row.token = session[s].token
            /\ row.locked = session[s].locked /\ row.revoked = session[s].revoked
        BY <1>0, CreatedRow
      <3>3. session' = [session EXCEPT ![s] = row]
        OBVIOUS
      <3> HIDE DEF row
      <3> QED BY <2>2, <3>1, <3>2, <3>3, RowStep DEF LoginCreate, Unlocking
    <2>3. CASE LoginPrune(q)
      <3>1. Away(q)
        BY <1>0, <2>3, Moves DEF LoginPrune, Steps
      <3> DEFINE S == SameDevice(request[q].ident) \ {request[q].row}
      <3>2. S \in SUBSET Rows /\ Delete(S)
        BY <2>3 DEF LoginPrune, SameDevice, Live
      <3> HIDE DEF S
      <3> QED BY <1>0, <2>3, <3>1, <3>2, WriteOffStep DEF LoginPrune, Unlocking
    <2>4. CASE LoginSave(q)
      <3>1. Away(q)
        BY <1>0, <1>t, <2>4, Moves DEF LoginSave, Steps
      <3> QED BY <2>4, <3>1, SaveStep
    <2>5. CASE LoginLost(q)
      <3>1. Away(q)
        BY <1>0, <1>t, <2>5, Moves DEF LoginLost, Steps
      <3> QED BY <1>0, <2>5, <3>1, ReadStep DEF LoginLost, Unlocking
    <2> QED BY <1>1, <2>1, <2>2, <2>3, <2>4, <2>5 DEF Login
  <1>2. ASSUME NEW q \in Requests, Refresh(q) PROVE Inv'
    <2>1. ASSUME NEW t \in Tokens, NEW i \in Identities, RefreshMatch(q, t, i) PROVE Inv'
      <3> PICK s \in Rows : Become(q, "lock", s, i, t)
        BY <2>1 DEF RefreshMatch, Matching, Usable, Unrevoked, Live
      <3>1. Away(q)
        BY <1>0, <1>t, Moves DEF Steps
      <3> QED BY <1>0, <2>1, <3>1, ReadStep DEF RefreshMatch, Unlocking
    <2>2. CASE RefreshLock(q)
      BY <2>2, LockStep
    <2>3. CASE RefreshRotate(q)
      <3>1. Away(q)
        BY <1>0, <1>t, <2>3, Moves DEF RefreshRotate, Steps
      <3> QED BY <2>3, <3>1, RotateStep
    <2> QED BY <1>2, <2>1, <2>2, <2>3 DEF Refresh
  <1>3. ASSUME NEW q \in Requests, SignOut(q) PROVE Inv'
    <2>1. ASSUME NEW t \in Tokens, LogoutMatch(q, t) PROVE Inv'
      <3> PICK s \in Rows : Become(q, "logout", s, NoIdentity, 0)
        BY <2>1 DEF LogoutMatch, Matching, Usable, Unrevoked, Live
      <3>1. Away(q)
        BY <1>0, <1>t, Moves DEF Steps
      <3> QED BY <1>0, <2>1, <3>1, ReadStep DEF LogoutMatch, Unlocking
    <2>2. ASSUME NEW t \in Tokens, OthersMatch(q, t) PROVE Inv'
      <3> PICK s \in Rows : Become(q, "others", s, NoIdentity, 0)
        BY <2>2 DEF OthersMatch, Matching, Usable, Unrevoked, Live
      <3>1. Away(q)
        BY <1>0, <1>t, Moves DEF Steps
      <3> QED BY <1>0, <2>2, <3>1, ReadStep DEF OthersMatch, Unlocking
    <2>3. ASSUME NEW c \in Rows, NEW s \in Rows, RevokeFind(q, c, s) PROVE Inv'
      <3>1. Away(q)
        BY <1>0, <1>t, <2>3, Moves DEF RevokeFind, Steps
      <3> QED BY <1>0, <2>3, <3>1, ReadStep DEF RevokeFind, Unlocking
    <2>4. CASE LogoutRevoke(q) \/ OthersRevoke(q) \/ RevokeSave(q)
      <3>1. Away(q)
        BY <1>0, <1>t, <2>4, Moves DEF LogoutRevoke, OthersRevoke, RevokeSave, Steps
      <3>2. /\ UNCHANGED <<issued, purge, exchanged>>
            /\ \E S \in SUBSET Rows : Revoke(S)
        <4>1. /\ {request[q].row} \cap Unrevoked \in SUBSET Rows
              /\ {request[q].row} \cap Live \in SUBSET Rows
              /\ Usable \ {request[q].row} \in SUBSET Rows
          BY DEF Usable, Unrevoked, Live
        <4> QED BY <2>4, <4>1 DEF LogoutRevoke, OthersRevoke, RevokeSave
      <3> QED BY <1>0, <3>1, <3>2, WriteOffStep DEF Unlocking
    <2> QED BY <1>3, <2>1, <2>2, <2>3, <2>4 DEF SignOut
  <1>4. ASSUME NEW q \in Requests, ChangePassword(q) PROVE Inv'
    <2>1. ASSUME NEW s \in Rows, NEW i \in Identities, ChangeStart(q, s, i) PROVE Inv'
      <3>1. Away(q)
        BY <1>0, <1>t, <2>1, Moves DEF ChangeStart, Steps
      <3> QED BY <1>0, <2>1, <3>1, ReadStep DEF ChangeStart, Unlocking
    <2>2. CASE ChangeRevoke(q)
      <3>1. Away(q)
        BY <1>0, <1>t, <2>2, Moves DEF ChangeRevoke, Steps
      <3>2. \E S \in SUBSET Rows : Revoke(S)
        BY <2>2 DEF ChangeRevoke, Unrevoked, Live
      <3> QED BY <1>0, <2>2, <3>1, <3>2, WriteOffStep DEF ChangeRevoke, Unlocking
    <2> QED BY <1>4, <2>1, <2>2 DEF ChangePassword
  <1>5. ASSUME NEW q \in Requests, Fail(q) PROVE Inv'
    <2>1. Away(q)
      BY <1>0, <1>t, <1>5, Moves DEF Fail, Steps
    <2> QED BY <1>5, <2>1, FailStep
  <1>6. CASE RevokeAll
    <2>1. Unrevoked \in SUBSET Rows
      BY DEF Unrevoked, Live
    <2> QED BY <1>0, <1>6, <2>1, WriteOffStep DEF RevokeAll, Unlocking
  <1>7. ASSUME NEW s \in Rows, Expire(s) PROVE Inv'
    <2> DEFINE row == [session[s] EXCEPT !.expired = TRUE]
    <2>1. /\ row \in Session /\ row.token = session[s].token
          /\ row.locked = session[s].locked /\ row.revoked = session[s].revoked
      BY <1>0, ExpiredRow
    <2>2. session' = [session EXCEPT ![s] = row]
      BY <1>7 DEF Expire
    <2> HIDE DEF row
    <2> QED BY <1>7, <2>1, <2>2, RowStep DEF Expire, Unlocking
  <1>8. CASE PurgeSelect
    BY <1>8, ReadStep DEF PurgeSelect, Unlocking, Live
  <1>9. CASE PurgeDelete
    <2>1. purge \cap Live \in SUBSET Rows /\ Delete(purge \cap Live)
      BY <1>0, <1>9 DEF PurgeDelete
    <2> QED BY <1>9, <2>1, WriteOffStep DEF PurgeDelete, Unlocking
  <1>10. CASE UNCHANGED vars
    BY <1>0, <1>10, ReadStep DEF vars, Unlocking
  <1> QED BY <1>1, <1>2, <1>3, <1>4, <1>5, <1>6, <1>7, <1>8, <1>9, <1>10 DEF Next

-----------------------------------------------------------------------------
\* The invariant holds in every reachable state.
THEOREM InvAlways == Spec => []Inv
  BY InvInit, InvStep, PTL DEF Spec

\* Every variable keeps its type (the columns of RefreshToken and the handlers).
THEOREM TypeCorrect == Spec => []TypeOK
  <1>1. Inv => TypeOK
    BY DEF Inv
  <1> QED BY <1>1, InvAlways, PTL

\* A refresh token is exchanged at most once: TokenRefreshView.post matches,
\* locks and matches again.
THEOREM TokenRotatedOnce == Spec => []RotatedOnce
  <1>1. Inv => RotatedOnce
    BY DEF Inv, Core, Spent
  <1> QED BY <1>1, InvAlways, PTL

\* No usable session has a token that was ended with its session.
THEOREM EndedTokensUnusable == Spec => []EndedUnusable
  <1>1. ASSUME Inv, NEW t \in ended, t \in Tokens, NEW s \in Matching(t)
        PROVE  FALSE
    <2>1. s \in Rows /\ session[s].token = t /\ ~session[s].revoked
      BY <1>1 DEF Matching, Usable, Unrevoked, Live
    <2>2. t # 0
      BY <1>1, BoundAssumption DEF Tokens
    <2> QED BY <1>1, <2>1, <2>2 DEF Inv, Core, Finished
  <1>2. Inv => EndedUnusable
    BY <1>1 DEF EndedUnusable
  <1> QED BY <1>2, InvAlways, PTL

\* A token that was ended is not exchanged by a refresh already under way.
THEOREM EndedTokensNotExchanged == Spec => EndedNotExchanged
  <1>1. ASSUME Inv, [Next]_vars, NEW u \in ended \cap Tokens
        PROVE  exchanged'[u] = exchanged[u]
    <2>1. ASSUME NEW q \in Requests, RefreshRotate(q)
          PROVE  exchanged'[u] = exchanged[u]
      <3>0. At(q, "rotate")
        BY <2>1 DEF RefreshRotate
      <3>1. /\ request[q].row \in Rows /\ session[request[q].row].locked
            /\ session[request[q].row].token = request[q].token
        BY <1>1, <3>0 DEF Inv, Core, Locks
      <3>a. u \in ended /\ u # 0
        BY BoundAssumption DEF Tokens
      <3>2. \A s \in Rows : session[s].token = u => ~session[s].locked
        BY <1>1, <3>a DEF Inv, Core, Finished
      <3>3. request[q].token # u
        BY <3>1, <3>2
      <3> QED BY <2>1, <3>3 DEF RefreshRotate, Inv, TypeOK
    <2>2. CASE \A q \in Requests : ~RefreshRotate(q)
      <3>1. UNCHANGED exchanged
        BY <1>1, <2>2 DEF Next, Login, LoginFind, LoginCreate, LoginPrune, LoginSave, LoginLost,
           Refresh, RefreshMatch, RefreshLock, SignOut, LogoutMatch, LogoutRevoke, OthersMatch,
           OthersRevoke, RevokeFind, RevokeSave, ChangePassword, ChangeStart, ChangeRevoke, Fail,
           RevokeAll, Expire, PurgeSelect, PurgeDelete, vars
      <3> QED BY <3>1
    <2> QED BY <2>1, <2>2
  <1>2. Inv /\ [Next]_vars
          => [\A t \in ended \cap Tokens : exchanged'[t] = exchanged[t]]_vars
    BY <1>1
  <1> QED BY <1>2, InvAlways, PTL DEF Spec, EndedNotExchanged
=============================================================================
