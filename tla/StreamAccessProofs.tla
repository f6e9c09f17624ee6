-------------------------- MODULE StreamAccessProofs -------------------------
(***************************************************************************)
(* Proofs about StreamAccess, for every number of rows, requests and       *)
(* grants and every configuration.                                         *)
(***************************************************************************)
EXTENDS StreamAccess, FiniteSetTheorems, TLAPS

\* What a handler writes into its own state keeps the state's type.
LEMMA IdleType == Idle \in Handler
  BY DEF Idle, Handler, Steps, Routes

LEMMA RespondType ==
  ASSUME TypeOK, NEW q \in Requests, Respond(q)
  PROVE  request' \in [Requests -> Handler]
  BY IdleType DEF TypeOK, Respond

LEMMA GotoType ==
  ASSUME TypeOK, NEW q \in Requests, NEW step \in Steps, Goto(q, step)
  PROVE  request' \in [Requests -> Handler]
  BY DEF TypeOK, Goto, Handler

LEMMA HandlerFields ==
  ASSUME NEW h \in Handler, NEW step \in Steps, NEW r \in Rows, NEW via \in Routes
  PROVE  /\ [h EXCEPT !.pc = step, !.row = r] \in Handler
         /\ [h EXCEPT !.pc = step, !.row = r, !.via = via] \in Handler
  BY DEF Handler

LEMMA HandlerTimes ==
  ASSUME NEW h \in Handler, NEW step \in Steps, NEW at \in Nat
  PROVE  /\ [h EXCEPT !.pc = step, !.marked_at = at] \in Handler
         /\ [h EXCEPT !.pc = step, !.last_ad_at = at] \in Handler
  BY DEF Handler

LEMMA RequestType ==
  ASSUME TypeOK, NEW q \in Requests, NEW h \in Handler, request' = [request EXCEPT ![q] = h]
  PROVE  request' \in [Requests -> Handler]
  BY DEF TypeOK

LEMMA RowType ==
  ASSUME TypeOK, NEW q \in Requests, NEW step \in Steps, NEW r \in Rows, NEW via \in Routes,
         \/ request' = [request EXCEPT ![q] = [@ EXCEPT !.pc = step, !.row = r]]
         \/ request' = [request EXCEPT ![q] = [@ EXCEPT !.pc = step, !.row = r, !.via = via]]
         \/ request' = [request EXCEPT ![q] = [Idle EXCEPT !.pc = step, !.row = r]]
         \/ request' = [request EXCEPT ![q] = [Idle EXCEPT !.pc = step, !.row = r, !.via = via]]
  PROVE  request' \in [Requests -> Handler]
<1>1. request[q] \in Handler
  BY DEF TypeOK
<1>2. /\ [request[q] EXCEPT !.pc = step, !.row = r] \in Handler
      /\ [request[q] EXCEPT !.pc = step, !.row = r, !.via = via] \in Handler
      /\ [Idle EXCEPT !.pc = step, !.row = r] \in Handler
      /\ [Idle EXCEPT !.pc = step, !.row = r, !.via = via] \in Handler
  BY <1>1, IdleType, HandlerFields
<1> QED
  BY <1>2 DEF TypeOK

LEMMA OpenType ==
  ASSUME TypeOK, NEW q \in Requests, NEW step \in Steps, NEW r \in Rows \cup {NoRow},
         NEW g \in Grants \cup {NoGrant}, OpenStart(q, step, r, g)
  PROVE  TypeOK'
<1>1. PICK premium \in BOOLEAN :
        request' = [request EXCEPT ![q] = [Idle EXCEPT !.pc = step, !.row = r, !.grant = g,
                                                       !.premium = premium, !.via = "link"]]
  BY AdAssumption DEF OpenStart
<1>2. [Idle EXCEPT !.pc = step, !.row = r, !.grant = g, !.premium = premium, !.via = "link"]
        \in Handler
  BY IdleType DEF Handler, Routes
<1>3. request' \in [Requests -> Handler]
  BY <1>1, <1>2 DEF TypeOK
<1> QED
  BY <1>3 DEF TypeOK, OpenStart

\* What an UPDATE writes into a row keeps the row's type.
LEMMA AccessFields ==
  ASSUME NEW a \in Access, NEW at \in Nat
  PROVE  /\ [a EXCEPT !.unwrapped = TRUE, !.unwrapped_at = at] \in Access
         /\ [a EXCEPT !.ad_required = TRUE, !.ad_seen = FALSE] \in Access
         /\ [a EXCEPT !.ad_seen = TRUE] \in Access
         /\ [a EXCEPT !.one_time_used = TRUE, !.locked = FALSE] \in Access
         /\ [a EXCEPT !.locked = TRUE] \in Access
         /\ [a EXCEPT !.locked = FALSE] \in Access
         /\ [a EXCEPT !.life = "deleted"] \in Access
  BY DEF Access, Lifetimes

LEMMA UpdateType ==
  ASSUME TypeOK, NEW r \in Rows, NEW a \in Access,
         access' = [access EXCEPT ![r] = a]
  PROVE  access' \in [Rows -> Access]
  BY DEF TypeOK

\* A row that is inserted has the type of a row.
LEMMA InsertType ==
  ASSUME TypeOK, NEW r \in Rows, NEW g \in Grants \cup {NoGrant},
         access' = [access EXCEPT ![r] = NewAccess(g)]
  PROVE  access' \in [Rows -> Access]
<1>1. NewAccess(g) \in Access
  BY DEF TypeOK, NewAccess, Access, Lifetimes
<1> QED
  BY <1>1 DEF TypeOK

LEMMA TypeInit == Init => TypeOK
  BY NullAssumption DEF Init, TypeOK, Access, Handler, Idle, Lifetimes, Steps, Routes

\* Every step of a handler and of the worker writes fields of the right type.
LEMMA TypeStep == TypeOK /\ [Next]_vars => TypeOK'
<1> SUFFICES ASSUME TypeOK, [Next]_vars PROVE TypeOK'
  OBVIOUS
<1>1. ASSUME NEW q \in Requests, NEW g \in Grants, OpenGrant(q, g) PROVE TypeOK'
  BY <1>1, OpenType DEF OpenGrant, Steps
<1>2. ASSUME NEW q \in Requests, NEW r \in Rows, OpenShortLink(q, r) PROVE TypeOK'
  BY <1>2, OpenType DEF OpenShortLink, Steps
<1>3. ASSUME NEW q \in Requests, NEW r \in Rows, OpenForeignLink(q, r) PROVE TypeOK'
  BY <1>3, InsertType DEF OpenForeignLink, TypeOK
<1>4. ASSUME NEW q \in Requests, GrantLookup(q) PROVE TypeOK'
  <2>1. request' \in [Requests -> Handler]
    BY <1>4, GotoType, RowType DEF GrantLookup, HolderOf, Live, Steps, Routes
  <2> QED
    BY <1>4, <2>1 DEF GrantLookup, TypeOK
<1>5. ASSUME NEW q \in Requests, GrantCreate(q) PROVE TypeOK'
  <2>1. request' \in [Requests -> Handler]
    BY <1>5, RowType DEF GrantCreate, HolderOf, Live, Unborn, Steps, Routes
  <2>2. request[q].grant \in Grants \cup {NoGrant}
    BY DEF TypeOK, Handler
  <2>3. access' \in [Rows -> Access]
    BY <1>5, <2>2, InsertType DEF GrantCreate, Unborn, TypeOK
  <2> QED
    BY <1>5, <2>1, <2>3 DEF GrantCreate, TypeOK
<1>6. ASSUME NEW q \in Requests, ReadAccess(q) PROVE TypeOK'
  <2>1. request' \in [Requests -> Handler]
    BY <1>6, GotoType, RespondType DEF ReadAccess, Steps
  <2> QED
    BY <1>6, <2>1 DEF ReadAccess, TypeOK
<1>7. ASSUME NEW q \in Requests, Reissue(q) PROVE TypeOK'
  <2>1. request' \in [Requests -> Handler]
    BY <1>7, RowType DEF Reissue, Unborn, Steps, Routes
  <2>2. access' \in [Rows -> Access]
    BY <1>7, InsertType DEF Reissue, Unborn
  <2> QED
    BY <1>7, <2>1, <2>2 DEF Reissue, TypeOK
<1>8. ASSUME NEW q \in Requests, MarkUnwrapped(q) PROVE TypeOK'
  <2> DEFINE r == request[q].row
  <2>1. CASE r \in Live
    <3>1. r \in Rows /\ clock' \in Nat
      BY <1>8, <2>1 DEF MarkUnwrapped, Live, TypeOK
    <3>2. access[r] \in Access /\ request[q] \in Handler
      BY <3>1 DEF TypeOK
    <3>3. access' \in [Rows -> Access]
      <4>1. [access[r] EXCEPT !.unwrapped = TRUE, !.unwrapped_at = clock'] \in Access
        BY <3>1, <3>2, AccessFields
      <4>2. access' = [access EXCEPT ![r] = [access[r] EXCEPT !.unwrapped = TRUE,
                                                              !.unwrapped_at = clock']]
        BY <1>8, <2>1, Zenon DEF MarkUnwrapped
      <4> HIDE DEF r
      <4> QED
        BY <3>1, <4>1, <4>2, UpdateType
    <3>4. [request[q] EXCEPT !.pc = "last_ad", !.marked_at = clock'] \in Handler
      BY <3>1, <3>2, HandlerTimes DEF Steps
    <3>5. request' \in [Requests -> Handler]
      BY <1>8, <2>1, <3>4, RequestType DEF MarkUnwrapped
    <3> QED
      BY <1>8, <3>1, <3>3, <3>5 DEF MarkUnwrapped, TypeOK
  <2>2. CASE r \notin Live
    <3>1. request' \in [Requests -> Handler]
      BY <1>8, <2>2, RespondType DEF MarkUnwrapped
    <3> QED
      BY <1>8, <2>2, <3>1 DEF MarkUnwrapped, TypeOK
  <2> QED
    BY <2>1, <2>2
<1>9. ASSUME NEW q \in Requests, ReadLastAd(q) PROVE TypeOK'
  <2>1. LastAdAt \subseteq Nat
    BY DEF LastAdAt, Newest, SeenAds, Live, TypeOK, Access
  <2>2. PICK at \in Nat :
          request' = [request EXCEPT ![q] = [@ EXCEPT !.pc = "count", !.last_ad_at = at]]
    BY <1>9, <2>1 DEF ReadLastAd
  <2>3. request[q] \in Handler
    BY DEF TypeOK
  <2>4. [request[q] EXCEPT !.pc = "count", !.last_ad_at = at] \in Handler
    BY <2>3, HandlerTimes DEF Steps
  <2>5. request' \in [Requests -> Handler]
    BY <2>2, <2>4, RequestType
  <2> QED
    BY <1>9, <2>5 DEF ReadLastAd, TypeOK
<1>10. ASSUME NEW q \in Requests, CountSinceLastAd(q) PROVE TypeOK'
  <2>1. request' \in [Requests -> Handler]
    BY <1>10, GotoType, RespondType DEF CountSinceLastAd, Steps
  <2> QED
    BY <1>10, <2>1 DEF CountSinceLastAd, TypeOK
<1>11. ASSUME NEW q \in Requests, AssignAd(q) PROVE TypeOK'
  <2>1. request' \in [Requests -> Handler]
    BY <1>11, RespondType DEF AssignAd
  <2>2. access' \in [Rows -> Access]
    <3> DEFINE r == request[q].row
    <3>1. CASE r \in Live
      <4>1. r \in Rows /\ access[r] \in Access
        BY <3>1 DEF Live, TypeOK
      <4>2. [access[r] EXCEPT !.ad_required = TRUE, !.ad_seen = FALSE] \in Access
        BY <4>1, AccessFields
      <4>3. access' = [access EXCEPT ![r] = [access[r] EXCEPT !.ad_required = TRUE, !.ad_seen = FALSE]]
        BY <1>11, <3>1, Zenon DEF AssignAd
      <4> HIDE DEF r
      <4> QED
        BY <4>1, <4>2, <4>3, UpdateType
    <3>2. CASE r \notin Live
      BY <1>11, <3>2 DEF AssignAd, TypeOK
    <3> QED
      BY <3>1, <3>2
  <2> QED
    BY <1>11, <2>1, <2>2 DEF AssignAd, TypeOK
<1>12. ASSUME NEW q \in Requests, Serve(q) PROVE TypeOK'
  <2>1. request' \in [Requests -> Handler]
    BY <1>12, RespondType DEF Serve
  <2>2. request[q].marked_at \in Nat
    BY DEF TypeOK, Handler
  <2>3. served' \in [Rows -> [ever : BOOLEAN, direct_at : Nat]]
    BY <1>12, <2>2 DEF Serve, TypeOK
  <2> QED
    BY <1>12, <2>1, <2>3 DEF Serve, TypeOK
<1>13. ASSUME NEW q \in Requests, NEW r \in Rows, AdSubmit(q, r) PROVE TypeOK'
  <2>1. request' \in [Requests -> Handler]
    BY <1>13, RowType DEF AdSubmit, Steps, Routes
  <2> QED
    BY <1>13, <2>1 DEF AdSubmit, TypeOK
<1>14. ASSUME NEW q \in Requests, AdMarkSeen(q) PROVE TypeOK'
  <2>1. request' \in [Requests -> Handler]
    BY <1>14, GotoType, RespondType DEF AdMarkSeen, Steps
  <2>2. access' \in [Rows -> Access]
    <3> DEFINE r == request[q].row
    <3>1. CASE r \in Live
      <4>1. r \in Rows /\ access[r] \in Access
        BY <3>1 DEF Live, TypeOK
      <4>2. [access[r] EXCEPT !.ad_seen = TRUE] \in Access
        BY <4>1, AccessFields
      <4>3. access' = [access EXCEPT ![r] = [access[r] EXCEPT !.ad_seen = TRUE]]
        BY <1>14, <3>1, Zenon DEF AdMarkSeen
      <4> HIDE DEF r
      <4> QED
        BY <4>1, <4>2, <4>3, UpdateType
    <3>2. CASE r \notin Live
      BY <1>14, <3>2 DEF AdMarkSeen, TypeOK
    <3> QED
      BY <3>1, <3>2
  <2> QED
    BY <1>14, <2>1, <2>2 DEF AdMarkSeen, TypeOK
<1>15. ASSUME NEW q \in Requests, NEW r \in Rows, PlayLock(q, r) PROVE TypeOK'
  <2>1. request' \in [Requests -> Handler]
    BY <1>15, RowType DEF PlayLock, Steps, Routes
  <2>2. \A s \in Rows : access[s] \in Access
    BY DEF TypeOK
  <2>3. access' \in [Rows -> Access]
    BY <1>15, <2>2, AccessFields DEF PlayLock, Live, TypeOK
  <2> QED
    BY <1>15, <2>1, <2>3 DEF PlayLock, TypeOK
<1>16. ASSUME NEW q \in Requests, PlayCommit(q) PROVE TypeOK'
  <2>1. request' \in [Requests -> Handler]
    BY <1>16, RespondType DEF PlayCommit
  <2>2. \A s \in Rows : access[s] \in Access
    BY DEF TypeOK
  <2>3. access' \in [Rows -> Access]
    BY <1>16, <2>2, AccessFields DEF PlayCommit, Live, TypeOK
  <2> QED
    BY <1>16, <2>1, <2>3 DEF PlayCommit, TypeOK
<1>17. ASSUME NEW q \in Requests, Fail(q) PROVE TypeOK'
  <2>1. request' \in [Requests -> Handler]
    BY <1>17, RespondType DEF Fail
  <2>2. \A s \in Rows : access[s] \in Access
    BY DEF TypeOK
  <2>3. access' \in [Rows -> Access]
    BY <1>17, <2>2, AccessFields DEF Fail, Live, TypeOK
  <2> QED
    BY <1>17, <2>1, <2>3 DEF Fail, TypeOK
<1>18. CASE SweepSelect
  <2>1. UnusedRows \subseteq Rows /\ AbandonedRows \subseteq Rows /\ UsedRows \subseteq Rows
    BY DEF UnusedRows, AbandonedRows, UsedRows, Live
  <2>2. sweep' \subseteq Rows
    <3>1. PICK rows \in {UnusedRows, AbandonedRows, UsedRows} : \E ids \in SUBSET rows : sweep' = ids
      BY <1>18 DEF SweepSelect
    <3> QED
      BY <2>1, <3>1
  <2> QED
    BY <1>18, <2>2 DEF SweepSelect, TypeOK
<1>19. CASE SweepDelete
  <2>1. access' \in [Rows -> Access]
    BY <1>19 DEF SweepDelete, TypeOK, Access, Lifetimes
  <2> QED
    BY <1>19, <2>1 DEF SweepDelete, TypeOK
<1>20. CASE NextDay
  BY <1>20 DEF NextDay, TypeOK
<1>21. CASE UNCHANGED vars
  BY <1>21 DEF vars, TypeOK
<1> QED
  BY <1>1, <1>2, <1>3, <1>4, <1>5, <1>6, <1>7, <1>8, <1>9, <1>10, <1>11, <1>12, <1>13,
     <1>14, <1>15, <1>16, <1>17, <1>18, <1>19, <1>20, <1>21 DEF Next, Step

\* The variables always have the types the ORM's columns and the handlers'
\* local variables give them.
THEOREM TypeCorrect == Spec => []TypeOK
  BY TypeInit, TypeStep, PTL DEF Spec

-----------------------------------------------------------------------------
PlayInv == TypeOK /\ RowLockHeld /\ PlayedOnce

\* Steps that neither enter nor leave the accounting transaction.
Untouched(r) == /\ access'[r].life = access[r].life
                /\ access'[r].one_time_used = access[r].one_time_used
                /\ access'[r].locked = access[r].locked

Inserted(r) == /\ access[r].life = "unborn" /\ access'[r].life = "live"
               /\ ~access'[r].one_time_used

Elsewhere(q) == request'[q].pc = "credit" =>
                  request[q].pc = "credit" /\ request'[q].row = request[q].row

LEMMA QuietStep ==
  ASSUME PlayInv, \A r \in Rows : Untouched(r) \/ Inserted(r),
         \A q \in Requests : Elsewhere(q), plays' = plays
  PROVE  RowLockHeld' /\ PlayedOnce'
<1>1. ASSUME NEW q \in Requests, request'[q].pc = "credit"
      PROVE  /\ request'[q].row \in Live'
             /\ access'[request'[q].row].locked /\ ~access'[request'[q].row].one_time_used
  BY <1>1 DEF PlayInv, RowLockHeld, Live, Elsewhere, Untouched, Inserted
<1>2. ASSUME NEW p \in Requests, NEW q \in Requests, request'[p].pc = "credit",
             request'[q].pc = "credit", request'[p].row = request'[q].row
      PROVE  p = q
  BY <1>2 DEF PlayInv, RowLockHeld, Elsewhere
<1>3. \A r \in Unborn' : ~access'[r].one_time_used
  BY DEF PlayInv, RowLockHeld, Unborn, Untouched, Inserted
<1>4. PlayedOnce'
  BY DEF PlayInv, RowLockHeld, PlayedOnce, Unborn, Untouched, Inserted
<1> QED
  BY <1>1, <1>2, <1>3, <1>4 DEF RowLockHeld

LEMMA RespondElsewhere ==
  ASSUME TypeOK, NEW q \in Requests, Respond(q)
  PROVE  \A p \in Requests : Elsewhere(p)
  BY DEF Elsewhere, TypeOK, Respond, Idle

LEMMA GotoElsewhere ==
  ASSUME TypeOK, NEW q \in Requests, NEW step \in Steps \ {"credit"}, Goto(q, step)
  PROVE  \A p \in Requests : Elsewhere(p)
  BY DEF Elsewhere, TypeOK, Handler, Goto

LEMMA ReadElsewhere ==
  ASSUME TypeOK, NEW q \in Requests, NEW r \in Rows,
         request' = [request EXCEPT ![q] = [@ EXCEPT !.pc = "read", !.row = r]]
  PROVE  \A p \in Requests : Elsewhere(p)
  BY DEF Elsewhere, TypeOK, Handler

LEMMA InsertQuiet ==
  ASSUME TypeOK, NEW r \in Unborn, NEW g, access' = [access EXCEPT ![r] = NewAccess(g)]
  PROVE  \A s \in Rows : Untouched(s) \/ Inserted(s)
  BY DEF Untouched, Inserted, TypeOK, NewAccess, Unborn

LEMMA UpdateQuiet ==
  ASSUME TypeOK, NEW r \in Rows, NEW a \in Access, access' = [access EXCEPT ![r] = a],
         a.life = access[r].life, a.locked = access[r].locked,
         a.one_time_used = access[r].one_time_used
  PROVE  \A s \in Rows : Untouched(s)
  BY DEF Untouched, TypeOK

\* The UPDATEs of the two views leave the fields the accounting reads alone.
LEMMA FieldsKept ==
  ASSUME NEW a \in Access, NEW at
  PROVE  \A b \in {[a EXCEPT !.unwrapped = TRUE, !.unwrapped_at = at],
                   [a EXCEPT !.ad_required = TRUE, !.ad_seen = FALSE],
                   [a EXCEPT !.ad_seen = TRUE]} :
           b.life = a.life /\ b.locked = a.locked /\ b.one_time_used = a.one_time_used
  BY DEF Access

LEMMA PlayStep == PlayInv /\ [Next]_vars => RowLockHeld' /\ PlayedOnce'
<1> SUFFICES ASSUME PlayInv, [Next]_vars PROVE RowLockHeld' /\ PlayedOnce'
  OBVIOUS
<1>t. TypeOK
  BY DEF PlayInv
<1>1. ASSUME NEW q \in Requests, NEW g \in Grants, OpenGrant(q, g) PROVE RowLockHeld' /\ PlayedOnce'
  <2>1. \A p \in Requests : Elsewhere(p)
    BY <1>1, <1>t DEF OpenGrant, OpenStart, Idle, TypeOK, Elsewhere
  <2>2. \A s \in Rows : Untouched(s) \/ Inserted(s)
    BY <1>1, <1>t DEF OpenGrant, OpenStart, TypeOK, Untouched
  <2>3. plays' = plays
    BY <1>1 DEF OpenGrant, OpenStart
  <2> QED
    BY <2>1, <2>2, <2>3, QuietStep
<1>2. ASSUME NEW q \in Requests, NEW r \in Rows, OpenShortLink(q, r) PROVE RowLockHeld' /\ PlayedOnce'
  <2>1. \A p \in Requests : Elsewhere(p)
    BY <1>2, <1>t DEF OpenShortLink, OpenStart, Idle, TypeOK, Elsewhere
  <2>2. \A s \in Rows : Untouched(s) \/ Inserted(s)
    BY <1>2, <1>t DEF OpenShortLink, OpenStart, TypeOK, Untouched
  <2>3. plays' = plays
    BY <1>2 DEF OpenShortLink, OpenStart
  <2> QED
    BY <2>1, <2>2, <2>3, QuietStep
<1>3. ASSUME NEW q \in Requests, NEW r \in Rows, OpenForeignLink(q, r) PROVE RowLockHeld' /\ PlayedOnce'
  <2>1. \A p \in Requests : Elsewhere(p)
    BY <1>3, <1>t DEF OpenForeignLink, TypeOK, Elsewhere
  <2>2. \A s \in Rows : Untouched(s) \/ Inserted(s)
    BY <1>3, <1>t, InsertQuiet DEF OpenForeignLink
  <2>3. plays' = plays
    BY <1>3 DEF OpenForeignLink
  <2> QED
    BY <2>1, <2>2, <2>3, QuietStep
<1>4. ASSUME NEW q \in Requests, GrantLookup(q) PROVE RowLockHeld' /\ PlayedOnce'
  <2>1. \A p \in Requests : Elsewhere(p)
    BY <1>4, <1>t, GotoElsewhere, ReadElsewhere DEF GrantLookup, HolderOf, Live, Steps
  <2>2. \A s \in Rows : Untouched(s) \/ Inserted(s)
    BY <1>4, <1>t DEF GrantLookup, TypeOK, Untouched
  <2>3. plays' = plays
    BY <1>4 DEF GrantLookup
  <2> QED
    BY <2>1, <2>2, <2>3, QuietStep
<1>5. ASSUME NEW q \in Requests, GrantCreate(q) PROVE RowLockHeld' /\ PlayedOnce'
  <2>1. \A p \in Requests : Elsewhere(p)
    BY <1>5, <1>t, ReadElsewhere DEF GrantCreate, HolderOf, Live, Unborn
  <2>2. \A s \in Rows : Untouched(s) \/ Inserted(s)
    <3>1. CASE access' = access
      BY <3>1 DEF Untouched
    <3>2. CASE \E r \in Unborn : access' = [access EXCEPT ![r] = NewAccess(request[q].grant)]
      BY <3>2, <1>t, InsertQuiet
    <3> QED
      BY <1>5, <3>1, <3>2 DEF GrantCreate
  <2>3. plays' = plays
    BY <1>5 DEF GrantCreate
  <2> QED
    BY <2>1, <2>2, <2>3, QuietStep
<1>6. ASSUME NEW q \in Requests, ReadAccess(q) PROVE RowLockHeld' /\ PlayedOnce'
  <2>1. \A p \in Requests : Elsewhere(p)
    BY <1>6, <1>t, GotoElsewhere, RespondElsewhere DEF ReadAccess, Steps
  <2>2. \A s \in Rows : Untouched(s) \/ Inserted(s)
    BY <1>6, <1>t DEF ReadAccess, TypeOK, Untouched
  <2>3. plays' = plays
    BY <1>6 DEF ReadAccess
  <2> QED
    BY <2>1, <2>2, <2>3, QuietStep
<1>7. ASSUME NEW q \in Requests, Reissue(q) PROVE RowLockHeld' /\ PlayedOnce'
  <2>1. \A p \in Requests : Elsewhere(p)
    BY <1>7, <1>t DEF Reissue, TypeOK, Elsewhere
  <2>2. \A s \in Rows : Untouched(s) \/ Inserted(s)
    BY <1>7, <1>t, InsertQuiet DEF Reissue
  <2>3. plays' = plays
    BY <1>7 DEF Reissue
  <2> QED
    BY <2>1, <2>2, <2>3, QuietStep
<1>8. ASSUME NEW q \in Requests, MarkUnwrapped(q) PROVE RowLockHeld' /\ PlayedOnce'
  <2>1. \A p \in Requests : Elsewhere(p)
    <3>1. CASE request' = [request EXCEPT ![q] = [@ EXCEPT !.pc = "last_ad", !.marked_at = clock']]
      BY <3>1, <1>t DEF TypeOK, Handler, Elsewhere
    <3>2. CASE Respond(q)
      BY <3>2, <1>t, RespondElsewhere
    <3> QED
      BY <1>8, <3>1, <3>2 DEF MarkUnwrapped
  <2>2. \A s \in Rows : Untouched(s) \/ Inserted(s)
    <3> DEFINE r == request[q].row
    <3>1. CASE r \in Live
      <4> DEFINE a == [access[r] EXCEPT !.unwrapped = TRUE, !.unwrapped_at = clock']
      <4>1. r \in Rows /\ access[r] \in Access
        BY <3>1, <1>t DEF Live, TypeOK
      <4>2. access' = [access EXCEPT ![r] = a]
        BY <1>8, <3>1, Zenon DEF MarkUnwrapped
      <4>3. a \in Access
        <5>1. clock' \in Nat
          BY <1>8, <1>t, <3>1 DEF MarkUnwrapped, TypeOK
        <5> HIDE DEF r
        <5> QED
          BY <4>1, <5>1, AccessFields
      <4>4. a.life = access[r].life /\ a.locked = access[r].locked
            /\ a.one_time_used = access[r].one_time_used
        BY <4>1, FieldsKept
      <4> HIDE DEF a, r
      <4> QED
        BY <4>1, <4>2, <4>3, <4>4, <1>t, UpdateQuiet
    <3>2. CASE r \notin Live
      BY <1>8, <3>2 DEF MarkUnwrapped, Untouched
    <3> QED
      BY <3>1, <3>2
  <2>3. plays' = plays
    BY <1>8 DEF MarkUnwrapped
  <2> QED
    BY <2>1, <2>2, <2>3, QuietStep
<1>9. ASSUME NEW q \in Requests, ReadLastAd(q) PROVE RowLockHeld' /\ PlayedOnce'
  <2>1. \A p \in Requests : Elsewhere(p)
    BY <1>9, <1>t DEF ReadLastAd, TypeOK, Elsewhere
  <2>2. \A s \in Rows : Untouched(s) \/ Inserted(s)
    BY <1>9, <1>t DEF ReadLastAd, TypeOK, Untouched
  <2>3. plays' = plays
    BY <1>9 DEF ReadLastAd
  <2> QED
    BY <2>1, <2>2, <2>3, QuietStep
<1>10. ASSUME NEW q \in Requests, CountSinceLastAd(q) PROVE RowLockHeld' /\ PlayedOnce'
  <2>1. \A p \in Requests : Elsewhere(p)
    BY <1>10, <1>t, GotoElsewhere, RespondElsewhere DEF CountSinceLastAd, Steps
  <2>2. \A s \in Rows : Untouched(s) \/ Inserted(s)
    BY <1>10, <1>t DEF CountSinceLastAd, TypeOK, Untouched
  <2>3. plays' = plays
    BY <1>10 DEF CountSinceLastAd
  <2> QED
    BY <2>1, <2>2, <2>3, QuietStep
<1>11. ASSUME NEW q \in Requests, AssignAd(q) PROVE RowLockHeld' /\ PlayedOnce'
  <2>1. \A p \in Requests : Elsewhere(p)
    BY <1>11, <1>t DEF AssignAd, Respond, Idle, TypeOK, Elsewhere
  <2>2. \A s \in Rows : Untouched(s) \/ Inserted(s)
    <3> DEFINE r == request[q].row
    <3>1. CASE r \in Live
      <4> DEFINE a == [access[r] EXCEPT !.ad_required = TRUE, !.ad_seen = FALSE]
      <4>1. r \in Rows /\ access[r] \in Access
        BY <3>1, <1>t DEF Live, TypeOK
      <4>2. access' = [access EXCEPT ![r] = a]
        BY <1>11, <3>1, Zenon DEF AssignAd
      <4>3. a \in Access
        BY <4>1, <1>t, <1>11, AccessFields DEF AssignAd, TypeOK
      <4>4. a.life = access[r].life /\ a.locked = access[r].locked
            /\ a.one_time_used = access[r].one_time_used
        BY <4>1, FieldsKept
      <4> HIDE DEF a, r
      <4> QED
        BY <4>1, <4>2, <4>3, <4>4, <1>t, UpdateQuiet
    <3>2. CASE r \notin Live
      BY <1>11, <3>2 DEF AssignAd, Untouched
    <3> QED
      BY <3>1, <3>2
  <2>3. plays' = plays
    BY <1>11 DEF AssignAd
  <2> QED
    BY <2>1, <2>2, <2>3, QuietStep
<1>12. ASSUME NEW q \in Requests, Serve(q) PROVE RowLockHeld' /\ PlayedOnce'
  <2>1. \A p \in Requests : Elsewhere(p)
    BY <1>12, <1>t DEF Serve, Respond, Idle, TypeOK, Elsewhere
  <2>2. \A s \in Rows : Untouched(s) \/ Inserted(s)
    BY <1>12, <1>t DEF Serve, TypeOK, Untouched
  <2>3. plays' = plays
    BY <1>12 DEF Serve
  <2> QED
    BY <2>1, <2>2, <2>3, QuietStep
<1>13. ASSUME NEW q \in Requests, NEW r \in Rows, AdSubmit(q, r) PROVE RowLockHeld' /\ PlayedOnce'
  <2>1. \A p \in Requests : Elsewhere(p)
    BY <1>13, <1>t DEF AdSubmit, Idle, TypeOK, Elsewhere
  <2>2. \A s \in Rows : Untouched(s) \/ Inserted(s)
    BY <1>13, <1>t DEF AdSubmit, TypeOK, Untouched
  <2>3. plays' = plays
    BY <1>13 DEF AdSubmit
  <2> QED
    BY <2>1, <2>2, <2>3, QuietStep
<1>14. ASSUME NEW q \in Requests, AdMarkSeen(q) PROVE RowLockHeld' /\ PlayedOnce'
  <2>1. \A p \in Requests : Elsewhere(p)
    BY <1>14, <1>t, GotoElsewhere, RespondElsewhere DEF AdMarkSeen, Steps
  <2>2. \A s \in Rows : Untouched(s) \/ Inserted(s)
    <3> DEFINE r == request[q].row
    <3>1. CASE r \in Live
      <4> DEFINE a == [access[r] EXCEPT !.ad_seen = TRUE]
      <4>1. r \in Rows /\ access[r] \in Access
        BY <3>1, <1>t DEF Live, TypeOK
      <4>2. access' = [access EXCEPT ![r] = a]
        BY <1>14, <3>1, Zenon DEF AdMarkSeen
      <4>3. a \in Access
        BY <4>1, <1>t, <1>14, AccessFields DEF AdMarkSeen, TypeOK
      <4>4. a.life = access[r].life /\ a.locked = access[r].locked
            /\ a.one_time_used = access[r].one_time_used
        BY <4>1, FieldsKept
      <4> HIDE DEF a, r
      <4> QED
        BY <4>1, <4>2, <4>3, <4>4, <1>t, UpdateQuiet
    <3>2. CASE r \notin Live
      BY <1>14, <3>2 DEF AdMarkSeen, Untouched
    <3> QED
      BY <3>1, <3>2
  <2>3. plays' = plays
    BY <1>14 DEF AdMarkSeen
  <2> QED
    BY <2>1, <2>2, <2>3, QuietStep
<1>15. CASE SweepSelect
  <2>1. \A p \in Requests : Elsewhere(p)
    BY <1>15, <1>t DEF SweepSelect, TypeOK, Elsewhere
  <2>2. \A s \in Rows : Untouched(s) \/ Inserted(s)
    BY <1>15, <1>t DEF SweepSelect, TypeOK, Untouched
  <2>3. plays' = plays
    BY <1>15 DEF SweepSelect
  <2> QED
    BY <2>1, <2>2, <2>3, QuietStep
<1>16. CASE NextDay
  <2>1. \A p \in Requests : Elsewhere(p)
    BY <1>16, <1>t DEF NextDay, TypeOK, Elsewhere
  <2>2. \A s \in Rows : Untouched(s) \/ Inserted(s)
    BY <1>16, <1>t DEF NextDay, TypeOK, Untouched
  <2>3. plays' = plays
    BY <1>16 DEF NextDay
  <2> QED
    BY <2>1, <2>2, <2>3, QuietStep
<1>17. CASE UNCHANGED vars
  <2>1. \A p \in Requests : Elsewhere(p)
    BY <1>17, <1>t DEF vars, TypeOK, Elsewhere
  <2>2. \A s \in Rows : Untouched(s) \/ Inserted(s)
    BY <1>17, <1>t DEF vars, TypeOK, Untouched
  <2>3. plays' = plays
    BY <1>17 DEF vars
  <2> QED
    BY <2>1, <2>2, <2>3, QuietStep
<1>18. ASSUME NEW q \in Requests, NEW r \in Rows, PlayLock(q, r) PROVE RowLockHeld' /\ PlayedOnce'
  <2>1. /\ r \in Live /\ ~access[r].locked /\ ~access[r].one_time_used
        /\ access' = [access EXCEPT ![r].locked = TRUE] /\ plays' = plays
        /\ request'[q].pc = "credit" /\ request'[q].row = r
        /\ \A p \in Requests \ {q} : request'[p] = request[p]
    BY <1>18, <1>t DEF PlayLock, Lockable, TypeOK, Idle
  <2>2. \A p \in Requests : request[p].pc = "credit" => request[p].row # r
    BY <2>1 DEF PlayInv, RowLockHeld
  <2>3. /\ access'[r].locked /\ access'[r].life = "live" /\ ~access'[r].one_time_used
        /\ \A s \in Rows : /\ access'[s].life = access[s].life
                            /\ access'[s].one_time_used = access[s].one_time_used
                            /\ access[s].locked => access'[s].locked
    BY <2>1, <1>t DEF Live, TypeOK, Access
  <2>4. ASSUME NEW p \in Requests, request'[p].pc = "credit"
        PROVE  /\ request'[p].row \in Live'
               /\ access'[request'[p].row].locked /\ ~access'[request'[p].row].one_time_used
    BY <2>1, <2>3, <2>4 DEF PlayInv, RowLockHeld, Live
  <2>5. \A p, o \in Requests :
          (request'[p].pc = "credit" /\ request'[o].pc = "credit" /\ request'[p].row = request'[o].row)
            => p = o
    BY <2>1, <2>2 DEF PlayInv, RowLockHeld
  <2>6. (\A s \in Unborn' : ~access'[s].one_time_used) /\ PlayedOnce'
    BY <2>1, <2>3 DEF PlayInv, RowLockHeld, PlayedOnce, Unborn
  <2> QED
    BY <2>4, <2>5, <2>6 DEF RowLockHeld
<1>19. ASSUME NEW q \in Requests, PlayCommit(q) PROVE RowLockHeld' /\ PlayedOnce'
  <2> DEFINE r == request[q].row
  <2>1. /\ r \in Rows /\ access[r].life = "live" /\ ~access[r].one_time_used
        /\ \A p \in Requests \ {q} : request[p].pc = "credit" => request[p].row # r
    BY <1>19 DEF PlayCommit, PlayInv, RowLockHeld, Live
  <2>2. /\ request'[q].pc = "idle"
        /\ \A p \in Requests \ {q} : request'[p] = request[p]
    BY <1>19, <1>t DEF PlayCommit, Respond, Idle, TypeOK
  <2>3. /\ \A s \in Rows \ {r} : access'[s] = access[s] /\ plays'[s] = plays[s]
        /\ access'[r].one_time_used /\ access'[r].life = "live" /\ plays'[r] = plays[r] + 1
    BY <1>19, <2>1, <1>t DEF PlayCommit, TypeOK, Access
  <2>4. ASSUME NEW p \in Requests, request'[p].pc = "credit"
        PROVE  /\ request'[p].row \in Live'
               /\ access'[request'[p].row].locked /\ ~access'[request'[p].row].one_time_used
    BY <2>1, <2>2, <2>3, <2>4 DEF PlayInv, RowLockHeld, Live
  <2>5. \A p, o \in Requests :
          (request'[p].pc = "credit" /\ request'[o].pc = "credit" /\ request'[p].row = request'[o].row)
            => p = o
    BY <2>2 DEF PlayInv, RowLockHeld
  <2>6. (\A s \in Unborn' : ~access'[s].one_time_used) /\ PlayedOnce'
    BY <2>1, <2>3 DEF PlayInv, RowLockHeld, PlayedOnce, Unborn
  <2> QED
    BY <2>4, <2>5, <2>6 DEF RowLockHeld
<1>20. ASSUME NEW q \in Requests, Fail(q) PROVE RowLockHeld' /\ PlayedOnce'
  <2>1. /\ request'[q].pc = "idle" /\ plays' = plays
        /\ \A p \in Requests \ {q} : request'[p] = request[p]
    BY <1>20, <1>t DEF Fail, Respond, Idle, TypeOK
  <2>2. \A s \in Rows : /\ access'[s].life = access[s].life
                        /\ access'[s].one_time_used = access[s].one_time_used
                        /\ \/ access'[s].locked = access[s].locked
                           \/ request[q].pc = "credit" /\ s = request[q].row
    <3>1. CASE request[q].pc = "credit"
      BY <1>20, <3>1, <1>t DEF Fail, TypeOK, Access
    <3>2. CASE request[q].pc # "credit"
      BY <1>20, <3>2 DEF Fail
    <3> QED
      BY <3>1, <3>2
  <2>3. ASSUME NEW p \in Requests, request'[p].pc = "credit"
        PROVE  /\ request'[p].row \in Live'
               /\ access'[request'[p].row].locked /\ ~access'[request'[p].row].one_time_used
    <3>1. p # q /\ request[p].pc = "credit" /\ request'[p].row = request[p].row
      BY <2>1, <2>3
    <3>2. request[p].row \in Rows /\ ~(request[q].pc = "credit" /\ request[p].row = request[q].row)
      BY <3>1 DEF PlayInv, RowLockHeld, Live
    <3> QED
      BY <2>2, <3>1, <3>2 DEF PlayInv, RowLockHeld, Live
  <2>4. \A p, o \in Requests :
          (request'[p].pc = "credit" /\ request'[o].pc = "credit" /\ request'[p].row = request'[o].row)
            => p = o
    BY <2>1 DEF PlayInv, RowLockHeld
  <2>5. (\A s \in Unborn' : ~access'[s].one_time_used) /\ PlayedOnce'
    BY <2>1, <2>2 DEF PlayInv, RowLockHeld, PlayedOnce, Unborn
  <2> QED
    BY <2>3, <2>4, <2>5 DEF RowLockHeld
<1>21. CASE SweepDelete
  <2>1. request' = request /\ plays' = plays
    BY <1>21 DEF SweepDelete
  <2>2. \A s \in Rows : /\ access'[s].one_time_used = access[s].one_time_used
                        /\ access'[s].locked = access[s].locked
                        /\ access'[s].life = IF s \in sweep THEN "deleted" ELSE access[s].life
    BY <1>21, <1>t DEF SweepDelete, TypeOK, Access
  <2>3. \A p \in Requests : request[p].pc = "credit" => request[p].row \notin sweep
    BY <1>21 DEF SweepDelete, Writable, PlayInv, RowLockHeld
  <2>4. ASSUME NEW p \in Requests, request'[p].pc = "credit"
        PROVE  /\ request'[p].row \in Live'
               /\ access'[request'[p].row].locked /\ ~access'[request'[p].row].one_time_used
    BY <2>1, <2>2, <2>3, <2>4 DEF PlayInv, RowLockHeld, Live
  <2>5. \A p, o \in Requests :
          (request'[p].pc = "credit" /\ request'[o].pc = "credit" /\ request'[p].row = request'[o].row)
            => p = o
    BY <2>1 DEF PlayInv, RowLockHeld
  <2>6. (\A s \in Unborn' : ~access'[s].one_time_used) /\ PlayedOnce'
    BY <2>1, <2>2 DEF PlayInv, RowLockHeld, PlayedOnce, Unborn
  <2> QED
    BY <2>4, <2>5, <2>6 DEF RowLockHeld
<1> QED
  BY <1>1, <1>2, <1>3, <1>4, <1>5, <1>6, <1>7, <1>8, <1>9, <1>10, <1>11, <1>12, <1>13,
     <1>14, <1>15, <1>16, <1>17, <1>18, <1>19, <1>20, <1>21 DEF Next, Step

LEMMA PlayInit == Init => RowLockHeld /\ PlayedOnce
  BY DEF Init, Idle, RowLockHeld, PlayedOnce, Unborn

\* Whatever requests race for a row and whichever of them fail, whoever is
\* inside the accounting transaction of PlayCountView.post holds it alone.
THEOREM LockProtectsPlay == Spec => []RowLockHeld
<1>1. Init => PlayInv
  BY TypeInit, PlayInit DEF PlayInv
<1>2. PlayInv /\ [Next]_vars => PlayInv'
  BY TypeStep, PlayStep DEF PlayInv
<1>3. PlayInv => RowLockHeld
  BY DEF PlayInv
<1> QED
  BY <1>1, <1>2, <1>3, PTL DEF Spec

\* A stream row is paid at most once, and one_time_used says exactly whether
\* it was, for any number of requests, rows and failures.
THEOREM PlayedAtMostOnce == Spec => []PlayedOnce
<1>1. Init => PlayInv
  BY TypeInit, PlayInit DEF PlayInv
<1>2. PlayInv /\ [Next]_vars => PlayInv'
  BY TypeStep, PlayStep DEF PlayInv
<1>3. PlayInv => PlayedOnce
  BY DEF PlayInv
<1> QED
  BY <1>1, <1>2, <1>3, PTL DEF Spec

-----------------------------------------------------------------------------
(* A grant opens one row: no row is deleted while grants are still valid, so   *)
(* that whoever finds no row of a grant that it may still open is right.       *)
LateCleanup == \A ttl \in {UnusedTTL, AbandonedTTL, UsedTTL} : GrantMaxAge <= ttl

Opening(q) == request[q].pc \in {"lookup", "create"}

OpeningValid == \A q \in Requests : Opening(q) => GrantValid
GoneLate == /\ \A r \in sweep : ~GrantValid
            /\ \A r \in Rows : access[r].life = "deleted" => ~GrantValid
UnbornFree == \A r \in Unborn : access[r].grant = NoGrant
Distinct == \A r, s \in Rows : access[r].grant \in Grants /\ access[r].grant = access[s].grant => r = s

GrantInv == TypeOK /\ OpeningValid /\ GoneLate /\ UnbornFree /\ Distinct

LEMMA GrantFirst == Init => GrantInv
BY TypeInit, NullAssumption DEF Init, Idle, GrantInv, OpeningValid, Opening, GoneLate, UnbornFree, Unborn, Distinct

\* Steps that leave the grants of the rows alone, or insert a row of none.
SameGrant(r) ==
    \/ access'[r].life = access[r].life /\ access'[r].grant = access[r].grant
    \/ r \in Unborn /\ access'[r].life = "live" /\ access'[r].grant = NoGrant
SameOpening(q) == Opening(q)' => Opening(q) \/ GrantValid

LEMMA SameGrants ==
    ASSUME GrantInv, TypeOK', \A r \in Rows : SameGrant(r), \A q \in Requests : SameOpening(q),
           today' = today, sweep' \in {sweep, {}}
    PROVE  GrantInv'
<1>1. OpeningValid'
  BY DEF GrantInv, OpeningValid, SameOpening, GrantValid
<1>2. GoneLate'
  BY DEF GrantInv, GoneLate, SameGrant, GrantValid
<1>3. UnbornFree'
  BY DEF GrantInv, UnbornFree, SameGrant, Unborn
<1>4. \A r \in Rows : access'[r].grant \in Grants => access'[r].grant = access[r].grant
  BY NullAssumption DEF SameGrant
<1>5. Distinct'
  BY <1>4 DEF GrantInv, Distinct
<1> QED
  BY <1>1, <1>2, <1>3, <1>5 DEF GrantInv

LEMMA Responded ==
    ASSUME TypeOK, NEW q \in Requests, Respond(q)
    PROVE  \A p \in Requests : SameOpening(p)
BY DEF TypeOK, Respond, Idle, SameOpening, Opening

LEMMA Gone ==
    ASSUME TypeOK, NEW q \in Requests, NEW step, Goto(q, step), step \in {"lookup", "create"} => Opening(q)
    PROVE  \A p \in Requests : SameOpening(p)
BY DEF TypeOK, Goto, Handler, SameOpening, Opening

LEMMA Updated ==
    ASSUME TypeOK, NEW r \in Rows, NEW a, access' = [access EXCEPT ![r] = a],
           a.life = access[r].life, a.grant = access[r].grant
    PROVE  \A s \in Rows : SameGrant(s)
BY DEF TypeOK, SameGrant

LEMMA InsertedFree ==
    ASSUME TypeOK, NEW r \in Unborn, access' = [access EXCEPT ![r] = NewAccess(NoGrant)]
    PROVE  \A s \in Rows : SameGrant(s)
BY DEF TypeOK, SameGrant, NewAccess, Unborn

LEMMA UpdatesKeepGrant ==
    ASSUME NEW a \in Access, NEW at
    PROVE  \A b \in {[a EXCEPT !.unwrapped = TRUE, !.unwrapped_at = at],
                     [a EXCEPT !.ad_required = TRUE, !.ad_seen = FALSE],
                     [a EXCEPT !.ad_seen = TRUE],
                     [a EXCEPT !.one_time_used = TRUE, !.locked = FALSE],
                     [a EXCEPT !.locked = TRUE], [a EXCEPT !.locked = FALSE]} :
             b.life = a.life /\ b.grant = a.grant
BY DEF Access

LEMMA KeptAccess == ASSUME access' = access PROVE \A r \in Rows : SameGrant(r)
BY DEF SameGrant

\* The requests that open, and those that the row lock is about.
LEMMA OpeningsKeep ==
    ASSUME GrantInv, TypeOK', NEW q \in Requests, NEW r \in Rows,
           OpenShortLink(q, r) \/ OpenForeignLink(q, r) \/ AdSubmit(q, r) \/ PlayLock(q, r)
    PROVE  GrantInv'
<1>t. TypeOK
  BY DEF GrantInv
<1>2. CASE OpenShortLink(q, r)
  <2>1. \A p \in Requests : SameOpening(p)
    BY <1>2, <1>t DEF OpenShortLink, OpenStart, SameOpening, Opening, TypeOK, Idle
  <2> QED
    BY <1>2, <2>1, SameGrants, KeptAccess DEF OpenShortLink, OpenStart
<1>3. CASE OpenForeignLink(q, r)
  <2>1. \A p \in Requests : SameOpening(p)
    BY <1>3 DEF OpenForeignLink, SameOpening, Opening
  <2> QED
    BY <1>3, <1>t, <2>1, SameGrants, InsertedFree DEF OpenForeignLink
<1>4. CASE AdSubmit(q, r)
  <2>1. \A p \in Requests : SameOpening(p)
    BY <1>4, <1>t DEF AdSubmit, SameOpening, Opening, TypeOK, Idle
  <2> QED
    BY <1>4, <2>1, SameGrants, KeptAccess DEF AdSubmit
<1>5. CASE PlayLock(q, r)
  <2>1. \A p \in Requests : SameOpening(p)
    BY <1>5, <1>t DEF PlayLock, SameOpening, Opening, TypeOK, Idle
  <2>2. access[r] \in Access /\ access' = [access EXCEPT ![r] = [access[r] EXCEPT !.locked = TRUE]]
    BY <1>5, <1>t DEF PlayLock, TypeOK
  <2>3. \A s \in Rows : SameGrant(s)
    BY <2>2, <1>t, Updated, UpdatesKeepGrant
  <2> QED
    BY <1>5, <2>1, <2>3, SameGrants DEF PlayLock
<1> QED
  BY <1>2, <1>3, <1>4, <1>5

LEMMA GrantOpens ==
    ASSUME GrantInv, TypeOK', NEW q \in Requests, NEW g \in Grants, OpenGrant(q, g)
    PROVE  GrantInv'
<1>1. GrantValid /\ access' = access /\ today' = today /\ sweep' = sweep
  BY DEF OpenGrant, OpenStart
<1>2. \A p \in Requests : SameOpening(p)
  BY <1>1 DEF SameOpening
<1> QED
  BY <1>1, <1>2, SameGrants, KeptAccess

\* The steps of a request but the one that opens a grant.
LEMMA StepsKeep ==
    ASSUME GrantInv, TypeOK', RowLockHeld, NEW q \in Requests, Step(q), ~GrantCreate(q)
    PROVE  GrantInv'
<1> DEFINE r == request[q].row
<1>t. TypeOK
  BY DEF GrantInv
<1>1. CASE GrantLookup(q)
  <2>1. \A p \in Requests : SameOpening(p)
    BY <1>1, <1>t DEF GrantLookup, SameOpening, Opening, Goto, TypeOK, Handler
  <2> QED
    BY <1>1, <2>1, SameGrants, KeptAccess DEF GrantLookup
<1>2. CASE ReadAccess(q)
  <2>1. \A p \in Requests : SameOpening(p)
    BY <1>2, <1>t, Responded, Gone DEF ReadAccess
  <2> QED
    BY <1>2, <2>1, SameGrants, KeptAccess DEF ReadAccess
<1>3. CASE Reissue(q)
  <2>1. PICK s \in Unborn :
          /\ access' = [access EXCEPT ![s] = NewAccess(NoGrant)]
          /\ request' = [request EXCEPT ![q] = [@ EXCEPT !.pc = "last_ad", !.row = s, !.via = "reissued"]]
    BY <1>3 DEF Reissue
  <2>2. \A p \in Requests : SameOpening(p)
    BY <2>1, <1>t DEF SameOpening, Opening, TypeOK, Handler
  <2> QED
    BY <1>3, <1>t, <2>1, <2>2, SameGrants, InsertedFree DEF Reissue
<1>4. CASE MarkUnwrapped(q)
  <2>1. CASE r \in Live
    <3>1. /\ access[r] \in Access
          /\ access' = [access EXCEPT ![r] = [access[r] EXCEPT !.unwrapped = TRUE, !.unwrapped_at = clock']]
          /\ request' = [request EXCEPT ![q] = [@ EXCEPT !.pc = "last_ad", !.marked_at = clock']]
      BY <1>4, <1>t, <2>1 DEF MarkUnwrapped, TypeOK, Live
    <3>2. \A s \in Rows : SameGrant(s)
      BY <2>1, <3>1, <1>t, Updated, UpdatesKeepGrant DEF Live
    <3>3. \A p \in Requests : SameOpening(p)
      BY <3>1, <1>t DEF SameOpening, Opening, TypeOK, Handler
    <3> QED
      BY <1>4, <3>2, <3>3, SameGrants DEF MarkUnwrapped
  <2>2. CASE r \notin Live
    BY <1>4, <1>t, <2>2, Responded, KeptAccess, SameGrants DEF MarkUnwrapped
  <2> QED
    BY <2>1, <2>2
<1>5. CASE ReadLastAd(q)
  <2>1. \A p \in Requests : SameOpening(p)
    BY <1>5, <1>t DEF ReadLastAd, SameOpening, Opening, TypeOK, Handler
  <2> QED
    BY <1>5, <2>1, SameGrants, KeptAccess DEF ReadLastAd
<1>6. CASE CountSinceLastAd(q)
  <2>1. \A p \in Requests : SameOpening(p)
    BY <1>6, <1>t, Responded, Gone DEF CountSinceLastAd
  <2> QED
    BY <1>6, <2>1, SameGrants, KeptAccess DEF CountSinceLastAd
<1>7. CASE AssignAd(q)
  <2>1. \A p \in Requests : SameOpening(p)
    BY <1>7, <1>t, Responded DEF AssignAd
  <2>2. \A s \in Rows : SameGrant(s)
    <3>1. CASE r \in Live
      <4>1. /\ access[r] \in Access
            /\ access' = [access EXCEPT ![r] = [access[r] EXCEPT !.ad_required = TRUE, !.ad_seen = FALSE]]
        BY <1>7, <1>t, <3>1 DEF AssignAd, TypeOK, Live
      <4> QED
        BY <3>1, <4>1, <1>t, Updated, UpdatesKeepGrant DEF Live
    <3> QED
      BY <1>7, <3>1, KeptAccess DEF AssignAd
  <2> QED
    BY <1>7, <2>1, <2>2, SameGrants DEF AssignAd
<1>8. CASE Serve(q)
  BY <1>8, <1>t, Responded, SameGrants, KeptAccess DEF Serve
<1>9. CASE AdMarkSeen(q)
  <2>1. \A p \in Requests : SameOpening(p)
    BY <1>9, <1>t, Responded, Gone DEF AdMarkSeen
  <2>2. \A s \in Rows : SameGrant(s)
    <3>1. CASE r \in Live
      <4>1. access[r] \in Access /\ access' = [access EXCEPT ![r] = [access[r] EXCEPT !.ad_seen = TRUE]]
        BY <1>9, <1>t, <3>1 DEF AdMarkSeen, TypeOK, Live
      <4> QED
        BY <3>1, <4>1, <1>t, Updated, UpdatesKeepGrant DEF Live
    <3> QED
      BY <1>9, <3>1, KeptAccess DEF AdMarkSeen
  <2> QED
    BY <1>9, <2>1, <2>2, SameGrants DEF AdMarkSeen
<1>10. CASE PlayCommit(q)
  <2>1. r \in Rows /\ access[r] \in Access
    BY <1>10, <1>t DEF PlayCommit, RowLockHeld, Live, TypeOK
  <2>2. access' = [access EXCEPT ![r] = [access[r] EXCEPT !.one_time_used = TRUE, !.locked = FALSE]]
    BY <1>10, <1>t, <2>1 DEF PlayCommit, TypeOK
  <2>3. \A s \in Rows : SameGrant(s)
    BY <2>1, <2>2, <1>t, Updated, UpdatesKeepGrant
  <2> QED
    BY <1>10, <1>t, <2>3, Responded, SameGrants DEF PlayCommit
<1>11. CASE Fail(q)
  <2>1. \A s \in Rows : SameGrant(s)
    <3>1. CASE request[q].pc = "credit"
      <4>1. r \in Rows /\ access[r] \in Access
        BY <3>1, <1>t DEF RowLockHeld, Live, TypeOK
      <4>2. access' = [access EXCEPT ![r] = [access[r] EXCEPT !.locked = FALSE]]
        BY <1>11, <1>t, <3>1, <4>1 DEF Fail, TypeOK
      <4> QED
        BY <4>1, <4>2, <1>t, Updated, UpdatesKeepGrant
    <3> QED
      BY <1>11, <3>1, KeptAccess DEF Fail
  <2> QED
    BY <1>11, <1>t, <2>1, Responded, SameGrants DEF Fail
<1> QED
  BY <1>1, <1>2, <1>3, <1>4, <1>5, <1>6, <1>7, <1>8, <1>9, <1>10, <1>11 DEF Step

\* The row a grant opens is the only one: none that stood for it was deleted.
LEMMA CreateKeeps ==
    ASSUME GrantInv, TypeOK', NEW q \in Requests, GrantCreate(q)
    PROVE  GrantInv'
<1>t. TypeOK
  BY DEF GrantInv
<1>0. today' = today /\ sweep' = sweep /\ GrantValid
  BY DEF GrantCreate, GrantInv, OpeningValid, Opening
<1>1. CASE HolderOf(request[q].grant) # {}
  <2>1. \A p \in Requests : SameOpening(p)
    BY <1>1, <1>t DEF GrantCreate, SameOpening, Opening, TypeOK, Handler
  <2> QED
    BY <1>0, <1>1, <2>1, SameGrants, KeptAccess DEF GrantCreate
<1>2. CASE HolderOf(request[q].grant) = {}
  <2> DEFINE g == request[q].grant
  <2>1. PICK r \in Unborn :
          /\ access' = [access EXCEPT ![r] = NewAccess(g)]
          /\ request' = [request EXCEPT ![q] = [@ EXCEPT !.pc = "read", !.row = r]]
    BY <1>2 DEF GrantCreate
  <2>2. /\ r \in Rows /\ access'[r].life = "live" /\ access'[r].grant = g
        /\ \A s \in Rows \ {r} : access'[s] = access[s]
    BY <1>t, <2>1 DEF Unborn, NewAccess, TypeOK
  <2>3. \A s \in Rows : access[s].life # "deleted"
    BY <1>0 DEF GrantInv, GoneLate
  <2>4. \A s \in Rows : access[s].life \in {"unborn", "live"}
    BY <1>t, <2>3 DEF TypeOK, Access, Lifetimes
  <2>5. \A s \in Rows : access[s].grant # g \/ g = NoGrant
    BY <1>2, <2>4 DEF HolderOf, Live, GrantInv, UnbornFree, Unborn
  <2>6. Distinct'
    BY <2>2, <2>5, NullAssumption DEF GrantInv, Distinct
  <2>7. UnbornFree' /\ GoneLate'
    BY <1>0, <2>2 DEF GrantInv, UnbornFree, Unborn, GoneLate, GrantValid
  <2>8. OpeningValid'
    BY <1>0 DEF OpeningValid, GrantValid
  <2> QED
    BY <2>6, <2>7, <2>8 DEF GrantInv
<1> QED
  BY <1>1, <1>2

\* Rows old enough for the worker are older than any valid grant.
LEMMA OldRows ==
    ASSUME LateCleanup, TypeOK, NEW r \in UnusedRows \cup AbandonedRows \cup UsedRows
    PROVE  ~GrantValid
<1>1. r \in Rows /\ access[r].created \in Nat
  BY DEF UnusedRows, AbandonedRows, UsedRows, Live, TypeOK, Access
<1>2. PICK ttl \in {UnusedTTL, AbandonedTTL, UsedTTL} : Older(r, ttl)
  BY DEF UnusedRows, AbandonedRows, UsedRows
<1> QED
  BY <1>1, <1>2, DayAssumption DEF LateCleanup, TypeOK, Older, GrantValid

LEMMA SweepKeeps ==
    ASSUME LateCleanup, GrantInv, TypeOK', SweepSelect \/ SweepDelete \/ NextDay
    PROVE  GrantInv'
<1>t. TypeOK
  BY DEF GrantInv
<1>1. CASE SweepSelect
  <2>1. sweep' \subseteq UnusedRows \cup AbandonedRows \cup UsedRows /\ sweep' # {}
    BY <1>1 DEF SweepSelect
  <2>2. ~GrantValid
    BY <1>t, <2>1, OldRows
  <2> QED
    BY <1>1, <2>2 DEF SweepSelect, GrantInv, OpeningValid, Opening, GoneLate, GrantValid, UnbornFree, Unborn, Distinct
<1>2. CASE SweepDelete
  <2>1. \A r \in Rows : access'[r] = IF r \in sweep THEN [access[r] EXCEPT !.life = "deleted"] ELSE access[r]
    BY <1>2 DEF SweepDelete
  <2>2. \A r \in Rows : access'[r].grant = access[r].grant
    BY <1>t, <2>1 DEF TypeOK, Access
  <2>3. \A r \in Rows : access'[r].life \in {access[r].life, "deleted"}
    BY <1>t, <2>1 DEF TypeOK, Access
  <2>4. \A r \in Rows : access'[r].life # access[r].life => r \in sweep
    BY <2>1
  <2>5. sweep' = {} /\ today' = today /\ request' = request
    BY <1>2 DEF SweepDelete
  <2>6. GoneLate' /\ OpeningValid'
    BY <2>4, <2>5 DEF GrantInv, GoneLate, OpeningValid, Opening, GrantValid
  <2>7. UnbornFree' /\ Distinct'
    BY <2>2, <2>3 DEF GrantInv, UnbornFree, Unborn, Distinct
  <2> QED
    BY <2>6, <2>7 DEF GrantInv
<1>3. CASE NextDay
  <2>1. /\ \A q \in Requests : request'[q].pc = "idle"
        /\ today' = today + 1 /\ access' = access /\ sweep' = {}
    BY <1>3 DEF NextDay
  <2>2. ~GrantValid => ~GrantValid'
    BY <1>t, <2>1, DayAssumption DEF GrantValid, TypeOK
  <2>3. OpeningValid' /\ GoneLate'
    BY <2>1, <2>2 DEF GrantInv, OpeningValid, Opening, GoneLate
  <2> QED
    BY <2>1, <2>3 DEF GrantInv, UnbornFree, Unborn, Distinct
<1> QED
  BY <1>1, <1>2, <1>3

LEMMA GrantStep == ASSUME LateCleanup, GrantInv, PlayInv, TypeOK', [Next]_vars PROVE GrantInv'
<1>1. CASE UNCHANGED vars
  BY <1>1 DEF vars, GrantInv, OpeningValid, Opening, GoneLate, GrantValid, UnbornFree, Unborn, Distinct
<1>2. ASSUME NEW q \in Requests, NEW r \in Rows,
             OpenShortLink(q, r) \/ OpenForeignLink(q, r) \/ AdSubmit(q, r) \/ PlayLock(q, r)
      PROVE  GrantInv'
  BY <1>2, OpeningsKeep
<1>3. ASSUME NEW q \in Requests, NEW g \in Grants, OpenGrant(q, g) PROVE GrantInv'
  BY <1>3, GrantOpens
<1>4. ASSUME NEW q \in Requests, Step(q) PROVE GrantInv'
  BY <1>4, StepsKeep, CreateKeeps DEF PlayInv
<1> QED
  BY <1>1, <1>2, <1>3, <1>4, SweepKeeps DEF Next

LEMMA GrantInvOne == ASSUME GrantInv PROVE GrantOneRow
<1> SUFFICES ASSUME NEW g \in Grants PROVE Cardinality({r \in Rows : access[r].grant = g}) <= 1
  BY DEF GrantOneRow
<1> DEFINE S == {r \in Rows : access[r].grant = g}
<1>1. S = {} \/ \E r \in Rows : S = {r}
  BY DEF GrantInv, Distinct
<1> HIDE DEF S
<1>2. Cardinality(S) \in {0, 1}
  BY <1>1, FS_EmptySet, FS_Singleton
<1> QED
  BY <1>2 DEF S

\* Where no row is deleted before the grants that may stand for it expire, a
\* grant opens one row in its whole life, whatever requests race for it
\* (materialize_stream_grant, cleanup_runtime_state).
THEOREM OneRowPerGrant == Spec => []GrantOneRow
<1>1. CASE LateCleanup
  <2>1. Init => PlayInv /\ GrantInv
    BY TypeInit, PlayInit, GrantFirst DEF PlayInv
  <2>2. PlayInv /\ GrantInv /\ [Next]_vars => PlayInv' /\ GrantInv'
    BY <1>1, TypeStep, PlayStep, GrantStep DEF PlayInv
  <2>3. GrantInv => GrantOneRow
    BY GrantInvOne
  <2> QED
    BY <2>1, <2>2, <2>3, PTL DEF Spec
<1>2. CASE ~LateCleanup
  <2>1. GrantOneRow
    BY <1>2 DEF GrantOneRow, LateCleanup
  <2> QED
    BY <2>1, PTL
<1> QED
  BY <1>1, <1>2

-----------------------------------------------------------------------------
(* Free listeners hear an ad in time.  AdBound speaks of the newest ad that    *)
(* was seen; the invariant speaks of every moment x after which no row with an *)
(* ad is marked, because a request counts since an ad that was the newest when *)
(* it read it, and newer ones only make fewer streams count.                   *)

NothingCleaned == \A ttl \in {UnusedTTL, AbandonedTTL, UsedTTL} : MaxDay <= ttl
FreeWithAds == AdFrequency > 0 /\ AdsAvailable /\ Plans = {FALSE}
FiniteRows == IsFiniteSet(Rows)

\* No ad is put on a row marked after x; the row was opened at that time and is
\* there; an ad that was the newest when it was read.
Past(x) == \A r \in Rows : access[r].ad_required => access[r].unwrapped_at <= x
MarkedSince(r, at) == access[r].life = "live" /\ access[r].unwrapped /\ at <= access[r].unwrapped_at
SomeAdAt(at) == at = 0 \/ \E r \in Rows : access[r].ad_required /\ at <= access[r].unwrapped_at

\* The streams heard, or about to be, without an ad since x.
AboutToHear(h, r, x) == h.pc = "serve" /\ h.via # "ad" /\ h.row = r /\ x < h.marked_at
Heard(x) == {r \in Rows : x < served[r].direct_at \/ \E q \in Requests : AboutToHear(request[q], r, x)}
HeardFew == \A x \in Nat : Past(x) => Cardinality(Heard(x)) < AdFrequency

\* No row goes, none is marked in the future, and one not handed out is blank.
RowsStay ==
    /\ sweep = {} /\ today <= MaxDay
    /\ \A r \in Rows :
         /\ access[r].life # "deleted" /\ access[r].unwrapped_at <= clock
         /\ access[r].life = "unborn" => ~access[r].ad_required /\ ~access[r].unwrapped /\ access[r].unwrapped_at = 0

\* A stream that was heard without an ad was marked on its row before.
DirectMarked == \A r \in Rows : 0 < served[r].direct_at => MarkedSince(r, served[r].direct_at)

\* What a request knows at each step.
Aware(h) ==
    /\ ~h.premium
    /\ h.pc \in {"lookup", "create", "read", "reissue", "mark", "ad_mark"} => h.marked_at = 0
    /\ 0 < h.marked_at => h.row \in Rows /\ MarkedSince(h.row, h.marked_at)
    /\ h.pc = "count" => SomeAdAt(h.last_ad_at)
AllAware == \A q \in Requests : Aware(request[q])

AdInv == TypeOK /\ RowsStay /\ DirectMarked /\ AllAware /\ HeardFew

\* What any step but a deletion does to a row.
Ages(r) ==
    /\ access[r].life = "live" => access'[r].life = "live"
    /\ access[r].unwrapped => access'[r].unwrapped
    /\ access[r].unwrapped_at <= access'[r].unwrapped_at
    /\ access[r].ad_required => access'[r].ad_required
    /\ access'[r].life # "deleted" /\ access'[r].unwrapped_at <= clock'
    /\ access'[r].life = "unborn" => access'[r] = access[r]

\* What a request knows stays true as rows age.
LEMMA AwareStays ==
    ASSUME TypeOK, TypeOK', \A r \in Rows : Ages(r), NEW h \in Handler, Aware(h)
    PROVE  Aware(h)'
<1>1. \A r \in Rows : access[r].unwrapped_at \in Nat /\ access'[r].unwrapped_at \in Nat
  BY DEF TypeOK, Access
<1>2. h.marked_at \in Nat /\ h.last_ad_at \in Nat
  BY DEF Handler
<1>3. \A r \in Rows : \A at \in Nat : MarkedSince(r, at) => MarkedSince(r, at)'
  BY <1>1 DEF MarkedSince, Ages
<1>4. \A at \in Nat : SomeAdAt(at) => SomeAdAt(at)'
  BY <1>1 DEF SomeAdAt, Ages
<1> QED
  BY <1>2, <1>3, <1>4 DEF Aware

\* Rows with an ad are only marked later, and more of them have one.
LEMMA PastStays ==
    ASSUME TypeOK, TypeOK', \A r \in Rows : Ages(r), NEW x \in Nat, Past(x)'
    PROVE  Past(x)
<1>1. \A r \in Rows : access[r].unwrapped_at \in Nat /\ access'[r].unwrapped_at \in Nat
  BY DEF TypeOK, Access
<1> QED
  BY <1>1 DEF Past, Ages

\* A step that lets nobody hear more keeps the bound.
LEMMA FewerHeard ==
    ASSUME FiniteRows, AdInv, TypeOK', \A r \in Rows : Ages(r),
           \A x \in Nat : Heard(x)' \subseteq Heard(x)
    PROVE  HeardFew'
<1> SUFFICES ASSUME NEW x \in Nat, Past(x)' PROVE Cardinality(Heard(x))' < AdFrequency
  BY DEF HeardFew
<1>1. Past(x) /\ TypeOK
  BY PastStays DEF AdInv
<1>2. Cardinality(Heard(x)) < AdFrequency
  BY <1>1 DEF AdInv, HeardFew
<1>3. IsFiniteSet(Heard(x))
  BY FS_Subset DEF FiniteRows, Heard
<1>4. Cardinality(Heard(x)') <= Cardinality(Heard(x)) /\ IsFiniteSet(Heard(x)')
  BY <1>3, FS_Subset
<1>5. Cardinality(Heard(x)) \in Nat /\ Cardinality(Heard(x)') \in Nat
  BY <1>3, <1>4, FS_CardinalityType
<1>6. AdFrequency \in Nat
  BY AdAssumption
<1>7. Cardinality(Heard(x)') < AdFrequency
  BY <1>2, <1>4, <1>5, <1>6
<1> QED
  BY <1>7

\* Marks are only moved forward.
LEMMA DirectStays ==
    ASSUME AdInv, TypeOK', \A r \in Rows : Ages(r), served' = served
    PROVE  DirectMarked'
<1>1. \A r \in Rows : access[r].unwrapped_at \in Nat /\ access'[r].unwrapped_at \in Nat /\ served[r].direct_at \in Nat
  BY DEF AdInv, TypeOK, Access
<1> QED
  BY <1>1 DEF AdInv, DirectMarked, MarkedSince, Ages

\* A request moves on without being about to hear its stream.
LEMMA Moves ==
    ASSUME FiniteRows, AdInv, TypeOK', \A r \in Rows : Ages(r),
           NEW q \in Requests, NEW h \in Handler, request' = [request EXCEPT ![q] = h], Aware(h)',
           h.pc = "serve" => h.marked_at = 0, served' = served, sweep' = {}, today' = today
    PROVE  AdInv'
<1>1. request'[q] = h /\ \A p \in Requests \ {q} : request'[p] = request[p]
  BY DEF AdInv, TypeOK
<1>2. AllAware'
  <2>1. ASSUME NEW p \in Requests, p # q PROVE Aware(request[p])'
    <3>1. PICK g \in Handler : g = request[p]
      BY DEF AdInv, TypeOK
    <3>2. Aware(g)'
      BY <3>1, AwareStays DEF AdInv, AllAware
    <3>3. request'[p] = g
      BY <1>1, <2>1, <3>1
    <3> QED
      BY <3>2, <3>3 DEF Aware
  <2>2. Aware(request[q])'
    BY <1>1 DEF Aware
  <2> QED
    BY <2>1, <2>2 DEF AllAware
<1>3. \A x \in Nat : Heard(x)' \subseteq Heard(x)
  BY <1>1 DEF Heard, AboutToHear
<1>4. HeardFew' /\ DirectMarked'
  BY <1>3, FewerHeard, DirectStays
<1>5. RowsStay'
  BY DEF AdInv, RowsStay, Ages
<1> QED
  BY <1>2, <1>4, <1>5 DEF AdInv

\* Rows that are not written, or inserted, or written as the handlers do.
LEMMA SameRows == ASSUME AdInv, access' = access, clock' = clock PROVE \A r \in Rows : Ages(r)
<1>1. \A r \in Rows : access[r].unwrapped_at \in Nat
  BY DEF AdInv, TypeOK, Access
<1> QED
  BY <1>1 DEF Ages, AdInv, RowsStay

\* A row is inserted.
LEMMA InsertedAges ==
    ASSUME AdInv, NEW s \in Unborn, NEW g, access' = [access EXCEPT ![s] = NewAccess(g)], clock' = clock
    PROVE  \A r \in Rows : Ages(r)
<1>1. \A r \in Rows : access[r].unwrapped_at \in Nat /\ access[r] \in Access
  BY DEF AdInv, TypeOK, Access
<1>2. clock \in Nat
  BY DEF AdInv, TypeOK
<1>3. access'[s] = NewAccess(g) /\ \A r \in Rows \ {s} : access'[r] = access[r]
  BY DEF AdInv, TypeOK, Unborn
<1>4. /\ NewAccess(g).life = "live" /\ NewAccess(g).unwrapped_at = 0 /\ ~NewAccess(g).ad_required
  BY DEF NewAccess
<1>5. Ages(s)
  BY <1>2, <1>3, <1>4 DEF Ages, AdInv, RowsStay, Unborn
<1>6. ASSUME NEW r \in Rows, r # s PROVE Ages(r)
  BY <1>1, <1>3, <1>6 DEF Ages, AdInv, RowsStay
<1> QED
  BY <1>5, <1>6
\* An UPDATE of a row that is there.
LEMMA UpdatedAges ==
    ASSUME AdInv, TypeOK', NEW s \in Rows, NEW a, access' = [access EXCEPT ![s] = a], clock <= clock',
           a.life = access[s].life, a.life # "unborn", access[s].unwrapped => a.unwrapped,
           access[s].unwrapped_at <= a.unwrapped_at, a.unwrapped_at <= clock', access[s].ad_required => a.ad_required
    PROVE  \A r \in Rows : Ages(r)
<1>1. \A r \in Rows : access[r].unwrapped_at \in Nat /\ access[r] \in Access
  BY DEF AdInv, TypeOK, Access
<1>2. clock \in Nat /\ clock' \in Nat
  BY DEF AdInv, TypeOK
<1>3. access'[s] = a /\ \A r \in Rows \ {s} : access'[r] = access[r]
  BY DEF AdInv, TypeOK
<1>5. Ages(s)
  BY <1>3 DEF Ages, AdInv, RowsStay
<1>6. ASSUME NEW r \in Rows, r # s PROVE Ages(r)
  BY <1>1, <1>2, <1>3, <1>6 DEF Ages, AdInv, RowsStay
<1> QED
  BY <1>5, <1>6

\* The UPDATEs that do not mark a row as opened.
LEMMA WrittenAges ==
    ASSUME AdInv, TypeOK', NEW s \in Rows, access[s].life # "unborn", NEW a, access' = [access EXCEPT ![s] = a], clock' = clock,
           a \in {[access[s] EXCEPT !.ad_required = TRUE, !.ad_seen = FALSE],
                  [access[s] EXCEPT !.ad_seen = TRUE],
                  [access[s] EXCEPT !.one_time_used = TRUE, !.locked = FALSE],
                  [access[s] EXCEPT !.locked = TRUE], [access[s] EXCEPT !.locked = FALSE]}
    PROVE  \A r \in Rows : Ages(r)
<1>1. access[s] \in Access /\ access[s].unwrapped_at <= clock /\ clock \in Nat
  BY DEF AdInv, TypeOK, RowsStay
<1>2. /\ a.life = access[s].life /\ a.unwrapped = access[s].unwrapped /\ a.unwrapped_at = access[s].unwrapped_at
      /\ access[s].ad_required => a.ad_required
  BY <1>1 DEF Access
<1>3. access[s].unwrapped_at \in Nat
  BY <1>1 DEF Access
<1>4. a.unwrapped_at <= clock' /\ clock <= clock' /\ access[s].unwrapped_at <= a.unwrapped_at
  BY <1>1, <1>2, <1>3
<1> QED
  BY <1>2, <1>4, UpdatedAges

\* A request ends.
LEMMA Ends ==
    ASSUME FiniteRows, AdInv, TypeOK', \A r \in Rows : Ages(r), NEW q \in Requests, Respond(q),
           served' = served, sweep' = {}, today' = today
    PROVE  AdInv'
<1>1. Aware(Idle)' /\ Idle.pc # "serve"
  BY DEF Aware, Idle
<1> QED
  BY <1>1, IdleType, Moves DEF Respond

\* A request goes on with what it has.
LEMMA GoesOn ==
    ASSUME FiniteRows, AdInv, TypeOK', \A r \in Rows : Ages(r), NEW q \in Requests, NEW step \in Steps, Goto(q, step),
           served' = served, sweep' = {}, today' = today,
           step \in {"lookup", "create", "read", "reissue", "mark", "ad_mark"} => request[q].marked_at = 0,
           step \notin {"count", "serve"}
    PROVE  AdInv'
<1>1. PICK old \in Handler : old = request[q]
  BY DEF AdInv, TypeOK
<1>2. PICK h : h = [old EXCEPT !.pc = step]
  OBVIOUS
<1>3. h \in Handler /\ h.pc = step /\ h.via = old.via /\ h.marked_at = old.marked_at /\ h.row = old.row /\ h.premium = old.premium
  BY <1>2 DEF Handler
<1>4. Aware(old)'
  BY <1>1, AwareStays DEF AdInv, AllAware
<1>5. Aware(h)'
  BY <1>1, <1>3, <1>4 DEF Aware
<1>6. request' = [request EXCEPT ![q] = h]
  BY <1>1, <1>2 DEF Goto
<1> QED
  BY <1>1, <1>3, <1>5, <1>6, Moves

\* A link is opened by a free listener.
LEMMA AdOpens ==
    ASSUME FiniteRows, FreeWithAds, AdInv, TypeOK', NEW q \in Requests, NEW step \in {"lookup", "read"},
           NEW r, NEW g, OpenStart(q, step, r, g)
    PROVE  AdInv'
<1>1. request' = [request EXCEPT ![q] = [Idle EXCEPT !.pc = step, !.row = r, !.grant = g,
                                                     !.premium = FALSE, !.via = "link"]]
  BY DEF OpenStart, FreeWithAds
<1>2. PICK h : h = [Idle EXCEPT !.pc = step, !.row = r, !.grant = g, !.premium = FALSE, !.via = "link"]
  OBVIOUS
<1>3. request' = [request EXCEPT ![q] = h]
  BY <1>1, <1>2
<1>4. h.pc = step /\ ~h.premium /\ h.marked_at = 0
  BY <1>2 DEF Idle
<1>5. h \in Handler
  BY <1>3 DEF AdInv, TypeOK
<1>6. Aware(h)'
  BY <1>4 DEF Aware
<1>7. \A s \in Rows : Ages(s)
  BY SameRows DEF OpenStart
<1>8. sweep' = {} /\ served' = served /\ today' = today
  BY DEF OpenStart, AdInv, RowsStay
<1> QED
  BY <1>3, <1>4, <1>5, <1>6, <1>7, <1>8, Moves

\* A step that keeps the requests.
LEMMA RequestsRest ==
    ASSUME FiniteRows, AdInv, TypeOK', \A r \in Rows : Ages(r), request' = request, served' = served, sweep' = {},
           today' <= MaxDay
    PROVE  AdInv'
<1>1. AllAware'
  <2>1. ASSUME NEW p \in Requests PROVE Aware(request[p])'
    <3>1. PICK g \in Handler : g = request[p]
      BY DEF AdInv, TypeOK
    <3>2. Aware(g)'
      BY <3>1, AwareStays DEF AdInv, AllAware
    <3> QED
      BY <3>1, <3>2 DEF Aware
  <2> QED
    BY <2>1 DEF AllAware
<1>2. \A x \in Nat : Heard(x)' \subseteq Heard(x)
  BY DEF Heard, AboutToHear
<1>3. HeardFew' /\ DirectMarked'
  BY <1>2, FewerHeard, DirectStays
<1>4. RowsStay'
  BY DEF AdInv, RowsStay, Ages
<1> QED
  BY <1>1, <1>3, <1>4 DEF AdInv

\* The requests of the four links.
LEMMA AdLinks ==
    ASSUME FiniteRows, FreeWithAds, AdInv, TypeOK', NEW q \in Requests, NEW r \in Rows,
           OpenShortLink(q, r) \/ OpenForeignLink(q, r) \/ AdSubmit(q, r) \/ PlayLock(q, r)
    PROVE  AdInv'
<1>0. sweep = {} /\ today <= MaxDay
  BY DEF AdInv, RowsStay
<1>1. CASE OpenShortLink(q, r)
  BY <1>1, AdOpens DEF OpenShortLink
<1>2. CASE OpenForeignLink(q, r)
  <2>1. \A s \in Rows : Ages(s)
    BY <1>2, InsertedAges DEF OpenForeignLink
  <2> QED
    BY <1>0, <1>2, <2>1, RequestsRest DEF OpenForeignLink
<1>3. CASE AdSubmit(q, r)
  <2>1. PICK h : h = [Idle EXCEPT !.pc = "ad_mark", !.row = r, !.via = "ad"]
    OBVIOUS
  <2>2. request' = [request EXCEPT ![q] = h]
    BY <1>3, <2>1 DEF AdSubmit
  <2>3. h \in Handler
    BY <2>2 DEF AdInv, TypeOK
  <2>4. Aware(h)' /\ h.pc # "serve"
    BY <2>1 DEF Aware, Idle
  <2>5. \A s \in Rows : Ages(s)
    BY <1>3, SameRows DEF AdSubmit
  <2> QED
    BY <1>0, <1>3, <2>2, <2>3, <2>4, <2>5, Moves DEF AdSubmit
<1>4. CASE PlayLock(q, r)
  <2>1. PICK h : h = [Idle EXCEPT !.pc = "credit", !.row = r]
    OBVIOUS
  <2>2. request' = [request EXCEPT ![q] = h]
    BY <1>4, <2>1 DEF PlayLock
  <2>3. h \in Handler
    BY <2>2 DEF AdInv, TypeOK
  <2>4. Aware(h)' /\ h.pc # "serve"
    BY <2>1 DEF Aware, Idle
  <2>5. PICK a : a = [access[r] EXCEPT !.locked = TRUE]
    OBVIOUS
  <2>6. access' = [access EXCEPT ![r] = a] /\ access[r].life # "unborn"
    BY <1>4, <2>5 DEF PlayLock, Lockable, Live
  <2>7. \A s \in Rows : Ages(s)
    BY <1>4, <2>5, <2>6, WrittenAges DEF PlayLock
  <2> QED
    BY <1>0, <1>4, <2>2, <2>3, <2>4, <2>7, Moves DEF PlayLock
<1> QED
  BY <1>1, <1>2, <1>3, <1>4

\* A link is looked up, created or reissued.
LEMMA AdGrants ==
    ASSUME FiniteRows, AdInv, TypeOK', NEW q \in Requests, GrantLookup(q) \/ GrantCreate(q) \/ Reissue(q)
    PROVE  AdInv'
<1>0. sweep = {} /\ today <= MaxDay
  BY DEF AdInv, RowsStay
<1>1. PICK old \in Handler : old = request[q] /\ Aware(old)
  BY DEF AdInv, AllAware, TypeOK
<1>2. old.pc \in {"lookup", "create", "reissue"} /\ old.marked_at = 0 /\ ~old.premium
  BY <1>1 DEF GrantLookup, GrantCreate, Reissue, Aware
<1>3. \A r \in Rows : Ages(r)
  <2>1. access' = access \/ \E s \in Unborn : \E g : access' = [access EXCEPT ![s] = NewAccess(g)]
    BY DEF GrantLookup, GrantCreate, Reissue
  <2>2. clock' = clock
    BY DEF GrantLookup, GrantCreate, Reissue
  <2> QED
    BY <2>1, <2>2, SameRows, InsertedAges
<1>4. served' = served /\ sweep' = {} /\ today' = today
  BY <1>0 DEF GrantLookup, GrantCreate, Reissue
<1>5. PICK r : \/ request' = [request EXCEPT ![q] = [old EXCEPT !.pc = "create"]]
               \/ request' = [request EXCEPT ![q] = [old EXCEPT !.pc = "read", !.row = r]]
               \/ request' = [request EXCEPT ![q] = [old EXCEPT !.pc = "last_ad", !.row = r, !.via = "reissued"]]
  BY <1>1 DEF GrantLookup, GrantCreate, Reissue, Goto
<1>6. PICK h : /\ request' = [request EXCEPT ![q] = h]
               /\ h \in {[old EXCEPT !.pc = "create"], [old EXCEPT !.pc = "read", !.row = r],
                         [old EXCEPT !.pc = "last_ad", !.row = r, !.via = "reissued"]}
  BY <1>5
<1>7. h.pc \in {"create", "read", "last_ad"} /\ h.marked_at = 0 /\ ~h.premium
  BY <1>2, <1>6 DEF Handler
<1>8. Aware(h)' /\ h.pc # "serve"
  BY <1>7 DEF Aware
<1>9. h \in Handler
  BY <1>6 DEF AdInv, TypeOK
<1> QED
  BY <1>3, <1>4, <1>6, <1>8, <1>9, Moves

\* The row is marked before anything is counted.
LEMMA AdMarks ==
    ASSUME FiniteRows, AdInv, TypeOK', NEW q \in Requests, MarkUnwrapped(q)
    PROVE  AdInv'
<1>0. sweep = {} /\ today <= MaxDay
  BY DEF AdInv, RowsStay
<1>1. PICK old \in Handler : old = request[q] /\ Aware(old)
  BY DEF AdInv, AllAware, TypeOK
<1>2. CASE old.row \notin Live
  BY <1>0, <1>1, <1>2, SameRows, Ends DEF MarkUnwrapped
<1>3. CASE old.row \in Live
  <2>0. PICK now \in Nat : now = clock'
    BY DEF TypeOK
  <2>1. PICK a : a = [access[old.row] EXCEPT !.unwrapped = TRUE, !.unwrapped_at = now]
    OBVIOUS
  <2>2. PICK h : h = [old EXCEPT !.pc = "last_ad", !.marked_at = now]
    OBVIOUS
  <2>3. /\ access' = [access EXCEPT ![old.row] = a] /\ request' = [request EXCEPT ![q] = h]
        /\ now = clock + 1 /\ now = clock' /\ served' = served /\ sweep' = sweep /\ today' = today
    BY <1>1, <1>3, <2>0, <2>1, <2>2 DEF MarkUnwrapped
  <2>4. old.row \in Rows /\ access[old.row] \in Access /\ access[old.row].life = "live"
        /\ access[old.row].unwrapped_at <= clock /\ clock \in Nat
    BY <1>3 DEF Live, AdInv, TypeOK, RowsStay
  <2>5. /\ a.life = access[old.row].life /\ a.unwrapped /\ a.unwrapped_at = now
        /\ a.ad_required = access[old.row].ad_required
    BY <2>1, <2>4 DEF Access
  <2>6. access[old.row].unwrapped_at \in Nat
    BY <2>4 DEF Access
  <2>7. clock <= now /\ access[old.row].unwrapped_at <= now /\ now <= now
    BY <2>3, <2>4, <2>6
  <2>8. \A r \in Rows : Ages(r)
    BY <2>0, <2>3, <2>4, <2>5, <2>7, UpdatedAges
  <2>9. h.pc = "last_ad" /\ h.row = old.row /\ h.premium = old.premium /\ h.marked_at = now
    BY <2>2 DEF Handler
  <2>10. access'[old.row] = a
    BY <2>3, <2>4 DEF AdInv, TypeOK
  <2>11. MarkedSince(old.row, now)'
    BY <2>4, <2>5, <2>7, <2>10 DEF MarkedSince
  <2>12. h.row \in Rows /\ MarkedSince(h.row, h.marked_at)'
    BY <2>4, <2>9, <2>11 DEF MarkedSince
  <2>13. Aware(h)'
    BY <1>1, <2>9, <2>12 DEF Aware
  <2>14. h \in Handler
    BY <2>3 DEF AdInv, TypeOK
  <2> QED
    BY <1>0, <2>3, <2>8, <2>9, <2>13, <2>14, Moves
<1> QED
  BY <1>2, <1>3

\* The newest ad that was seen is the time of a row with an ad.
LEMMA AdReads ==
    ASSUME FiniteRows, AdInv, TypeOK', NEW q \in Requests, ReadLastAd(q)
    PROVE  AdInv'
<1>1. PICK old \in Handler : old = request[q] /\ Aware(old)
  BY DEF AdInv, AllAware, TypeOK
<1>2. PICK at \in LastAdAt : request' = [request EXCEPT ![q] = [old EXCEPT !.pc = "count", !.last_ad_at = at]]
  BY <1>1 DEF ReadLastAd
<1>3. PICK h : h = [old EXCEPT !.pc = "count", !.last_ad_at = at]
  OBVIOUS
<1>4. request' = [request EXCEPT ![q] = h]
  BY <1>2, <1>3
<1>5. h.pc = "count" /\ h.last_ad_at = at /\ h.row = old.row /\ h.premium = old.premium /\ h.marked_at = old.marked_at
  BY <1>3 DEF Handler
<1>6. h \in Handler
  BY <1>4 DEF AdInv, TypeOK
<1>7. SomeAdAt(at)
  <2>1. CASE at = 0
    BY <2>1 DEF SomeAdAt
  <2>2. CASE at # 0
    <3>1. PICK r \in Newest : at = access[r].unwrapped_at
      BY <2>2 DEF LastAdAt
    <3>2. r \in Rows /\ access[r].ad_required /\ access[r].unwrapped_at \in Nat
      BY <3>1 DEF Newest, SeenAds, Live, AdInv, TypeOK, Access
    <3> QED
      BY <3>1, <3>2 DEF SomeAdAt
  <2> QED
    BY <2>1, <2>2
<1>8. Aware(h)
  BY <1>1, <1>5, <1>7 DEF Aware
<1>9. \A r \in Rows : Ages(r)
  BY SameRows DEF ReadLastAd
<1>10. Aware(h)'
  BY <1>6, <1>8, <1>9, AwareStays DEF AdInv
<1>11. sweep' = {} /\ served' = served /\ today' = today
  BY DEF ReadLastAd, AdInv, RowsStay
<1> QED
  BY <1>4, <1>5, <1>6, <1>9, <1>10, <1>11, Moves

\* What is heard since x was opened since an ad that x is past.
LEMMA HeardWereOpened ==
    ASSUME AdInv, NEW x \in Nat, NEW at \in Nat, Past(x), SomeAdAt(at)
    PROVE  /\ \A r \in Rows : x < served[r].direct_at => r \in SinceLastAd(at)
           /\ \A p \in Requests : x < request[p].marked_at => request[p].row \in SinceLastAd(at)
<1>1. \A r \in Rows : access[r].unwrapped_at \in Nat /\ served[r].direct_at \in Nat
  BY DEF AdInv, TypeOK, Access
<1>2. at <= x
  BY <1>1 DEF SomeAdAt, Past
<1>3. \A r \in Rows : \A y \in Nat : x < y /\ MarkedSince(r, y) => r \in SinceLastAd(at)
  BY <1>1, <1>2 DEF MarkedSince, SinceLastAd, Live
<1>4. ASSUME NEW r \in Rows, x < served[r].direct_at PROVE r \in SinceLastAd(at)
  <2>1. MarkedSince(r, served[r].direct_at)
    BY <1>1, <1>4 DEF AdInv, DirectMarked
  <2> QED
    BY <1>1, <1>3, <1>4, <2>1
<1>5. ASSUME NEW p \in Requests, x < request[p].marked_at PROVE request[p].row \in SinceLastAd(at)
  <2>1. request[p].marked_at \in Nat
    BY DEF AdInv, TypeOK, Handler
  <2>2. request[p].row \in Rows /\ MarkedSince(request[p].row, request[p].marked_at)
    BY <1>5, <2>1 DEF AdInv, AllAware, Aware
  <2> QED
    BY <1>3, <1>5, <2>1, <2>2
<1> QED
  BY <1>4, <1>5

\* No ad is due: too few streams were opened since the ad.
LEMMA AdCounts ==
    ASSUME FiniteRows, FreeWithAds, AdInv, TypeOK', NEW q \in Requests, CountSinceLastAd(q)
    PROVE  AdInv'
<1>0. sweep' = {} /\ served' = served /\ today' = today /\ access' = access /\ clock' = clock
  BY DEF CountSinceLastAd, AdInv, RowsStay
<1>1. PICK old \in Handler : old = request[q] /\ Aware(old) /\ old.pc = "count" /\ ~old.premium
  BY DEF AdInv, AllAware, Aware, TypeOK, CountSinceLastAd
<1>2. \A r \in Rows : Ages(r)
  BY <1>0, SameRows
<1>3. CASE Goto(q, "assign")
  <2>1. "assign" \in Steps
    BY DEF Steps
  <2> QED
    BY <1>0, <1>2, <1>3, <2>1, GoesOn
<1>4. CASE Respond(q)
  BY <1>0, <1>2, <1>4, Ends
<1>5. CASE Goto(q, "serve") /\ ~AdDue(q)
  <2>1. PICK h : h = [old EXCEPT !.pc = "serve"]
    OBVIOUS
  <2>2. request' = [request EXCEPT ![q] = h]
    BY <1>1, <1>5, <2>1 DEF Goto
  <2>3. h.pc = "serve" /\ h.row = old.row /\ h.premium = old.premium /\ h.marked_at = old.marked_at
    BY <2>1 DEF Handler
  <2>4. h \in Handler
    BY <2>2 DEF AdInv, TypeOK
  <2>5. Aware(h)
    BY <1>1, <2>3 DEF Aware
  <2>6. request'[q] = h /\ \A p \in Requests \ {q} : request'[p] = request[p]
    BY <2>2 DEF AdInv, TypeOK
  <2>7. \A p \in Requests : request'[p].marked_at = request[p].marked_at /\ request'[p].row = request[p].row
    BY <1>1, <2>3, <2>6
  <2>8. AllAware'
    <3>1. \A p \in Requests : Aware(request'[p])
      BY <2>5, <2>6 DEF AdInv, AllAware
    <3> QED
      BY <1>0, <3>1 DEF AllAware, Aware, MarkedSince, SomeAdAt
  <2>9. old.last_ad_at \in Nat /\ SomeAdAt(old.last_ad_at)
    BY <1>1 DEF Aware, Handler
  <2>10. PICK opened : opened = SinceLastAd(old.last_ad_at)
    OBVIOUS
  <2>11. ~(Cardinality(opened) >= AdFrequency) /\ IsFiniteSet(opened)
    <3>1. IsFiniteSet(opened)
      BY <2>10, FS_Subset DEF FiniteRows, SinceLastAd, Live
    <3> QED
      BY <1>1, <1>5, <2>10, <3>1 DEF AdDue, FreeWithAds
  <2>12. Cardinality(opened) \in Nat /\ AdFrequency \in Nat
    BY <2>11, FS_CardinalityType, AdAssumption
  <2>13. ASSUME NEW x \in Nat, Past(x)' PROVE Cardinality(Heard(x))' < AdFrequency
    <3>1. Past(x)
      BY <1>0, <2>13 DEF Past
    <3>2. Heard(x)' \subseteq opened
      BY <1>0, <2>7, <2>9, <2>10, <3>1, HeardWereOpened DEF Heard, AboutToHear
    <3>3. Cardinality(Heard(x)') <= Cardinality(opened) /\ IsFiniteSet(Heard(x)')
      BY <2>11, <3>2, FS_Subset
    <3>4. Cardinality(Heard(x)') \in Nat
      BY <3>3, FS_CardinalityType
    <3>5. Cardinality(Heard(x)') < AdFrequency
      BY <2>11, <2>12, <3>3, <3>4
    <3> QED
      BY <3>5
  <2>14. HeardFew'
    BY <2>13 DEF HeardFew
  <2>15. DirectMarked' /\ RowsStay'
    BY <1>0 DEF AdInv, DirectMarked, MarkedSince, RowsStay
  <2> QED
    BY <2>8, <2>14, <2>15 DEF AdInv
<1> QED
  BY <1>3, <1>4, <1>5 DEF CountSinceLastAd

\* The stream that was counted reaches the client.
LEMMA AdServes ==
    ASSUME FiniteRows, AdInv, TypeOK', NEW q \in Requests, Serve(q)
    PROVE  AdInv'
<1>0. sweep' = {} /\ today' = today /\ access' = access /\ clock' = clock
  BY DEF Serve, AdInv, RowsStay
<1>1. PICK old \in Handler : old = request[q] /\ Aware(old) /\ old.pc = "serve"
  BY DEF AdInv, AllAware, TypeOK, Serve
<1>2. \A r \in Rows : Ages(r)
  BY <1>0, SameRows
<1>3. PICK at : at = IF old.via = "ad" THEN served[old.row].direct_at ELSE old.marked_at
  OBVIOUS
<1>4. served' = [served EXCEPT ![old.row] = [ever |-> TRUE, direct_at |-> at]]
  BY <1>1, <1>3 DEF Serve
<1>5. \A r \in Rows : served'[r].direct_at = IF r = old.row THEN at ELSE served[r].direct_at
  BY <1>4 DEF AdInv, TypeOK
<1>6. request'[q] = Idle /\ \A p \in Requests \ {q} : request'[p] = request[p]
  BY DEF Serve, Respond, AdInv, TypeOK
<1>7. AllAware'
  <2>1. \A p \in Requests : Aware(request'[p])
    BY <1>6 DEF AdInv, AllAware, Aware, Idle
  <2> QED
    BY <1>0, <2>1 DEF AllAware, Aware, MarkedSince, SomeAdAt
<1>8. DirectMarked'
  <2>1. \A r \in Rows : 0 < served'[r].direct_at => MarkedSince(r, served'[r].direct_at)
    BY <1>1, <1>3, <1>5 DEF Aware, AdInv, DirectMarked
  <2> QED
    BY <1>0, <2>1 DEF DirectMarked, MarkedSince
<1>9. \A x \in Nat : Heard(x)' \subseteq Heard(x)
  <2>1. ASSUME NEW x \in Nat, NEW r \in Rows, x < served'[r].direct_at PROVE r \in Heard(x)
    BY <1>1, <1>3, <1>5, <2>1 DEF Heard, AboutToHear
  <2>2. ASSUME NEW x \in Nat, NEW r \in Rows, NEW p \in Requests, AboutToHear(request'[p], r, x) PROVE r \in Heard(x)
    BY <1>6, <2>2 DEF Heard, AboutToHear, Idle
  <2> QED
    BY <2>1, <2>2 DEF Heard, AboutToHear
<1>10. HeardFew'
  BY <1>2, <1>9, FewerHeard
<1>11. RowsStay'
  BY <1>0 DEF AdInv, RowsStay
<1> QED
  BY <1>7, <1>8, <1>10, <1>11 DEF AdInv

\* The steps that neither open, mark nor count.
LEMMA AdRest ==
    ASSUME FiniteRows, AdInv, RowLockHeld, TypeOK', NEW q \in Requests,
           ReadAccess(q) \/ AssignAd(q) \/ AdMarkSeen(q) \/ PlayCommit(q) \/ Fail(q)
    PROVE  AdInv'
<1>0. sweep' = {} /\ served' = served /\ today' = today /\ clock' = clock
  BY DEF ReadAccess, AssignAd, AdMarkSeen, PlayCommit, Fail, AdInv, RowsStay
<1>1. PICK old \in Handler : old = request[q] /\ Aware(old)
  BY DEF AdInv, AllAware, TypeOK
<1>2. CASE ReadAccess(q)
  <2>1. \A r \in Rows : Ages(r)
    BY <1>2, SameRows DEF ReadAccess
  <2>2. old.marked_at = 0
    BY <1>1, <1>2 DEF ReadAccess, Aware
  <2>3. {"reissue", "mark"} \subseteq Steps
    BY DEF Steps
  <2> QED
    BY <1>0, <1>1, <1>2, <2>1, <2>2, <2>3, Ends, GoesOn DEF ReadAccess
<1>3. CASE AssignAd(q)
  <2>1. \A r \in Rows : Ages(r)
    <3>1. CASE old.row \in Live
      <4>1. PICK a : a = [access[old.row] EXCEPT !.ad_required = TRUE, !.ad_seen = FALSE]
        OBVIOUS
      <4>2. access' = [access EXCEPT ![old.row] = a]
        BY <1>1, <1>3, <3>1, <4>1 DEF AssignAd
      <4> QED
        BY <1>0, <3>1, <4>1, <4>2, WrittenAges DEF Live
    <3> QED
      BY <1>0, <1>1, <1>3, <3>1, SameRows DEF AssignAd
  <2> QED
    BY <1>0, <1>3, <2>1, Ends DEF AssignAd
<1>4. CASE AdMarkSeen(q)
  <2>1. CASE old.row \in Live
    <3>1. PICK a : a = [access[old.row] EXCEPT !.ad_seen = TRUE]
      OBVIOUS
    <3>2. access' = [access EXCEPT ![old.row] = a]
      BY <1>1, <1>4, <2>1, <3>1 DEF AdMarkSeen
    <3>3. \A r \in Rows : Ages(r)
      BY <1>0, <2>1, <3>1, <3>2, WrittenAges DEF Live
    <3>4. PICK h : h = [old EXCEPT !.pc = "serve"]
      OBVIOUS
    <3>5. request' = [request EXCEPT ![q] = h]
      BY <1>1, <1>4, <2>1, <3>4 DEF AdMarkSeen, Goto
    <3>6. h.pc = "serve" /\ h.marked_at = 0 /\ h.premium = old.premium
      BY <1>1, <1>4, <3>4 DEF Handler, AdMarkSeen, Aware
    <3>7. h \in Handler /\ Aware(h)'
      BY <1>1, <3>5, <3>6 DEF Aware, AdInv, TypeOK
    <3> QED
      BY <1>0, <3>3, <3>5, <3>6, <3>7, Moves
  <2>2. CASE old.row \notin Live
    BY <1>0, <1>1, <1>4, <2>2, SameRows, Ends DEF AdMarkSeen
  <2> QED
    BY <2>1, <2>2
<1>5. CASE PlayCommit(q)
  <2>1. old.row \in Live
    BY <1>1, <1>5 DEF PlayCommit, RowLockHeld
  <2>2. PICK a : a = [access[old.row] EXCEPT !.one_time_used = TRUE, !.locked = FALSE]
    OBVIOUS
  <2>3. access' = [access EXCEPT ![old.row] = a]
    BY <1>1, <1>5, <2>2 DEF PlayCommit
  <2>4. \A r \in Rows : Ages(r)
    BY <1>0, <2>1, <2>2, <2>3, WrittenAges DEF Live
  <2> QED
    BY <1>0, <1>5, <2>4, Ends DEF PlayCommit
<1>6. CASE Fail(q)
  <2>1. \A r \in Rows : Ages(r)
    <3>1. CASE old.pc = "credit"
      <4>1. old.row \in Live
        BY <1>1, <3>1 DEF RowLockHeld
      <4>2. PICK a : a = [access[old.row] EXCEPT !.locked = FALSE]
        OBVIOUS
      <4>3. access' = [access EXCEPT ![old.row] = a]
        BY <1>1, <1>6, <3>1, <4>2 DEF Fail
      <4> QED
        BY <1>0, <4>1, <4>2, <4>3, WrittenAges DEF Live
    <3> QED
      BY <1>0, <1>1, <1>6, <3>1, SameRows DEF Fail
  <2> QED
    BY <1>0, <1>6, <2>1, Ends DEF Fail
<1> QED
  BY <1>2, <1>3, <1>4, <1>5, <1>6

\* Nothing is old enough to be deleted.
LEMMA AdWorker ==
    ASSUME FiniteRows, NothingCleaned, AdInv, TypeOK', SweepSelect \/ SweepDelete \/ NextDay
    PROVE  AdInv'
<1>1. ~SweepSelect
  <2> SUFFICES ASSUME NEW r \in UnusedRows \cup AbandonedRows \cup UsedRows PROVE FALSE
    BY DEF SweepSelect
  <2>1. r \in Rows /\ access[r].created \in Nat
    BY DEF UnusedRows, AbandonedRows, UsedRows, Live, AdInv, TypeOK, Access
  <2>2. PICK ttl \in {UnusedTTL, AbandonedTTL, UsedTTL} : Older(r, ttl)
    BY DEF UnusedRows, AbandonedRows, UsedRows
  <2> QED
    BY <2>1, <2>2, DayAssumption DEF NothingCleaned, AdInv, RowsStay, TypeOK, Older
<1>2. ~SweepDelete
  BY DEF SweepDelete, AdInv, RowsStay
<1>3. NextDay
  BY <1>1, <1>2
<1>4. access' = access /\ clock' = clock /\ request' = request /\ served' = served /\ sweep' = {}
  BY <1>3 DEF NextDay
<1>5. today' <= MaxDay
  BY <1>3, DayAssumption DEF NextDay, AdInv, TypeOK
<1>6. \A r \in Rows : Ages(r)
  BY <1>4, SameRows
<1> QED
  BY <1>4, <1>5, <1>6, RequestsRest

\* Every step keeps the invariant.
LEMMA AdStep ==
    ASSUME FiniteRows, NothingCleaned, FreeWithAds, AdInv, RowLockHeld, [Next]_vars
    PROVE  AdInv'
<1>0. TypeOK'
  BY TypeStep DEF AdInv
<1>1. CASE UNCHANGED vars
  <2>1. \A r \in Rows : Ages(r)
    BY <1>1, SameRows DEF vars
  <2> QED
    BY <1>0, <1>1, <2>1, RequestsRest DEF vars, AdInv, RowsStay
<1>2. ASSUME NEW q \in Requests, NEW r \in Rows,
             OpenShortLink(q, r) \/ OpenForeignLink(q, r) \/ AdSubmit(q, r) \/ PlayLock(q, r)
      PROVE  AdInv'
  BY <1>0, <1>2, AdLinks
<1>3. ASSUME NEW q \in Requests, NEW g \in Grants, OpenGrant(q, g) PROVE AdInv'
  BY <1>0, <1>3, AdOpens DEF OpenGrant
<1>4. ASSUME NEW q \in Requests, Step(q) PROVE AdInv'
  BY <1>0, <1>4, AdGrants, AdMarks, AdReads, AdCounts, AdServes, AdRest DEF Step
<1> QED
  BY <1>0, <1>1, <1>2, <1>3, <1>4, AdWorker DEF Next

\* Nothing is heard at first.
LEMMA AdFirst == ASSUME FreeWithAds, Init PROVE AdInv
<1>1. TypeOK
  BY TypeInit
<1>2. RowsStay /\ DirectMarked /\ AllAware
  BY DayAssumption DEF Init, RowsStay, DirectMarked, AllAware, Aware, Idle
<1>3. \A x \in Nat : Heard(x) = {}
  BY DEF Init, Heard, AboutToHear, Idle
<1>4. HeardFew
  BY <1>3, FS_EmptySet, AdAssumption DEF HeardFew, FreeWithAds
<1> QED
  BY <1>1, <1>2, <1>4 DEF AdInv

\* With no ad waiting, the newest ad seen is a moment past all ads.
LEMMA AdInvBound == ASSUME FiniteRows, AdInv PROVE AdBound
<1> SUFFICES ASSUME PendingAds = {}, NEW at \in LastAdAt PROVE Cardinality(DirectSince(at)) < AdFrequency
  BY DEF AdBound
<1>1. \A r \in Rows : access[r].unwrapped_at \in Nat /\ access[r] \in Access
  BY DEF AdInv, TypeOK, Access
<1>2. at \in Nat
  BY <1>1 DEF LastAdAt, Newest, SeenAds, Live
<1>3. Past(at)
  <2> SUFFICES ASSUME NEW r \in Rows, access[r].ad_required, access[r].unwrapped_at > 0
               PROVE  access[r].unwrapped_at <= at
    BY <1>1, <1>2 DEF Past
  <2>1. r \in Live
    BY <1>1 DEF Live, AdInv, RowsStay, Access, Lifetimes
  <2>2. r \in SeenAds
    BY <2>1 DEF SeenAds, PendingAds, AdPending
  <2> QED
    BY <1>1, <2>2 DEF LastAdAt, Newest, SeenAds, Live
<1>4. DirectSince(at) \subseteq Heard(at)
  BY <1>1 DEF DirectSince, Heard
<1>5. Cardinality(Heard(at)) < AdFrequency /\ IsFiniteSet(Heard(at))
  BY <1>2, <1>3, FS_Subset DEF AdInv, HeardFew, FiniteRows, Heard
<1>6. Cardinality(DirectSince(at)) <= Cardinality(Heard(at)) /\ IsFiniteSet(DirectSince(at))
  BY <1>4, <1>5, FS_Subset
<1>7. Cardinality(DirectSince(at)) \in Nat /\ Cardinality(Heard(at)) \in Nat /\ AdFrequency \in Nat
  BY <1>5, <1>6, FS_CardinalityType, AdAssumption
<1> QED
  BY <1>5, <1>6, <1>7

\* Until rows are old enough to be cleaned up, a free listener with no ad waiting
\* has heard fewer than AdFrequency streams without an ad since the last one, for
\* any number of rows, of links opened at once and of requests that fail between two
\* queries (StreamShortRedirectView.get marks the row before it counts).
THEOREM AdsInTime == ASSUME FiniteRows, NothingCleaned PROVE Spec => []AdBound
<1>1. CASE FreeWithAds
  <2>1. Init => PlayInv /\ AdInv
    BY <1>1, TypeInit, PlayInit, AdFirst DEF PlayInv
  <2>2. PlayInv /\ AdInv /\ [Next]_vars => PlayInv' /\ AdInv'
    BY <1>1, TypeStep, PlayStep, AdStep DEF PlayInv
  <2>3. AdInv => AdBound
    BY AdInvBound
  <2> QED
    BY <2>1, <2>2, <2>3, PTL DEF Spec
<1>2. CASE ~FreeWithAds
  <2>1. AdBound
    BY <1>2 DEF AdBound, FreeWithAds
  <2> QED
    BY <2>1, PTL
<1> QED
  BY <1>1, <1>2
=============================================================================
