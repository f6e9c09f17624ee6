---------------------------- MODULE AccessProofs ----------------------------
(***************************************************************************)
(* The services about one account, whatever the number of users, requests,  *)
(* rows and codes.  Of each part: what a request is at each of its steps,    *)
(* the inductive invariant, one lemma per group of actions.  At the end the  *)
(* parts are put side by side, as the run checks them.                       *)
(*                                                                         *)
(*   codes    a code is accepted once and tried a bounded number of times    *)
(*   members  the user is premium until what was paid for is over            *)
(*   albums   an album goes with its last song                               *)
(*   artists  decisions stand, accepted artists have their profile           *)
(*   media    the file that a row names is there, the others are removed     *)
(***************************************************************************)
EXTENDS MCAccess, FiniteSetTheorems, TLAPS

(* Codes: who sends them, and who tries them.                                *)

LEMMA NoneTyped == NoSend \in Send /\ NoVerify \in Verify
BY BoundAssumption DEF NoSend, NoVerify, Send, Verify

LEMMA Fields ==
    ASSUME TypeOK
    PROVE  /\ \A c \in Codes : /\ otp[c] \in Otp /\ otp[c].consumed \in BOOLEAN /\ otp[c].expired \in BOOLEAN
                               /\ otp[c].attempts \in Nat /\ otp[c].lock \in SUBSET Requests
                               /\ accepted[c] \in Nat
           /\ \A s \in Senders : /\ send[s] \in Send /\ send[s].code \in 0..MaxCode
                                 /\ send[s].picked \in SUBSET Codes
           /\ \A v \in Verifiers : /\ verify[v] \in Verify /\ verify[v].code \in 0..MaxCode
                                   /\ verify[v].guess \in 0..MaxCode
                                   /\ verify[v].picked \in SUBSET Codes /\ verify[v].seen \in SUBSET Codes
BY DEF TypeOK, Otp, Send, Verify

LEMMA ValidAreCodes ==
    /\ Valid \subseteq Codes /\ Unconsumed \subseteq Codes
    /\ \A c \in Valid : Exists(c) /\ ~otp[c].consumed /\ ~otp[c].expired
    /\ \A c \in Unconsumed : Exists(c) /\ ~otp[c].consumed
BY DEF Valid, Unconsumed

LEMMA CodeNumbers == Codes \subseteq 0..MaxCode /\ 0 \in 0..MaxCode
BY BoundAssumption DEF Codes

(* A Redis write leaves an id, or a truth value. *)
LEMMA MaySetTyped ==
    /\ \A key, old, new : MaySet(key, old, new) \subseteq {old, new}
    /\ MaySend \subseteq {TRUE, guard}
BY DEF MaySet, MaySend

-----------------------------------------------------------------------------
(* What is inductive.  A request past its lock is alone on its row, which is  *)
(* in use; a sender alone on those it is about to supersede.                  *)
Held ==
    \A v \in Verifiers :
        verify[v].pc = "check" =>
            LET c == verify[v].code IN c \in Unconsumed /\ otp[c].lock = {v}
Holds ==
    \A s \in Senders :
        send[s].pc = "insert" => \A c \in send[s].picked : otp[c].lock = {s}

(* A code in use when a request began exists, and one that is still in use is *)
(* among those that the request picked and has not looked at yet.            *)
SeenKept ==
    \A v \in Verifiers :
        /\ \A c \in verify[v].seen : Exists(c)
        /\ verify[v].pc = "lock" => verify[v].seen \cap Valid \subseteq verify[v].picked

IInv == TypeOK /\ Held /\ Holds /\ AcceptedOnce /\ AttemptsBounded /\ SeenKept

LEMMA First == Init => IInv
<1> SUFFICES ASSUME Init PROVE IInv
  OBVIOUS
<1>1. TypeOK
  <2>1. otp \in [Codes -> Otp]
    BY DEF Init, Otp
  <2>2. send \in [Senders -> Send] /\ verify \in [Verifiers -> Verify] /\ accepted \in [Codes -> Nat]
    BY NoneTyped DEF Init
  <2> QED
    BY <2>1, <2>2, CodeNumbers DEF Init, TypeOK
<1>2. Held /\ Holds /\ SeenKept
  BY DEF Init, Held, Holds, SeenKept, NoSend, NoVerify
<1>3. AcceptedOnce /\ AttemptsBounded
  BY BoundAssumption DEF Init, AcceptedOnce, AttemptsBounded
<1> QED
  BY <1>1, <1>2, <1>3 DEF IInv

(* A step that leaves the rows alone.                                         *)
LEMMA RowsStay ==
    ASSUME IInv, TypeOK', UNCHANGED <<otp, accepted>>,
           \A s \in Senders : send'[s] = send[s] \/ send'[s].pc # "insert",
           \A v \in Verifiers : \/ verify'[v] = verify[v]
                                \/ /\ verify'[v].pc \notin {"check", "lock"}
                                   /\ \A c \in verify'[v].seen : Exists(c)
                                \/ /\ verify'[v].pc = "lock" /\ verify'[v].seen = verify[v].seen
                                   /\ verify[v].seen \cap Valid \subseteq verify'[v].picked
    PROVE  IInv'
<1>1. Valid' = Valid /\ Unconsumed' = Unconsumed /\ \A c \in Codes : Exists(c)' <=> Exists(c)
  BY DEF Valid, Unconsumed, Exists
<1>2. Held' /\ Holds'
  BY <1>1 DEF IInv, Held, Holds
<1>3. SeenKept'
  <2> SUFFICES ASSUME NEW v \in Verifiers
               PROVE  /\ \A c \in verify'[v].seen : Exists(c)'
                      /\ verify'[v].pc = "lock" => verify'[v].seen \cap Valid \subseteq verify'[v].picked
    BY <1>1 DEF SeenKept
  <2>1. verify[v].seen \subseteq Codes /\ \A c \in verify[v].seen : Exists(c) /\ Exists(c)'
    BY <1>1, Fields DEF IInv, SeenKept
  <2>2. \A c \in verify'[v].seen : Exists(c)'
    BY <2>1 DEF Exists
  <2> QED
    BY <2>2 DEF IInv, SeenKept
<1> QED
  BY <1>2, <1>3 DEF IInv, AcceptedOnce, AttemptsBounded

(* A step after which a row that was not in use is not, and one that existed  *)
(* does, keeps what was seen.                                                 *)
LEMMA SeenStays ==
    ASSUME IInv, \A c \in Codes : /\ Exists(c) => Exists(c)'
                                  /\ Exists(c) /\ c \in Valid' => c \in Valid,
           \A v \in Verifiers : \/ verify'[v] = verify[v]
                                \/ /\ verify'[v].pc # "lock"
                                   /\ verify'[v].seen \subseteq verify[v].seen
    PROVE  SeenKept'
<1> SUFFICES ASSUME NEW v \in Verifiers
             PROVE  /\ \A c \in verify'[v].seen : Exists(c)'
                    /\ verify'[v].pc = "lock" => verify'[v].seen \cap Valid' \subseteq verify'[v].picked
  BY DEF SeenKept
<1>1. verify[v].seen \subseteq Codes /\ \A c \in verify[v].seen : Exists(c)
  BY Fields DEF IInv, SeenKept
<1> QED
  BY <1>1 DEF IInv, SeenKept
-----------------------------------------------------------------------------
(* Steps that leave the rows alone.                                           *)
QuietSend(s) ==
    SendStart(s) \/ SendPick(s) \/ SendKey(s) \/ SmsAccepted(s) \/ SmsRefused(s) \/ DropKey(s) \/ DropGuard(s)
QuietVerify(v) == VerifyStart(v) \/ VerifyCached(v) \/ VerifyScan(v) \/ VerifyNotFound(v)

LEMMA SendMoves ==
    ASSUME TypeOK, NEW s \in Senders, NEW r \in Send, send' = [send EXCEPT ![s] = r]
    PROVE  /\ send' \in [Senders -> Send] /\ send'[s] = r
           /\ \A o \in Senders \ {s} : send'[o] = send[o]
BY DEF TypeOK

LEMMA QuietSendKept == ASSUME IInv, NEW s \in Senders, QuietSend(s) PROVE IInv'
<1>1. TypeOK /\ send[s] \in Send /\ send[s].code \in 0..MaxCode
  BY Fields DEF IInv
<1>2. /\ send' \in [Senders -> Send] /\ send'[s].pc # "insert"
      /\ \A o \in Senders \ {s} : send'[o] = send[o]
      /\ UNCHANGED <<otp, accepted, verify, is_verified>>
      /\ latest' \in {latest, send[s].code, 0} /\ recent' = recent
  <2>1. CASE SendStart(s)
    <3>1. [NoSend EXCEPT !.pc = "pick"] \in Send /\ [NoSend EXCEPT !.pc = "pick"].pc # "insert"
      BY NoneTyped DEF Send, NoSend
    <3>2. send' = [send EXCEPT ![s] = [NoSend EXCEPT !.pc = "pick"]]
      BY <2>1 DEF SendStart
    <3>3. UNCHANGED <<otp, accepted, verify, is_verified, latest, recent>>
      BY <2>1 DEF SendStart
    <3> QED
      BY <1>1, <3>1, <3>2, <3>3, SendMoves
  <2>2. CASE SendPick(s)
    <3> DEFINE r == [send[s] EXCEPT !.pc = "lock", !.picked = Unconsumed]
    <3>1. r \in Send /\ r.pc # "insert"
      BY <1>1, ValidAreCodes DEF Send
    <3>2. send' = [send EXCEPT ![s] = r] /\ UNCHANGED <<otp, accepted, verify, is_verified, latest, recent>>
      BY <2>2 DEF SendPick
    <3> HIDE DEF r
    <3> QED
      BY <1>1, <3>1, <3>2, SendMoves
  <2>3. CASE SendKey(s) \/ SmsRefused(s) \/ DropKey(s)
    <3>1. PICK pc \in {"sms", "withdraw", "drop_guard"} : send' = [send EXCEPT ![s].pc = pc]
      BY <2>3 DEF SendKey, SmsRefused, DropKey
    <3>2. /\ send' \in [Senders -> Send] /\ send'[s].pc = pc
          /\ \A o \in Senders \ {s} : send'[o] = send[o]
      BY <1>1, <3>1 DEF TypeOK, Send
    <3>3. latest' \in {latest, send[s].code, 0}
      BY <2>3, MaySetTyped DEF SendKey, SmsRefused, DropKey
    <3>4. UNCHANGED <<otp, accepted, verify, is_verified, recent>>
      BY <2>3 DEF SendKey, SmsRefused, DropKey
    <3> QED
      BY <3>1, <3>2, <3>3, <3>4
  <2>4. CASE SmsAccepted(s) \/ DropGuard(s)
    <3>1. NoSend \in Send /\ NoSend.pc # "insert"
      BY NoneTyped DEF NoSend
    <3>2. send' = [send EXCEPT ![s] = NoSend] /\ UNCHANGED <<otp, accepted, verify, is_verified, latest, recent>>
      BY <2>4 DEF SmsAccepted, DropGuard
    <3> QED
      BY <1>1, <3>1, <3>2, SendMoves
  <2> QED
    BY <2>1, <2>2, <2>3, <2>4 DEF QuietSend
<1>3. guard' \in BOOLEAN
  <2>1. guard \in BOOLEAN /\ (guard' \in {TRUE, guard} \/ guard' \in {guard, FALSE} \/ guard' = guard)
    BY <1>1, MaySetTyped, Zenon DEF QuietSend, SendStart, SendPick, SendKey, SmsAccepted, SmsRefused,
       DropKey, DropGuard, TypeOK
  <2> QED
    BY <2>1, Zenon
<1>4. TypeOK' /\ \A o \in Senders : send'[o] = send[o] \/ send'[o].pc # "insert"
  BY <1>1, <1>2, <1>3, CodeNumbers DEF TypeOK
<1> QED
  BY <1>2, <1>4, RowsStay

LEMMA QuietVerifyKept == ASSUME IInv, NEW v \in Verifiers, QuietVerify(v) PROVE IInv'
<1> DEFINE w == verify'[v]
<1>1. /\ TypeOK /\ verify[v] \in Verify /\ verify[v].seen \in SUBSET Codes
      /\ \A c \in verify[v].seen : Exists(c)
  BY Fields DEF IInv, SeenKept
<1>2. /\ w \in Verify /\ verify' \in [Verifiers -> Verify]
      /\ \A o \in Verifiers \ {v} : verify'[o] = verify[o]
      /\ UNCHANGED <<otp, guard, recent, send, accepted, is_verified>> /\ latest' \in {latest, 0}
      /\ \/ w.pc \notin {"check", "lock"} /\ \A c \in w.seen : Exists(c)
         \/ w.pc = "lock" /\ w.seen = verify[v].seen /\ verify[v].seen \cap Valid \subseteq w.picked
  <2>1. CASE VerifyStart(v)
    <3>1. PICK guess \in 0..MaxCode :
            verify' = [verify EXCEPT ![v] = [NoVerify EXCEPT !.pc = "cached", !.guess = guess, !.seen = Valid]]
      BY <2>1 DEF VerifyStart
    <3>2. [NoVerify EXCEPT !.pc = "cached", !.guess = guess, !.seen = Valid] \in Verify
      BY NoneTyped, ValidAreCodes DEF Verify, NoVerify
    <3>3. w.pc = "cached" /\ w.seen = Valid
      BY <1>1, <3>1 DEF TypeOK, NoVerify
    <3> QED
      BY <1>1, <2>1, <3>1, <3>2, <3>3, ValidAreCodes DEF VerifyStart, TypeOK
  <2>2. CASE VerifyCached(v)
    <3>1. \A id \in Codes : [verify[v] EXCEPT !.pc = "lock_cached", !.code = id] \in Verify
      BY <1>1, CodeNumbers DEF Verify
    <3>2. [verify[v] EXCEPT !.pc = "scan"] \in Verify
      BY <1>1 DEF Verify
    <3>3. /\ w \in Verify /\ w.pc \in {"lock_cached", "scan"} /\ w.seen = verify[v].seen
          /\ verify' \in [Verifiers -> Verify] /\ \A o \in Verifiers \ {v} : verify'[o] = verify[o]
      <4>1. PICK id : verify' = [verify EXCEPT ![v] =
                         IF id \in Valid THEN [verify[v] EXCEPT !.pc = "lock_cached", !.code = id]
                         ELSE [verify[v] EXCEPT !.pc = "scan"]]
        BY <2>2 DEF VerifyCached
      <4>2. CASE id \in Valid
        BY <1>1, <3>1, <4>1, <4>2, ValidAreCodes DEF TypeOK, Verify
      <4>3. CASE id \notin Valid
        BY <1>1, <3>2, <4>1, <4>3 DEF TypeOK, Verify
      <4> QED
        BY <4>2, <4>3
    <3> QED
      BY <1>1, <2>2, <3>3 DEF VerifyCached
  <2>3. CASE VerifyScan(v)
    <3>1. [verify[v] EXCEPT !.pc = "lock", !.picked = Valid] \in Verify
      BY <1>1, ValidAreCodes DEF Verify
    <3> QED
      BY <1>1, <2>3, <3>1 DEF VerifyScan, Scanned, TypeOK, Verify
  <2>4. CASE VerifyNotFound(v)
    BY <1>1, <2>4, NoneTyped, MaySetTyped DEF VerifyNotFound, TypeOK, NoVerify
  <2> QED
    BY <2>1, <2>2, <2>3, <2>4 DEF QuietVerify
<1>3. TypeOK'
  BY <1>1, <1>2, CodeNumbers DEF TypeOK
<1> QED
  BY <1>1, <1>2, <1>3, RowsStay
-----------------------------------------------------------------------------
(* Steps that lock or change rows.  A row keeps what it has but for that.     *)
Older(row, old) == /\ row \in Otp
                   /\ old.life = "sent" => row.life = "sent"
                   /\ old.consumed => row.consumed
                   /\ old.expired => row.expired

LEMMA OlderSeen ==
    ASSUME IInv, \A c \in Codes : Older(otp'[c], otp[c]) /\ (Exists(c)' => Exists(c)),
           \A v \in Verifiers : \/ verify'[v] = verify[v]
                                \/ verify'[v].pc # "lock" /\ verify'[v].seen \subseteq verify[v].seen
    PROVE  SeenKept'
BY SeenStays DEF Older, Exists, Valid, Unconsumed

(* A step of request q, which touches the rows that are free or its own.      *)
LEMMA RowStep ==
    ASSUME IInv, TypeOK', SeenKept', NEW q \in Requests,
           \A c \in Codes :
              /\ Older(otp'[c], otp[c]) /\ otp'[c].attempts <= MaxAttempts
              /\ \/ otp[c].lock \in {{}, {q}}
                 \/ otp'[c].consumed = otp[c].consumed /\ otp'[c].lock = otp[c].lock
              /\ \/ accepted'[c] = accepted[c]
                 \/ accepted[c] = 0 /\ accepted'[c] = 1 /\ otp'[c].consumed,
           \A s \in Senders :
              \/ s # q /\ send'[s] = send[s]
              \/ send'[s].pc # "insert"
              \/ s = q /\ \A c \in send'[s].picked : otp'[c].lock = {q},
           \A v \in Verifiers :
              \/ v # q /\ verify'[v] = verify[v]
              \/ verify'[v].pc # "check"
              \/ v = q /\ LET c == verify'[v].code IN c \in Unconsumed' /\ otp'[c].lock = {q}
    PROVE  IInv'
<1>1. TypeOK /\ Held /\ Holds /\ AcceptedOnce
  BY DEF IInv
<1>2. Held'
  <2> SUFFICES ASSUME NEW v \in Verifiers, v # q, verify'[v] = verify[v], verify[v].pc = "check"
               PROVE  verify[v].code \in Unconsumed' /\ otp'[verify[v].code].lock = {v}
    BY DEF Held
  <2> DEFINE c == verify[v].code
  <2>1. c \in Codes /\ otp[c].life = "sent" /\ ~otp[c].consumed /\ otp[c].lock = {v}
    BY <1>1 DEF Held, Unconsumed, Exists
  <2>2. otp'[c].life = "sent" /\ otp'[c].consumed = otp[c].consumed /\ otp'[c].lock = {v}
    BY <2>1 DEF Older
  <2> QED
    BY <2>1, <2>2 DEF Unconsumed, Exists
<1>3. Holds'
  <2> SUFFICES ASSUME NEW s \in Senders, s # q, send'[s] = send[s], send[s].pc = "insert", NEW c \in send[s].picked
               PROVE  otp'[c].lock = {s}
    BY DEF Holds
  <2>1. c \in Codes /\ otp[c].lock = {s}
    BY <1>1, Fields DEF Holds
  <2> QED
    BY <2>1
<1>4. AttemptsBounded'
  BY DEF AttemptsBounded
<1>5. AcceptedOnce'
  BY <1>1 DEF AcceptedOnce, Older
<1> QED
  BY <1>2, <1>3, <1>4, <1>5 DEF IInv

LEMMA SendLockKept == ASSUME IInv, NEW s \in Senders, SendLock(s) PROVE IInv'
<1> DEFINE rows == send[s].picked \cap Unconsumed
<1> DEFINE r == [send[s] EXCEPT !.pc = "insert", !.picked = rows]
<1>1. TypeOK /\ send[s] \in Send
  BY Fields DEF IInv
<1>2. r \in Send /\ r.picked = rows
  BY <1>1, ValidAreCodes DEF Send
<1>3. /\ otp' = [c \in Codes |-> IF c \in rows THEN [otp[c] EXCEPT !.lock = {s}] ELSE otp[c]]
      /\ send' = [send EXCEPT ![s] = r]
      /\ \A c \in rows : otp[c].lock = {}
      /\ UNCHANGED <<latest, guard, recent, verify, accepted, is_verified>>
  BY DEF SendLock, Unlocked
<1>4. \A c \in Codes : /\ Older(otp'[c], otp[c]) /\ otp'[c].life = otp[c].life
                       /\ otp'[c].consumed = otp[c].consumed /\ otp'[c].attempts = otp[c].attempts
                       /\ otp'[c].lock = IF c \in rows THEN {s} ELSE otp[c].lock
  <2> SUFFICES ASSUME NEW c \in Codes
               PROVE  /\ Older(otp'[c], otp[c]) /\ otp'[c].life = otp[c].life
                      /\ otp'[c].consumed = otp[c].consumed /\ otp'[c].attempts = otp[c].attempts
                      /\ otp'[c].lock = IF c \in rows THEN {s} ELSE otp[c].lock
    OBVIOUS
  <2>1. otp[c] \in Otp /\ s \in Requests
    BY <1>1, Fields DEF Requests
  <2>2. [otp[c] EXCEPT !.lock = {s}] \in Otp
    BY <2>1 DEF Otp
  <2> QED
    BY <1>3, <2>1, <2>2 DEF Older, Otp
<1> HIDE DEF r, rows
<1>5. TypeOK'
  BY <1>1, <1>2, <1>3, <1>4, SendMoves DEF TypeOK, Older
<1>6. SeenKept'
  BY <1>3, <1>4, OlderSeen DEF Exists
<1>7. s \in Requests /\ \A v \in Verifiers : v # s
  BY RequestAssumption DEF Requests
<1>8. \A c \in Codes : otp'[c].attempts <= MaxAttempts
  BY <1>4 DEF IInv, AttemptsBounded
<1>9. \A o \in Senders : (o # s /\ send'[o] = send[o]) \/ (o = s /\ \A c \in send'[o].picked : otp'[c].lock = {s})
  <2>1. rows \subseteq Codes
    BY ValidAreCodes DEF rows
  <2>2. send'[s] = r /\ \A o \in Senders \ {s} : send'[o] = send[o]
    BY <1>1, <1>2, <1>3, SendMoves
  <2> QED
    BY <1>2, <1>4, <2>1, <2>2
<1>10. \A c \in Codes : otp[c].lock \in {{}, {s}} \/ (otp'[c].consumed = otp[c].consumed /\ otp'[c].lock = otp[c].lock)
  <2> SUFFICES ASSUME NEW c \in Codes
               PROVE  otp[c].lock \in {{}, {s}} \/ (otp'[c].consumed = otp[c].consumed /\ otp'[c].lock = otp[c].lock)
    OBVIOUS
  <2>1. CASE c \in rows
    BY <1>3, <2>1
  <2>2. CASE c \notin rows
    BY <1>4, <2>2
  <2> QED
    BY <2>1, <2>2
<1> QED
  BY <1>3, <1>4, <1>5, <1>6, <1>7, <1>8, <1>9, <1>10, RowStep

LEMMA SendInsertKept == ASSUME IInv, NEW s \in Senders, SendInsert(s) PROVE IInv'
<1> DEFINE rows == send[s].picked
<1>1. /\ TypeOK /\ send[s] \in Send /\ rows \subseteq Codes
      /\ \A c \in rows : otp[c].lock = {s}
  BY Fields DEF IInv, Holds, SendInsert
<1>2. PICK new \in Codes :
        /\ ~Exists(new)
        /\ otp' = [c \in Codes |-> IF c = new THEN [otp[c] EXCEPT !.life = "sent"]
                                   ELSE IF c \in rows THEN Supersede(c, s) ELSE otp[c]]
        /\ send' = [send EXCEPT ![s] = [@ EXCEPT !.pc = "key", !.code = new, !.picked = {}]]
        /\ recent' = TRUE /\ UNCHANGED <<latest, guard, verify, accepted, is_verified>>
  BY DEF SendInsert
<1> DEFINE r == [send[s] EXCEPT !.pc = "key", !.code = new, !.picked = {}]
<1>3. r \in Send /\ r.pc = "key" /\ send' = [send EXCEPT ![s] = r]
  BY <1>1, <1>2, CodeNumbers DEF Send
<1>4. \A c \in Codes : /\ Older(otp'[c], otp[c]) /\ otp'[c].attempts = otp[c].attempts
                       /\ c # new => otp'[c].life = otp[c].life
                       /\ otp'[c].expired = otp[c].expired
                       /\ c \notin rows => otp'[c].consumed = otp[c].consumed /\ otp'[c].lock = otp[c].lock
  <2> SUFFICES ASSUME NEW c \in Codes
               PROVE  /\ Older(otp'[c], otp[c]) /\ otp'[c].attempts = otp[c].attempts
                      /\ c # new => otp'[c].life = otp[c].life
                      /\ otp'[c].expired = otp[c].expired
                      /\ c \notin rows => otp'[c].consumed = otp[c].consumed /\ otp'[c].lock = otp[c].lock
    OBVIOUS
  <2>1. otp[c] \in Otp
    BY <1>1, Fields
  <2>2. /\ [otp[c] EXCEPT !.life = "sent"] \in Otp
        /\ Supersede(c, s) \in Otp /\ Supersede(c, s).consumed /\ Supersede(c, s).life = otp[c].life
        /\ Supersede(c, s).expired = otp[c].expired /\ Supersede(c, s).attempts = otp[c].attempts
    BY <2>1 DEF Otp, Supersede
  <2>3. CASE c = new
    BY <1>2, <2>1, <2>2, <2>3 DEF Older, Otp
  <2>4. CASE c # new /\ c \in rows
    BY <1>2, <2>1, <2>2, <2>4 DEF Older
  <2>5. CASE c # new /\ c \notin rows
    BY <1>2, <2>1, <2>5 DEF Older
  <2> QED
    BY <2>3, <2>4, <2>5
<1> HIDE DEF r, rows
<1>5. /\ send' \in [Senders -> Send] /\ send'[s].pc = "key"
      /\ \A o \in Senders \ {s} : send'[o] = send[o]
  BY <1>1, <1>3, SendMoves
<1>6. TypeOK'
  BY <1>1, <1>2, <1>4, <1>5 DEF TypeOK, Older
<1>7. SeenKept'
  <2>1. \A c \in Codes : Exists(c) => Exists(c)' /\ (c \in Valid' => c \in Valid)
    BY <1>2, <1>4 DEF Older, Exists, Valid, Unconsumed
  <2> QED
    BY <1>2, <2>1, SeenStays
<1>8. s \in Requests /\ \A v \in Verifiers : v # s
  BY RequestAssumption DEF Requests
<1>9. \A c \in Codes : otp'[c].attempts <= MaxAttempts
  BY <1>4 DEF IInv, AttemptsBounded
<1>10. \A c \in Codes : otp[c].lock \in {{}, {s}} \/ (otp'[c].consumed = otp[c].consumed /\ otp'[c].lock = otp[c].lock)
  BY <1>1, <1>4
<1> QED
  BY <1>2, <1>4, <1>5, <1>6, <1>7, <1>8, <1>9, <1>10, RowStep

(* One row is changed, that the request holds or nobody does.                 *)
LEMMA OneRow ==
    ASSUME IInv, NEW c, NEW row, otp' = [otp EXCEPT ![c] = row],
           c \in Codes => Older(row, otp[c]) /\ row.life = otp[c].life /\ row.attempts <= MaxAttempts
    PROVE  /\ otp' \in [Codes -> Otp]
           /\ \A d \in Codes : /\ Older(otp'[d], otp[d]) /\ (Exists(d)' => Exists(d))
                               /\ otp'[d].attempts <= MaxAttempts
                               /\ d # c => otp'[d] = otp[d]
                               /\ d = c => otp'[d] = row
<1>1. otp \in [Codes -> Otp] /\ \A d \in Codes : otp[d].attempts <= MaxAttempts
  BY DEF IInv, TypeOK, AttemptsBounded
<1>2. \A d \in Codes : otp'[d] = IF d = c THEN row ELSE otp[d]
  BY <1>1
<1>3. \A d \in Codes : Older(otp'[d], otp[d]) /\ otp'[d].life = otp[d].life
  BY <1>1, <1>2 DEF Older
<1>4. \A d \in Codes : Exists(d)' => Exists(d)
  BY <1>3 DEF Exists
<1>5. otp' \in [Codes -> Otp]
  BY <1>1, <1>3 DEF Older
<1> QED
  BY <1>1, <1>2, <1>3, <1>4, <1>5

LEMMA WithdrawKept == ASSUME IInv, NEW s \in Senders, Withdraw(s) PROVE IInv'
<1> DEFINE c == send[s].code
<1> DEFINE row == [otp[c] EXCEPT !.consumed = TRUE]
<1>1. TypeOK
  BY DEF IInv
<1>2. /\ otp' = [otp EXCEPT ![c] = row] /\ otp[c].lock = {}
      /\ send' = [send EXCEPT ![s].pc = "drop_key"]
      /\ UNCHANGED <<latest, guard, recent, verify, accepted, is_verified>>
  BY DEF Withdraw, Unlocked
<1>3. c \in Codes => Older(row, otp[c]) /\ row.life = otp[c].life /\ row.attempts <= MaxAttempts
  <2> SUFFICES ASSUME c \in Codes PROVE Older(row, otp[c]) /\ row.life = otp[c].life /\ row.attempts <= MaxAttempts
    OBVIOUS
  <2>1. otp[c] \in Otp /\ otp[c].attempts <= MaxAttempts
    BY <1>1, Fields DEF IInv, AttemptsBounded
  <2> QED
    BY <2>1 DEF Older, Otp
<1> HIDE DEF c, row
<1>4. /\ otp' \in [Codes -> Otp]
      /\ \A d \in Codes : /\ Older(otp'[d], otp[d]) /\ (Exists(d)' => Exists(d))
                          /\ otp'[d].attempts <= MaxAttempts
                          /\ d # c => otp'[d] = otp[d]
  BY <1>2, <1>3, OneRow
<1>5. send' \in [Senders -> Send] /\ send'[s].pc = "drop_key" /\ \A o \in Senders \ {s} : send'[o] = send[o]
  BY <1>1, <1>2 DEF TypeOK, Send
<1>6. TypeOK'
  BY <1>1, <1>2, <1>4, <1>5 DEF TypeOK
<1>7. SeenKept'
  BY <1>2, <1>4, OlderSeen
<1>8. s \in Requests /\ \A v \in Verifiers : v # s
  BY RequestAssumption DEF Requests
<1>9. \A d \in Codes : otp[d].lock \in {{}, {s}} \/ (otp'[d].consumed = otp[d].consumed /\ otp'[d].lock = otp[d].lock)
  BY <1>2, <1>4
<1> QED
  BY <1>2, <1>4, <1>5, <1>6, <1>7, <1>8, <1>9, RowStep

LEMMA VerifyMoves ==
    ASSUME TypeOK, NEW v \in Verifiers, NEW r \in Verify, verify' = [verify EXCEPT ![v] = r]
    PROVE  /\ verify' \in [Verifiers -> Verify] /\ verify'[v] = r
           /\ \A o \in Verifiers \ {v} : verify'[o] = verify[o]
BY DEF TypeOK

(* A verifier takes the lock of a row in use that nobody holds.               *)
LEMMA TakesRow ==
    ASSUME IInv, NEW v \in Verifiers, NEW c \in Valid, Unlocked(c), otp' = Locked(v, c),
           NEW r \in Verify, r.pc = "check", r.code = c, r.seen = verify[v].seen,
           verify' = [verify EXCEPT ![v] = r], latest' \in {latest, c},
           UNCHANGED <<guard, recent, send, accepted, is_verified>>
    PROVE  IInv'
<1> DEFINE row == [otp[c] EXCEPT !.lock = {v}]
<1>1. TypeOK /\ c \in Codes /\ Exists(c) /\ ~otp[c].consumed /\ otp[c].lock = {}
  BY ValidAreCodes DEF IInv, Unlocked
<1>2. otp[c] \in Otp /\ otp[c].attempts <= MaxAttempts /\ v \in Requests
  BY <1>1, Fields DEF IInv, AttemptsBounded, Requests
<1>3. Older(row, otp[c]) /\ row.life = otp[c].life /\ row.attempts <= MaxAttempts /\ row.lock = {v} /\ ~row.consumed
  BY <1>1, <1>2 DEF Older, Otp
<1>4. otp' = [otp EXCEPT ![c] = row]
  BY <1>1, <1>2 DEF Locked, Otp, TypeOK
<1> HIDE DEF row
<1>5. /\ otp' \in [Codes -> Otp]
      /\ \A d \in Codes : /\ Older(otp'[d], otp[d]) /\ (Exists(d)' => Exists(d))
                          /\ otp'[d].attempts <= MaxAttempts
                          /\ d # c => otp'[d] = otp[d]
                          /\ d = c => otp'[d] = row
  BY <1>3, <1>4, OneRow
<1>6. /\ verify' \in [Verifiers -> Verify] /\ verify'[v] = r
      /\ \A o \in Verifiers \ {v} : verify'[o] = verify[o]
  BY <1>1, VerifyMoves
<1>7. TypeOK'
  BY <1>1, <1>5, <1>6, CodeNumbers DEF TypeOK
<1>8. SeenKept'
  BY <1>5, <1>6, OlderSeen
<1>9. c \in Unconsumed' /\ otp'[c].lock = {v}
  BY <1>1, <1>3, <1>5 DEF Unconsumed, Exists
<1>10. \A s \in Senders : s # v
  BY RequestAssumption
<1>11. \A d \in Codes : otp[d].lock \in {{}, {v}} \/ (otp'[d].consumed = otp[d].consumed /\ otp'[d].lock = otp[d].lock)
  BY <1>1, <1>5
<1> QED
  BY <1>2, <1>5, <1>6, <1>7, <1>8, <1>9, <1>10, <1>11, RowStep

LEMMA VerifyLockCachedKept == ASSUME IInv, NEW v \in Verifiers, VerifyLockCached(v) PROVE IInv'
<1> DEFINE c == verify[v].code
<1>1. TypeOK /\ verify[v] \in Verify /\ verify[v].pc = "lock_cached" /\ \A d \in verify[v].seen : Exists(d)
  BY Fields DEF IInv, VerifyLockCached, SeenKept
<1>2. CASE c \in Valid /\ otp' = Locked(v, c) /\ verify' = [verify EXCEPT ![v].pc = "check"]
  <2> DEFINE r == [verify[v] EXCEPT !.pc = "check"]
  <2>1. r \in Verify /\ r.pc = "check" /\ r.code = c /\ r.seen = verify[v].seen
    BY <1>1 DEF Verify
  <2>2. verify' = [verify EXCEPT ![v] = r]
    BY <1>1, <1>2 DEF TypeOK
  <2>3. Unlocked(c) /\ UNCHANGED <<latest, guard, recent, send, accepted, is_verified>>
    BY DEF VerifyLockCached, Granted
  <2> HIDE DEF r, c
  <2> QED
    BY <1>2, <2>1, <2>2, <2>3, TakesRow
<1>3. CASE otp' = otp /\ verify' = [verify EXCEPT ![v] = [@ EXCEPT !.pc = "scan", !.code = 0]]
  <2> DEFINE r == [verify[v] EXCEPT !.pc = "scan", !.code = 0]
  <2>1. r \in Verify /\ r.pc = "scan" /\ r.seen = verify[v].seen
    BY <1>1, CodeNumbers DEF Verify
  <2>2. verify' = [verify EXCEPT ![v] = r] /\ UNCHANGED <<otp, latest, guard, recent, send, accepted, is_verified>>
    BY <1>3 DEF VerifyLockCached
  <2> HIDE DEF r
  <2>3. /\ verify' \in [Verifiers -> Verify] /\ verify'[v] = r
        /\ \A o \in Verifiers \ {v} : verify'[o] = verify[o]
    BY <1>1, <2>1, <2>2, VerifyMoves
  <2>4. TypeOK'
    BY <1>1, <2>2, <2>3 DEF TypeOK
  <2> QED
    BY <1>1, <2>1, <2>2, <2>3, <2>4, RowsStay
<1> QED
  BY <1>2, <1>3 DEF VerifyLockCached

LEMMA VerifyLockKept == ASSUME IInv, NEW v \in Verifiers, VerifyLock(v) PROVE IInv'
<1> DEFINE c == Newest(verify[v].picked)
<1>1. /\ TypeOK /\ verify[v] \in Verify /\ verify[v].pc = "lock" /\ verify[v].picked \subseteq Codes
      /\ verify[v].seen \cap Valid \subseteq verify[v].picked
  BY Fields DEF IInv, VerifyLock, SeenKept
<1>2. CASE /\ c \in Valid /\ otp' = Locked(v, c) /\ latest' \in MaySet("latest", latest, c)
           /\ verify' = [verify EXCEPT ![v] = [@ EXCEPT !.pc = "check", !.code = c, !.picked = {}]]
  <2> DEFINE r == [verify[v] EXCEPT !.pc = "check", !.code = c, !.picked = {}]
  <2>1. Unlocked(c) /\ UNCHANGED <<guard, recent, send, accepted, is_verified>>
    BY DEF VerifyLock, Granted
  <2> HIDE DEF c
  <2>2. r \in Verify /\ r.pc = "check" /\ r.code = c /\ r.seen = verify[v].seen
    BY <1>1, <1>2, ValidAreCodes, CodeNumbers DEF Verify
  <2>3. verify' = [verify EXCEPT ![v] = r] /\ latest' \in {latest, c}
    BY <1>2, MaySetTyped
  <2> HIDE DEF r
  <2> QED
    BY <1>2, <2>1, <2>2, <2>3, TakesRow
<1>3. CASE c \notin Valid /\ verify' = [verify EXCEPT ![v].picked = @ \ {c}] /\ UNCHANGED <<otp, latest>>
  <2>1. UNCHANGED <<guard, recent, send, accepted, is_verified>>
    BY DEF VerifyLock
  <2> HIDE DEF c
  <2>2. /\ verify' \in [Verifiers -> Verify] /\ \A o \in Verifiers \ {v} : verify'[o] = verify[o]
        /\ verify'[v].pc = "lock" /\ verify'[v].seen = verify[v].seen /\ verify'[v].picked = verify[v].picked \ {c}
    BY <1>1, <1>3 DEF TypeOK, Verify
  <2>3. TypeOK'
    BY <1>1, <1>3, <2>1, <2>2 DEF TypeOK
  <2>4. verify[v].seen \cap Valid \subseteq verify'[v].picked
    BY <1>1, <1>3, <2>2
  <2> QED
    BY <1>3, <2>1, <2>2, <2>3, <2>4, RowsStay
<1> QED
  BY <1>2, <1>3 DEF VerifyLock

(* A verifier that holds its row updates it and frees it.                     *)
LEMMA CheckedKept ==
    ASSUME IInv, NEW v \in Verifiers, verify[v].pc = "check", NEW row, NEW deleted \in BOOLEAN,
           Checked(v, row, deleted), Older(row, otp[verify[v].code]), row.life = otp[verify[v].code].life,
           row.attempts <= MaxAttempts, accepted' \in [Codes -> Nat], is_verified' \in BOOLEAN,
           \A c \in Codes \ {verify[v].code} : accepted'[c] = accepted[c],
           \/ accepted' = accepted
           \/ accepted'[verify[v].code] = accepted[verify[v].code] + 1 /\ row.consumed
    PROVE  IInv'
<1> DEFINE c == verify[v].code
<1> DEFINE freed == [row EXCEPT !.lock = @ \ {v}]
<1>1. /\ TypeOK /\ v \in Requests
      /\ c \in Codes /\ otp[c].lock = {v} /\ ~otp[c].consumed
      /\ accepted[c] \in Nat
  BY Fields, ValidAreCodes DEF IInv, Held, Requests
<1>2. accepted[c] = 0
  BY <1>1 DEF IInv, AcceptedOnce
<1>3. /\ otp' = [otp EXCEPT ![c] = freed]
      /\ verify' = [verify EXCEPT ![v] = NoVerify]
      /\ latest' \in {latest, 0}
      /\ UNCHANGED <<guard, recent, send>>
  BY MaySetTyped DEF Checked
<1>4. /\ Older(freed, otp[c]) /\ freed.life = otp[c].life /\ freed.attempts <= MaxAttempts
      /\ freed.consumed = row.consumed
  BY DEF Older, Otp
<1> HIDE DEF freed, c
<1>5. /\ otp' \in [Codes -> Otp]
      /\ \A d \in Codes : /\ Older(otp'[d], otp[d]) /\ (Exists(d)' => Exists(d))
                          /\ otp'[d].attempts <= MaxAttempts
                          /\ d # c => otp'[d] = otp[d]
                          /\ d = c => otp'[d] = freed
  BY <1>3, <1>4, OneRow
<1>6. NoVerify \in Verify /\ NoVerify.pc = "idle" /\ NoVerify.seen = {}
  BY NoneTyped DEF NoVerify
<1>7. /\ verify' \in [Verifiers -> Verify] /\ verify'[v] = NoVerify
      /\ \A o \in Verifiers \ {v} : verify'[o] = verify[o]
  BY <1>1, <1>3, <1>6, VerifyMoves
<1>8. TypeOK'
  BY <1>1, <1>3, <1>5, <1>7, CodeNumbers DEF TypeOK
<1>9. SeenKept'
  BY <1>5, <1>6, <1>7, OlderSeen
<1>10. \A s \in Senders : s # v
  BY RequestAssumption
<1>11. \A d \in Codes : otp[d].lock \in {{}, {v}} \/ (otp'[d].consumed = otp[d].consumed /\ otp'[d].lock = otp[d].lock)
  BY <1>1, <1>5
<1>12. \A d \in Codes : accepted'[d] = accepted[d] \/ (accepted[d] = 0 /\ accepted'[d] = 1 /\ otp'[d].consumed)
  BY <1>1, <1>2, <1>4, <1>5 DEF c
<1> QED
  BY <1>1, <1>3, <1>5, <1>6, <1>7, <1>8, <1>9, <1>10, <1>11, <1>12, RowStep

LEMMA ChecksKept ==
    ASSUME IInv, NEW v \in Verifiers, VerifyExceeded(v) \/ VerifyInvalid(v) \/ VerifyOk(v)
    PROVE  IInv'
<1> DEFINE c == verify[v].code
<1>1. /\ TypeOK /\ verify[v].pc = "check" /\ c \in Codes
      /\ accepted \in [Codes -> Nat] /\ is_verified \in BOOLEAN
  BY ValidAreCodes DEF IInv, Held, TypeOK, VerifyExceeded, VerifyInvalid, VerifyOk
<1>2. otp[c] \in Otp /\ otp[c].attempts \in Nat /\ otp[c].attempts <= MaxAttempts
  BY <1>1, Fields DEF IInv, AttemptsBounded
<1>3. /\ Older(Consumed(otp[c]), otp[c]) /\ Consumed(otp[c]).life = otp[c].life
      /\ Consumed(otp[c]).attempts <= MaxAttempts /\ Consumed(otp[c]).consumed
  BY <1>2 DEF Consumed, Older, Otp
<1>4. CASE VerifyExceeded(v)
  <2>1. Checked(v, Consumed(otp[c]), TRUE) /\ accepted' = accepted /\ is_verified' = is_verified
    BY <1>4 DEF VerifyExceeded
  <2> QED
    BY <1>1, <1>3, <2>1, CheckedKept
<1>5. CASE VerifyInvalid(v)
  <2>1. Checked(v, Attempted(otp[c]), FALSE) /\ accepted' = accepted /\ is_verified' = is_verified
    BY <1>5 DEF VerifyInvalid
  <2>2. ~(otp[c].attempts >= MaxAttempts)
    BY <1>5 DEF VerifyInvalid, Exceeded
  <2>3. /\ Older(Attempted(otp[c]), otp[c]) /\ Attempted(otp[c]).life = otp[c].life
        /\ Attempted(otp[c]).attempts <= MaxAttempts
    BY <1>2, <2>2, BoundAssumption DEF Attempted, Older, Otp
  <2> QED
    BY <1>1, <2>1, <2>3, CheckedKept
<1>6. CASE VerifyOk(v)
  <2>1. Checked(v, Consumed(otp[c]), TRUE) /\ accepted' = [accepted EXCEPT ![c] = @ + 1]
    BY <1>6 DEF VerifyOk
  <2>2. /\ accepted' \in [Codes -> Nat] /\ accepted'[c] = accepted[c] + 1
        /\ \A d \in Codes \ {c} : accepted'[d] = accepted[d]
    BY <1>1, <2>1
  <2>3. is_verified' \in BOOLEAN
    BY <1>1, <1>6, OutageAssumption, Zenon DEF VerifyOk
  <2> QED
    BY <1>1, <1>3, <2>1, <2>2, <2>3, CheckedKept
<1> QED
  BY <1>4, <1>5, <1>6

-----------------------------------------------------------------------------
(* Failures and the passing of time.                                          *)
LEMMA FailKept == ASSUME IInv, NEW q \in Requests, Fail(q) PROVE IInv'
<1>1. TypeOK
  BY DEF IInv
<1>2. /\ otp' = [c \in Codes |-> [otp[c] EXCEPT !.lock = @ \ {q}]]
      /\ send' = [s \in Senders |-> IF s = q THEN NoSend ELSE send[s]]
      /\ verify' = [v \in Verifiers |-> IF v = q THEN NoVerify ELSE verify[v]]
      /\ UNCHANGED <<latest, guard, recent, accepted, is_verified>>
  BY DEF Fail
<1>3. ASSUME NEW c \in Codes
      PROVE  /\ Older(otp'[c], otp[c]) /\ otp'[c].life = otp[c].life /\ otp'[c].consumed = otp[c].consumed
             /\ otp'[c].attempts = otp[c].attempts /\ otp'[c].expired = otp[c].expired
             /\ otp'[c].lock = otp[c].lock \ {q}
  <2>1. otp[c] \in Otp
    BY <1>1, Fields
  <2>2. [otp[c] EXCEPT !.lock = @ \ {q}] \in Otp
    BY <2>1 DEF Otp
  <2> QED
    BY <1>2, <2>1, <2>2 DEF Older, Otp
<1>4. TypeOK'
  BY <1>1, <1>2, <1>3, NoneTyped DEF TypeOK, Older
<1>5. Valid' = Valid /\ Unconsumed' = Unconsumed /\ \A c \in Codes : Exists(c)' <=> Exists(c)
  BY <1>3 DEF Valid, Unconsumed, Exists
<1>6. Held'
  <2> SUFFICES ASSUME NEW v \in Verifiers, v # q, verify[v].pc = "check"
               PROVE  verify[v].code \in Unconsumed /\ otp'[verify[v].code].lock = {v}
    BY <1>2, <1>5 DEF Held, NoVerify
  <2>1. verify[v].code \in Unconsumed /\ verify[v].code \in Codes /\ otp[verify[v].code].lock = {v}
    BY ValidAreCodes DEF IInv, Held
  <2> QED
    BY <1>3, <2>1
<1>7. Holds'
  <2> SUFFICES ASSUME NEW s \in Senders, s # q, send[s].pc = "insert", NEW c \in send[s].picked
               PROVE  otp'[c].lock = {s}
    BY <1>2 DEF Holds, NoSend
  <2>1. c \in Codes /\ otp[c].lock = {s}
    BY <1>1, Fields DEF IInv, Holds
  <2> QED
    BY <1>3, <2>1
<1>8. SeenKept'
  <2>1. \A v \in Verifiers : verify'[v] = verify[v] \/ (verify'[v].pc # "lock" /\ verify'[v].seen = {})
    BY <1>2 DEF NoVerify
  <2> QED
    BY <1>5, <2>1, SeenStays
<1>9. AcceptedOnce' /\ AttemptsBounded'
  BY <1>2, <1>3 DEF IInv, AcceptedOnce, AttemptsBounded
<1> QED
  BY <1>4, <1>6, <1>7, <1>8, <1>9 DEF IInv

LEMMA ExpireKept == ASSUME IInv, Expire PROVE IInv'
<1>1. TypeOK
  BY DEF IInv
<1>2. PICK c \in Codes : /\ otp' = [otp EXCEPT ![c].expired = TRUE]
                         /\ UNCHANGED <<latest, guard, recent, send, verify, accepted, is_verified>>
  BY DEF Expire
<1>3. /\ otp' \in [Codes -> Otp]
      /\ \A d \in Codes : /\ Older(otp'[d], otp[d]) /\ otp'[d].life = otp[d].life
                          /\ otp'[d].consumed = otp[d].consumed /\ otp'[d].lock = otp[d].lock
                          /\ otp'[d].attempts = otp[d].attempts
  BY <1>1, <1>2 DEF TypeOK, Otp, Older
<1>4. TypeOK'
  BY <1>1, <1>2, <1>3 DEF TypeOK
<1>5. SeenKept'
  BY <1>2, <1>3, OlderSeen DEF Exists
<1>6. Unconsumed' = Unconsumed
  BY <1>3 DEF Unconsumed, Exists
<1>7. Held' /\ Holds'
  BY <1>1, <1>2, <1>3, <1>6, Fields, ValidAreCodes DEF IInv, Held, Holds
<1>8. AcceptedOnce' /\ AttemptsBounded'
  BY <1>2, <1>3 DEF IInv, AcceptedOnce, AttemptsBounded
<1> QED
  BY <1>4, <1>5, <1>7, <1>8 DEF IInv

LEMMA TimeKept == ASSUME IInv, CooldownOver \/ LatestExpires \/ UNCHANGED vars PROVE IInv'
<1>1. TypeOK' /\ UNCHANGED <<otp, send, verify, accepted>>
  BY CodeNumbers DEF IInv, TypeOK, CooldownOver, LatestExpires, vars
<1> QED
  BY <1>1, RowsStay

LEMMA StepKept == IInv /\ [Next]_vars => IInv'
<1> SUFFICES ASSUME IInv, [Next]_vars PROVE IInv'
  OBVIOUS
<1>1. ASSUME NEW s \in Senders, QuietSend(s) \/ SendLock(s) \/ SendInsert(s) \/ Withdraw(s) PROVE IInv'
  BY <1>1, QuietSendKept, SendLockKept, SendInsertKept, WithdrawKept
<1>2. ASSUME NEW v \in Verifiers,
             \/ QuietVerify(v) \/ VerifyLockCached(v) \/ VerifyLock(v)
             \/ VerifyExceeded(v) \/ VerifyInvalid(v) \/ VerifyOk(v)
      PROVE  IInv'
  BY <1>2, QuietVerifyKept, VerifyLockCachedKept, VerifyLockKept, ChecksKept
<1> QED
  BY <1>1, <1>2, FailKept, ExpireKept, TimeKept DEF Next, QuietSend, QuietVerify

(* Every variable keeps its type. *)
THEOREM TypeCorrect == Spec => []TypeOK
<1>1. IInv => TypeOK
  BY DEF IInv
<1> QED
  BY <1>1, First, StepKept, PTL DEF Spec

(* A code lets at most one request through and is out of use then             *)
(* (consume_otp), whichever requests check it, supersede it or fail.          *)
THEOREM AcceptedAtMostOnce == Spec => []AcceptedOnce
<1>1. IInv => AcceptedOnce
  BY DEF IInv
<1> QED
  BY <1>1, First, StepKept, PTL DEF Spec

(* However many requests check a code at once, it is tried max_attempts times. *)
THEOREM TriedFewTimes == Spec => []AttemptsBounded
<1>1. IInv => AttemptsBounded
  BY DEF IInv
<1> QED
  BY <1>1, First, StepKept, PTL DEF Spec

(* Who is told that there is no code had none in use since it began: a missing *)
(* or stale key in Redis hides none (latest_valid_otp).                       *)
THEOREM NoCodeHidden == Spec => []NotFoundHonest
<1>1. IInv => NotFoundHonest
  BY DEF IInv, SeenKept, NotFoundHonest
<1> QED
  BY <1>1, First, StepKept, PTL DEF Spec
-----------------------------------------------------------------------------
(* One sender at a time, while the guard that spaces the sends is reliable:   *)
(* the guard is set while a send is under way, and the codes that the sender  *)
(* picked are all that are in use, until it supersedes them by its own.       *)
Busy(s) == send[s] # NoSend
Guarded ==
    /\ ~guard => \A s \in Senders : ~Busy(s)
    /\ \A s, o \in Senders : Busy(s) /\ Busy(o) => s = o
AllPicked == \A s \in Senders : send[s].pc \in {"lock", "insert"} => Unconsumed \subseteq send[s].picked
LiveOne == \A c, d \in Unconsumed : c = d
GInv == IInv /\ Guarded /\ AllPicked /\ LiveOne

LEMMA NoneGuarded == Init => Guarded /\ AllPicked /\ LiveOne
BY ValidAreCodes DEF Init, Guarded, Busy, AllPicked, LiveOne, NoSend, Unconsumed, Exists

LEMMA Shrinks ==
    ASSUME \A c \in Codes : (Exists(c)' => Exists(c)) /\ (otp[c].consumed => otp'[c].consumed)
    PROVE  Unconsumed' \subseteq Unconsumed
BY DEF Unconsumed

(* The steps of verifiers, failures and time leave the senders alone, or one  *)
(* rests, and put no code in use.                                             *)
LEMMA OthersShrink ==
    ASSUME IInv, \/ \E v \in Verifiers :
                      \/ QuietVerify(v) \/ VerifyLockCached(v) \/ VerifyLock(v)
                      \/ VerifyExceeded(v) \/ VerifyInvalid(v) \/ VerifyOk(v)
                 \/ (\E q \in Requests : Fail(q)) \/ Expire
    PROVE  /\ Unconsumed' \subseteq Unconsumed /\ guard' = guard
           /\ \A s \in Senders : send'[s] \in {send[s], NoSend}
<1>1. otp \in [Codes -> Otp]
  BY DEF IInv, TypeOK
<1>2. ASSUME NEW v \in Verifiers, QuietVerify(v)
      PROVE  otp' = otp /\ guard' = guard /\ send' = send
  BY <1>2 DEF QuietVerify, VerifyStart, VerifyCached, VerifyScan, VerifyNotFound
<1>3. ASSUME NEW v \in Verifiers, VerifyLockCached(v) \/ VerifyLock(v)
      PROVE  /\ guard' = guard /\ send' = send
             /\ \A c \in Codes : otp'[c].life = otp[c].life /\ otp'[c].consumed = otp[c].consumed
  <2>1. guard' = guard /\ send' = send /\ (otp' = otp \/ \E c : otp' = Locked(v, c))
    BY <1>3 DEF VerifyLockCached, VerifyLock
  <2> QED
    BY <1>1, <2>1 DEF Locked, Otp
<1>4. ASSUME NEW v \in Verifiers, VerifyExceeded(v) \/ VerifyInvalid(v) \/ VerifyOk(v)
      PROVE  /\ guard' = guard /\ send' = send
             /\ \A c \in Codes : otp'[c].life = otp[c].life /\ (otp[c].consumed => otp'[c].consumed)
  <2> DEFINE d == verify[v].code
  <2>1. d \in Codes
    BY <1>4, ValidAreCodes DEF IInv, Held, VerifyExceeded, VerifyInvalid, VerifyOk
  <2>2. PICK row \in {Consumed(otp[d]), Attempted(otp[d])} :
          guard' = guard /\ send' = send /\ otp' = [otp EXCEPT ![d] = [row EXCEPT !.lock = @ \ {v}]]
    BY <1>4 DEF VerifyExceeded, VerifyInvalid, VerifyOk, Checked
  <2>3. otp[d] \in Otp
    BY <1>1, <2>1
  <2>4. LET freed == [row EXCEPT !.lock = @ \ {v}] IN
          freed.life = otp[d].life /\ (otp[d].consumed => freed.consumed)
    BY <2>2, <2>3 DEF Consumed, Attempted, Otp
  <2> QED
    BY <1>1, <2>1, <2>2, <2>4
<1>5. ASSUME NEW q \in Requests, Fail(q)
      PROVE  /\ guard' = guard /\ \A s \in Senders : send'[s] \in {send[s], NoSend}
             /\ \A c \in Codes : otp'[c].life = otp[c].life /\ otp'[c].consumed = otp[c].consumed
  BY <1>1, <1>5 DEF Fail, Otp
<1>6. ASSUME Expire
      PROVE  /\ guard' = guard /\ send' = send
             /\ \A c \in Codes : otp'[c].life = otp[c].life /\ otp'[c].consumed = otp[c].consumed
  BY <1>1, <1>6 DEF Expire, Otp
<1> QED
  BY <1>2, <1>3, <1>4, <1>5, <1>6, Shrinks DEF Exists

LEMMA OthersGuarded ==
    ASSUME GInv, Unconsumed' \subseteq Unconsumed, guard' = guard,
           \A s \in Senders : send'[s] \in {send[s], NoSend}
    PROVE  Guarded' /\ AllPicked' /\ LiveOne'
<1>1. Guarded'
  BY DEF GInv, Guarded, Busy
<1>2. AllPicked'
  BY DEF GInv, AllPicked, NoSend
<1> QED
  BY <1>1, <1>2 DEF GInv, LiveOne

(* What the one sender does.                                                  *)
LEMMA SendersGo ==
    ASSUME NEW s \in Senders, QuietSend(s) \/ SendLock(s) \/ SendInsert(s) \/ Withdraw(s), ~SendStart(s)
    PROVE  send[s] # NoSend /\ (~DropGuard(s) => guard' = guard)
<1>1. send[s].pc \in {"pick", "lock", "insert", "key", "sms", "withdraw", "drop_key", "drop_guard"}
  BY DEF QuietSend, SendPick, SendKey, SmsAccepted, SmsRefused, DropKey, DropGuard, SendLock, SendInsert,
     Withdraw
<1>2. ~DropGuard(s) => guard' = guard
  BY Zenon DEF QuietSend, SendPick, SendKey, SmsAccepted, SmsRefused, DropKey, SendLock, SendInsert, Withdraw
<1> QED
  BY <1>1, <1>2 DEF NoSend

LEMMA SenderGuarded ==
    ASSUME GInv, "guard" \notin Outages, NEW s \in Senders,
           QuietSend(s) \/ SendLock(s) \/ SendInsert(s) \/ Withdraw(s)
    PROVE  Guarded' /\ AllPicked' /\ LiveOne'
<1>1. TypeOK /\ send[s] \in Send /\ guard \in BOOLEAN /\ send \in [Senders -> Send] /\ otp \in [Codes -> Otp]
  BY DEF GInv, IInv, TypeOK
<1>2. \A o \in Senders \ {s} : send'[o] = send[o]
  BY <1>1 DEF QuietSend, SendStart, SendPick, SendKey, SmsAccepted, SmsRefused, DropKey, DropGuard,
     SendLock, SendInsert, Withdraw
<1>3. \A o \in Senders \ {s} : send[o] = NoSend
  <2>1. CASE SendStart(s)
    <3>1. ~guard
      BY <2>1, Zenon DEF GInv, SendStart, MaySend
    <3> QED
      BY <3>1 DEF GInv, Guarded, Busy
  <2>2. CASE ~SendStart(s)
    BY <2>2, SendersGo DEF GInv, Guarded, Busy
  <2> QED
    BY <2>1, <2>2
<1>4. guard' \/ send'[s] = NoSend
  <2>1. CASE SendStart(s)
    BY <2>1, Zenon DEF SendStart, MaySend
  <2>2. CASE DropGuard(s)
    BY <1>1, <2>2 DEF DropGuard
  <2>3. CASE ~SendStart(s) /\ ~DropGuard(s)
    <3>1. guard' = guard /\ send[s] # NoSend
      BY <2>3, SendersGo
    <3> QED
      BY <1>1, <3>1 DEF GInv, Guarded, Busy
  <2> QED
    BY <2>1, <2>2, <2>3
<1>5. Guarded'
  BY <1>2, <1>3, <1>4 DEF Guarded, Busy
<1>6. \A o \in Senders \ {s} : send'[o].pc = "idle"
  BY <1>2, <1>3 DEF NoSend
<1>7. CASE SendInsert(s)
  <2>1. PICK new \in Codes :
          /\ otp' = [c \in Codes |-> IF c = new THEN [otp[c] EXCEPT !.life = "sent"]
                                     ELSE IF c \in send[s].picked THEN Supersede(c, s) ELSE otp[c]]
          /\ send' = [send EXCEPT ![s] = [@ EXCEPT !.pc = "key", !.code = new, !.picked = {}]]
    BY <1>7 DEF SendInsert
  <2>2. Unconsumed \subseteq send[s].picked
    BY <1>7 DEF GInv, AllPicked, SendInsert
  <2>3. \A c \in Unconsumed' : c = new
    BY <1>1, <2>1, <2>2 DEF Unconsumed, Exists, Supersede, Otp
  <2>4. send'[s].pc = "key"
    BY <1>1, <2>1 DEF Send
  <2> QED
    BY <1>5, <1>6, <2>3, <2>4 DEF AllPicked, LiveOne
<1>8. CASE ~SendInsert(s)
  <2>1. Unconsumed' \subseteq Unconsumed
    <3>1. CASE QuietSend(s)
      <4>1. otp' = otp
        BY <3>1 DEF QuietSend, SendStart, SendPick, SendKey, SmsAccepted, SmsRefused, DropKey, DropGuard
      <4> QED
        BY <4>1 DEF Unconsumed, Exists
    <3>2. CASE SendLock(s)
      BY <1>1, <3>2, Shrinks DEF SendLock, Exists, Otp
    <3>3. CASE Withdraw(s)
      BY <1>1, <3>3, Shrinks DEF Withdraw, Exists, Otp
    <3> QED
      BY <1>8, <3>1, <3>2, <3>3
  <2>2. send'[s].pc \in {"lock", "insert"} => Unconsumed' \subseteq send'[s].picked
    <3>1. CASE SendPick(s)
      BY <1>1, <2>1, <3>1 DEF SendPick, Send
    <3>2. CASE SendLock(s)
      <4>1. Unconsumed \subseteq send[s].picked
        BY <3>2 DEF GInv, AllPicked, SendLock
      <4>2. send'[s].picked = send[s].picked \cap Unconsumed
        BY <1>1, <3>2 DEF SendLock, Send
      <4> QED
        BY <2>1, <4>1, <4>2
    <3>3. CASE ~SendPick(s) /\ ~SendLock(s)
      <4>1. \/ send' = [send EXCEPT ![s] = NoSend]
            \/ send' = [send EXCEPT ![s] = [NoSend EXCEPT !.pc = "pick"]]
            \/ \E pc \in {"sms", "withdraw", "drop_key", "drop_guard"} : send' = [send EXCEPT ![s].pc = pc]
        BY <1>8, <3>3 DEF QuietSend, SendStart, SendKey, SmsAccepted, SmsRefused, DropKey, DropGuard, Withdraw
      <4> QED
        BY <1>1, <4>1 DEF NoSend, Send
    <3> QED
      BY <3>1, <3>2, <3>3
  <2> QED
    BY <1>5, <1>6, <2>1, <2>2 DEF AllPicked, LiveOne, GInv
<1> QED
  BY <1>7, <1>8

LEMMA GuardKept == ASSUME "guard" \notin Outages PROVE GInv /\ [Next]_vars => GInv'
<1> SUFFICES ASSUME GInv, [Next]_vars PROVE Guarded' /\ AllPicked' /\ LiveOne'
  BY StepKept DEF GInv
<1>1. IInv
  BY DEF GInv
<1>2. CASE CooldownOver
  BY <1>2 DEF CooldownOver, GInv, Guarded, AllPicked, LiveOne, Busy, Unconsumed, Exists
<1>3. CASE LatestExpires \/ UNCHANGED vars
  BY <1>3 DEF LatestExpires, vars, GInv, Guarded, AllPicked, LiveOne, Busy, Unconsumed, Exists
<1> QED
  BY <1>1, <1>2, <1>3, SenderGuarded, OthersShrink, OthersGuarded DEF Next, QuietSend, QuietVerify

LEMMA LiveOneIsOneLive == LiveOne => OneLive
<1> SUFFICES ASSUME LiveOne PROVE Cardinality(Valid) <= 1
  BY DEF OneLive
<1>1. CASE Valid = {}
  BY <1>1, FS_EmptySet
<1>2. ASSUME NEW c \in Valid PROVE Cardinality(Valid) <= 1
  <2>1. Valid = {c}
    BY <1>2 DEF LiveOne, Valid
  <2>2. Cardinality({c}) = 1
    BY FS_Singleton
  <2> QED
    BY <2>1, <2>2
<1> QED
  BY <1>1, <1>2

(* "Keep only one live OTP per user/purpose" (create_and_send_otp), where the  *)
(* guard that spaces the sends does not fail: senders then never overlap.     *)
THEOREM OneCodeLive == ASSUME "guard" \notin Outages PROVE Spec => []OneLive
<1>1. GInv => OneLive
  BY LiveOneIsOneLive DEF GInv
<1>2. Init => GInv
  BY First, NoneGuarded DEF GInv
<1> QED
  BY <1>1, <1>2, GuardKept, PTL DEF Spec

-----------------------------------------------------------------------------
(* The users' rows: their subscriptions and the handlers that save them.     *)

LEMMA Names == Members!Subscription \subseteq Members!Columns /\ "plan" \in Members!Columns /\ "settings" \in Members!Columns
BY DEF Members!Subscription, Members!Columns

LEMMA RowFields ==
    ASSUME NEW row \in Members!Account
    PROVE  /\ row.plan \in {"free", "premium"} /\ row.settings \in Members!Settings
           /\ row.settings.period \in 0..MaxPeriods /\ row.settings.stacked \in BOOLEAN
BY DEF Members!Account, Members!Settings

LEMMA RequestFields ==
    ASSUME Members!TypeOK, NEW q \in Senders
    PROVE  /\ act[q] \in Members!Request /\ act[q].copy \in Members!Account
           /\ act[q].means \in SUBSET Members!Columns /\ act[q].stale \in SUBSET Members!Columns
BY DEF Members!TypeOK, Members!Request

LEMMA IdleTyped == ASSUME MaxPeriods \in Nat PROVE Members!Idle \in Members!Request /\ Members!Idle.pc = "idle" /\ Members!Idle.means = {}
BY DEF Members!Idle, Members!Request, Members!NoAccount, Members!NoSettings, Members!Account,
   Members!Settings, Members!Kinds, Members!Signed

(* A row saved is a row, whose columns are those of the copy or of the row.   *)
LEMMA WithRow ==
    ASSUME NEW row \in Members!Account, NEW copy \in Members!Account, NEW columns
    PROVE  /\ Members!With(row, columns, copy) \in Members!Account
           /\ \A c \in Members!Columns : Members!With(row, columns, copy)[c] = IF c \in columns THEN copy[c] ELSE row[c]
BY DEF Members!With, Members!Account, Members!Columns

LEMMA NormalRow ==
    ASSUME MaxPeriods \in Nat, NEW copy \in Members!Account
    PROVE  /\ Members!Normal(copy) \in Members!Account
           /\ \A c \in Members!Columns : c \notin Members!NormalColumns(copy) => Members!Normal(copy)[c] = copy[c]
           /\ ~Members!Over(copy) => Members!Normal(copy).plan = copy.plan /\ Members!Normal(copy).settings.period = copy.settings.period
           /\ Members!NormalColumns(copy) \subseteq Members!Subscription
<1>1. Members!NoSettings \in Members!Settings
  BY DEF Members!NoSettings, Members!Settings
<1>2. CASE Members!Over(copy)
  BY <1>1, <1>2 DEF Members!Normal, Members!NormalColumns, Members!Account, Members!Columns,
     Members!Subscription
<1>3. CASE ~Members!Over(copy)
  <2>1. [copy EXCEPT !.settings.stacked = FALSE] \in Members!Account
    BY DEF Members!Account, Members!Settings
  <2>2. \A c \in Members!Columns \ {"settings"} : [copy EXCEPT !.settings.stacked = FALSE][c] = copy[c]
    BY DEF Members!Account, Members!Columns
  <2>3. [copy EXCEPT !.settings.stacked = FALSE].settings.period = copy.settings.period
    BY DEF Members!Account, Members!Settings
  <2> QED
    BY <1>3, <2>1, <2>2, <2>3 DEF Members!Normal, Members!NormalColumns, Members!Columns, Members!Subscription
<1> QED
  BY <1>2, <1>3

-----------------------------------------------------------------------------
(* What is inductive.  A column of a copy is the one of the row, unless it    *)
(* changed since or the request is about it; only an administrator is about   *)
(* the plan.                                                                 *)
FreshCopy(r, row) == \A c \in Members!Columns : c \in r.stale \/ c \in r.means \/ r.copy[c] = row[c]
Aimed(r) == /\ "settings" \notin r.means
            /\ "plan" \in r.means => r.pc = "save" /\ r.kind = "admin"
            /\ r.pc \in {"normalize", "act"} => r.means = {}
Fresh == \A q \in Senders : ~Members!At(q, "idle") => FreshCopy(act[q], account) /\ Aimed(act[q])

MembersIInv == Members!TypeOK /\ Fresh /\ Members!PaidPremium

LEMMA MembersFirst == ASSUME MaxPeriods \in Nat \ {0}, MaxBegun \in Nat PROVE Members!Init => MembersIInv
<1> SUFFICES ASSUME Members!Init PROVE MembersIInv
  OBVIOUS
<1>1. PICK plan \in {"free", "premium"}, period \in {0, 1}, stacked \in BOOLEAN, role \in Members!Roles :
        /\ plan = "free" => period = 0
        /\ account = [plan |-> plan, settings |-> [period |-> period, stacked |-> stacked], quality |-> "medium",
                      roles |-> {role}, banned |-> FALSE]
        /\ paid = period
  BY DEF Members!Init
<1>2. account \in Members!Account
  BY <1>1 DEF Members!Account, Members!Settings
<1>3. Members!TypeOK
  BY <1>1, <1>2, IdleTyped DEF Members!Init, Members!TypeOK
<1>4. Fresh /\ Members!PaidPremium
  BY <1>1, IdleTyped DEF Members!Init, Fresh, Members!At, Members!PaidPremium
<1> QED
  BY <1>3, <1>4 DEF MembersIInv

(* The row changes, and the copies of the other requests become stale.        *)
LEMMA GoStaleKept ==
    ASSUME MaxPeriods \in Nat, Members!TypeOK, Fresh, NEW q \in Senders, NEW r \in Members!Request, NEW columns \in SUBSET Members!Columns,
           Members!GoStale(q, r, columns), account' \in Members!Account,
           \A c \in Members!Columns \ columns : account'[c] = account[c],
           r.pc # "idle" => FreshCopy(r, account') /\ Aimed(r)
    PROVE  act' \in [Senders -> Members!Request] /\ Fresh'
<1>1. \A o \in Senders :
        act'[o] = IF o = q THEN r ELSE IF Members!At(o, "idle") THEN Members!Idle
                      ELSE [act[o] EXCEPT !.stale = @ \cup columns]
  BY DEF Members!GoStale
<1>2. ASSUME NEW o \in Senders, o # q, ~Members!At(o, "idle")
      PROVE  /\ act'[o] \in Members!Request
             /\ act'[o].pc = act[o].pc /\ act'[o].kind = act[o].kind
             /\ act'[o].copy = act[o].copy /\ act'[o].means = act[o].means
             /\ act'[o].stale = act[o].stale \cup columns
  <2>1. act'[o] = [act[o] EXCEPT !.stale = @ \cup columns]
    BY <1>1, <1>2
  <2>2. act[o] \in Members!Request /\ act[o].stale \cup columns \in SUBSET Members!Columns
    BY RequestFields
  <2> QED
    BY <2>1, <2>2 DEF Members!Request
<1>3. act' \in [Senders -> Members!Request]
  <2>1. \A o \in Senders : act'[o] \in Members!Request
    BY <1>1, <1>2, IdleTyped
  <2> QED
    BY <2>1 DEF Members!GoStale
<1>4. ASSUME NEW o \in Senders, o # q, ~Members!At(o, "idle") PROVE FreshCopy(act'[o], account') /\ Aimed(act'[o])
  <2>1. FreshCopy(act[o], account) /\ Aimed(act[o])
    BY <1>4 DEF Fresh
  <2> QED
    BY <1>2, <1>4, <2>1 DEF FreshCopy, Aimed
<1>5. Fresh'
  BY <1>1, <1>4, IdleTyped DEF Fresh, Members!At
<1> QED
  BY <1>3, <1>5

LEMMA GoKept ==
    ASSUME Members!TypeOK, Fresh, NEW q \in Senders, NEW r \in Members!Request, Members!Go(q, r), account' = account,
           r.pc # "idle" => FreshCopy(r, account) /\ Aimed(r)
    PROVE  act' \in [Senders -> Members!Request] /\ Fresh'
BY DEF Members!TypeOK, Fresh, Members!Go, Members!At

-----------------------------------------------------------------------------
(* The subscription of a copy that is over is taken back.                     *)
LEMMA NormalizedKept ==
    ASSUME MaxPeriods \in Nat, MembersIInv, NEW q \in Senders, act[q].pc \in {"normalize", "answer"},
           NEW r \in Members!Request, Members!Normalized(q, r), UNCHANGED <<paid, ended, begun>>,
           r = Members!Idle \/ (/\ act[q].pc = "normalize"
                                /\ r.copy = Members!Copy(q) /\ r.means = act[q].means /\ r.stale = act[q].stale
                                /\ r.pc # "save")
    PROVE  MembersIInv'
<1> DEFINE columns == Members!NormalColumns(Members!Copy(q))
<1> DEFINE normal == Members!Normal(Members!Copy(q))
<1>1. /\ Members!TypeOK /\ Fresh /\ Members!PaidPremium /\ Members!Copy(q) \in Members!Account /\ Members!Copy(q) = act[q].copy
      /\ account \in Members!Account
  BY RequestFields DEF MembersIInv, Members!TypeOK, Members!Copy
<1>2. /\ FreshCopy(act[q], account) /\ act[q].means \cap Members!Subscription = {}
      /\ act[q].pc = "normalize" => act[q].means = {}
  BY <1>1 DEF Fresh, Members!At, Aimed, Members!Subscription
<1>3. CASE ~Members!Due(Members!Copy(q))
  <2>1. Members!Go(q, r) /\ UNCHANGED <<account, intact>>
    BY <1>3 DEF Members!Normalized
  <2>2. r.pc # "idle" => FreshCopy(r, account) /\ Aimed(r)
    BY <1>1, <1>2, IdleTyped DEF FreshCopy, Aimed, Members!Subscription
  <2>3. act' \in [Senders -> Members!Request] /\ Fresh'
    BY <1>1, <2>1, <2>2, GoKept
  <2> QED
    BY <1>1, <2>1, <2>3 DEF MembersIInv, Members!TypeOK, Members!PaidPremium
<1>4. CASE Members!Due(Members!Copy(q))
  <2> DEFINE n == IF r = Members!Idle THEN Members!Idle ELSE [r EXCEPT !.copy = normal]
  <2>1. /\ account' = Members!With(account, columns, normal)
        /\ intact' = (intact /\ columns \cap act[q].stale = {})
        /\ Members!GoStale(q, n, columns)
    BY <1>4 DEF Members!Normalized
  <2>2. /\ normal \in Members!Account /\ columns \subseteq Members!Subscription
        /\ \A c \in Members!Columns : c \notin columns => normal[c] = Members!Copy(q)[c]
        /\ ~Members!Over(Members!Copy(q)) => normal.plan = Members!Copy(q).plan /\ normal.settings.period = Members!Copy(q).settings.period
    BY <1>1, NormalRow
  <2> HIDE DEF columns, normal
  <2>3. /\ account' \in Members!Account
        /\ \A c \in Members!Columns : account'[c] = IF c \in columns THEN normal[c] ELSE account[c]
    BY <1>1, <2>1, <2>2, WithRow
  <2>4. n \in Members!Request /\ (n.pc # "idle" => FreshCopy(n, account') /\ Aimed(n))
    <3>1. CASE r = Members!Idle
      BY <3>1, IdleTyped
    <3>2. CASE r # Members!Idle
      <4>1. /\ n \in Members!Request /\ n.copy = normal /\ n.means = act[q].means
            /\ n.stale = act[q].stale /\ n.means = {}
        BY <1>2, <2>2, <3>2 DEF Members!Request
      <4>2. FreshCopy(n, account')
        BY <1>1, <1>2, <2>2, <2>3, <4>1 DEF FreshCopy
      <4> QED
        BY <4>1, <4>2 DEF Aimed
    <3> QED
      BY <3>1, <3>2
  <2> HIDE DEF n
  <2>5. act' \in [Senders -> Members!Request] /\ Fresh'
    BY <1>1, <2>1, <2>2, <2>3, <2>4, GoStaleKept, Names
  <2>6. Members!PaidPremium'
    <3> SUFFICES ASSUME intact, columns \cap act[q].stale = {}, paid > ended
                 PROVE  account'.plan = "premium" /\ account'.settings.period = paid
      BY <2>1 DEF Members!PaidPremium
    <3>1. account.plan = "premium" /\ account.settings.period = paid
      BY <1>1 DEF Members!PaidPremium
    <3>2. \A c \in columns : Members!Copy(q)[c] = account[c]
      BY <1>1, <1>2, <2>2, Names DEF FreshCopy
    <3>3. CASE Members!Over(Members!Copy(q))
      <4>1. "settings" \in columns
        BY <3>3 DEF columns, Members!NormalColumns
      <4>2. Members!Copy(q).settings = account.settings
        BY <3>2, <4>1
      <4> QED
        BY <1>1, <3>1, <3>3, <4>2 DEF Members!Over, Members!TypeOK
    <3>4. CASE ~Members!Over(Members!Copy(q))
      <4>1. columns = {"settings"}
        BY <3>4 DEF columns, Members!NormalColumns
      <4>2. account'.plan = account.plan /\ account'.settings = normal.settings
        BY <2>3, <4>1, Names
      <4>3. Members!Copy(q).settings = account.settings
        BY <3>2, <4>1
      <4> QED
        BY <2>2, <3>1, <3>4, <4>2, <4>3
    <3> QED
      BY <3>3, <3>4
  <2>7. intact' \in BOOLEAN
    BY <2>1, <1>1 DEF Members!TypeOK
  <2> QED
    BY <1>1, <2>3, <2>5, <2>6, <2>7 DEF MembersIInv, Members!TypeOK
<1> QED
  BY <1>3, <1>4

LEMMA NormalizeKept ==
    ASSUME MaxPeriods \in Nat, MembersIInv, NEW q \in Senders, Members!Normalize(q) \/ Members!Answer(q)
    PROVE  MembersIInv'
<1>1. CASE Members!Normalize(q)
  <2> DEFINE r == [act[q] EXCEPT !.pc = "act"]
  <2>1. act[q] \in Members!Request
    BY RequestFields DEF MembersIInv
  <2>2. /\ r \in Members!Request /\ r.copy = Members!Copy(q) /\ r.means = act[q].means /\ r.stale = act[q].stale
        /\ r.pc # "save"
    BY <2>1 DEF Members!Request, Members!Copy
  <2>3. act[q].pc = "normalize" /\ Members!Normalized(q, r) /\ UNCHANGED <<paid, ended, begun>>
    BY <1>1 DEF Members!Normalize, Members!At
  <2> HIDE DEF r
  <2> QED
    BY <2>2, <2>3, NormalizedKept
<1>2. CASE Members!Answer(q)
  <2>1. act[q].pc = "answer" /\ Members!Normalized(q, Members!Idle) /\ UNCHANGED <<paid, ended, begun>>
    BY <1>2 DEF Members!Answer, Members!At
  <2> QED
    BY <2>1, IdleTyped, NormalizedKept
<1> QED
  BY <1>1, <1>2

-----------------------------------------------------------------------------
(* The row is read, and the handler goes on with its copy.                    *)
LEMMA ReadKept ==
    ASSUME MaxPeriods \in Nat, MaxBegun \in Nat, MembersIInv, NEW q \in Senders, NEW kind \in Members!Kinds,
           NEW pc \in {"normalize", "save"},
           NEW copy \in Members!Account, NEW means \in SUBSET Members!Columns, Members!Read(q, kind, pc, copy, means),
           \A c \in Members!Columns : c \in means \/ copy[c] = account[c],
           "settings" \notin means, "plan" \in means => pc = "save" /\ kind = "admin",
           pc = "normalize" => means = {}
    PROVE  MembersIInv'
<1> DEFINE r == [Members!Idle EXCEPT !.pc = pc, !.kind = kind, !.copy = copy, !.means = means]
<1>1. /\ r \in Members!Request /\ r.pc = pc /\ r.kind = kind /\ r.copy = copy /\ r.means = means
  BY IdleTyped DEF Members!Request, Members!Idle
<1>2. Members!Go(q, r) /\ begun < MaxBegun /\ begun' = begun + 1 /\ UNCHANGED <<account, paid, ended, intact>>
  BY DEF Members!Read
<1> HIDE DEF r
<1>3. FreshCopy(r, account) /\ Aimed(r)
  BY <1>1 DEF FreshCopy, Aimed
<1>4. act' \in [Senders -> Members!Request] /\ Fresh'
  BY <1>1, <1>2, <1>3, GoKept DEF MembersIInv
<1> QED
  BY <1>2, <1>4 DEF MembersIInv, Members!TypeOK, Members!PaidPremium

Reads(q) ==
    \/ \E kind \in Members!Signed : Members!Authenticate(q, kind)
    \/ Members!Login(q) \/ Members!Register(q) \/ Members!Reset(q)
    \/ \E b \in BOOLEAN : Members!Verify(q, b) \/ Members!Ban(q, b)
    \/ \E plan \in {"free", "premium"} : Members!Administer(q, "plan", [account EXCEPT !.plan = plan])
    \/ \E roles \in SUBSET Members!Roles : Members!Administer(q, "roles", [account EXCEPT !.roles = roles])
    \/ \E quality \in {"medium", "high"} : Members!Administer(q, "quality", [account EXCEPT !.quality = quality])
    \/ \E banned \in BOOLEAN : Members!Administer(q, "banned", [account EXCEPT !.banned = banned])

LEMMA ReadsKept ==
    ASSUME MaxPeriods \in Nat, MaxBegun \in Nat, MembersIInv, NEW q \in Senders, Reads(q)
    PROVE  MembersIInv'
<1>1. account \in Members!Account /\ {} \in SUBSET Members!Columns
  BY DEF MembersIInv, Members!TypeOK
<1>2. /\ Members!Signed \subseteq Members!Kinds /\ {"login", "register", "verify", "reset", "ban", "admin"} \subseteq Members!Kinds
      /\ {"plan", "roles", "quality", "banned"} \subseteq Members!Columns
  BY DEF Members!Kinds, Members!Columns
<1>3. \A kind \in Members!Kinds, pc \in {"normalize", "save"} : Members!Read(q, kind, pc, account, {}) => MembersIInv'
  BY <1>1, ReadKept
<1>4. ASSUME NEW roles \in SUBSET Members!Roles
      PROVE  /\ [account EXCEPT !.roles = roles] \in Members!Account
             /\ \A c \in Members!Columns : c \in {"roles"} \/ [account EXCEPT !.roles = roles][c] = account[c]
  BY <1>1 DEF Members!Account, Members!Columns
<1>5. ASSUME NEW plan \in {"free", "premium"}
      PROVE  /\ [account EXCEPT !.plan = plan] \in Members!Account
             /\ \A c \in Members!Columns : c \in {"plan"} \/ [account EXCEPT !.plan = plan][c] = account[c]
  BY <1>1 DEF Members!Account, Members!Columns
<1>6. ASSUME NEW quality \in {"medium", "high"}
      PROVE  /\ [account EXCEPT !.quality = quality] \in Members!Account
             /\ \A c \in Members!Columns : c \in {"quality"} \/ [account EXCEPT !.quality = quality][c] = account[c]
  BY <1>1 DEF Members!Account, Members!Columns
<1>7. ASSUME NEW banned \in BOOLEAN
      PROVE  /\ [account EXCEPT !.banned = banned] \in Members!Account
             /\ \A c \in Members!Columns : c \in {"banned"} \/ [account EXCEPT !.banned = banned][c] = account[c]
  BY <1>1 DEF Members!Account, Members!Columns
<1>8. \A role \in Members!Roles : account.roles \cup {role} \in SUBSET Members!Roles
  BY <1>1 DEF Members!Account
<1>9. {"audience", "artist"} \subseteq Members!Roles
  BY DEF Members!Roles
<1>10. ASSUME NEW roles \in SUBSET Members!Roles, NEW kind \in Members!Kinds, Members!Read(q, kind, "save", [account EXCEPT !.roles = roles], {"roles"})
      PROVE  MembersIInv'
  BY <1>2, <1>4, <1>10, ReadKept
<1>11. ASSUME NEW plan \in {"free", "premium"}, Members!Administer(q, "plan", [account EXCEPT !.plan = plan]) PROVE MembersIInv'
  BY <1>2, <1>5, <1>11, ReadKept DEF Members!Administer
<1>12. ASSUME NEW quality \in {"medium", "high"}, Members!Administer(q, "quality", [account EXCEPT !.quality = quality]) PROVE MembersIInv'
  BY <1>2, <1>6, <1>12, ReadKept DEF Members!Administer
<1>13. ASSUME NEW banned \in BOOLEAN, NEW kind \in Members!Kinds, Members!Read(q, kind, "save", [account EXCEPT !.banned = banned], {"banned"})
       PROVE  MembersIInv'
  BY <1>2, <1>7, <1>13, ReadKept
<1>14. ASSUME (\E kind \in Members!Signed : Members!Authenticate(q, kind)) \/ Members!Login(q) \/ Members!Reset(q) PROVE MembersIInv'
  BY <1>2, <1>3, <1>14 DEF Members!Authenticate, Members!Login, Members!Reset
<1>15. ASSUME Members!Register(q) PROVE MembersIInv'
  <2>1. Members!Read(q, "register", "save", [account EXCEPT !.roles = account.roles \cup {"audience"}], {"roles"})
    BY <1>15 DEF Members!Register
  <2>2. account.roles \cup {"audience"} \in SUBSET Members!Roles
    BY <1>8, <1>9
  <2> QED
    BY <1>2, <1>10, <2>1, <2>2
<1>16. ASSUME NEW b \in BOOLEAN, Members!Verify(q, b) PROVE MembersIInv'
  <2>1. CASE b
    <3>1. Members!Read(q, "verify", "save", [account EXCEPT !.roles = account.roles \cup {"artist"}], {"roles"})
      BY <1>16, <2>1 DEF Members!Verify
    <3>2. account.roles \cup {"artist"} \in SUBSET Members!Roles
      BY <1>8, <1>9
    <3> QED
      BY <1>2, <1>10, <3>1, <3>2
  <2>2. CASE ~b
    <3>1. [account EXCEPT !.roles = account.roles] = account
      BY <1>1 DEF Members!Account
    <3>2. Members!Read(q, "verify", "save", account, {})
      BY <1>16, <2>2, <3>1 DEF Members!Verify
    <3> QED
      BY <1>2, <1>3, <3>2
  <2> QED
    BY <2>1, <2>2
<1>17. ASSUME NEW b \in BOOLEAN, Members!Ban(q, b) PROVE MembersIInv'
  BY <1>2, <1>13, <1>17 DEF Members!Ban
<1>18. ASSUME NEW roles \in SUBSET Members!Roles, Members!Administer(q, "roles", [account EXCEPT !.roles = roles]) PROVE MembersIInv'
  BY <1>2, <1>10, <1>18 DEF Members!Administer
<1>19. ASSUME NEW banned \in BOOLEAN, Members!Administer(q, "banned", [account EXCEPT !.banned = banned]) PROVE MembersIInv'
  BY <1>2, <1>13, <1>19 DEF Members!Administer
<1> QED
  BY <1>11, <1>12, <1>14, <1>15, <1>16, <1>17, <1>18, <1>19 DEF Reads

-----------------------------------------------------------------------------
Acts(q) ==
    \/ Members!PatchProfile(q) \/ Members!ChangePassword(q) \/ Members!Stream(q)
    \/ \E roles \in SUBSET Members!Roles : Members!PatchRoles(q, roles)
    \/ \E quality \in {"medium", "high"} : Members!ChooseQuality(q, quality) \/ Members!PatchQuality(q, quality)

LEMMA ActsKept == ASSUME MaxPeriods \in Nat, MembersIInv, NEW q \in Senders, Acts(q) PROVE MembersIInv'
<1>1. /\ Members!TypeOK /\ Fresh /\ act[q] \in Members!Request /\ act[q].copy \in Members!Account
      /\ act[q].means \in SUBSET Members!Columns /\ act[q].pc = "act"
  BY RequestFields DEF MembersIInv, Acts, Members!PatchProfile, Members!ChangePassword, Members!Stream,
     Members!PatchRoles, Members!ChooseQuality, Members!PatchQuality, Members!Act, Members!At
<1>2. act[q].means = {} /\ \A c \in Members!Columns : c \in act[q].stale \/ act[q].copy[c] = account[c]
  BY <1>1 DEF Fresh, Members!At, Aimed, FreshCopy
<1>3. ASSUME NEW r \in Members!Request, NEW kind, Members!Act(q, kind, r), r.pc # "idle" => FreshCopy(r, account) /\ Aimed(r)
      PROVE  MembersIInv'
  <2>1. Members!Go(q, r) /\ UNCHANGED <<account, paid, ended, intact, begun>>
    BY <1>3 DEF Members!Act
  <2>2. act' \in [Senders -> Members!Request] /\ Fresh'
    BY <1>1, <1>3, <2>1, GoKept
  <2> QED
    BY <2>1, <2>2 DEF MembersIInv, Members!TypeOK, Members!PaidPremium
<1>4. CASE Members!PatchProfile(q) \/ Members!ChangePassword(q)
  <2> DEFINE r == [act[q] EXCEPT !.pc = "save"]
  <2>1. r \in Members!Request /\ FreshCopy(r, account) /\ Aimed(r)
    BY <1>1, <1>2 DEF Members!Request, FreshCopy, Aimed
  <2>2. Members!Act(q, "profile", r) \/ Members!Act(q, "password", r)
    BY <1>4 DEF Members!PatchProfile, Members!ChangePassword
  <2> HIDE DEF r
  <2> QED
    BY <1>3, <2>1, <2>2
<1>5. CASE Members!Stream(q)
  BY <1>3, <1>5, IdleTyped DEF Members!Stream
<1>6. ASSUME NEW roles \in SUBSET Members!Roles, Members!PatchRoles(q, roles) PROVE MembersIInv'
  <2> DEFINE r == [act[q] EXCEPT !.pc = "save", !.copy.roles = roles, !.means = {"roles"}]
  <2>1. /\ r \in Members!Request /\ r.means = {"roles"} /\ r.stale = act[q].stale /\ r.pc = "save"
        /\ \A c \in Members!Columns \ {"roles"} : r.copy[c] = act[q].copy[c]
    BY <1>1 DEF Members!Request, Members!Account, Members!Columns
  <2>2. FreshCopy(r, account) /\ Aimed(r)
    <3> HIDE DEF r
    <3> QED
      BY <1>2, <2>1 DEF FreshCopy, Aimed
  <2>3. Members!Act(q, "profile", r)
    BY <1>6 DEF Members!PatchRoles
  <2> HIDE DEF r
  <2> QED
    BY <1>3, <2>1, <2>2, <2>3
<1>7. ASSUME NEW quality \in {"medium", "high"}, NEW kind, Members!Act(q, kind, Members!Choice(q, quality)) PROVE MembersIInv'
  <2> DEFINE r == [act[q] EXCEPT !.pc = "save", !.copy.quality = quality, !.means = {"quality"}]
  <2>1. /\ r \in Members!Request /\ r.means = {"quality"} /\ r.stale = act[q].stale /\ r.pc = "save"
        /\ \A c \in Members!Columns \ {"quality"} : r.copy[c] = act[q].copy[c]
    BY <1>1 DEF Members!Request, Members!Account, Members!Columns
  <2>2. Members!Choice(q, quality) \in {Members!Idle, r}
    BY DEF Members!Choice
  <2> HIDE DEF r
  <2>3. FreshCopy(r, account) /\ Aimed(r)
    BY <1>2, <2>1 DEF FreshCopy, Aimed
  <2> QED
    BY <1>3, <1>7, <2>1, <2>2, <2>3, IdleTyped
<1> QED
  BY <1>4, <1>5, <1>6, <1>7 DEF Acts, Members!ChooseQuality, Members!PatchQuality

-----------------------------------------------------------------------------
LEMMA SaveKept == ASSUME MaxPeriods \in Nat, MembersIInv, NEW q \in Senders, Members!Save(q) PROVE MembersIInv'
<1> DEFINE columns == act[q].means \cup {c \in Members!Columns : account'[c] # account[c]}
<1> DEFINE r == IF Members!Kind(q) \in Members!Answering THEN [act[q] EXCEPT !.pc = "answer"] ELSE Members!Idle
<1>1. /\ Members!TypeOK /\ Fresh /\ Members!PaidPremium /\ act[q] \in Members!Request /\ Members!Copy(q) = act[q].copy /\ Members!Copy(q) \in Members!Account
      /\ act[q].means \in SUBSET Members!Columns /\ account \in Members!Account /\ act[q].pc = "save" /\ Members!Kind(q) = act[q].kind
  BY RequestFields DEF MembersIInv, Members!TypeOK, Members!Copy, Members!Kind, Members!Save, Members!At
<1>2. FreshCopy(act[q], account) /\ Aimed(act[q])
  BY <1>1 DEF Fresh, Members!At
<1>3. /\ account' = Members!With(account, Members!Saved(q), Members!Copy(q))
      /\ intact' = (intact /\ Members!Saved(q) \cap act[q].stale \cap Members!Subscription = {}
                     /\ (Members!Kind(q) = "admin" => "plan" \notin act[q].means))
      /\ Members!GoStale(q, r, columns) /\ UNCHANGED <<paid, ended, begun>>
  BY DEF Members!Save
<1>4. account' \in Members!Account /\ \A c \in Members!Columns : account'[c] = IF c \in Members!Saved(q) THEN Members!Copy(q)[c] ELSE account[c]
  BY <1>1, <1>3, WithRow
<1>5. r \in Members!Request /\ (r.pc # "idle" => FreshCopy(r, account') /\ Aimed(r))
  <2>1. CASE Members!Kind(q) \in Members!Answering
    <3>1. r \in Members!Request /\ r.copy = Members!Copy(q) /\ r.means = act[q].means /\ r.stale = act[q].stale /\ r.pc = "answer"
      BY <1>1, <2>1 DEF Members!Request
    <3>2. "plan" \notin act[q].means
      BY <1>1, <1>2, <2>1 DEF Aimed, Members!Answering
    <3> HIDE DEF r
    <3>3. FreshCopy(r, account')
      BY <1>1, <1>2, <1>4, <3>1 DEF FreshCopy
    <3> QED
      BY <1>2, <3>1, <3>2, <3>3 DEF Aimed
  <2>2. CASE Members!Kind(q) \notin Members!Answering
    BY <2>2, IdleTyped
  <2> QED
    BY <2>1, <2>2
<1> HIDE DEF r
<1>6. columns \in SUBSET Members!Columns /\ \A c \in Members!Columns \ columns : account'[c] = account[c]
  BY <1>1
<1> HIDE DEF columns
<1>7. act' \in [Senders -> Members!Request] /\ Fresh'
  BY <1>1, <1>3, <1>4, <1>5, <1>6, GoStaleKept
<1>8. Members!PaidPremium'
  <2> SUFFICES ASSUME intact, Members!Saved(q) \cap act[q].stale \cap Members!Subscription = {},
                      Members!Kind(q) = "admin" => "plan" \notin act[q].means, paid > ended
               PROVE  account'.plan = "premium" /\ account'.settings.period = paid
    BY <1>3 DEF Members!PaidPremium
  <2>1. account.plan = "premium" /\ account.settings.period = paid
    BY <1>1 DEF Members!PaidPremium
  <2>2. Members!Subscription \cap act[q].means = {}
    BY <1>1, <1>2 DEF Aimed, Members!Subscription
  <2>3. \A c \in Members!Subscription : account'[c] = account[c]
    BY <1>1, <1>2, <1>4, <2>2, Names DEF FreshCopy
  <2>4. account'.plan = account.plan /\ account'.settings = account.settings
    BY <2>3 DEF Members!Subscription
  <2> QED
    BY <2>1, <2>4
<1>9. intact' \in BOOLEAN
  BY <1>1, <1>3, Zenon DEF Members!TypeOK
<1> QED
  BY <1>1, <1>3, <1>4, <1>7, <1>8, <1>9 DEF MembersIInv, Members!TypeOK

LEMMA ActivateKept == ASSUME MaxPeriods \in Nat, MembersIInv, NEW q \in Senders, Members!Activate(q) PROVE MembersIInv'
<1>1. Members!TypeOK /\ Fresh /\ account \in Members!Account /\ paid \in 0..MaxPeriods /\ paid < MaxPeriods /\ ended \in 0..paid
  BY DEF MembersIInv, Members!TypeOK, Members!Activate
<1>2. [period |-> paid + 1, stacked |-> FALSE] \in Members!Settings
  BY <1>1 DEF Members!Settings
<1>3. /\ account' = Members!PaidFor /\ account' \in Members!Account /\ account'.plan = "premium" /\ account'.settings.period = paid + 1
      /\ \A c \in Members!Columns \ Members!Subscription : account'[c] = account[c]
  BY <1>1, <1>2 DEF Members!Activate, Members!PaidFor, Members!Account, Members!Columns, Members!Subscription
<1>4. Members!GoStale(q, Members!Idle, Members!Subscription) /\ paid' = paid + 1 /\ intact' = TRUE /\ UNCHANGED <<ended, begun>>
  BY DEF Members!Activate
<1>5. act' \in [Senders -> Members!Request] /\ Fresh'
  BY <1>1, <1>3, <1>4, IdleTyped, Names, GoStaleKept
<1>6. Members!PaidPremium' /\ paid' \in 0..MaxPeriods /\ ended' \in 0..paid'
  BY <1>1, <1>3, <1>4 DEF Members!PaidPremium
<1> QED
  BY <1>1, <1>3, <1>4, <1>5, <1>6 DEF MembersIInv, Members!TypeOK

LEMMA ProvisionKept == ASSUME MaxPeriods \in Nat, MembersIInv, Members!Provision PROVE MembersIInv'
<1>1. Members!TypeOK /\ Fresh /\ account \in Members!Account
  BY DEF MembersIInv, Members!TypeOK
<1>2. account.roles \cup {"artist"} \in SUBSET Members!Roles
  BY <1>1 DEF Members!Account, Members!Roles
<1>3. /\ account' \in Members!Account /\ \A c \in Members!Columns \ {"roles"} : account'[c] = account[c]
      /\ account'.plan = account.plan /\ account'.settings = account.settings
  BY <1>1, <1>2 DEF Members!Provision, Members!Account, Members!Columns
<1>4. \A o \in Senders :
        act'[o] = IF Members!At(o, "idle") THEN Members!Idle ELSE [act[o] EXCEPT !.stale = @ \cup {"roles"}]
  BY DEF Members!Provision
<1>5. ASSUME NEW o \in Senders, ~Members!At(o, "idle")
      PROVE  /\ act'[o] \in Members!Request
             /\ act'[o].pc = act[o].pc /\ act'[o].kind = act[o].kind
             /\ act'[o].copy = act[o].copy /\ act'[o].means = act[o].means
             /\ act'[o].stale = act[o].stale \cup {"roles"}
  <2>1. act'[o] = [act[o] EXCEPT !.stale = @ \cup {"roles"}]
    BY <1>4, <1>5
  <2>2. act[o] \in Members!Request /\ act[o].stale \cup {"roles"} \in SUBSET Members!Columns
    BY <1>1, RequestFields DEF Members!Columns
  <2> QED
    BY <2>1, <2>2 DEF Members!Request
<1>6. act' \in [Senders -> Members!Request]
  <2>1. \A o \in Senders : act'[o] \in Members!Request
    BY <1>4, <1>5, IdleTyped
  <2> QED
    BY <2>1 DEF Members!Provision
<1>7. ASSUME NEW o \in Senders, ~Members!At(o, "idle") PROVE FreshCopy(act'[o], account') /\ Aimed(act'[o])
  <2>1. FreshCopy(act[o], account) /\ Aimed(act[o])
    BY <1>1, <1>7 DEF Fresh
  <2> QED
    BY <1>3, <1>5, <1>7, <2>1 DEF FreshCopy, Aimed
<1>8. Fresh'
  BY <1>4, <1>7, IdleTyped DEF Fresh, Members!At
<1> QED
  BY <1>1, <1>3, <1>6, <1>8 DEF MembersIInv, Members!TypeOK, Members!PaidPremium, Members!Provision

LEMMA RestKept == ASSUME MembersIInv, Members!End \/ UNCHANGED Members!vars PROVE MembersIInv'
BY DEF MembersIInv, Members!TypeOK, Fresh, FreshCopy, Aimed, Members!PaidPremium, Members!At, Members!End,
   Members!vars

LEMMA MembersStepKept == ASSUME MaxPeriods \in Nat, MaxBegun \in Nat PROVE MembersIInv /\ [Members!Next]_Members!vars => MembersIInv'
<1> SUFFICES ASSUME MembersIInv, [Members!Next]_Members!vars PROVE MembersIInv'
  OBVIOUS
<1>1. ASSUME NEW q \in Senders, Reads(q) \/ Acts(q) \/ Members!Normalize(q) \/ Members!Answer(q) \/ Members!Save(q) \/ Members!Activate(q) PROVE MembersIInv'
  BY <1>1, ReadsKept, ActsKept, NormalizeKept, SaveKept, ActivateKept
<1> QED
  BY <1>1, ProvisionKept, RestKept DEF Members!Next, Reads, Acts

-----------------------------------------------------------------------------
(* A step of another request, or of one that does not save, keeps the one     *)
(* about to save so.                                                         *)
LEMMA GoStays ==
    ASSUME Members!TypeOK, NEW q \in Senders, act[q].pc = "save", NEW o \in Senders, o # q, NEW r,
           Members!Go(o, r) \/ \E columns : Members!GoStale(o, r, columns)
    PROVE  act'[q].pc = "save"
<1>1. CASE Members!Go(o, r)
  BY <1>1 DEF Members!Go, Members!TypeOK
<1>2. ASSUME NEW columns, Members!GoStale(o, r, columns) PROVE act'[q].pc = "save"
  <2>1. act'[q] = [act[q] EXCEPT !.stale = @ \cup columns]
    BY <1>2 DEF Members!GoStale, Members!At
  <2> QED
    BY <2>1, RequestFields DEF Members!Request
<1> QED
  BY <1>1, <1>2

LEMMA OnlySaves ==
    ASSUME Members!TypeOK, NEW q \in Senders, act[q].pc = "save", act'[q].pc # "save", [Members!Next]_Members!vars
    PROVE  Members!Save(q)
<1>1. ASSUME NEW o \in Senders, Reads(o) PROVE FALSE
  <2>1. act[o].pc = "idle" /\ \E r : Members!Go(o, r)
    BY <1>1 DEF Reads, Members!Authenticate, Members!Login, Members!Register, Members!Reset, Members!Verify,
       Members!Ban, Members!Administer, Members!Read, Members!At
  <2> QED
    BY <2>1, GoStays
<1>2. ASSUME NEW o \in Senders, Acts(o) PROVE FALSE
  <2>1. act[o].pc = "act" /\ \E r : Members!Go(o, r)
    BY <1>2 DEF Acts, Members!PatchProfile, Members!ChangePassword, Members!Stream, Members!PatchRoles,
       Members!ChooseQuality, Members!PatchQuality, Members!Act, Members!At
  <2> QED
    BY <2>1, GoStays
<1>3. ASSUME NEW o \in Senders, Members!Normalize(o) \/ Members!Answer(o) \/ Members!Activate(o) PROVE FALSE
  <2>1. act[o].pc # "save" /\ \E r : Members!Go(o, r) \/ \E columns : Members!GoStale(o, r, columns)
    <3>1. ASSUME NEW r, Members!Normalized(o, r) PROVE \E s : Members!Go(o, s) \/ \E columns : Members!GoStale(o, s, columns)
      BY <3>1 DEF Members!Normalized
    <3> QED
      BY <1>3, <3>1 DEF Members!Normalize, Members!Answer, Members!Activate, Members!At
  <2> QED
    BY <2>1, GoStays
<1>4. ASSUME Members!Provision PROVE FALSE
  <2>1. act'[q] = [act[q] EXCEPT !.stale = @ \cup {"roles"}]
    BY <1>4 DEF Members!Provision, Members!At
  <2> QED
    BY <2>1, RequestFields DEF Members!Request
<1>5. ~(Members!End \/ UNCHANGED Members!vars)
  BY DEF Members!End, Members!vars
<1>6. PICK o \in Senders : Members!Save(o)
  BY <1>1, <1>2, <1>3, <1>4, <1>5 DEF Members!Next, Reads, Acts
<1>7. o = q
  <2>1. \E r, columns : Members!GoStale(o, r, columns)
    BY <1>6 DEF Members!Save
  <2> QED
    BY <2>1, GoStays
<1> QED
  BY <1>6, <1>7

LEMMA SaveMeant ==
    ASSUME MembersIInv, [Members!Next]_Members!vars
    PROVE  Members!Meant
<1> SUFFICES ASSUME NEW q \in Senders, NEW c \in {"quality", "roles", "banned"},
                    Members!At(q, "save"), ~Members!At(q, "save")', account'[c] # account[c]
             PROVE  c \in act[q].means \/ (Members!Kind(q) \in Members!Whole /\ c \in act[q].stale)
  BY DEF Members!Meant
<1>1. Members!Save(q) /\ Members!TypeOK /\ account \in Members!Account /\ Members!Copy(q) = act[q].copy /\ Members!Copy(q) \in Members!Account /\ c \in Members!Columns
  BY OnlySaves, RequestFields DEF MembersIInv, Members!At, Members!Copy, Members!TypeOK, Members!Columns
<1>2. account' = Members!With(account, Members!Saved(q), Members!Copy(q))
  BY <1>1 DEF Members!Save
<1>3. c \in Members!Saved(q) /\ account'[c] = Members!Copy(q)[c]
  BY <1>1, <1>2, WithRow
<1>4. c \in act[q].stale \/ c \in act[q].means
  BY <1>1, <1>3 DEF MembersIInv, Fresh, FreshCopy, Members!At
<1> QED
  BY <1>3, <1>4 DEF Members!Saved

(* Every variable keeps its type. *)
THEOREM MembersTypeCorrect == ASSUME MaxPeriods \in Nat \ {0}, MaxBegun \in Nat PROVE Members!Spec => []Members!TypeOK
<1>1. MembersIInv => Members!TypeOK
  BY DEF MembersIInv
<1>2. MembersIInv /\ [Members!Next]_Members!vars => MembersIInv'
  BY MembersStepKept
<1> QED
  BY <1>1, <1>2, MembersFirst, PTL DEF Members!Spec

(* Who paid is premium until the thirty days are over (subscriptions.py:94),  *)
(* but for an administrator's choice or the save of a copy read before.       *)
THEOREM PaidStayPremium == ASSUME MaxPeriods \in Nat \ {0}, MaxBegun \in Nat PROVE Members!Spec => []Members!PaidPremium
<1>1. MembersIInv => Members!PaidPremium
  BY DEF MembersIInv
<1>2. MembersIInv /\ [Members!Next]_Members!vars => MembersIInv'
  BY MembersStepKept
<1> QED
  BY <1>1, <1>2, MembersFirst, PTL DEF Members!Spec

(* A handler changes the columns it is about, or sets one back by saving the  *)
(* whole row from a copy read before that column changed.                     *)
THEOREM HandlersMeant == ASSUME MaxPeriods \in Nat \ {0}, MaxBegun \in Nat PROVE Members!Spec => [][Members!Meant]_Members!vars
<1>1. MembersIInv /\ [Members!Next]_Members!vars => MembersIInv' /\ [Members!Meant]_Members!vars
  BY MembersStepKept, SaveMeant
<1> QED
  BY <1>1, MembersFirst, PTL DEF Members!Spec

-----------------------------------------------------------------------------
(* Albums and their songs.                                                   *)

LEMMA IdleIsRequest == Discs!Idle \in Discs!Request
BY DEF Discs!Idle, Discs!Request, Discs!Steps

LEMMA NoRowIsRow == Discs!NoRow \in Discs!Row
BY DEF Discs!NoRow, Discs!Row

(* The rows that operators make are rows.                                     *)
LEMMA MovedRows ==
    ASSUME song \in [Verifiers -> Discs!Row], NEW S, NEW a \in Collections \cup {NoAlbum}
    PROVE  /\ Discs!Moved(S, a) \in [Verifiers -> Discs!Row]
           /\ \A s \in Verifiers : Discs!Moved(S, a)[s].album = IF s \in S THEN a ELSE song[s].album
BY DEF Discs!Moved, Discs!Row

LEMMA DeletedRow ==
    ASSUME song \in [Verifiers -> Discs!Row], NEW s \in Verifiers, NEW kept
    PROVE  /\ Discs!Deleted(s, kept) \in Discs!Row
           /\ Discs!Deleted(s, kept).album \in {song[s].album, NoAlbum}
BY NoRowIsRow DEF Discs!Deleted, Discs!Row, Discs!NoRow

LEMMA RemainsFew == \A a, rows : Discs!Remains(a, rows) \subseteq exists
BY DEF Discs!Remains

LEMMA EmptiedFew == \A rows, albums : Discs!Emptied(rows, albums) \subseteq albums
BY DEF Discs!Emptied

(* A request that goes on stays one.                                          *)
LEMMA GoTyped ==
    ASSUME move \in [Senders -> Discs!Request], NEW q \in Senders, NEW r \in Discs!Request, Discs!Go(q, r)
    PROVE  move' \in [Senders -> Discs!Request]
BY DEF Discs!Go

LEMMA NextStep ==
    ASSUME NEW r \in Discs!Request, NEW pc \in Discs!Steps
    PROVE  /\ [r EXCEPT !.pc = pc] \in Discs!Request
           /\ [r EXCEPT !.pc = pc, !.songs = {}] \in Discs!Request
BY DEF Discs!Request

LEMMA BeginTyped ==
    ASSUME Discs!TypeOK, NEW q \in Senders, NEW pc \in Discs!Steps, NEW a \in Collections \cup {NoAlbum},
           NEW S \in SUBSET Verifiers, NEW replaces \in BOOLEAN, Discs!Begin(q, pc, a, S, replaces)
    PROVE  Discs!TypeOK'
<1>1. [pc |-> pc, album |-> a, songs |-> S, replaces |-> replaces, seen |-> "none"] \in Discs!Request
  BY DEF Discs!Request
<1> QED
  BY <1>1, GoTyped DEF Discs!TypeOK, Discs!Begin

LEMMA DiscsRequestFields ==
    ASSUME Discs!TypeOK, NEW q \in Senders
    PROVE  /\ move[q] \in Discs!Request
           /\ move[q].album \in Collections \cup {NoAlbum}
           /\ move[q].songs \in SUBSET Verifiers
           /\ move[q].seen \in {"none", "active", "deleted"}
BY DEF Discs!TypeOK, Discs!Request

LEMMA DiscsRowFields ==
    ASSUME Discs!TypeOK, NEW s \in Verifiers
    PROVE  /\ song[s] \in Discs!Row
           /\ song[s].album \in Collections \cup {NoAlbum}
           /\ song[s].status \in {"none", "active", "deleted"}
BY DEF Discs!TypeOK, Discs!Row
-----------------------------------------------------------------------------
(* What is inductive: the types, and that requests about an album have one.   *)
Aiming == {"create", "assign", "songs", "update", "add"}
DiscsAimed == \A q \in Senders : move[q].pc \in Aiming => move[q].album \in Collections
Typed == Discs!TypeOK /\ DiscsAimed

LEMMA GoAimed ==
    ASSUME Typed, NEW q \in Senders, NEW r \in Discs!Request, Discs!Go(q, r),
           r.pc \in Aiming => r.album \in Collections
    PROVE  /\ move' \in [Senders -> Discs!Request]
           /\ DiscsAimed'
<1>1. move' \in [Senders -> Discs!Request]
  BY GoTyped DEF Typed, Discs!TypeOK
<1>2. \A o \in Senders : move'[o] = IF o = q THEN r ELSE move[o]
  BY DEF Discs!Go, Typed, Discs!TypeOK
<1> QED
  BY <1>1, <1>2 DEF DiscsAimed, Typed

LEMMA RestAimed == ASSUME Typed, NEW q \in Senders, Discs!Go(q, Discs!Idle) PROVE move' \in [Senders -> Discs!Request] /\ DiscsAimed'
BY IdleIsRequest, GoAimed DEF Discs!Idle, Aiming

LEMMA BeginAimed ==
    ASSUME Typed, NEW q \in Senders, NEW pc \in Discs!Steps, NEW a \in Collections \cup {NoAlbum},
           NEW S \in SUBSET Verifiers, NEW replaces \in BOOLEAN, Discs!Begin(q, pc, a, S, replaces),
           pc \in Aiming => a \in Collections
    PROVE  Typed'
<1>1. Discs!TypeOK'
  BY BeginTyped DEF Typed
<1>2. [pc |-> pc, album |-> a, songs |-> S, replaces |-> replaces, seen |-> "none"] \in Discs!Request
  BY DEF Discs!Request
<1>3. DiscsAimed'
  BY <1>2, GoAimed DEF Discs!Begin
<1> QED
  BY <1>1, <1>3 DEF Typed

(* Every step keeps the types, and the aim of each request. *)
THEOREM TypesKept == Typed /\ [Discs!Next]_Discs!vars => Typed'
<1> SUFFICES ASSUME Typed, [Discs!Next]_Discs!vars PROVE Typed'
  OBVIOUS
<1> Discs!TypeOK /\ DiscsAimed
  BY DEF Typed
<1>1. ASSUME NEW q \in Senders, Discs!SaveAlbum(q) PROVE Typed'
  <2>1. move[q].pc = "create" /\ move[q].album \in Collections
    BY <1>1 DEF Discs!SaveAlbum, Discs!At, DiscsAimed, Aiming
  <2>2. [move[q] EXCEPT !.pc = "assign"] \in Discs!Request
    BY DiscsRequestFields, NextStep DEF Discs!Steps
  <2>3. [move[q] EXCEPT !.pc = "assign"].album = move[q].album
    BY DiscsRequestFields DEF Discs!Request
  <2> QED
    BY <1>1, <2>1, <2>2, <2>3, GoAimed DEF Discs!SaveAlbum, Typed, Discs!TypeOK
<1>2. ASSUME NEW q \in Senders, Discs!Assign(q) PROVE Typed'
  <2>1. move[q].pc = "assign" /\ move[q].album \in Collections
    BY <1>2 DEF Discs!Assign, Discs!At, DiscsAimed, Aiming
  <2>2. [move[q] EXCEPT !.pc = "songs", !.songs = {}] \in Discs!Request
    BY DiscsRequestFields, NextStep DEF Discs!Steps
  <2>3. [move[q] EXCEPT !.pc = "songs", !.songs = {}].album = move[q].album
    BY DiscsRequestFields DEF Discs!Request
  <2>4. move' \in [Senders -> Discs!Request] /\ DiscsAimed'
    BY <1>2, <2>1, <2>2, <2>3, GoAimed, RestAimed DEF Discs!Assign
  <2>5. song' \in [Verifiers -> Discs!Row]
    BY <1>2, <2>1, MovedRows DEF Discs!Assign, Discs!TypeOK
  <2> QED
    BY <1>2, <2>1, <2>4, <2>5 DEF Discs!Assign, Typed, Discs!TypeOK
<1>3. ASSUME NEW q \in Senders, Discs!EndCreate(q) PROVE Typed'
  BY <1>3, RestAimed DEF Discs!EndCreate, Typed, Discs!TypeOK
<1>4. ASSUME NEW q \in Senders, Discs!Update(q) PROVE Typed'
  <2>1. move[q].pc = "update" /\ move[q].album \in Collections
    BY <1>4 DEF Discs!Update, Discs!At, DiscsAimed, Aiming
  <2>2. song' \in [Verifiers -> Discs!Row]
    BY <1>4, <2>1 DEF Discs!Update, Discs!TypeOK, Discs!Row
  <2>3. hollow' \subseteq Collections
    BY <1>4, <2>1, EmptiedFew DEF Discs!Update, Discs!TypeOK
  <2> QED
    BY <1>4, <2>1, <2>2, <2>3, RestAimed DEF Discs!Update, Typed, Discs!TypeOK
<1>5. ASSUME NEW q \in Senders, Discs!Add(q) PROVE Typed'
  <2>1. move[q].pc = "add" /\ move[q].album \in Collections
    BY <1>5 DEF Discs!Add, Discs!At, DiscsAimed, Aiming
  <2>2. song' \in [Verifiers -> Discs!Row]
    BY <1>5, <2>1, MovedRows DEF Discs!Add, Discs!TypeOK
  <2> QED
    BY <1>5, <2>1, <2>2, RestAimed DEF Discs!Add, Typed, Discs!TypeOK
<1>6. ASSUME NEW q \in Senders, NEW a \in Collections, NEW S \in SUBSET Verifiers,
             Discs!Create(q, a, S) \/ Discs!BeginAdd(q, a, S) PROVE Typed'
  BY <1>6, BeginAimed DEF Discs!Create, Discs!BeginAdd, Discs!Steps
<1>7. ASSUME NEW q \in Senders, NEW a \in Collections, NEW S \in SUBSET Verifiers, NEW replaces \in BOOLEAN,
             Discs!BeginUpdate(q, a, S, replaces) PROVE Typed'
  BY <1>7, BeginAimed DEF Discs!BeginUpdate, Discs!Steps
<1>8. ASSUME NEW q \in Senders, NEW a \in Collections, Discs!BeginAdminUpdate(q, a) PROVE Typed'
  BY <1>8, BeginAimed DEF Discs!BeginAdminUpdate, Discs!Steps
<1>9. ASSUME NEW q \in Senders, NEW s \in Verifiers, Discs!NewSong(q, s) PROVE Typed'
  <2>1. move[q].album \in Collections
    BY <1>9 DEF Discs!NewSong, Discs!TypeOK
  <2>2. song' \in [Verifiers -> Discs!Row]
    BY <1>9, <2>1 DEF Discs!NewSong, Discs!TypeOK, Discs!Row
  <2> QED
    BY <1>9, <2>1, <2>2 DEF Discs!NewSong, Typed, Discs!TypeOK, DiscsAimed
<1>10. ASSUME NEW q \in Senders, NEW s \in Verifiers, Discs!BeginAdminRemove(q, s) PROVE Typed'
  <2> DEFINE r == [Discs!Idle EXCEPT !.pc = "admin_remove", !.songs = {s}, !.seen = song[s].status]
  <2>1. r \in Discs!Request
    BY DiscsRowFields DEF Discs!Idle, Discs!Request, Discs!Steps
  <2>2. r.pc \notin Aiming
    BY DEF Discs!Idle, Aiming
  <2>3. Discs!Go(q, r) /\ moves' = moves + 1 /\ UNCHANGED <<exists, song, hollow>>
    BY <1>10 DEF Discs!BeginAdminRemove
  <2> HIDE DEF r
  <2>4. move' \in [Senders -> Discs!Request] /\ DiscsAimed'
    BY <2>1, <2>2, <2>3, GoAimed
  <2> QED
    BY <2>3, <2>4 DEF Typed, Discs!TypeOK
<1>11. ASSUME NEW q \in Senders, NEW s \in Verifiers, Discs!AdminRemove(q, s) PROVE Typed'
  <2>1. song' \in [Verifiers -> Discs!Row]
    BY <1>11, DiscsRequestFields DEF Discs!AdminRemove, Discs!TypeOK, Discs!Row
  <2>2. hollow' \subseteq Collections
    BY <1>11, EmptiedFew DEF Discs!AdminRemove, Discs!TypeOK
  <2> QED
    BY <1>11, <2>1, <2>2, RestAimed DEF Discs!AdminRemove, Typed, Discs!TypeOK
<1>12. ASSUME NEW q \in Senders, NEW s \in Verifiers, Discs!BeginDeleteSong(q, s) PROVE Typed'
  BY <1>12, BeginAimed, DiscsRowFields DEF Discs!BeginDeleteSong, Discs!Steps, Aiming
<1>13. ASSUME NEW q \in Senders, NEW s \in Verifiers, NEW kept \in BOOLEAN, Discs!DeleteSong(q, s, kept) PROVE Typed'
  <2>1. song' \in [Verifiers -> Discs!Row]
    BY <1>13, DeletedRow DEF Discs!DeleteSong, Discs!TypeOK
  <2>2. exists' \subseteq Collections
    BY <1>13, RemainsFew DEF Discs!DeleteSong, Discs!TypeOK
  <2>3. hollow' \subseteq Collections
    BY <1>13, <2>2 DEF Discs!DeleteSong, Discs!TypeOK
  <2> QED
    BY <1>13, <2>1, <2>2, <2>3, RestAimed DEF Discs!DeleteSong, Typed, Discs!TypeOK
<1>14. ASSUME NEW s \in Verifiers, NEW kept \in BOOLEAN, Discs!AdminDeleteSong(s, kept) PROVE Typed'
  <2>1. song' \in [Verifiers -> Discs!Row]
    BY <1>14, DeletedRow DEF Discs!AdminDeleteSong, Discs!TypeOK
  <2>2. hollow' \subseteq Collections
    BY <1>14, EmptiedFew DEF Discs!AdminDeleteSong, Discs!TypeOK
  <2>3. UNCHANGED <<exists, move>> /\ moves' = moves + 1
    BY <1>14 DEF Discs!AdminDeleteSong
  <2> QED
    BY <2>1, <2>2, <2>3 DEF Typed, Discs!TypeOK, DiscsAimed
<1>15. ASSUME NEW a \in Collections, Discs!AdminDeleteAlbum(a) PROVE Typed'
  BY <1>15, MovedRows DEF Discs!AdminDeleteAlbum, Typed, Discs!TypeOK, DiscsAimed
<1>16. ASSUME NEW a \in Collections, Discs!AdminTakeDown(a) PROVE Typed'
  <2>1. song' \in [Verifiers -> Discs!Row]
    BY <1>16 DEF Discs!AdminTakeDown, Discs!TypeOK, Discs!Row
  <2> QED
    BY <1>16, <2>1 DEF Discs!AdminTakeDown, Typed, Discs!TypeOK, DiscsAimed
<1>17. ASSUME NEW a \in Collections, NEW S \in SUBSET Verifiers, Discs!Remove(a, S) PROVE Typed'
  BY <1>17, MovedRows, RemainsFew DEF Discs!Remove, Typed, Discs!TypeOK, DiscsAimed
<1>18. ASSUME NEW a \in Collections, NEW S \in SUBSET Verifiers, Discs!DeleteAlbum(a, S) PROVE Typed'
  <2>1. song' \in [Verifiers -> Discs!Row]
    BY <1>18, DeletedRow DEF Discs!DeleteAlbum, Discs!TypeOK
  <2> QED
    BY <1>18, <2>1, RemainsFew DEF Discs!DeleteAlbum, Typed, Discs!TypeOK, DiscsAimed
<1>19. CASE UNCHANGED Discs!vars
  BY <1>19 DEF Discs!vars, Typed, Discs!TypeOK, DiscsAimed
<1> QED
  BY <1>1, <1>2, <1>3, <1>4, <1>5, <1>6, <1>7, <1>8, <1>9, <1>10, <1>11, <1>12, <1>13, <1>14, <1>15, <1>16,
     <1>17, <1>18, <1>19 DEF Discs!Next

LEMMA TypedFirst == Discs!Init => Typed
<1> SUFFICES ASSUME Discs!Init PROVE Typed
  OBVIOUS
<1>1. song \in [Verifiers -> Discs!Row]
  BY DEF Discs!Init, Discs!Row
<1>2. move \in [Senders -> Discs!Request] /\ DiscsAimed
  BY IdleIsRequest DEF Discs!Init, DiscsAimed, Aiming, Discs!Idle
<1> QED
  BY <1>1, <1>2 DEF Discs!Init, Typed, Discs!TypeOK

(* Every variable keeps its type. *)
THEOREM AlbumTypes == Discs!Spec => []Discs!TypeOK
<1>1. Typed => Discs!TypeOK
  BY DEF Typed
<1> QED
  BY <1>1, TypedFirst, TypesKept, PTL DEF Discs!Spec
-----------------------------------------------------------------------------
(* A song that is on an album is not put on another by a request that saw it  *)
(* on none (views.py:9053 existing_song_ids).                                 *)
LEMMA StepTakesNone == Typed /\ [Discs!Next]_Discs!vars => Discs!NotTaken
<1> SUFFICES ASSUME Typed, [Discs!Next]_Discs!vars, NEW s \in Verifiers, song[s].album # NoAlbum, song'[s].album # NoAlbum
             PROVE  song[s].album = song'[s].album
  BY DEF Discs!NotTaken
<1> song \in [Verifiers -> Discs!Row] /\ Discs!TypeOK /\ song[s] \in Discs!Row
  BY DEF Typed, Discs!TypeOK
<1>1. ASSUME NEW q \in Senders, Discs!Assign(q) \/ Discs!Add(q) PROVE song[s].album = song'[s].album
  <2> DEFINE a == move[q].album
  <2>1. song' = song \/ \E S \in SUBSET Discs!Takes(move[q].songs, a) : song' = Discs!Moved(S, a)
    BY <1>1 DEF Discs!Assign, Discs!Add
  <2>2. a \in Collections \cup {NoAlbum}
    BY DiscsRequestFields
  <2> HIDE DEF a
  <2>3. ASSUME NEW S \in SUBSET Discs!Takes(move[q].songs, a), song' = Discs!Moved(S, a) PROVE song[s].album = song'[s].album
    <3>1. song'[s].album = IF s \in S THEN a ELSE song[s].album
      BY <2>2, <2>3, MovedRows
    <3>2. s \in S => song[s].album \in {NoAlbum, a}
      BY DEF Discs!Takes
    <3> QED
      BY <3>1, <3>2
  <2> QED
    BY <2>1, <2>3
<1>2. ASSUME NEW q \in Senders, Discs!Update(q) PROVE song[s].album = song'[s].album
  <2>1. song'[s].album \in {song[s].album, NoAlbum}
        \/ (s \in Discs!Takes(move[q].songs, move[q].album) /\ song'[s].album = move[q].album)
    BY <1>2, DiscsRequestFields DEF Discs!Update, Discs!Row
  <2>2. s \in Discs!Takes(move[q].songs, move[q].album) => song[s].album \in {NoAlbum, move[q].album}
    BY DEF Discs!Takes
  <2> QED
    BY <2>1, <2>2
<1>3. ASSUME NEW q \in Senders, NEW o \in Verifiers, Discs!NewSong(q, o) \/ Discs!AdminRemove(q, o)
      PROVE  song[s].album = song'[s].album
  BY <1>3 DEF Discs!NewSong, Discs!AdminRemove, Discs!NoRow
<1>4. ASSUME NEW o \in Verifiers, NEW kept \in BOOLEAN, song' = song \/ song' = [song EXCEPT ![o] = Discs!Deleted(o, kept)]
      PROVE  song[s].album = song'[s].album
  <2>1. Discs!Deleted(o, kept).album \in {song[o].album, NoAlbum}
    BY DeletedRow
  <2> QED
    BY <1>4, <2>1
<1>5. ASSUME NEW q \in Senders, NEW o \in Verifiers, NEW kept \in BOOLEAN, Discs!DeleteSong(q, o, kept)
       PROVE  song[s].album = song'[s].album
  <2>1. song' = song \/ song' = [song EXCEPT ![o] = Discs!Deleted(o, kept)]
    BY <1>5 DEF Discs!DeleteSong
  <2> QED
    BY <2>1, <1>4
<1>6. ASSUME NEW o \in Verifiers, NEW kept \in BOOLEAN, Discs!AdminDeleteSong(o, kept) PROVE song[s].album = song'[s].album
  <2>1. song' = [song EXCEPT ![o] = Discs!Deleted(o, kept)]
    BY <1>6 DEF Discs!AdminDeleteSong
  <2> QED
    BY <2>1, <1>4
<1>7. ASSUME NEW a \in Collections, Discs!AdminDeleteAlbum(a) PROVE song[s].album = song'[s].album
  BY <1>7, MovedRows DEF Discs!AdminDeleteAlbum
<1>8. ASSUME NEW a \in Collections, Discs!AdminTakeDown(a) PROVE song[s].album = song'[s].album
  BY <1>8 DEF Discs!AdminTakeDown, Discs!Row
<1>9. ASSUME NEW a \in Collections, NEW S \in SUBSET Verifiers, Discs!Remove(a, S) PROVE song[s].album = song'[s].album
  BY <1>9, MovedRows DEF Discs!Remove
<1>10. ASSUME NEW a \in Collections, NEW S \in SUBSET Verifiers, Discs!DeleteAlbum(a, S) PROVE song[s].album = song'[s].album
  BY <1>10, DeletedRow DEF Discs!DeleteAlbum
<1>11. ASSUME song' = song PROVE song[s].album = song'[s].album
  BY <1>11
<1>12. ASSUME NEW q \in Senders, Discs!SaveAlbum(q) \/ Discs!EndCreate(q) PROVE song' = song
  BY <1>12 DEF Discs!SaveAlbum, Discs!EndCreate
<1>13. ASSUME NEW q \in Senders, NEW a \in Collections, Discs!BeginAdminUpdate(q, a) PROVE song' = song
  BY <1>13 DEF Discs!BeginAdminUpdate, Discs!Begin
<1>14. ASSUME NEW q \in Senders, NEW a \in Collections, NEW S \in SUBSET Verifiers, Discs!Create(q, a, S) \/ Discs!BeginAdd(q, a, S)
       PROVE  song' = song
  BY <1>14 DEF Discs!Create, Discs!BeginAdd, Discs!Begin
<1>15. ASSUME NEW q \in Senders, NEW a \in Collections, NEW S \in SUBSET Verifiers, NEW replaces \in BOOLEAN,
              Discs!BeginUpdate(q, a, S, replaces)
       PROVE  song' = song
  BY <1>15 DEF Discs!BeginUpdate, Discs!Begin
<1>16. ASSUME NEW q \in Senders, NEW o \in Verifiers, Discs!BeginAdminRemove(q, o) \/ Discs!BeginDeleteSong(q, o) PROVE song' = song
  BY <1>16 DEF Discs!BeginAdminRemove, Discs!BeginDeleteSong, Discs!Begin
<1>17. CASE UNCHANGED Discs!vars
  BY <1>17 DEF Discs!vars
<1>18. CASE Discs!Next
  BY <1>18, <1>1, <1>2, <1>3, <1>7, <1>8, <1>9, <1>10, <1>11, <1>12, <1>13, <1>14, <1>15, <1>16,
     <1>5, <1>6 DEF Discs!Next
<1> QED
  BY <1>17, <1>18

(* No request, however late its UPDATE runs, takes a song from the album that *)
(* another request put it on: it leaves an album by a removal only.            *)
THEOREM SongsStay == Discs!Spec => Discs!AlbumsKept
<1> QED
  BY TypedFirst, TypesKept, StepTakesNone, PTL DEF Discs!Spec, Discs!AlbumsKept
-----------------------------------------------------------------------------
(* An album keeps the songs that stay on it.                                  *)
LEMMA StaysFull ==
    ASSUME Discs!EmptiedGone, NEW b \in exists, b \notin hollow,
           \A s \in Verifiers : song[s].album = b => song'[s].album = b
    PROVE  Discs!Of(b, song') # {}
BY DEF Discs!EmptiedGone, Discs!Of

LEMMA StillThere == \A a, b, rows : b \in Discs!Remains(a, rows) => b \in exists /\ (b = a => Discs!Of(a, rows) # {})
BY DEF Discs!Remains

LEMMA NotEmptied == \A b, rows, albums : b \in albums /\ b \notin Discs!Emptied(rows, albums) => Discs!Of(b, rows) # {}
BY DEF Discs!Emptied

(* An album that a step leaves standing, and does not call hollow, has a song. *)
LEMMA StepEmptiesNone == (NoAlbum \notin Collections) /\ Typed /\ Discs!EmptiedGone /\ [Discs!Next]_Discs!vars => Discs!EmptiedGone'
<1> SUFFICES ASSUME NoAlbum \notin Collections, Typed, Discs!EmptiedGone, [Discs!Next]_Discs!vars, NEW b \in exists', b \notin hollow'
             PROVE  Discs!Of(b, song') # {}
  BY DEF Discs!EmptiedGone, Discs!Of
<1> Typed' /\ Discs!TypeOK
  BY TypesKept DEF Typed
<1> b \in Collections /\ b # NoAlbum
  BY DEF Typed, Discs!TypeOK
<1> DEFINE Has == Discs!Of(b, song') # {}
<1> HIDE DEF Has
<1>1. ASSUME UNCHANGED <<exists, song, hollow>> PROVE Has
  BY <1>1, StaysFull DEF Has
<1>2. ASSUME NEW q \in Senders, Discs!SaveAlbum(q) PROVE Has
  BY <1>2, StaysFull DEF Discs!SaveAlbum, Has
<1>3. ASSUME NEW q \in Senders, Discs!Assign(q) PROVE Has
  <2> DEFINE a == move[q].album
             taken == Discs!Takes(move[q].songs, a)
  <2>1. CASE song' = song /\ hollow' = hollow /\ exists' = exists
    BY <2>1, <1>1
  <2>2. CASE taken # {} /\ song' = Discs!Moved(taken, a) /\ hollow' = hollow \ {a} /\ exists' = exists
    <3>1. a \in Collections \cup {NoAlbum}
      BY DiscsRequestFields
    <3>2. \A s \in Verifiers : song'[s].album = IF s \in taken THEN a ELSE song[s].album
      BY <2>2, <3>1, MovedRows DEF Discs!TypeOK
    <3>3. \A s \in taken : s \in Verifiers /\ song[s].album \in {NoAlbum, a}
      BY DiscsRequestFields DEF Discs!Takes
    <3>4. CASE b = a
      <4>1. PICK s \in taken : TRUE
        BY <2>2
      <4> QED
        BY <4>1, <3>2, <3>3, <3>4 DEF Discs!Of, Has
    <3>5. CASE b # a
      BY <2>2, <3>2, <3>3, <3>5, StaysFull DEF Has
    <3> QED
      BY <3>4, <3>5
  <2>3. CASE taken = {} /\ song' = Discs!Moved(taken, a) /\ hollow' = hollow /\ exists' = exists
    <3>1. \A s \in Verifiers : song'[s].album = song[s].album
      BY <2>3, DiscsRequestFields, MovedRows DEF Discs!TypeOK
    <3> QED
      BY <2>3, <3>1, StaysFull DEF Has
  <2> QED
    BY <1>3, <2>1, <2>2, <2>3 DEF Discs!Assign
<1>4. ASSUME NEW q \in Senders, NEW s \in Verifiers, Discs!NewSong(q, s) PROVE Has
  <2>1. song[s].album = NoAlbum /\ song'[s].album = move[q].album
    BY <1>4 DEF Discs!NewSong, Discs!NoRow, Discs!TypeOK
  <2>2. \A o \in Verifiers : o # s => song'[o] = song[o]
    BY <1>4 DEF Discs!NewSong, Discs!TypeOK
  <2>3. exists' = exists /\ hollow' = hollow \ {move[q].album}
    BY <1>4 DEF Discs!NewSong
  <2>4. CASE b = move[q].album
    BY <2>1, <2>4 DEF Discs!Of, Has
  <2>5. CASE b # move[q].album
    BY <2>1, <2>2, <2>3, <2>5, StaysFull DEF Has
  <2> QED
    BY <2>4, <2>5
<1>5. ASSUME NEW q \in Senders, Discs!Update(q) PROVE Has
  <2> DEFINE a == move[q].album
             full == Discs!Emptied(song', {a})
  <2>1. exists' = exists \cup {a} /\ hollow' = (hollow \ {a}) \cup full
    BY <1>5 DEF Discs!Update
  <2>2. CASE b = a
    BY <2>1, <2>2, NotEmptied DEF Has
  <2>3. CASE b # a
    <3>1. ASSUME NEW s \in Verifiers, song[s].album = b PROVE song'[s].album = b
      <4>1. s \notin Discs!Active(a, song) /\ s \notin Discs!Takes(move[q].songs, a)
        BY <3>1, <2>3 DEF Discs!Active, Discs!Of, Discs!Takes
      <4> QED
        BY <3>1, <4>1, <1>5 DEF Discs!Update
    <3> QED
      BY <2>1, <2>3, <3>1, StaysFull DEF Has
  <2> QED
    BY <2>2, <2>3
<1>6. ASSUME NEW q \in Senders, Discs!Add(q) PROVE Has
  <2> DEFINE a == move[q].album
             taken == {s \in Discs!Takes(move[q].songs, a) : song[s].status = "active"}
  <2>1. exists' = exists
    BY <1>6 DEF Discs!Add
  <2>2. CASE song' = song /\ hollow' = hollow
    BY <2>1, <2>2, <1>1
  <2>3. CASE song' = Discs!Moved(taken, a) /\ hollow' = IF taken = {} THEN hollow ELSE hollow \ {a}
    <3>1. a \in Collections \cup {NoAlbum}
      BY DiscsRequestFields
    <3>2. \A s \in Verifiers : song'[s].album = IF s \in taken THEN a ELSE song[s].album
      BY <2>3, <3>1, MovedRows DEF Discs!TypeOK
    <3>3. \A s \in taken : s \in Verifiers /\ song[s].album \in {NoAlbum, a}
      BY DiscsRequestFields DEF Discs!Takes
    <3>4. CASE b = a /\ taken # {}
      <4>1. PICK s \in taken : TRUE
        BY <3>4
      <4> QED
        BY <4>1, <3>2, <3>3, <3>4 DEF Discs!Of, Has
    <3>5. CASE b # a \/ taken = {}
      <4>1. b \notin hollow
        BY <2>3, <3>5
      <4>2. \A s \in Verifiers : song[s].album = b => song'[s].album = b
        BY <3>2, <3>3, <3>5
      <4> QED
        BY <2>1, <4>1, <4>2, StaysFull DEF Has
    <3> QED
      BY <3>4, <3>5
  <2> QED
    BY <1>6, <2>2, <2>3 DEF Discs!Add
<1>7. ASSUME NEW a \in Collections, NEW S \in SUBSET Verifiers, Discs!Remove(a, S) PROVE Has
  <2>1. /\ exists' = Discs!Remains(a, song') /\ hollow' = hollow \cap exists'
        /\ song' = Discs!Moved(S \cap Discs!Of(a, song), NoAlbum)
    BY <1>7 DEF Discs!Remove
  <2>2. b \in exists /\ b \notin hollow /\ (b = a => Discs!Of(a, song') # {})
    BY <2>1, StillThere
  <2>3. \A s \in Verifiers : song[s].album # a => song'[s].album = song[s].album
    BY <2>1, MovedRows DEF Discs!Of, Discs!TypeOK
  <2> QED
    BY <2>2, <2>3, StaysFull DEF Has
<1>8. ASSUME NEW a \in Collections, NEW S \in SUBSET Verifiers, Discs!DeleteAlbum(a, S) PROVE Has
  <2>1. exists' = Discs!Remains(a, song') /\ hollow' = hollow \cap exists'
    BY <1>8 DEF Discs!DeleteAlbum
  <2>2. b \in exists /\ b \notin hollow /\ (b = a => Discs!Of(a, song') # {})
    BY <2>1, StillThere
  <2>3. \A s \in Verifiers : song[s].album # a => song'[s] = song[s]
    BY <1>8 DEF Discs!DeleteAlbum, Discs!Of
  <2> QED
    BY <2>2, <2>3, StaysFull DEF Has
<1>9. ASSUME NEW q \in Senders, NEW s \in Verifiers, NEW kept \in BOOLEAN, Discs!DeleteSong(q, s, kept) PROVE Has
  <2> DEFINE a == move[q].album
  <2>1. CASE song[s].status = "none"
    BY <1>9, <2>1, <1>1 DEF Discs!DeleteSong
  <2>2. CASE song[s].status # "none"
    <3>1. song' = [song EXCEPT ![s] = Discs!Deleted(s, kept)]
      BY <1>9, <2>2 DEF Discs!DeleteSong
    <3>2. exists' = IF a \in exists THEN Discs!Remains(a, song') ELSE exists
      BY <1>9, <2>2, <3>1 DEF Discs!DeleteSong
    <3>3. hollow' = (hollow \cup (IF song[s].album = a THEN {} ELSE Discs!Emptied(song', {song[s].album}))) \cap exists'
      BY <1>9, <2>2, <3>1 DEF Discs!DeleteSong
    <3>4. b \in exists /\ b \notin hollow /\ (b = a => Discs!Of(a, song') # {})
      BY <3>2, <3>3, StillThere
    <3>5. \A o \in Verifiers : o # s => song'[o] = song[o]
      BY <3>1 DEF Discs!TypeOK
    <3>6. CASE b = a
      BY <3>4, <3>6 DEF Has
    <3>7. CASE b # a /\ song[s].album = b
      BY <3>3, <3>7, NotEmptied DEF Has
    <3>8. CASE song[s].album # b
      BY <3>4, <3>5, <3>8, StaysFull DEF Has
    <3> QED
      BY <3>6, <3>7, <3>8
  <2> QED
    BY <2>1, <2>2
<1>10. ASSUME NEW s \in Verifiers, exists' = exists, hollow' = hollow \cup Discs!Emptied(song', exists \cap {song[s].album}),
              \A o \in Verifiers : o # s => song'[o] = song[o]
       PROVE  Has
  <2>1. CASE song[s].album = b
    BY <1>10, <2>1, NotEmptied DEF Has
  <2>2. CASE song[s].album # b
    BY <1>10, <2>2, StaysFull DEF Has
  <2> QED
    BY <2>1, <2>2
<1>11. ASSUME NEW s \in Verifiers, NEW kept \in BOOLEAN, Discs!AdminDeleteSong(s, kept) PROVE Has
  BY <1>11, <1>10 DEF Discs!AdminDeleteSong, Discs!TypeOK
<1>12. ASSUME NEW q \in Senders, NEW s \in Verifiers, Discs!AdminRemove(q, s) PROVE Has
  BY <1>12, <1>10 DEF Discs!AdminRemove, Discs!TypeOK
<1>13. ASSUME NEW a \in Collections, Discs!AdminDeleteAlbum(a) PROVE Has
  <2>1. exists' = exists \ {a} /\ hollow' = hollow \ {a} /\ song' = Discs!Moved(Discs!Of(a, song), NoAlbum)
    BY <1>13 DEF Discs!AdminDeleteAlbum
  <2>2. \A s \in Verifiers : song[s].album # a => song'[s].album = song[s].album
    BY <2>1, MovedRows DEF Discs!Of, Discs!TypeOK
  <2> QED
    BY <2>1, <2>2, StaysFull DEF Has
<1>14. ASSUME NEW a \in Collections, Discs!AdminTakeDown(a) PROVE Has
  <2>1. \A s \in Verifiers : song'[s].album = song[s].album
    BY <1>14 DEF Discs!AdminTakeDown, Discs!TypeOK, Discs!Row
  <2> QED
    BY <1>14, <2>1, StaysFull DEF Discs!AdminTakeDown, Has
<1>15. ASSUME NEW q \in Senders, Discs!EndCreate(q) PROVE Has
  BY <1>15, <1>1 DEF Discs!EndCreate
<1>16. ASSUME NEW q \in Senders, NEW a \in Collections, Discs!BeginAdminUpdate(q, a) PROVE Has
  BY <1>16, <1>1 DEF Discs!BeginAdminUpdate, Discs!Begin
<1>17. ASSUME NEW q \in Senders, NEW a \in Collections, NEW S \in SUBSET Verifiers, Discs!Create(q, a, S) \/ Discs!BeginAdd(q, a, S)
       PROVE  Has
  BY <1>17, <1>1 DEF Discs!Create, Discs!BeginAdd, Discs!Begin
<1>18. ASSUME NEW q \in Senders, NEW a \in Collections, NEW S \in SUBSET Verifiers, NEW replaces \in BOOLEAN,
              Discs!BeginUpdate(q, a, S, replaces)
       PROVE  Has
  BY <1>18, <1>1 DEF Discs!BeginUpdate, Discs!Begin
<1>19. ASSUME NEW q \in Senders, NEW s \in Verifiers, Discs!BeginAdminRemove(q, s) \/ Discs!BeginDeleteSong(q, s) PROVE Has
  BY <1>19, <1>1 DEF Discs!BeginAdminRemove, Discs!BeginDeleteSong, Discs!Begin
<1>20. ASSUME UNCHANGED Discs!vars PROVE Has
  BY <1>20, <1>1 DEF Discs!vars
<1>21. ASSUME Discs!Next PROVE Has
  BY <1>21, <1>2, <1>3, <1>4, <1>5, <1>6, <1>7, <1>8, <1>9, <1>11, <1>12, <1>13, <1>14, <1>15, <1>16, <1>17,
     <1>18, <1>19
     DEF Discs!Next
<1>22. Has
  BY <1>20, <1>21
<1> QED
  BY <1>22 DEF Has

LEMMA FirstFull == Discs!Init => Discs!EmptiedGone
BY DEF Discs!Init, Discs!EmptiedGone, Discs!Of

(* With the value for "no album" not an album itself: an album whose last     *)
(* song is removed or deleted is gone.                                        *)
THEOREM EmptyAlbumsGo == ASSUME NoAlbum \notin Collections PROVE Discs!Spec => []Discs!EmptiedGone
BY TypedFirst, TypesKept, FirstFull, StepEmptiesNone, PTL DEF Discs!Spec

-----------------------------------------------------------------------------
(* Submissions, decisions and profiles.                                      *)

(* What a handler under way has read: a row with a number that was given, and  *)
(* the user or the profile it is about.                                       *)
Sane(q) ==
    /\ decide[q].pc \in {"create", "edit", "check", "decide", "provision"} => decide[q].user \in Users
    /\ decide[q].pc = "create" => decide[q].copy.status = "pending"
    /\ decide[q].pc \in {"edit", "check", "decide"} =>
         decide[q].copy.status \in Artists!Statuses /\ decide[q].copy.no \in 1..inserted[decide[q].user]
    /\ decide[q].pc = "profile" => decide[q].profile \in Verifiers

(* An edit that nothing overtook holds what was decided about its row.         *)
Told(q) ==
    /\ decide[q].pc = "edit" /\ ~decide[q].stale /\ decide[q].user \notin undone
    /\ submission[decide[q].user].status # "none" /\ submission[decide[q].user].no = decide[q].copy.no
    => decide[q].copy.status = decision[decide[q].user]

Numbered(u) ==
    /\ submission[u].no \in 0..inserted[u]
    /\ submission[u].status # "none" => submission[u].no # 0
    /\ submission[u].status = "none" /\ inserted[u] # 0 => u \in undone

Awaited(u) ==
    \E q \in Senders : /\ decide[q].pc = "provision" /\ decide[q].user = u
                       /\ decide[q].copy.no = submission[u].no

Linked(u) ==
    submission[u].status = "accepted" /\ u \notin excused => submission[u].claim \in Artists!Own(u) \/ Awaited(u)

Owned == \A a \in Verifiers : ~Artists!Live(a) => profile[a].owner = NoUser

ArtistsIInv ==
    /\ Artists!TypeOK
    /\ \A q \in Senders : Sane(q) /\ Told(q)
    /\ \A u \in Users : Numbered(u) /\ Linked(u)
    /\ Owned /\ Artists!DecisionKept /\ Artists!OneProfile

ArtistBounds == MaxSubmissions \in Nat /\ MaxEdits \in Nat /\ MaxStops \in Nat /\ NoUser \notin Users

-----------------------------------------------------------------------------
LEMMA ArtistsNoneTyped == ASSUME MaxSubmissions \in Nat PROVE Artists!NoSubmission \in Artists!Submission
BY DEF Artists!NoSubmission, Artists!Submission

LEMMA ArtistsIdleTyped == ASSUME MaxSubmissions \in Nat PROVE Artists!Idle \in Artists!Request /\ Artists!Idle.pc = "idle"
BY ArtistsNoneTyped DEF Artists!Idle, Artists!Request, Artists!Keep

LEMMA ArtistsRowFields ==
    ASSUME NEW row \in Artists!Submission
    PROVE  /\ row.no \in 0..MaxSubmissions /\ row.status \in Artists!Statuses \cup {"none"}
           /\ row.type \in {"fresh", "existing"} /\ row.claim \in Verifiers \cup {NoProfile}
BY DEF Artists!Submission

LEMMA ArtistsRequestFields ==
    ASSUME NEW r \in Artists!Request
    PROVE  /\ r.user \in Users \cup {NoUser} /\ r.copy \in Artists!Submission /\ r.sent \in Artists!Statuses \cup {Artists!Keep}
           /\ r.verified \in BOOLEAN /\ r.stale \in BOOLEAN
           /\ r.profile \in Verifiers \cup {NoProfile} /\ r.owner \in Users \cup {NoUser}
BY DEF Artists!Request

LEMMA Turn ==
    ASSUME decide \in [Senders -> Artists!Request], NEW q \in Senders, NEW r \in Artists!Request,
           decide' = [decide EXCEPT ![q] = r]
    PROVE  /\ decide' \in [Senders -> Artists!Request]
           /\ decide'[q] = r /\ \A o \in Senders \ {q} : decide'[o] = decide[o]
OBVIOUS

LEMMA Ends ==
    ASSUME MaxSubmissions \in Nat, decide \in [Senders -> Artists!Request], NEW q \in Senders, Artists!End(q)
    PROVE  /\ decide' \in [Senders -> Artists!Request]
           /\ decide'[q].pc = "idle" /\ \A o \in Senders \ {q} : decide'[o] = decide[o]
BY ArtistsIdleTyped, Turn DEF Artists!End

LEMMA ArtistsFirst == ArtistBounds /\ Artists!Init => ArtistsIInv
<1> SUFFICES ASSUME ArtistBounds, Artists!Init PROVE ArtistsIInv
  OBVIOUS
<1>1. \A u \in Users : submission[u] = Artists!NoSubmission /\ inserted[u] = 0 /\ decision[u] = "none"
  BY DEF Artists!Init
<1>2. \A q \in Senders : decide[q] = Artists!Idle
  BY DEF Artists!Init
<1>3. PICK old \in SUBSET Verifiers :
        profile = [a \in Verifiers |-> [state |-> IF a \in old THEN "live" ELSE "new", owner |-> NoUser]]
  BY DEF Artists!Init
<1>4. \A a \in Verifiers : profile[a].owner = NoUser
  BY <1>3
<1>5. Artists!TypeOK
  <2>1. profile \in [Verifiers -> [state : {"new", "live", "gone"}, owner : Users \cup {NoUser}]]
    BY <1>3
  <2> QED
    BY <2>1, ArtistsIdleTyped, ArtistsNoneTyped DEF Artists!Init, Artists!TypeOK, ArtistBounds
<1>6. \A q \in Senders : Sane(q) /\ Told(q)
  BY <1>2, ArtistsIdleTyped DEF Sane, Told, ArtistBounds
<1>7. \A u \in Users : Numbered(u) /\ Linked(u)
  <2>1. Artists!NoSubmission.no = 0 /\ Artists!NoSubmission.status = "none"
    BY DEF Artists!NoSubmission
  <2>2. ASSUME NEW u \in Users PROVE Numbered(u) /\ Linked(u)
    <3>1. submission[u].no = 0 /\ submission[u].status = "none" /\ inserted[u] = 0
      BY <1>1, <2>1
    <3> QED
      BY <3>1 DEF Numbered, Linked
  <2> QED
    BY <2>2
<1>8. Owned
  BY <1>4 DEF Owned
<1>9. Artists!DecisionKept
  BY <1>1 DEF Artists!DecisionKept, Artists!NoSubmission
<1>10. Artists!OneProfile
  BY <1>4 DEF Artists!OneProfile
<1> QED
  BY <1>5, <1>6, <1>7, <1>8, <1>9, <1>10 DEF ArtistsIInv
(* A handler that goes on and writes nothing.                                  *)
LEMMA AwaitedStays ==
    ASSUME NEW q \in Senders, NEW u, decide[q].pc # "provision",
           \A o \in Senders \ {q} : decide'[o] = decide[o],
           submission'[u].no = submission[u].no, Awaited(u)
    PROVE  Awaited(u)'
BY DEF Awaited

LEMMA OnlyTurn ==
    ASSUME ArtistsIInv, NEW q \in Senders, decide' \in [Senders -> Artists!Request],
           \A o \in Senders \ {q} : decide'[o] = decide[o],
           UNCHANGED <<submission, inserted, profile, decision, undone>>, stops' \in 0..MaxStops,
           excused' \subseteq Users, excused \subseteq excused', edits' \in 0..MaxEdits,
           Sane(q)', Told(q)',
           \A u \in Users : u \notin excused' /\ Awaited(u) =>
               \/ Awaited(u)' \/ submission[u].status # "accepted"
    PROVE  ArtistsIInv'
<1>1. Artists!TypeOK'
  BY DEF Artists!TypeOK, ArtistsIInv
<1>2. ASSUME NEW o \in Senders PROVE Sane(o)' /\ Told(o)'
  <2>1. CASE o # q
    BY <2>1 DEF ArtistsIInv, Sane, Told
  <2> QED
    BY <2>1
<1>3. ASSUME NEW u \in Users PROVE Numbered(u)' /\ Linked(u)'
  <2>1. Numbered(u)'
    BY DEF ArtistsIInv, Numbered
  <2>2. Artists!Own(u)' = Artists!Own(u)
    BY DEF Artists!Own, Artists!Live
  <2> QED
    BY <2>1, <2>2 DEF ArtistsIInv, Linked
<1>4. Owned' /\ Artists!DecisionKept' /\ Artists!OneProfile'
  BY DEF ArtistsIInv, Owned, Artists!DecisionKept, Artists!OneProfile, Artists!Own, Artists!Live
<1> QED
  BY <1>1, <1>2, <1>3, <1>4 DEF ArtistsIInv

LEMMA Begins ==
    ASSUME ArtistsIInv, ArtistBounds, NEW q \in Senders, NEW r \in Artists!Request, Artists!Begin(q, r),
           r.pc \in {"create", "edit", "check"} => r.user \in Users,
           r.pc = "create" => r.copy.status = "pending",
           r.pc \in {"edit", "check"} => r.copy.status \in Artists!Statuses /\ r.copy.no \in 1..inserted[r.user],
           r.pc = "edit" => /\ submission[r.user].status # "none" /\ r.copy.status = submission[r.user].status,
           r.pc = "profile" => r.profile \in Verifiers,
           r.pc \notin {"decide", "provision"}
    PROVE  ArtistsIInv'
<1>1. Artists!TypeOK /\ decide \in [Senders -> Artists!Request] /\ edits' \in 0..MaxEdits /\ edits \in Nat
  BY DEF ArtistsIInv, Artists!TypeOK, Artists!Begin, ArtistBounds
<1>2. /\ decide' \in [Senders -> Artists!Request]
      /\ decide'[q] = r /\ \A o \in Senders \ {q} : decide'[o] = decide[o]
  BY <1>1, Turn DEF Artists!Begin
<1>3. UNCHANGED <<submission, inserted, profile, decision, undone, excused, stops>>
  BY DEF Artists!Begin
<1>4. Sane(q)'
  BY <1>2, <1>3 DEF Sane
<1>5. Told(q)'
  BY <1>2, <1>3 DEF Told, ArtistsIInv, Artists!DecisionKept
<1>6. \A u \in Users : Awaited(u) => Awaited(u)'
  BY <1>2, <1>3, AwaitedStays DEF Artists!Begin, Artists!At
<1> QED
  BY <1>1, <1>2, <1>3, <1>4, <1>5, <1>6, OnlyTurn DEF ArtistsIInv, Artists!TypeOK

LEMMA SubmitKept ==
    ASSUME ArtistsIInv, ArtistBounds, NEW q \in Senders, NEW u \in Users, NEW type \in {"fresh", "existing"},
           NEW a \in Verifiers \cup {NoProfile}, Artists!Submit(q, u, type, a)
    PROVE  ArtistsIInv'
<1>1. PICK row : row = [no |-> 0, status |-> "pending", type |-> type, claim |-> a]
  OBVIOUS
<1>2. row \in Artists!Submission /\ row.status = "pending"
  BY <1>1 DEF Artists!Submission, Artists!Statuses, ArtistBounds
<1>3. PICK r : r = [Artists!Idle EXCEPT !.pc = "create", !.user = u, !.copy = row]
  OBVIOUS
<1>4. r \in Artists!Request /\ r.pc = "create" /\ r.user = u /\ r.copy = row
  BY <1>2, <1>3, ArtistsIdleTyped DEF Artists!Request, ArtistBounds
<1>5. Artists!Begin(q, r)
  BY <1>1, <1>3 DEF Artists!Submit
<1> QED
  BY <1>2, <1>4, <1>5, Begins

LEMMA EditKept ==
    ASSUME ArtistsIInv, ArtistBounds, NEW q \in Senders, NEW u \in Users, NEW type \in {"fresh", "existing"},
           NEW a \in Verifiers \cup {NoProfile}, Artists!Edit(q, u, type, a)
    PROVE  ArtistsIInv'
<1>1. PICK row : row = [submission[u] EXCEPT !.type = type, !.claim = a]
  OBVIOUS
<1>2. submission[u] \in Artists!Submission
  BY DEF ArtistsIInv, Artists!TypeOK
<1>3. row \in Artists!Submission /\ row.status = submission[u].status /\ row.no = submission[u].no
  BY <1>1, <1>2 DEF Artists!Submission
<1>4. PICK r : r = [Artists!Idle EXCEPT !.pc = "edit", !.user = u, !.copy = row]
  OBVIOUS
<1>5. r \in Artists!Request /\ r.pc = "edit" /\ r.user = u /\ r.copy = row
  BY <1>3, <1>4, ArtistsIdleTyped DEF Artists!Request, ArtistBounds
<1>6. Artists!Begin(q, r) /\ submission[u].status # "none"
  BY <1>1, <1>4 DEF Artists!Edit
<1>7. row.status \in Artists!Statuses /\ row.no \in 1..inserted[u]
  BY <1>2, <1>3, <1>6, ArtistsRowFields DEF ArtistsIInv, Numbered
<1> QED
  BY <1>3, <1>5, <1>6, <1>7, Begins

LEMMA DecideKept ==
    ASSUME ArtistsIInv, ArtistBounds, NEW q \in Senders, NEW u \in Users, NEW status \in Artists!Statuses \cup {Artists!Keep},
           NEW verified \in BOOLEAN, Artists!Decide(q, u, status, verified)
    PROVE  ArtistsIInv'
<1>1. submission[u] \in Artists!Submission
  BY DEF ArtistsIInv, Artists!TypeOK
<1>2. PICK r : r = [Artists!Idle EXCEPT !.pc = "check", !.user = u, !.copy = submission[u],
                                !.sent = status, !.verified = verified]
  OBVIOUS
<1>3. r \in Artists!Request /\ r.pc = "check" /\ r.user = u /\ r.copy = submission[u]
  BY <1>1, <1>2, ArtistsIdleTyped DEF Artists!Request, ArtistBounds
<1>4. Artists!Begin(q, r) /\ submission[u].status # "none"
  BY <1>2 DEF Artists!Decide
<1>5. submission[u].status \in Artists!Statuses /\ submission[u].no \in 1..inserted[u]
  BY <1>1, <1>4, ArtistsRowFields DEF ArtistsIInv, Numbered
<1> QED
  BY <1>3, <1>4, <1>5, Begins

LEMMA EditProfileKept ==
    ASSUME ArtistsIInv, ArtistBounds, NEW q \in Senders, NEW a \in Verifiers, NEW owner \in Users \cup {NoUser, Artists!Keep},
           Artists!EditProfile(q, a, owner)
    PROVE  ArtistsIInv'
<1>1. PICK u : u = IF owner = Artists!Keep THEN profile[a].owner ELSE owner
  OBVIOUS
<1>2. u \in Users \cup {NoUser}
  BY <1>1 DEF ArtistsIInv, Artists!TypeOK
<1>3. PICK r : r = [Artists!Idle EXCEPT !.pc = "profile", !.profile = a, !.owner = u]
  OBVIOUS
<1>4. r \in Artists!Request /\ r.pc = "profile" /\ r.profile = a
  BY <1>2, <1>3, ArtistsIdleTyped DEF Artists!Request, ArtistBounds
<1>5. Artists!Begin(q, r)
  BY <1>1, <1>3 DEF Artists!EditProfile
<1> QED
  BY <1>4, <1>5, Begins

LEMMA EditOwnProfileKept ==
    ASSUME ArtistsIInv, ArtistBounds, NEW q \in Senders, NEW u \in Users, Artists!EditOwnProfile(q, u)
    PROVE  ArtistsIInv'
BY EditProfileKept DEF Artists!EditOwnProfile, Artists!Own

LEMMA CheckKept == ASSUME ArtistsIInv, ArtistBounds, NEW q \in Senders, Artists!Check(q) PROVE ArtistsIInv'
<1>1. /\ decide \in [Senders -> Artists!Request] /\ decide[q] \in Artists!Request /\ decide[q].pc = "check" /\ Sane(q)
      /\ excused \subseteq Users /\ edits \in 0..MaxEdits /\ stops \in 0..MaxStops
  BY DEF ArtistsIInv, Artists!TypeOK, Artists!Check, Artists!At
<1>2. PICK r : r = [decide[q] EXCEPT !.pc = "decide"]
  OBVIOUS
<1>3. /\ r \in Artists!Request /\ r.pc = "decide" /\ r.user = decide[q].user /\ r.copy = decide[q].copy
  BY <1>1, <1>2 DEF Artists!Request
<1>4. UNCHANGED <<submission, inserted, profile, decision, undone, excused, edits, stops>>
  BY DEF Artists!Check
<1>5. /\ decide' \in [Senders -> Artists!Request]
      /\ decide'[q] = r \/ decide'[q].pc = "idle"
      /\ \A o \in Senders \ {q} : decide'[o] = decide[o]
  <2>1. CASE Artists!End(q)
    BY <1>1, <2>1, Ends DEF ArtistBounds
  <2>2. CASE decide' = [decide EXCEPT ![q] = r]
    BY <1>1, <1>3, <2>2, Turn
  <2>3. decide' = [decide EXCEPT ![q].pc = "decide"] => decide' = [decide EXCEPT ![q] = r]
    BY <1>2
  <2> QED
    BY <2>1, <2>2, <2>3 DEF Artists!Check
<1>6. Sane(q)' /\ Told(q)'
  BY <1>1, <1>3, <1>4, <1>5 DEF Sane, Told
<1>7. \A u \in Users : Awaited(u) => Awaited(u)'
  BY <1>1, <1>4, <1>5, AwaitedStays
<1> QED
  BY <1>1, <1>4, <1>5, <1>6, <1>7, OnlyTurn

LEMMA CallbackEnds ==
    ASSUME ArtistsIInv, ArtistBounds, NEW q \in Senders, decide[q].pc = "provision", Artists!End(q),
           UNCHANGED <<submission, inserted, profile, decision, undone, edits>>, stops' \in 0..MaxStops,
           excused' = excused \cup {decide[q].user} \/ (excused' = excused /\ ~Artists!Approved(q))
    PROVE  ArtistsIInv'
<1>1. /\ decide \in [Senders -> Artists!Request] /\ decide[q].user \in Users
      /\ excused \subseteq Users /\ edits \in 0..MaxEdits
  BY DEF ArtistsIInv, Artists!TypeOK, Sane
<1>2. /\ decide' \in [Senders -> Artists!Request]
      /\ decide'[q].pc = "idle" /\ \A o \in Senders \ {q} : decide'[o] = decide[o]
  BY <1>1, Ends DEF ArtistBounds
<1>3. Sane(q)' /\ Told(q)'
  BY <1>2 DEF Sane, Told
<1>4. ASSUME NEW u \in Users, u \notin excused', Awaited(u), submission[u].status = "accepted"
      PROVE  Awaited(u)'
  <2>1. PICK o \in Senders : /\ decide[o].pc = "provision" /\ decide[o].user = u
                             /\ decide[o].copy.no = submission[u].no
    BY <1>4 DEF Awaited
  <2>2. o # q
    BY <1>4, <2>1 DEF Artists!Approved, Artists!User, Artists!Row
  <2> QED
    BY <1>2, <2>1, <2>2 DEF Awaited
<1>5. excused' \subseteq Users /\ excused \subseteq excused' /\ edits' \in 0..MaxEdits
  BY <1>1
<1>6. \A u \in Users : u \notin excused' /\ Awaited(u) => Awaited(u)' \/ submission[u].status # "accepted"
  BY <1>4
<1> QED
  BY <1>2, <1>3, <1>5, <1>6, OnlyTurn

LEMMA DeclineKept == ASSUME ArtistsIInv, ArtistBounds, NEW q \in Senders, Artists!Decline(q) PROVE ArtistsIInv'
BY CallbackEnds DEF Artists!Decline, Artists!At, ArtistsIInv, Artists!TypeOK

LEMMA RefuseKept == ASSUME ArtistsIInv, ArtistBounds, NEW q \in Senders, Artists!Refuse(q) PROVE ArtistsIInv'
BY CallbackEnds DEF Artists!Refuse, Artists!At, Artists!User, ArtistsIInv, Artists!TypeOK

LEMMA LoseKept == ASSUME ArtistsIInv, ArtistBounds, NEW q \in Senders, Artists!Lose(q) PROVE ArtistsIInv'
<1>1. stops' \in 0..MaxStops
  BY DEF Artists!Lose, ArtistsIInv, Artists!TypeOK, ArtistBounds
<1> QED
  BY <1>1, CallbackEnds DEF Artists!Lose, Artists!At, Artists!User

-----------------------------------------------------------------------------
(* A submission is written.                                                   *)
LEMMA NormalStatus ==
    ASSUME NEW status \in Artists!Statuses, NEW verified \in BOOLEAN
    PROVE  /\ Artists!Normal(status, verified) \in Artists!Statuses
           /\ Artists!Normal(status, status = "accepted") = status
           /\ Artists!Normal("rejected", verified) = "rejected" /\ Artists!Normal("accepted", verified) = "accepted"
BY DEF Artists!Normal, Artists!Statuses

LEMMA AfterwardsTyped ==
    ASSUME ArtistBounds, Artists!TypeOK, NEW q \in Senders, NEW status \in Artists!Statuses, decide[q].user \in Users
    PROVE  /\ Artists!Afterwards(q, status) \in Artists!Request
           /\ Artists!Afterwards(q, status).pc \in {"idle", "provision"}
           /\ status = "accepted" => /\ Artists!Afterwards(q, status).pc = "provision"
                                     /\ Artists!Afterwards(q, status).user = decide[q].user
                                     /\ Artists!Afterwards(q, status).copy.no = decide[q].copy.no
           /\ Artists!Afterwards(q, status).pc = "provision" => status = "accepted"
<1>1. decide[q] \in Artists!Request /\ decide[q].copy \in Artists!Submission /\ decide[q].copy.no \in 0..MaxSubmissions
  BY ArtistsRequestFields, ArtistsRowFields DEF Artists!TypeOK
<1>2. PICK n : n = decide[q].copy.no
  OBVIOUS
<1>3. PICK r : r = [Artists!Idle EXCEPT !.pc = "provision", !.user = decide[q].user, !.copy.no = n]
  OBVIOUS
<1>4. Artists!Idle \in Artists!Request /\ Artists!Idle.pc = "idle" /\ Artists!Idle.copy \in Artists!Submission
  BY ArtistsIdleTyped, ArtistsRequestFields DEF ArtistBounds
<1>5. PICK row : row = [Artists!Idle.copy EXCEPT !.no = n]
  OBVIOUS
<1>6. row \in Artists!Submission /\ row.no = n
  BY <1>1, <1>2, <1>4, <1>5 DEF Artists!Submission
<1>7. r = [Artists!Idle EXCEPT !.pc = "provision", !.user = decide[q].user, !.copy = row]
  BY <1>3, <1>5
<1>8. r \in Artists!Request /\ r.pc = "provision" /\ r.user = decide[q].user /\ r.copy = row
  BY <1>4, <1>6, <1>7 DEF Artists!Request
<1>9. Artists!Afterwards(q, status) = IF status = "accepted" THEN r ELSE Artists!Idle
  BY <1>2, <1>3 DEF Artists!Afterwards, Artists!User, Artists!Row
<1> QED
  BY <1>2, <1>4, <1>6, <1>8, <1>9

(* What the row of a user is after it is written, and what the others are.     *)
LEMMA Written ==
    ASSUME Artists!TypeOK, NEW u \in Users, NEW row \in Artists!Submission, submission' = [submission EXCEPT ![u] = row]
    PROVE  /\ submission' \in [Users -> Artists!Submission]
           /\ submission'[u] = row /\ \A v \in Users \ {u} : submission'[v] = submission[v]
BY DEF Artists!TypeOK
LEMMA CreateKept == ASSUME ArtistsIInv, ArtistBounds, NEW q \in Senders, Artists!Create(q) PROVE ArtistsIInv'
<1> DEFINE u == decide[q].user
<1>1. /\ Artists!TypeOK /\ decide \in [Senders -> Artists!Request] /\ decide[q].user \in Users /\ decide[q].pc = "create"
      /\ decide[q].copy \in Artists!Submission /\ decide[q].copy.status = "pending"
      /\ inserted[decide[q].user] \in 0..MaxSubmissions
  BY ArtistsRequestFields DEF ArtistsIInv, Artists!TypeOK, Sane, Artists!Create, Artists!At
<1>2. /\ decide' \in [Senders -> Artists!Request]
      /\ decide'[q].pc = "idle" /\ \A o \in Senders \ {q} : decide'[o] = decide[o]
  BY <1>1, Ends DEF ArtistBounds, Artists!Create
<1>3. Sane(q)' /\ Told(q)'
  BY <1>2 DEF Sane, Told
<1>4. UNCHANGED <<profile, excused, edits, stops>>
  BY DEF Artists!Create
<1>5. CASE UNCHANGED <<submission, inserted, decision, undone>>
  <2>1. \A v \in Users : Awaited(v) => Awaited(v)'
    BY <1>1, <1>2, <1>5, AwaitedStays
  <2> QED
    BY <1>1, <1>2, <1>3, <1>4, <1>5, <2>1, OnlyTurn DEF Artists!TypeOK
<1>6. CASE /\ inserted[u] < MaxSubmissions /\ submission[u].status = "none"
           /\ inserted' = [inserted EXCEPT ![u] = @ + 1]
           /\ submission' = [submission EXCEPT ![u] = [decide[q].copy EXCEPT !.no = inserted'[u]]]
           /\ decision' = [decision EXCEPT ![u] = "pending"]
           /\ undone' = undone \ {u}
  <2>1. PICK n \in 1..MaxSubmissions : n = inserted[u] + 1
    BY <1>1, <1>6 DEF ArtistBounds
  <2>2. inserted' \in [Users -> 0..MaxSubmissions] /\ inserted'[u] = n /\ \A v \in Users \ {u} : inserted'[v] = inserted[v]
    BY <1>1, <1>6, <2>1 DEF Artists!TypeOK
  <2>3. PICK row : row = [decide[q].copy EXCEPT !.no = n]
    OBVIOUS
  <2>4. row \in Artists!Submission /\ row.no = n /\ row.status = "pending"
    BY <1>1, <2>3 DEF Artists!Submission, ArtistBounds
  <2>5. submission' = [submission EXCEPT ![u] = row]
    BY <1>6, <2>2, <2>3
  <2>6. /\ submission' \in [Users -> Artists!Submission]
        /\ submission'[u] = row /\ \A v \in Users \ {u} : submission'[v] = submission[v]
    BY <1>1, <2>4, <2>5, Written
  <2>7. decision'[u] = "pending" /\ \A v \in Users \ {u} : decision'[v] = decision[v]
    BY <1>1, <1>6 DEF Artists!TypeOK
  <2>8. Artists!TypeOK'
    BY <1>1, <1>2, <1>4, <1>6, <2>2, <2>6 DEF Artists!TypeOK, Artists!Statuses
  <2>9. ASSUME NEW o \in Senders PROVE Sane(o)' /\ Told(o)'
    <3>1. CASE o # q
      <4>1. decide'[o] = decide[o] /\ Sane(o) /\ Told(o)
        BY <1>2, <3>1 DEF ArtistsIInv
      <4>2. Sane(o)'
        BY <1>1, <2>1, <2>2, <4>1 DEF Sane, Artists!TypeOK
      <4>3. CASE decide[o].user = u
        <5>1. decide[o].pc = "edit" => decide[o].copy.no \in 1..inserted[u]
          BY <4>1, <4>3 DEF Sane
        <5>2. decide[o].pc = "edit" => decide[o].copy.no # n
          BY <1>1, <2>1, <5>1
        <5>3. submission'[decide'[o].user].no = n
          BY <2>4, <2>6, <4>1, <4>3
        <5>4. decide'[o].pc = "edit" => submission'[decide'[o].user].no # decide'[o].copy.no
          BY <4>1, <5>2, <5>3
        <5> QED
          BY <4>2, <5>4 DEF Told
      <4>4. CASE decide[o].user # u
        BY <1>6, <2>6, <2>7, <4>1, <4>4 DEF Sane, Told
      <4> QED
        BY <4>2, <4>3, <4>4
    <3> QED
      BY <1>3, <3>1
  <2>10. ASSUME NEW v \in Users PROVE Numbered(v)' /\ Linked(v)'
    <3>1. CASE v = u
      BY <2>1, <2>2, <2>4, <2>6, <3>1 DEF Numbered, Linked
    <3>2. CASE v # u
      <4>1. Awaited(v) => Awaited(v)'
        BY <1>1, <1>2, <2>6, <3>2, AwaitedStays
      <4>2. Artists!Own(v)' = Artists!Own(v)
        BY <1>4 DEF Artists!Own, Artists!Live
      <4> QED
        BY <1>4, <1>6, <2>2, <2>6, <3>2, <4>1, <4>2 DEF ArtistsIInv, Numbered, Linked
    <3> QED
      BY <3>1, <3>2
  <2>11. Owned' /\ Artists!OneProfile'
    BY <1>4 DEF ArtistsIInv, Owned, Artists!OneProfile, Artists!Own, Artists!Live
  <2>12. Artists!DecisionKept'
    BY <1>6, <2>4, <2>6, <2>7 DEF ArtistsIInv, Artists!DecisionKept
  <2> QED
    BY <2>8, <2>9, <2>10, <2>11, <2>12 DEF ArtistsIInv
<1> QED
  BY <1>5, <1>6 DEF Artists!Create, Artists!User, Artists!Row

(* The rows written whole by an edit and by a decision have numbers that were  *)
(* given, and one row of a user takes the place of itself or of none.         *)
OthersWait(q) ==
    \A o \in Senders \ {q} : /\ decide'[o].pc = decide[o].pc /\ decide'[o].user = decide[o].user
                             /\ decide'[o].copy = decide[o].copy

LEMMA SavedRow ==
    ASSUME ArtistsIInv, ArtistBounds, NEW q \in Senders, decide[q].pc \in {"edit", "decide"},
           NEW u \in Users, u = decide[q].user, NEW status \in Artists!Statuses,
           NEW row \in Artists!Submission, row.no = decide[q].copy.no, row.status = status,
           submission' = [submission EXCEPT ![u] = row],
           decide'[q] = Artists!Afterwards(q, status), OthersWait(q),
           UNCHANGED <<inserted, profile, excused>>
    PROVE  /\ submission' \in [Users -> Artists!Submission]
           /\ submission'[u].status = status /\ submission'[u].no = decide[q].copy.no
           /\ decide[q].copy.no \in 1..inserted[u]
           /\ \A v \in Users \ {u} : submission'[v] = submission[v]
           /\ \A v \in Users : Linked(v)'
           /\ Numbered(u)'
<1>1. /\ Artists!TypeOK /\ decide[q].copy \in Artists!Submission
      /\ decide[q].copy.no \in 1..inserted[u] /\ inserted[u] \in 0..MaxSubmissions
  BY ArtistsRequestFields DEF ArtistsIInv, Artists!TypeOK, Sane
<1>2. /\ submission' \in [Users -> Artists!Submission]
      /\ submission'[u] = row /\ \A v \in Users \ {u} : submission'[v] = submission[v]
  BY <1>1, Written
<1>3. ASSUME NEW v \in Users PROVE Linked(v)'
  <2>1. CASE v = u
    <3>1. status = "accepted" => Awaited(v)'
      BY <1>1, <1>2, <2>1, AfterwardsTyped DEF Awaited
    <3> QED
      BY <1>2, <2>1, <3>1 DEF Linked
  <2>2. CASE v # u
    <3>1. Awaited(v) => Awaited(v)'
      BY <1>2, <2>2 DEF Awaited, OthersWait
    <3>2. Artists!Own(v)' = Artists!Own(v)
      BY DEF Artists!Own, Artists!Live
    <3> QED
      BY <1>2, <2>2, <3>1, <3>2 DEF ArtistsIInv, Linked
  <2> QED
    BY <2>1, <2>2
<1>4. Numbered(u)'
  BY <1>1, <1>2 DEF Numbered, Artists!Statuses, ArtistBounds
<1> QED
  BY <1>1, <1>2, <1>3, <1>4
LEMMA SaveEditKept == ASSUME ArtistsIInv, ArtistBounds, NEW q \in Senders, Artists!SaveEdit(q) PROVE ArtistsIInv'
<1>1. PICK u \in Users : u = decide[q].user
  BY DEF ArtistsIInv, Sane, Artists!SaveEdit, Artists!At
<1>2. /\ Artists!TypeOK /\ decide \in [Senders -> Artists!Request] /\ decide[q].pc = "edit" /\ decide[q] \in Artists!Request
      /\ decide[q].copy \in Artists!Submission /\ decide[q].copy.status \in Artists!Statuses /\ Sane(q) /\ Told(q)
  BY ArtistsRequestFields DEF ArtistsIInv, Artists!TypeOK, Sane, Artists!SaveEdit, Artists!At
<1>3. PICK status \in Artists!Statuses : status = decide[q].copy.status
  BY <1>2
<1>4. Artists!Normal(Artists!Row(q).status, Artists!Row(q).status = "accepted") = status
  BY <1>3, NormalStatus DEF Artists!Row
<1>5. UNCHANGED <<inserted, profile, decision, excused, edits, stops>>
  BY DEF Artists!SaveEdit
<1>6. CASE UNCHANGED <<submission, undone>> /\ Artists!End(q)
  <2>1. /\ decide' \in [Senders -> Artists!Request]
        /\ decide'[q].pc = "idle" /\ \A o \in Senders \ {q} : decide'[o] = decide[o]
    BY <1>2, <1>6, Ends DEF ArtistBounds
  <2>2. Sane(q)' /\ Told(q)'
    BY <2>1 DEF Sane, Told
  <2>3. \A v \in Users : Awaited(v) => Awaited(v)'
    BY <1>2, <1>6, <2>1, AwaitedStays
  <2> QED
    BY <1>2, <1>5, <1>6, <2>1, <2>2, <2>3, OnlyTurn DEF Artists!TypeOK
<1>7. CASE /\ Artists!Writable(q)
           /\ submission' = [submission EXCEPT ![u] = [decide[q].copy EXCEPT !.status = status]]
           /\ decide' = [decide EXCEPT ![q] = Artists!Afterwards(q, status)]
           /\ undone' = IF decide[q].stale THEN undone \cup {u} ELSE undone
  <2>1. /\ Artists!Afterwards(q, status) \in Artists!Request /\ Artists!Afterwards(q, status).pc \in {"idle", "provision"}
        /\ Artists!Afterwards(q, status).pc = "provision" => Artists!Afterwards(q, status).user = u
    BY <1>1, <1>2, AfterwardsTyped
  <2>2. /\ decide' \in [Senders -> Artists!Request]
        /\ decide'[q] = Artists!Afterwards(q, status) /\ \A o \in Senders \ {q} : decide'[o] = decide[o]
    BY <1>2, <1>7, <2>1, Turn
  <2>3. /\ submission' \in [Users -> Artists!Submission]
        /\ submission'[u].status = status /\ submission'[u].no = decide[q].copy.no
        /\ decide[q].copy.no \in 1..inserted[u]
        /\ \A v \in Users \ {u} : submission'[v] = submission[v]
        /\ \A v \in Users : Linked(v)'
        /\ Numbered(u)'
    <3>1. OthersWait(q)
      BY <2>2 DEF OthersWait
    <3> QED
      <4>1. PICK row : row = [decide[q].copy EXCEPT !.status = status]
        OBVIOUS
      <4>2. row \in Artists!Submission /\ row.no = decide[q].copy.no /\ row.status = status
        BY <1>2, <4>1 DEF Artists!Submission
      <4>3. /\ decide[q].pc \in {"edit", "decide"} /\ UNCHANGED <<inserted, profile, excused>>
            /\ submission' = [submission EXCEPT ![u] = row]
        BY <1>2, <1>5, <1>7, <4>1
      <4> QED
        BY <1>1, <2>2, <3>1, <4>2, <4>3, SavedRow
  <2>4. submission[u].status = "none" => u \in undone
    BY <2>3 DEF ArtistsIInv, Numbered, Artists!TypeOK
  <2>5. submission[u].status # "none" => submission[u].no = decide[q].copy.no
    BY <1>1, <1>7 DEF Artists!Writable, Artists!User, Artists!Row
  <2>6. undone \subseteq undone' /\ undone' \subseteq Users /\ \A v \in undone' \ undone : v = u
    BY <1>2, <1>7 DEF Artists!TypeOK
  <2>7. Artists!TypeOK'
    BY <1>2, <1>5, <2>2, <2>3, <2>6 DEF Artists!TypeOK
  <2>8. ASSUME NEW o \in Senders PROVE Sane(o)' /\ Told(o)'
    <3>1. CASE o = q
      BY <2>1, <2>2, <3>1 DEF Sane, Told
    <3>2. CASE o # q
      <4>1. decide'[o] = decide[o] /\ Sane(o) /\ Told(o)
        BY <2>2, <3>2 DEF ArtistsIInv
      <4>2. Sane(o)'
        BY <1>5, <4>1 DEF Sane
      <4>3. CASE decide[o].user = u
        BY <1>5, <2>3, <2>4, <2>5, <2>6, <4>1, <4>2, <4>3 DEF Told
      <4>4. CASE decide[o].user # u /\ decide[o].pc = "edit"
        BY <1>5, <2>3, <2>6, <4>1, <4>2, <4>4 DEF Told, Sane
      <4> QED
        BY <4>1, <4>2, <4>3, <4>4 DEF Told
    <3> QED
      BY <3>1, <3>2
  <2>9. ASSUME NEW v \in Users PROVE Numbered(v)'
    <3>1. CASE v # u
      BY <1>5, <2>3, <2>6, <3>1 DEF ArtistsIInv, Numbered
    <3> QED
      BY <2>3, <3>1
  <2>10. Artists!DecisionKept'
    <3>1. u \notin undone' => status = decision[u]
      BY <1>1, <1>2, <1>3, <1>7, <2>4, <2>5, <2>6 DEF Told
    <3> QED
      BY <1>5, <2>3, <2>6, <3>1 DEF ArtistsIInv, Artists!DecisionKept
  <2>11. Owned' /\ Artists!OneProfile'
    BY <1>5 DEF ArtistsIInv, Owned, Artists!OneProfile, Artists!Own, Artists!Live
  <2> QED
    BY <2>3, <2>7, <2>8, <2>9, <2>10, <2>11 DEF ArtistsIInv
<1> QED
  BY <1>1, <1>3, <1>4, <1>6, <1>7 DEF Artists!SaveEdit, Artists!User, Artists!Row

LEMMA SaveDecisionKept == ASSUME ArtistsIInv, ArtistBounds, NEW q \in Senders, Artists!SaveDecision(q) PROVE ArtistsIInv'
<1>1. PICK u \in Users : u = decide[q].user
  BY DEF ArtistsIInv, Sane, Artists!SaveDecision, Artists!At
<1>2. /\ Artists!TypeOK /\ decide \in [Senders -> Artists!Request] /\ decide[q].pc = "decide" /\ decide[q] \in Artists!Request
      /\ decide[q].copy \in Artists!Submission /\ decide[q].copy.status \in Artists!Statuses /\ Sane(q)
      /\ decide[q].sent \in Artists!Statuses \cup {Artists!Keep} /\ decide[q].verified \in BOOLEAN
  BY ArtistsRequestFields DEF ArtistsIInv, Artists!TypeOK, Sane, Artists!SaveDecision, Artists!At
<1>3. Artists!SentStatus(q) \in Artists!Statuses
  BY <1>2 DEF Artists!SentStatus, Artists!Row
<1>4. PICK status \in Artists!Statuses : status = Artists!Normal(Artists!SentStatus(q), decide[q].verified)
  BY <1>2, <1>3, NormalStatus
<1>5. UNCHANGED <<inserted, profile, excused, edits, stops>>
  BY DEF Artists!SaveDecision
<1>6. CASE UNCHANGED <<submission, decision, undone>> /\ Artists!End(q)
  <2>1. /\ decide' \in [Senders -> Artists!Request]
        /\ decide'[q].pc = "idle" /\ \A o \in Senders \ {q} : decide'[o] = decide[o]
    BY <1>2, <1>6, Ends DEF ArtistBounds
  <2>2. Sane(q)' /\ Told(q)'
    BY <2>1 DEF Sane, Told
  <2>3. \A v \in Users : Awaited(v) => Awaited(v)'
    BY <1>2, <1>6, <2>1, AwaitedStays
  <2> QED
    BY <1>2, <1>5, <1>6, <2>1, <2>2, <2>3, OnlyTurn DEF Artists!TypeOK
<1>7. CASE /\ Artists!Writable(q)
           /\ submission' = [submission EXCEPT ![u] = [decide[q].copy EXCEPT !.status = status]]
           /\ decide' = [r \in Senders |-> IF r = q THEN Artists!Afterwards(q, status)
                                             ELSE [decide[r] EXCEPT !.stale = @ \/ decide[r].user = u]]
           /\ decision' = [decision EXCEPT ![u] = IF decide[q].sent \in {"accepted", "rejected"}
                                                  THEN decide[q].sent ELSE status]
           /\ undone' = undone \ {u}
  <2>1. /\ Artists!Afterwards(q, status) \in Artists!Request /\ Artists!Afterwards(q, status).pc \in {"idle", "provision"}
        /\ Artists!Afterwards(q, status).pc = "provision" => Artists!Afterwards(q, status).user = u
    BY <1>1, <1>2, AfterwardsTyped
  <2>2. ASSUME NEW o \in Senders, o # q
        PROVE  /\ decide'[o] \in Artists!Request /\ decide'[o].pc = decide[o].pc /\ decide'[o].user = decide[o].user
               /\ decide'[o].copy = decide[o].copy /\ decide'[o].profile = decide[o].profile
               /\ ~decide'[o].stale => ~decide[o].stale /\ decide[o].user # u
    <3>1. decide[o] \in Artists!Request /\ decide[o].stale \in BOOLEAN
      BY <1>2, ArtistsRequestFields
    <3>2. PICK b \in BOOLEAN : b <=> (decide[o].stale \/ decide[o].user = u)
      OBVIOUS
    <3>3. decide'[o] = [decide[o] EXCEPT !.stale = b]
      BY <1>7, <2>2, <3>1, <3>2
    <3> QED
      BY <3>1, <3>2, <3>3 DEF Artists!Request
  <2>3. decide' \in [Senders -> Artists!Request] /\ decide'[q] = Artists!Afterwards(q, status)
    BY <1>7, <2>1, <2>2
  <2>4. /\ submission' \in [Users -> Artists!Submission]
        /\ submission'[u].status = status /\ submission'[u].no = decide[q].copy.no
        /\ decide[q].copy.no \in 1..inserted[u]
        /\ \A v \in Users \ {u} : submission'[v] = submission[v]
        /\ \A v \in Users : Linked(v)'
        /\ Numbered(u)'
    <3>1. OthersWait(q)
      BY <2>2 DEF OthersWait
    <3> QED
      <4>1. PICK row : row = [decide[q].copy EXCEPT !.status = status]
        OBVIOUS
      <4>2. row \in Artists!Submission /\ row.no = decide[q].copy.no /\ row.status = status
        BY <1>2, <4>1 DEF Artists!Submission
      <4>3. /\ decide[q].pc \in {"edit", "decide"} /\ UNCHANGED <<inserted, profile, excused>>
            /\ submission' = [submission EXCEPT ![u] = row]
        BY <1>2, <1>5, <1>7, <4>1
      <4> QED
        BY <1>1, <2>3, <3>1, <4>2, <4>3, SavedRow
  <2>5. /\ decision' \in [Users -> Artists!Statuses \cup {"none"}] /\ decision'[u] = status
        /\ \A v \in Users \ {u} : decision'[v] = decision[v]
    <3>1. decide[q].sent \in {"accepted", "rejected"} => decide[q].sent = status
      BY <1>2, <1>4, NormalStatus DEF Artists!SentStatus, Artists!Keep
    <3> QED
      BY <1>2, <1>7, <3>1 DEF Artists!TypeOK
  <2>6. undone' \subseteq Users /\ \A v \in Users \ {u} : v \in undone' <=> v \in undone
    BY <1>2, <1>7 DEF Artists!TypeOK
  <2>7. Artists!TypeOK'
    BY <1>2, <1>5, <2>3, <2>4, <2>5, <2>6 DEF Artists!TypeOK
  <2>8. ASSUME NEW o \in Senders PROVE Sane(o)' /\ Told(o)'
    <3>1. CASE o = q
      BY <2>1, <2>3, <3>1 DEF Sane, Told
    <3>2. CASE o # q
      <4>1. Sane(o) /\ Told(o)
        BY DEF ArtistsIInv
      <4>2. Sane(o)'
        BY <1>5, <2>2, <3>2, <4>1 DEF Sane
      <4>3. CASE decide'[o].pc = "edit" /\ ~decide'[o].stale
        BY <2>2, <2>4, <2>5, <2>6, <3>2, <4>1, <4>2, <4>3 DEF Told, Sane
      <4> QED
        BY <4>2, <4>3 DEF Told
    <3> QED
      BY <3>1, <3>2
  <2>9. ASSUME NEW v \in Users PROVE Numbered(v)'
    <3>1. CASE v # u
      BY <1>5, <2>4, <2>6, <3>1 DEF ArtistsIInv, Numbered
    <3> QED
      BY <2>4, <3>1
  <2>10. Artists!DecisionKept'
    BY <2>4, <2>5, <2>6 DEF ArtistsIInv, Artists!DecisionKept
  <2>11. Owned' /\ Artists!OneProfile'
    BY <1>5 DEF ArtistsIInv, Owned, Artists!OneProfile, Artists!Own, Artists!Live
  <2> QED
    BY <2>4, <2>7, <2>8, <2>9, <2>10, <2>11 DEF ArtistsIInv
<1> QED
  BY <1>1, <1>4, <1>6, <1>7 DEF Artists!SaveDecision, Artists!User, Artists!Row
LEMMA DeleteSubmissionKept == ASSUME ArtistsIInv, ArtistBounds, NEW u \in Users, Artists!DeleteSubmission(u) PROVE ArtistsIInv'
<1>1. /\ Artists!TypeOK /\ UNCHANGED <<inserted, profile, decide, excused, edits, stops>>
      /\ submission' = [submission EXCEPT ![u] = Artists!NoSubmission] /\ decision' = [decision EXCEPT ![u] = "none"]
      /\ undone' = undone \cup {u}
  BY DEF ArtistsIInv, Artists!DeleteSubmission
<1>2. Artists!NoSubmission \in Artists!Submission /\ Artists!NoSubmission.no = 0 /\ Artists!NoSubmission.status = "none"
  <2>1. Artists!NoSubmission.no = 0 /\ Artists!NoSubmission.status = "none"
    BY DEF Artists!NoSubmission
  <2> QED
    BY <2>1, ArtistsNoneTyped DEF ArtistBounds
<1>3. /\ submission' \in [Users -> Artists!Submission]
      /\ submission'[u] = Artists!NoSubmission /\ \A v \in Users \ {u} : submission'[v] = submission[v]
  BY <1>1, <1>2, Written
<1>4. decision' \in [Users -> Artists!Statuses \cup {"none"}] /\ \A v \in Users \ {u} : decision'[v] = decision[v]
  BY <1>1 DEF Artists!TypeOK
<1>5. Artists!TypeOK'
  BY <1>1, <1>3, <1>4 DEF Artists!TypeOK
<1>6. ASSUME NEW o \in Senders PROVE Sane(o)' /\ Told(o)'
  <2>1. Sane(o) /\ Told(o)
    BY DEF ArtistsIInv
  <2>2. CASE decide[o].user = u
    BY <1>1, <2>1, <2>2 DEF Sane, Told
  <2>3. CASE decide[o].user # u
    BY <1>1, <1>3, <1>4, <2>1, <2>3 DEF Sane, Told
  <2> QED
    BY <2>2, <2>3
<1>7. ASSUME NEW v \in Users PROVE Numbered(v)' /\ Linked(v)'
  <2>1. CASE v = u
    <3>1. submission'[v].no = 0 /\ submission'[v].status = "none" /\ v \in undone' /\ inserted'[v] \in Nat
      BY <1>1, <1>2, <1>3, <2>1 DEF Artists!TypeOK, ArtistBounds
    <3> QED
      BY <3>1 DEF Numbered, Linked
  <2>2. CASE v # u
    <3>1. submission'[v] = submission[v] /\ (Awaited(v) => Awaited(v)')
      BY <1>1, <1>3, <2>2 DEF Awaited
    <3>2. Artists!Own(v)' = Artists!Own(v)
      BY <1>1 DEF Artists!Own, Artists!Live
    <3> QED
      BY <1>1, <3>1, <3>2 DEF ArtistsIInv, Numbered, Linked
  <2> QED
    BY <2>1, <2>2
<1>8. Owned' /\ Artists!OneProfile'
  BY <1>1 DEF ArtistsIInv, Owned, Artists!OneProfile, Artists!Own, Artists!Live
<1>9. Artists!DecisionKept'
  BY <1>1, <1>2, <1>3, <1>4 DEF ArtistsIInv, Artists!DecisionKept
<1> QED
  BY <1>5, <1>6, <1>7, <1>8, <1>9 DEF ArtistsIInv

-----------------------------------------------------------------------------
(* The profiles.                                                              *)
Profile == [state : {"new", "live", "gone"}, owner : Users \cup {NoUser}]

LEMMA CandidateFree ==
    ASSUME ArtistsIInv, ArtistBounds, NEW u \in Users, NEW a \in Artists!Candidates(u)
    PROVE  /\ a \in Verifiers /\ profile[a].owner \in {NoUser, u} /\ Artists!Own(u) \subseteq {a}
<1>1. CASE a \in {submission[u].claim} \cap Verifiers /\ Artists!Claimable(u, a)
  BY <1>1 DEF Artists!Claimable
<1>2. CASE a \in Artists!Own(u)
  <2>1. profile[a].owner = u /\ a \in Verifiers /\ u # NoUser
    BY <1>2 DEF Artists!Own, ArtistBounds
  <2>2. \A b \in Artists!Own(u) : b \in Verifiers
    BY DEF Artists!Own
  <2> QED
    BY <2>1, <2>2 DEF ArtistsIInv, Artists!OneProfile
<1>3. CASE a \in Verifiers /\ profile[a].state = "new" /\ Artists!Own(u) = {}
  BY <1>3 DEF ArtistsIInv, Owned, Artists!Live
<1> QED
  BY <1>1, <1>2, <1>3 DEF Artists!Candidates

(* A profile is given to a user who has no other.                              *)
LEMMA Given ==
    ASSUME ArtistsIInv, ArtistBounds, NEW a \in Verifiers, NEW u \in Users \cup {NoUser}, u = NoUser \/ Artists!Own(u) \subseteq {a},
           profile' = [profile EXCEPT ![a] = [state |-> "live", owner |-> u]]
    PROVE  /\ profile' \in [Verifiers -> Profile] /\ profile'[a].owner = u /\ profile'[a].state = "live"
           /\ \A b \in Verifiers \ {a} : profile'[b] = profile[b]
           /\ Owned' /\ Artists!OneProfile'
           /\ \A v \in Users : v # u /\ v # profile[a].owner => Artists!Own(v)' = Artists!Own(v)
           /\ u \in Users => a \in Artists!Own(u)'
<1>1. /\ profile' \in [Verifiers -> Profile] /\ profile'[a].owner = u /\ profile'[a].state = "live"
      /\ \A b \in Verifiers \ {a} : profile'[b] = profile[b]
  BY DEF ArtistsIInv, Artists!TypeOK, Profile
<1>2. Owned'
  BY <1>1 DEF ArtistsIInv, Owned, Artists!Live
<1>3. Artists!OneProfile'
  <2> SUFFICES ASSUME NEW b \in Verifiers, NEW c \in Verifiers, b # c, profile'[c].owner # NoUser,
                      profile'[b].state = "live", profile'[b].owner = profile'[c].owner
               PROVE  FALSE
    BY DEF Artists!OneProfile, Artists!Own, Artists!Live
  <2>1. CASE b = a
    <3>1. profile[c].owner = u /\ profile[c].state = "live" /\ u # NoUser
      BY <1>1, <2>1 DEF ArtistsIInv, Owned, Artists!Live
    <3> QED
      BY <2>1, <3>1 DEF Artists!Own, Artists!Live
  <2>2. CASE c = a
    <3>1. profile[b].owner = u /\ profile[b].state = "live" /\ u # NoUser
      BY <1>1, <2>2
    <3> QED
      BY <2>2, <3>1 DEF Artists!Own, Artists!Live
  <2>3. CASE b # a /\ c # a
    BY <1>1, <2>3 DEF ArtistsIInv, Artists!OneProfile, Artists!Own, Artists!Live
  <2> QED
    BY <2>1, <2>2, <2>3
<1>4. ASSUME NEW v \in Users, v # u, v # profile[a].owner PROVE Artists!Own(v)' = Artists!Own(v)
  BY <1>1, <1>4 DEF Artists!Own, Artists!Live
<1> QED
  BY <1>1, <1>2, <1>3, <1>4 DEF Artists!Own, Artists!Live

LEMMA ArtistsProvisionKept == ASSUME ArtistsIInv, ArtistBounds, NEW q \in Senders, Artists!Provision(q) PROVE ArtistsIInv'
<1>1. PICK u \in Users : u = decide[q].user
  BY DEF ArtistsIInv, Sane, Artists!Provision, Artists!At
<1>2. Artists!TypeOK /\ decide \in [Senders -> Artists!Request] /\ decide[q].pc = "provision"
  BY DEF ArtistsIInv, Artists!TypeOK, Artists!Provision, Artists!At
<1>3. PICK a \in Artists!Candidates(u) :
         /\ profile' = [profile EXCEPT ![a] = [state |-> "live", owner |-> u]]
         /\ submission' = [submission EXCEPT ![u].claim = a]
         /\ excused' = excused \ {u}
  BY <1>1 DEF Artists!Provision, Artists!User
<1>4. UNCHANGED <<inserted, decision, undone, edits, stops>> /\ Artists!End(q)
  BY DEF Artists!Provision
<1>5. a \in Verifiers /\ profile[a].owner \in {NoUser, u} /\ Artists!Own(u) \subseteq {a}
  BY CandidateFree
<1>6. /\ profile' \in [Verifiers -> Profile] /\ Owned' /\ Artists!OneProfile' /\ a \in Artists!Own(u)'
      /\ \A v \in Users \ {u} : Artists!Own(v)' = Artists!Own(v)
  BY <1>3, <1>5, Given DEF ArtistBounds
<1>7. PICK row : row = [submission[u] EXCEPT !.claim = a]
  OBVIOUS
<1>8. row \in Artists!Submission /\ row.no = submission[u].no /\ row.status = submission[u].status /\ row.claim = a
  BY <1>2, <1>5, <1>7 DEF Artists!TypeOK, Artists!Submission
<1>9. /\ submission' \in [Users -> Artists!Submission]
      /\ submission'[u] = row /\ \A v \in Users \ {u} : submission'[v] = submission[v]
  BY <1>2, <1>3, <1>7, <1>8, Written
<1>10. /\ decide' \in [Senders -> Artists!Request]
       /\ decide'[q].pc = "idle" /\ \A o \in Senders \ {q} : decide'[o] = decide[o]
  BY <1>2, <1>4, Ends DEF ArtistBounds
<1>11. Artists!TypeOK'
  BY <1>2, <1>3, <1>4, <1>6, <1>9, <1>10 DEF Artists!TypeOK, Profile
<1>12. ASSUME NEW o \in Senders PROVE Sane(o)' /\ Told(o)'
  <2>1. CASE o = q
    BY <1>10, <2>1 DEF Sane, Told
  <2>2. CASE o # q
    <3>1. Sane(o) /\ Told(o) /\ decide'[o] = decide[o]
      BY <1>10, <2>2 DEF ArtistsIInv
    <3>2. Sane(o)'
      BY <1>4, <3>1 DEF Sane
    <3>3. decide[o].pc = "edit" => /\ submission'[decide[o].user].status = submission[decide[o].user].status
                                   /\ submission'[decide[o].user].no = submission[decide[o].user].no
      BY <1>8, <1>9, <3>1 DEF Sane
    <3> QED
      BY <1>4, <3>1, <3>2, <3>3 DEF Told
  <2> QED
    BY <2>1, <2>2
<1>13. ASSUME NEW v \in Users PROVE Numbered(v)' /\ Linked(v)'
  <2>1. CASE v = u
    BY <1>4, <1>6, <1>8, <1>9, <2>1 DEF ArtistsIInv, Numbered, Linked
  <2>2. CASE v # u
    <3>1. submission'[v] = submission[v] /\ Artists!Own(v)' = Artists!Own(v) /\ (v \notin excused' => v \notin excused)
      BY <1>3, <1>6, <1>9, <2>2
    <3>2. Awaited(v) => Awaited(v)'
      BY <1>1, <1>10, <2>2, <3>1 DEF Awaited
    <3> QED
      BY <1>4, <3>1, <3>2 DEF ArtistsIInv, Numbered, Linked
  <2> QED
    BY <2>1, <2>2
<1>14. Artists!DecisionKept'
  BY <1>4, <1>8, <1>9 DEF ArtistsIInv, Artists!DecisionKept
<1> QED
  BY <1>6, <1>11, <1>12, <1>13, <1>14 DEF ArtistsIInv
LEMMA SaveProfileKept == ASSUME ArtistsIInv, ArtistBounds, NEW q \in Senders, Artists!SaveProfile(q) PROVE ArtistsIInv'
<1>1. /\ Artists!TypeOK /\ decide \in [Senders -> Artists!Request] /\ decide[q].pc = "profile" /\ decide[q] \in Artists!Request
      /\ decide[q].profile \in Verifiers /\ decide[q].owner \in Users \cup {NoUser}
      /\ UNCHANGED <<submission, inserted, decision, undone, edits, stops>> /\ Artists!End(q)
  BY ArtistsRequestFields DEF ArtistsIInv, Artists!TypeOK, Sane, Artists!SaveProfile, Artists!At
<1>2. PICK a \in Verifiers, u \in Users \cup {NoUser} : a = decide[q].profile /\ u = decide[q].owner
  BY <1>1
<1>3. /\ decide' \in [Senders -> Artists!Request]
      /\ decide'[q].pc = "idle" /\ \A o \in Senders \ {q} : decide'[o] = decide[o]
  BY <1>1, Ends DEF ArtistBounds
<1>4. ASSUME NEW o \in Senders PROVE Sane(o)' /\ Told(o)'
  <2>1. CASE o = q
    BY <1>3, <2>1 DEF Sane, Told
  <2>2. CASE o # q
    <3>1. decide'[o] = decide[o] /\ Sane(o) /\ Told(o)
      BY <1>3, <2>2 DEF ArtistsIInv
    <3> QED
      BY <1>1, <3>1 DEF Sane, Told
  <2> QED
    BY <2>1, <2>2
<1>5. ASSUME NEW v \in Users PROVE Awaited(v) => Awaited(v)'
  BY <1>1, <1>3, AwaitedStays
<1>6. CASE UNCHANGED <<profile, excused>>
  <2>1. Sane(q)' /\ Told(q)' /\ excused' \subseteq Users /\ edits' \in 0..MaxEdits /\ stops' \in 0..MaxStops
    BY <1>1, <1>4, <1>6 DEF Artists!TypeOK
  <2>2. \A v \in Users : Awaited(v) => Awaited(v)'
    BY <1>5
  <2> QED
    BY <1>1, <1>3, <1>6, <2>1, <2>2, OnlyTurn
<1>7. CASE /\ u = NoUser \/ Artists!Own(u) \subseteq {a}
           /\ profile' = [profile EXCEPT ![a] = [state |-> "live", owner |-> u]]
           /\ excused' = IF u = profile[a].owner THEN excused ELSE excused \cup ({u, profile[a].owner} \ {NoUser})
  <2>1. /\ profile' \in [Verifiers -> Profile] /\ profile'[a].owner = u /\ profile'[a].state = "live"
        /\ \A b \in Verifiers \ {a} : profile'[b] = profile[b]
        /\ Owned' /\ Artists!OneProfile'
        /\ \A v \in Users : v # u /\ v # profile[a].owner => Artists!Own(v)' = Artists!Own(v)
    BY <1>7, Given
  <2>2. profile[a].owner \in Users \cup {NoUser}
    BY <1>1 DEF Artists!TypeOK
  <2>3. Artists!TypeOK'
    BY <1>1, <1>3, <1>7, <2>1, <2>2 DEF Artists!TypeOK, Profile
  <2>4. ASSUME NEW v \in Users, v \notin excused' PROVE v \notin excused /\ \A b \in Artists!Own(v) : b \in Artists!Own(v)'
    <3>1. CASE u # profile[a].owner
      BY <1>7, <2>1, <2>4, <3>1 DEF ArtistBounds
    <3>2. CASE u = profile[a].owner
      BY <1>7, <2>1, <2>4, <3>2 DEF Artists!Own, Artists!Live
    <3> QED
      BY <3>1, <3>2
  <2>5. ASSUME NEW v \in Users PROVE Numbered(v)' /\ Linked(v)'
    BY <1>1, <1>5, <2>4 DEF ArtistsIInv, Numbered, Linked
  <2>6. Artists!DecisionKept'
    BY <1>1 DEF ArtistsIInv, Artists!DecisionKept
  <2> QED
    BY <1>4, <2>1, <2>3, <2>5, <2>6 DEF ArtistsIInv
<1> QED
  BY <1>2, <1>6, <1>7 DEF Artists!SaveProfile

LEMMA DeleteProfileKept == ASSUME ArtistsIInv, ArtistBounds, NEW a \in Verifiers, Artists!DeleteProfile(a) PROVE ArtistsIInv'
<1>1. /\ Artists!TypeOK /\ UNCHANGED <<inserted, decide, decision, undone, stops>> /\ edits' \in 0..MaxEdits
      /\ profile' = [profile EXCEPT ![a] = [state |-> "gone", owner |-> NoUser]]
      /\ submission' = [u \in Users |-> [submission[u] EXCEPT !.claim = IF @ = a THEN NoProfile ELSE @]]
      /\ excused' = excused \cup ({profile[a].owner} \ {NoUser})
      /\ profile[a].owner \in Users \cup {NoUser}
  BY DEF ArtistsIInv, Artists!DeleteProfile, Artists!TypeOK, ArtistBounds
<1>2. ASSUME NEW u \in Users
      PROVE  /\ submission'[u] \in Artists!Submission /\ submission'[u].no = submission[u].no
             /\ submission'[u].status = submission[u].status
             /\ submission'[u].claim = IF submission[u].claim = a THEN NoProfile ELSE submission[u].claim
  <2>1. submission[u] \in Artists!Submission
    BY <1>1 DEF Artists!TypeOK
  <2>2. PICK b \in Verifiers \cup {NoProfile} : b = IF submission[u].claim = a THEN NoProfile ELSE submission[u].claim
    BY <2>1, ArtistsRowFields
  <2>3. submission'[u] = [submission[u] EXCEPT !.claim = b]
    BY <1>1, <2>1, <2>2
  <2> QED
    BY <2>1, <2>2, <2>3 DEF Artists!Submission
<1>3. /\ profile' \in [Verifiers -> Profile] /\ profile'[a].owner = NoUser /\ profile'[a].state = "gone"
      /\ \A b \in Verifiers \ {a} : profile'[b] = profile[b]
  BY <1>1 DEF Artists!TypeOK, Profile
<1>4. submission' \in [Users -> Artists!Submission]
  BY <1>1, <1>2
<1>5. Artists!TypeOK'
  BY <1>1, <1>3, <1>4 DEF Artists!TypeOK, Profile
<1>6. ASSUME NEW o \in Senders PROVE Sane(o)' /\ Told(o)'
  <2>1. Sane(o) /\ Told(o)
    BY DEF ArtistsIInv
  <2>2. Sane(o)'
    BY <1>1, <2>1 DEF Sane
  <2>3. decide[o].pc = "edit" => /\ submission'[decide[o].user].status = submission[decide[o].user].status
                                 /\ submission'[decide[o].user].no = submission[decide[o].user].no
    BY <1>2, <2>1 DEF Sane
  <2> QED
    BY <1>1, <2>1, <2>2, <2>3 DEF Told
<1>7. ASSUME NEW u \in Users PROVE Numbered(u)' /\ Linked(u)'
  <2>1. Numbered(u)'
    BY <1>1, <1>2 DEF ArtistsIInv, Numbered
  <2>2. Awaited(u) => Awaited(u)'
    BY <1>1, <1>2 DEF Awaited
  <2>3. CASE u = profile[a].owner
    BY <1>1, <2>1, <2>3 DEF Linked, ArtistBounds
  <2>4. CASE u # profile[a].owner
    <3>1. Artists!Own(u)' = Artists!Own(u) /\ a \notin Artists!Own(u)
      <4>1. \A b \in Verifiers : b \in Artists!Own(u)' <=> b \in Artists!Own(u)
        BY <1>3, <2>4 DEF Artists!Own, Artists!Live, ArtistBounds
      <4> QED
        BY <2>4, <4>1 DEF Artists!Own
    <3> QED
      BY <1>1, <1>2, <2>1, <2>2, <3>1 DEF ArtistsIInv, Linked
  <2> QED
    BY <2>3, <2>4
<1>8. Owned' /\ Artists!OneProfile'
  BY <1>3 DEF ArtistsIInv, Owned, Artists!OneProfile, Artists!Own, Artists!Live, ArtistBounds
<1>9. Artists!DecisionKept'
  BY <1>1, <1>2 DEF ArtistsIInv, Artists!DecisionKept
<1> QED
  BY <1>5, <1>6, <1>7, <1>8, <1>9 DEF ArtistsIInv

-----------------------------------------------------------------------------
LEMMA ArtistsStepKept == ASSUME ArtistBounds, ArtistsIInv, Artists!Next \/ UNCHANGED Artists!vars PROVE ArtistsIInv'
<1>1. ASSUME NEW q \in Senders, NEW u \in Users,
             \/ \E type \in {"fresh", "existing"}, a \in {b \in Verifiers : Artists!Live(b)} \cup {NoProfile} :
                  Artists!Submit(q, u, type, a) \/ Artists!Edit(q, u, type, a)
             \/ \E status \in Artists!Statuses \cup {Artists!Keep}, verified \in BOOLEAN : Artists!Decide(q, u, status, verified)
             \/ Artists!EditOwnProfile(q, u)
      PROVE  ArtistsIInv'
  BY <1>1, SubmitKept, EditKept, DecideKept, EditOwnProfileKept
<1>2. ASSUME NEW q \in Senders,
             \/ Artists!Create(q) \/ Artists!SaveEdit(q) \/ Artists!Check(q) \/ Artists!SaveDecision(q)
             \/ Artists!Provision(q) \/ Artists!Decline(q) \/ Artists!Refuse(q) \/ Artists!Lose(q) \/ Artists!SaveProfile(q)
      PROVE  ArtistsIInv'
  BY <1>2, CreateKept, SaveEditKept, CheckKept, SaveDecisionKept, ArtistsProvisionKept, DeclineKept, RefuseKept,
     LoseKept, SaveProfileKept
<1>3. ASSUME NEW q \in Senders, NEW a \in Verifiers, NEW owner \in Users \cup {NoUser, Artists!Keep}, Artists!EditProfile(q, a, owner)
      PROVE  ArtistsIInv'
  BY <1>3, EditProfileKept
<1>4. CASE UNCHANGED Artists!vars
  BY <1>4 DEF Artists!vars, ArtistsIInv, Artists!TypeOK, Sane, Told, Numbered, Linked, Awaited, Owned,
     Artists!DecisionKept, Artists!OneProfile, Artists!Own, Artists!Live
<1> QED
  BY <1>1, <1>2, <1>3, <1>4, DeleteSubmissionKept, DeleteProfileKept DEF Artists!Next

(* The decision stands whoever saves an old copy, the accepted artist has the  *)
(* profile once the callback has run.                                         *)
LEMMA AcceptedAreLinked == ArtistsIInv => Artists!AcceptedLinked
BY DEF ArtistsIInv, Linked, Awaited, Artists!AcceptedLinked, Artists!At, Artists!User

(* An owner loses a profile by an edit or a deletion of the profile only.      *)
LEMMA NoneDisowned == ASSUME ArtistBounds, ArtistsIInv, Artists!Next \/ UNCHANGED Artists!vars PROVE Artists!OwnerStays
<1> SUFFICES ASSUME NEW a \in Verifiers, profile[a].owner # NoUser, profile'[a].owner # profile[a].owner,
                    profile'[a].state # "gone",
                    \A q \in Senders : ~(Artists!At(q, "profile") /\ decide[q].profile = a)
             PROVE  FALSE
  BY DEF Artists!OwnerStays
<1>1. profile' # profile
  OBVIOUS
<1>2. CASE \E q \in Senders : Artists!Provision(q)
  <2>1. PICK q \in Senders : Artists!Provision(q)
    BY <1>2
  <2>2. PICK u \in Users : u = decide[q].user
    BY <2>1 DEF ArtistsIInv, Sane, Artists!Provision, Artists!At
  <2>3. PICK b \in Artists!Candidates(u) : profile' = [profile EXCEPT ![b] = [state |-> "live", owner |-> u]]
    BY <2>1, <2>2 DEF Artists!Provision, Artists!User
  <2>4. b \in Verifiers /\ profile[b].owner \in {NoUser, u} /\ profile'[b].owner = u
    BY <2>3, CandidateFree DEF ArtistsIInv, Artists!TypeOK
  <2>5. a = b
    BY <2>3 DEF ArtistsIInv, Artists!TypeOK
  <2> QED
    BY <2>4, <2>5
<1>3. CASE \E q \in Senders : Artists!SaveProfile(q)
  <2>1. PICK q \in Senders : Artists!SaveProfile(q)
    BY <1>3
  <2>2. decide[q].profile # a /\ decide[q].profile \in Verifiers
    BY <2>1 DEF Artists!SaveProfile, Artists!At, ArtistsIInv, Sane
  <2> QED
    BY <1>1, <2>1, <2>2 DEF Artists!SaveProfile, ArtistsIInv, Artists!TypeOK
<1>4. CASE \E b \in Verifiers : Artists!DeleteProfile(b)
  BY <1>4 DEF Artists!DeleteProfile, ArtistsIInv, Artists!TypeOK
<1>5. (\E q \in Senders : Artists!Provision(q) \/ Artists!SaveProfile(q)) \/ \E b \in Verifiers : Artists!DeleteProfile(b)
  BY <1>1 DEF Artists!Next, Artists!vars, Artists!Submit, Artists!Edit, Artists!Decide,
     Artists!EditOwnProfile, Artists!EditProfile, Artists!Begin, Artists!Create, Artists!SaveEdit,
     Artists!Check,
     Artists!SaveDecision, Artists!Decline, Artists!Refuse, Artists!Lose, Artists!DeleteSubmission
<1> QED
  BY <1>2, <1>3, <1>4, <1>5

-----------------------------------------------------------------------------
(* Files and the rows that name them.                                        *)

MediaBounds == MaxNames \in Nat \ {0} /\ MaxUploads \in Nat /\ MaxStops \in Nat

Making == {"upload", "create", "admin_create"}

(* What a request has at each of its steps.                                    *)
Shape(q) ==
    /\ Media!At(q, "idle") => upload[q] = Media!Idle
    /\ Media!At(q, "put") => upload[q].file \in Media!Names
    /\ Media!At(q, "save") /\ Media!Is(q, Making \cup {"edit"}) => upload[q].file \in Media!Names
    /\ upload[q].pc \notin {"put", "save"} => upload[q].file = Media!NoName
    /\ upload[q].pc \in {"check", "clean"} => upload[q].read.name \in Media!Names
    /\ upload[q].pc \in {"name", "put", "save"} /\ ~Media!Is(q, Making) => upload[q].read.name \in Media!Names
    /\ Media!Is(q, {"copy"}) => upload[q].file = Media!NoName /\ ~upload[q].read.own /\ Media!At(q, "save")
    /\ Media!Is(q, {"none"}) => Media!At(q, "idle")
    /\ upload[q].pc \in {"claim", "report"} => Media!Is(q, {"upload"})

Named(s) == Media!Present(s) => recording[s].name \in Media!Names

Base == Media!TypeOK /\ (\A q \in Senders : Shape(q)) /\ (\A s \in Verifiers : Named(s))

-----------------------------------------------------------------------------
LEMMA Numbers ==
    ASSUME MediaBounds
    PROVE  /\ Media!NoName \notin Media!Names /\ Media!NoBytes \notin Media!Uploads /\ 0 \in Media!Names /\ 0 \in Media!Uploads
           /\ Media!Names \subseteq Nat /\ Media!Uploads \subseteq Nat
BY DEF MediaBounds, Media!NoName, Media!NoBytes, Media!Names, Media!Uploads

LEMMA MediaRowFields ==
    ASSUME NEW row \in Media!Row
    PROVE  row.name \in Media!Names \cup {Media!NoName} /\ row.meant \in Media!Uploads /\ row.own \in BOOLEAN
BY DEF Media!Row

LEMMA NoRowTyped == ASSUME MediaBounds PROVE Media!NoRow \in Media!Row /\ Media!NoRow.name = Media!NoName /\ ~Media!NoRow.own
BY Numbers DEF Media!NoRow, Media!Row

LEMMA MediaIdleTyped == ASSUME MediaBounds PROVE Media!Idle \in Media!Request
BY Numbers, NoRowTyped DEF Media!Idle, Media!Request, Media!Kinds

LEMMA IdleHas == Media!Idle.pc = "idle" /\ Media!Idle.kind = "none" /\ Media!Idle.of = {} /\ Media!Idle.read = Media!NoRow /\ Media!Idle.file = Media!NoName
BY DEF Media!Idle

LEMMA MediaRequestFields ==
    ASSUME NEW r \in Media!Request
    PROVE  /\ r.kind \in Media!Kinds /\ r.of \subseteq Verifiers /\ r.read \in Media!Row /\ r.file \in Media!Names \cup {Media!NoName}
           /\ r.bytes \in Media!Uploads
           /\ r.pc \in {"idle", "claim", "name", "put", "save", "report", "check", "clean"}
BY DEF Media!Request

(* A request goes on, and the others do not.                                   *)
Turns(q, r) ==
    upload' \in [Senders -> Media!Request] /\ upload'[q] = r /\ \A o \in Senders \ {q} : upload'[o] = upload[o]

LEMMA Going ==
    ASSUME Media!TypeOK, NEW q \in Senders, NEW r \in Media!Request, Media!Go(q, r)
    PROVE  Turns(q, r)
BY DEF Media!TypeOK, Media!Go, Turns

Made(pc, kind, S, row, file, bytes) ==
    [pc |-> pc, kind |-> kind, of |-> S, read |-> row, file |-> file, bytes |-> bytes]

LEMMA MadeTyped ==
    ASSUME NEW pc \in {"idle", "claim", "name", "put", "save", "report", "check", "clean"}, NEW kind \in Media!Kinds,
           NEW S \in SUBSET Verifiers, NEW row \in Media!Row, NEW file \in Media!Names \cup {Media!NoName}, NEW bytes \in Media!Uploads
    PROVE  Made(pc, kind, S, row, file, bytes) \in Media!Request
BY DEF Made, Media!Request

LEMMA MadeHas ==
    ASSUME NEW pc, NEW kind, NEW S, NEW row, NEW file, NEW bytes
    PROVE  /\ Made(pc, kind, S, row, file, bytes).pc = pc /\ Made(pc, kind, S, row, file, bytes).kind = kind
           /\ Made(pc, kind, S, row, file, bytes).of = S /\ Made(pc, kind, S, row, file, bytes).read = row
           /\ Made(pc, kind, S, row, file, bytes).file = file /\ Made(pc, kind, S, row, file, bytes).bytes = bytes
BY DEF Made

(* What each step makes of its request.                                        *)
LEMMA BeginsTurn ==
    ASSUME MediaBounds, Media!TypeOK, NEW q \in Senders, NEW kind \in Media!Kinds, NEW pc \in {"claim", "name", "save"},
           NEW S \in SUBSET Verifiers, NEW row \in Media!Row, Media!Begins(q, kind, pc, S, row)
    PROVE  /\ Turns(q, Made(pc, kind, S, row, Media!NoName, uploads + 1)) /\ Media!At(q, "idle")
           /\ uploads' \in 0..MaxUploads /\ UNCHANGED <<stored, recording, uploadState, clash, stale, lapsed, leaked, mediaStops>>
<1>1. uploads + 1 \in Media!Uploads /\ uploads' = uploads + 1
  BY DEF Media!Begins, Media!TypeOK, Media!Uploads, MediaBounds
<1>2. Made(pc, kind, S, row, Media!NoName, uploads + 1) \in Media!Request
  BY <1>1, MadeTyped
<1>3. Media!Go(q, Made(pc, kind, S, row, Media!NoName, uploads + 1))
  BY DEF Media!Begins, Made
<1> QED
  BY <1>1, <1>2, <1>3, Going DEF Media!Begins, Media!Uploads

LEMMA StepTurn ==
    ASSUME Media!TypeOK, NEW q \in Senders, NEW pc \in {"name", "clean", "save"}, Media!Go(q, [upload[q] EXCEPT !.pc = pc])
    PROVE  Turns(q, Made(pc, upload[q].kind, upload[q].of, upload[q].read, upload[q].file, upload[q].bytes))
<1>1. upload[q] \in Media!Request
  BY DEF Media!TypeOK
<1>2. [upload[q] EXCEPT !.pc = pc]
        = Made(pc, upload[q].kind, upload[q].of, upload[q].read, upload[q].file, upload[q].bytes)
  BY <1>1 DEF Made, Media!Request
<1>3. Made(pc, upload[q].kind, upload[q].of, upload[q].read, upload[q].file, upload[q].bytes) \in Media!Request
  BY <1>1, MediaRequestFields, MadeTyped
<1> QED
  BY <1>2, <1>3, Going

LEMMA ChooseTurn ==
    ASSUME MediaBounds, Media!TypeOK, NEW q \in Senders, Media!Choose(q)
    PROVE  \E n \in Media!Names :
             /\ Media!Free(n) /\ clash' = (clash \/ n \in Media!Known(q))
             /\ Turns(q, Made("put", upload[q].kind, upload[q].of, upload[q].read, n, upload[q].bytes))
<1>1. upload[q] \in Media!Request
  BY DEF Media!TypeOK
<1>2. PICK n \in Media!Names : /\ Media!Free(n) /\ Media!Go(q, [upload[q] EXCEPT !.pc = "put", !.file = n])
                               /\ clash' = (clash \/ n \in Media!Known(q))
  BY DEF Media!Choose
<1>3. PICK r : r = [upload[q] EXCEPT !.pc = "put", !.file = n]
  OBVIOUS
<1>4. r = Made("put", upload[q].kind, upload[q].of, upload[q].read, n, upload[q].bytes)
  BY <1>1, <1>3 DEF Made, Media!Request
<1>5. Media!Go(q, r)
  BY <1>2, <1>3
<1>6. Made("put", upload[q].kind, upload[q].of, upload[q].read, n, upload[q].bytes) \in Media!Request
  BY <1>1, MediaRequestFields, MadeTyped
<1> QED
  BY <1>2, <1>4, <1>6, <1>5, Going

LEMMA RestTurn == ASSUME MediaBounds, Media!TypeOK, NEW q \in Senders, Media!Go(q, Media!Idle) PROVE Turns(q, Media!Idle)
BY MediaIdleTyped, Going

LEMMA ReportTurn ==
    ASSUME MediaBounds, Media!TypeOK, NEW q \in Senders, Media!Go(q, [Media!Idle EXCEPT !.pc = "report", !.kind = "upload"])
    PROVE  Turns(q, Made("report", "upload", {}, Media!NoRow, Media!NoName, 0))
<1>1. PICK r : r = [Media!Idle EXCEPT !.pc = "report", !.kind = "upload"]
  OBVIOUS
<1>2. r = Made("report", "upload", {}, Media!NoRow, Media!NoName, 0)
  BY <1>1 DEF Made, Media!Idle
<1>3. Media!Go(q, r)
  BY <1>1
<1>4. Made("report", "upload", {}, Media!NoRow, Media!NoName, 0) \in Media!Request
  BY MadeTyped, NoRowTyped, Numbers DEF Media!Kinds
<1> QED
  BY <1>4, <1>2, <1>3, Going

LEMMA CheckTurn ==
    ASSUME MediaBounds, Media!TypeOK, NEW q \in Senders, NEW kind \in {"edit", "delete"}, NEW row \in Media!Row,
           Media!Go(q, [Media!Idle EXCEPT !.pc = "check", !.kind = kind, !.read = row])
    PROVE  Turns(q, Made("check", kind, {}, row, Media!NoName, 0))
<1>1. PICK r : r = [Media!Idle EXCEPT !.pc = "check", !.kind = kind, !.read = row]
  OBVIOUS
<1>2. r = Made("check", kind, {}, row, Media!NoName, 0)
  BY <1>1 DEF Made, Media!Idle
<1>3. Media!Go(q, r)
  BY <1>1
<1>4. Made("check", kind, {}, row, Media!NoName, 0) \in Media!Request
  BY MadeTyped, Numbers DEF Media!Kinds
<1> QED
  BY <1>4, <1>2, <1>3, Going

(* The rows written are rows.                                                  *)
LEMMA UploadedRow ==
    ASSUME MediaBounds, Media!TypeOK, NEW q \in Senders
    PROVE  /\ Media!Uploaded(q) \in Media!Row /\ Media!Uploaded(q).name = upload[q].file /\ Media!Uploaded(q).meant = upload[q].bytes
           /\ Media!Uploaded(q).own <=> Media!Is(q, {"upload"})
           /\ \A b \in BOOLEAN : /\ [Media!Uploaded(q) EXCEPT !.own = b] \in Media!Row
                                 /\ [Media!Uploaded(q) EXCEPT !.own = b].name = upload[q].file
                                 /\ [Media!Uploaded(q) EXCEPT !.own = b].meant = upload[q].bytes
                                 /\ [Media!Uploaded(q) EXCEPT !.own = b].own = b
<1>1. upload[q].file \in Media!Names \cup {Media!NoName} /\ upload[q].bytes \in Media!Uploads /\ Media!Is(q, {"upload"}) \in BOOLEAN
  BY MediaRequestFields DEF Media!TypeOK, Media!Is
<1> QED
  BY <1>1 DEF Media!Uploaded, Media!Row

LEMMA RowWritten ==
    ASSUME Media!TypeOK, NEW s \in Verifiers, NEW row \in Media!Row, recording' = [recording EXCEPT ![s] = row]
    PROVE  recording' \in [Verifiers -> Media!Row] /\ recording'[s] = row /\ \A o \in Verifiers \ {s} : recording'[o] = recording[o]
BY DEF Media!TypeOK

LEMMA BytesWritten ==
    ASSUME Media!TypeOK, NEW n \in Media!Names, NEW b \in Media!Uploads \cup {Media!NoBytes}, stored' = [stored EXCEPT ![n] = b]
    PROVE  /\ stored' \in [Media!Names -> Media!Uploads \cup {Media!NoBytes}]
           /\ stored'[n] = b /\ \A m \in Media!Names \ {n} : stored'[m] = stored[m]
BY DEF Media!TypeOK
-----------------------------------------------------------------------------
(* Types, and the shape of requests.                                          *)
LEMMA ShapesKept ==
    ASSUME Base, NEW q \in Senders, NEW r, Turns(q, r), Shape(q)'
    PROVE  \A o \in Senders : Shape(o)'
<1> SUFFICES ASSUME NEW o \in Senders, o # q PROVE Shape(o)'
  OBVIOUS
<1>1. Shape(o) /\ upload'[o] = upload[o]
  BY DEF Base, Turns
<1> QED
  BY <1>1 DEF Shape, Media!At, Media!Is

LEMMA RestShape == ASSUME NEW q \in Senders, Turns(q, Media!Idle) PROVE Shape(q)'
BY IdleHas DEF Turns, Shape, Media!At, Media!Is, Making

LEMMA NamesKept ==
    ASSUME Base, NEW s \in Verifiers, NEW row, row = Media!NoRow \/ row.name \in Media!Names,
           recording'[s] = row, \A o \in Verifiers \ {s} : recording'[o] = recording[o]
    PROVE  \A o \in Verifiers : Named(o)'
BY DEF Base, Named, Media!Present

LEMMA BaseFirst == ASSUME MediaBounds, Media!Init PROVE Base
<1>1. Media!TypeOK
  <2>1. PICK s \in Verifiers : recording = [o \in Verifiers |-> IF o = s THEN [name |-> 0, meant |-> 0, own |-> FALSE] ELSE Media!NoRow]
    BY DEF Media!Init
  <2>2. [name |-> 0, meant |-> 0, own |-> FALSE] \in Media!Row
    BY Numbers DEF Media!Row
  <2>3. recording \in [Verifiers -> Media!Row]
    BY <2>1, <2>2, NoRowTyped
  <2>4. stored \in [Media!Names -> Media!Uploads \cup {Media!NoBytes}]
    BY Numbers DEF Media!Init
  <2>5. upload \in [Senders -> Media!Request] /\ uploadState \in Media!States
    BY MediaIdleTyped DEF Media!Init, Media!States
  <2>6. clash \in BOOLEAN /\ stale \in BOOLEAN /\ lapsed \in BOOLEAN /\ leaked \in BOOLEAN
    BY Zenon DEF Media!Init
  <2>7. uploads \in 0..MaxUploads /\ mediaStops \in 0..MaxStops
    <3>1. uploads = 0 /\ mediaStops = 0
      BY DEF Media!Init
    <3> QED
      BY <3>1 DEF MediaBounds
  <2> QED
    BY <2>3, <2>4, <2>5, <2>6, <2>7 DEF Media!TypeOK
<1>2. \A q \in Senders : Shape(q)
  <2>1. \A q \in Senders : upload[q] = Media!Idle
    BY DEF Media!Init
  <2> QED
    BY <2>1, IdleHas DEF Shape, Media!At, Media!Is, Making
<1>3. \A s \in Verifiers : Named(s)
  BY Numbers DEF Media!Init, Named, Media!Present
<1> QED
  BY <1>1, <1>2, <1>3 DEF Base

LEMMA BaseBegins ==
    ASSUME MediaBounds, Base, NEW q \in Senders, NEW kind \in Media!Kinds \ {"none"}, NEW pc \in {"claim", "name", "save"},
           NEW S \in SUBSET Verifiers, NEW row \in Media!Row, Media!Begins(q, kind, pc, S, row),
           pc = "claim" => kind = "upload",
           kind \in Making => pc \in {"claim", "name"},
           kind \notin Making => row.name \in Media!Names,
           kind = "copy" => pc = "save" /\ ~row.own,
           pc = "save" => kind \in {"admin_edit", "copy"}
    PROVE  Base'
<1>1. /\ Turns(q, Made(pc, kind, S, row, Media!NoName, uploads + 1))
      /\ uploads' \in 0..MaxUploads /\ UNCHANGED <<stored, recording, uploadState, clash, stale, lapsed, leaked, mediaStops>>
  BY BeginsTurn DEF Base
<1>2. Shape(q)'
  BY <1>1, MadeHas DEF Turns, Shape, Media!At, Media!Is, Making
<1>3. \A o \in Senders : Shape(o)'
  BY <1>1, <1>2, ShapesKept
<1>4. Media!TypeOK'
  BY <1>1 DEF Base, Media!TypeOK, Turns
<1> QED
  BY <1>1, <1>3, <1>4 DEF Base, Named, Media!Present

LEMMA BaseBeginnings ==
    ASSUME MediaBounds, Base, NEW q \in Senders,
           Media!Upload(q) \/ Media!Create(q) \/ Media!AdminCreate(q) \/ \E s \in Verifiers : Media!Edit(q, s) \/ Media!AdminEdit(q, s) \/ Media!Copy(q, s)
    PROVE  Base'
<1>1. CASE Media!Upload(q) \/ Media!Create(q) \/ Media!AdminCreate(q)
  BY <1>1, BaseBegins, NoRowTyped DEF Media!Upload, Media!Create, Media!AdminCreate, Media!Kinds, Making
<1>2. ASSUME NEW s \in Verifiers, Media!Edit(q, s) \/ Media!AdminEdit(q, s) \/ Media!Copy(q, s) PROVE Base'
  <2>1. recording[s] \in Media!Row /\ recording[s].name \in Media!Names
    BY <1>2 DEF Base, Media!TypeOK, Named, Media!Edit, Media!AdminEdit, Media!Copy
  <2>2. CASE Media!Edit(q, s) \/ Media!AdminEdit(q, s)
    BY <2>1, <2>2, BaseBegins DEF Media!Edit, Media!AdminEdit, Media!Kinds, Making
  <2>3. CASE Media!Copy(q, s)
    <3>1. PICK row : row = [recording[s] EXCEPT !.own = FALSE]
      OBVIOUS
    <3>2. row \in Media!Row /\ row.name = recording[s].name /\ ~row.own
      BY <2>1, <3>1 DEF Media!Row
    <3>3. Media!Begins(q, "copy", "save", {}, row)
      BY <2>3, <3>1 DEF Media!Copy
    <3> QED
      BY <2>1, <3>2, <3>3, BaseBegins DEF Media!Kinds, Making
  <2> QED
    BY <1>2, <2>2, <2>3
<1> QED
  BY <1>1, <1>2

LEMMA BaseRests ==
    ASSUME MediaBounds, Base, NEW q \in Senders, Media!Go(q, Media!Idle), stored' \in [Media!Names -> Media!Uploads \cup {Media!NoBytes}],
           uploadState' \in Media!States, clash' \in BOOLEAN, stale' \in BOOLEAN, lapsed' \in BOOLEAN, leaked' \in BOOLEAN,
           uploads' \in 0..MaxUploads, mediaStops' \in 0..MaxStops, recording' \in [Verifiers -> Media!Row], \A s \in Verifiers : Named(s)'
    PROVE  Base'
<1>1. Turns(q, Media!Idle)
  BY RestTurn DEF Base
<1>2. \A o \in Senders : Shape(o)'
  BY <1>1, RestShape, ShapesKept
<1> QED
  BY <1>1, <1>2 DEF Base, Media!TypeOK, Turns

LEMMA BaseGoes ==
    ASSUME MediaBounds, Base, NEW q \in Senders, Media!Claim(q) \/ Media!Choose(q) \/ Media!Put(q) \/ Media!Check(q)
    PROVE  Base'
<1>1. Media!TypeOK /\ Shape(q) /\ upload[q] \in Media!Request /\ UNCHANGED <<recording, uploads, mediaStops>>
  BY DEF Base, Media!TypeOK, Media!Claim, Media!Choose, Media!Put, Media!Check
<1>2. \A s \in Verifiers : Named(s)'
  BY <1>1 DEF Base, Named, Media!Present
<1>3. CASE Media!Claim(q)
  <2>1. Turns(q, Made("name", upload[q].kind, upload[q].of, upload[q].read, upload[q].file, upload[q].bytes))
    BY <1>1, <1>3, StepTurn DEF Media!Claim
  <2>2. Shape(q)'
    BY <1>1, <1>3, <2>1, MadeHas DEF Media!Claim, Turns, Shape, Media!At, Media!Is, Making
  <2>3. \A o \in Senders : Shape(o)'
    BY <2>1, <2>2, ShapesKept
  <2> QED
    BY <1>1, <1>2, <1>3, <2>1, <2>3 DEF Base, Media!TypeOK, Turns, Media!Claim, Media!States
<1>4. CASE Media!Choose(q)
  <2>1. PICK n \in Media!Names :
          /\ Media!Free(n) /\ clash' = (clash \/ n \in Media!Known(q))
          /\ Turns(q, Made("put", upload[q].kind, upload[q].of, upload[q].read, n, upload[q].bytes))
    BY <1>1, <1>4, ChooseTurn
  <2>2. Turns(q, Made("put", upload[q].kind, upload[q].of, upload[q].read, n, upload[q].bytes))
    BY <2>1
  <2>3. upload[q].pc = "name"
    BY <1>4 DEF Media!Choose, Media!At
  <2>4. Shape(q)'
    BY <1>1, <2>2, <2>3, MadeHas DEF Turns, Shape, Media!At, Media!Is, Making
  <2>5. \A o \in Senders : Shape(o)'
    BY <2>1, <2>4, ShapesKept
  <2>6. clash' \in BOOLEAN
    BY <1>1, <1>4 DEF Media!Choose, Media!TypeOK
  <2> QED
    BY <1>1, <1>2, <1>4, <2>1, <2>5, <2>6 DEF Base, Media!TypeOK, Turns, Media!Choose
<1>5. CASE Media!Put(q)
  <2>1. Turns(q, Made("save", upload[q].kind, upload[q].of, upload[q].read, upload[q].file, upload[q].bytes))
    BY <1>1, <1>5, StepTurn DEF Media!Put
  <2>2. Shape(q)'
    BY <1>1, <1>5, <2>1, MadeHas DEF Media!Put, Turns, Shape, Media!At, Media!Is, Making
  <2>3. \A o \in Senders : Shape(o)'
    BY <2>1, <2>2, ShapesKept
  <2>4. stored' \in [Media!Names -> Media!Uploads \cup {Media!NoBytes}]
    BY <1>1, <1>5, MediaRequestFields DEF Media!Put, Media!TypeOK
  <2> QED
    BY <1>1, <1>2, <1>5, <2>1, <2>3, <2>4 DEF Base, Media!TypeOK, Turns, Media!Put
<1>6. CASE Media!Check(q)
  <2>1. CASE Media!Unreferenced(upload[q].read.name)
    <3>1. Turns(q, Made("clean", upload[q].kind, upload[q].of, upload[q].read, upload[q].file, upload[q].bytes))
      BY <1>1, <1>6, <2>1, StepTurn DEF Media!Check
    <3>2. Shape(q)'
      BY <1>1, <1>6, <3>1, MadeHas DEF Media!Check, Turns, Shape, Media!At, Media!Is, Making
    <3>3. \A o \in Senders : Shape(o)'
      BY <3>1, <3>2, ShapesKept
    <3> QED
      BY <1>1, <1>2, <1>6, <3>1, <3>3 DEF Base, Media!TypeOK, Turns, Media!Check
  <2>2. CASE ~Media!Unreferenced(upload[q].read.name)
    BY <1>1, <1>2, <1>6, <2>2, BaseRests DEF Media!Check, Media!TypeOK
  <2> QED
    BY <2>1, <2>2
<1> QED
  BY <1>3, <1>4, <1>5, <1>6

LEMMA BaseEnds ==
    ASSUME MediaBounds, Base, NEW q \in Senders, Media!Fail(q) \/ Media!Report(q) \/ Media!Clean(q) \/ Media!Stop(q)
    PROVE  Base'
<1>1. Media!TypeOK /\ Shape(q) /\ upload[q] \in Media!Request /\ UNCHANGED <<recording, uploads>>
  BY DEF Base, Media!TypeOK, Media!Fail, Media!Report, Media!Clean, Media!Stop
<1>2. \A s \in Verifiers : Named(s)'
  BY <1>1 DEF Base, Named, Media!Present
<1>3. recording' \in [Verifiers -> Media!Row] /\ uploads' \in 0..MaxUploads
  BY <1>1 DEF Media!TypeOK
<1>4. CASE Media!Fail(q)
  <2>1. stored' \in [Media!Names -> Media!Uploads \cup {Media!NoBytes}] /\ leaked' \in BOOLEAN /\ uploadState' \in Media!States
    BY <1>1, <1>4 DEF Media!Fail, Media!TypeOK, Media!States
  <2> QED
    BY <1>1, <1>2, <1>3, <1>4, <2>1, BaseRests DEF Media!Fail, Media!TypeOK
<1>5. CASE Media!Report(q)
  BY <1>1, <1>2, <1>3, <1>5, BaseRests DEF Media!Report, Media!TypeOK, Media!States
<1>6. CASE Media!Clean(q)
  <2>1. stored' \in [Media!Names -> Media!Uploads \cup {Media!NoBytes}]
    BY <1>1, <1>6 DEF Media!Clean, Media!TypeOK
  <2> QED
    BY <1>1, <1>2, <1>3, <1>6, <2>1, BaseRests DEF Media!Clean, Media!TypeOK
<1>7. CASE Media!Stop(q)
  <2>1. mediaStops' \in 0..MaxStops
    BY <1>1, <1>7 DEF Media!Stop, Media!TypeOK, MediaBounds
  <2> QED
    BY <1>1, <1>2, <1>3, <1>7, <2>1, BaseRests DEF Media!Stop, Media!TypeOK
<1> QED
  BY <1>4, <1>5, <1>6, <1>7
LEMMA BaseSaves ==
    ASSUME MediaBounds, Base, NEW q \in Senders, NEW s \in Verifiers,
           Media!SaveNew(q, s) \/ Media!SaveEdit(q, s) \/ Media!SaveAdminEdit(q, s) \/ Media!SaveCopy(q, s) \/ Media!Delete(q, s)
    PROVE  Base'
<1>1. /\ Media!TypeOK /\ Shape(q) /\ upload[q] \in Media!Request /\ UNCHANGED <<stored, uploadState, clash, lapsed, mediaStops>>
      /\ recording[s] \in Media!Row /\ Named(s) /\ upload[q].read \in Media!Row
  BY MediaRequestFields DEF Base, Media!TypeOK, Media!SaveNew, Media!SaveEdit, Media!SaveAdminEdit,
     Media!SaveCopy, Media!Delete
<1>2. ASSUME NEW row \in Media!Row, row = Media!NoRow \/ row.name \in Media!Names, recording' = [recording EXCEPT ![s] = row]
      PROVE  recording' \in [Verifiers -> Media!Row] /\ \A o \in Verifiers : Named(o)'
  <2>1. recording' \in [Verifiers -> Media!Row] /\ recording'[s] = row /\ \A o \in Verifiers \ {s} : recording'[o] = recording[o]
    BY <1>1, <1>2, RowWritten
  <2> QED
    BY <1>2, <2>1, NamesKept
<1>3. CASE Media!SaveNew(q, s)
  <2>1. Media!Uploaded(q) \in Media!Row /\ Media!Uploaded(q).name \in Media!Names
    BY <1>1, <1>3, UploadedRow DEF Media!SaveNew, Shape, Making, Media!Is
  <2>2. recording' \in [Verifiers -> Media!Row] /\ \A o \in Verifiers : Named(o)'
    BY <1>2, <1>3, <2>1 DEF Media!SaveNew
  <2>3. CASE Media!Is(q, {"upload"})
    <3>1. Turns(q, Made("report", "upload", {}, Media!NoRow, Media!NoName, 0))
      BY <1>1, <1>3, <2>3, ReportTurn DEF Media!SaveNew
    <3>2. Shape(q)'
      BY <3>1, MadeHas DEF Turns, Shape, Media!At, Media!Is, Making
    <3>3. \A o \in Senders : Shape(o)'
      BY <3>1, <3>2, ShapesKept
    <3> QED
      BY <1>1, <1>3, <2>2, <3>1, <3>3 DEF Base, Media!TypeOK, Turns, Media!SaveNew
  <2>4. CASE ~Media!Is(q, {"upload"})
    BY <1>1, <1>3, <2>2, <2>4, BaseRests DEF Media!SaveNew, Media!TypeOK
  <2> QED
    BY <2>3, <2>4
<1>4. CASE Media!SaveEdit(q, s)
  <2>1. PICK row : row = [Media!Uploaded(q) EXCEPT !.own = recording[s].own]
    OBVIOUS
  <2>2. row \in Media!Row /\ row.name \in Media!Names
    BY <1>1, <1>4, <2>1, UploadedRow, MediaRowFields DEF Media!SaveEdit, Shape, Making, Media!Is
  <2>3. recording' = [recording EXCEPT ![s] = row]
    BY <1>4, <2>1 DEF Media!SaveEdit
  <2>4. recording' \in [Verifiers -> Media!Row] /\ \A o \in Verifiers : Named(o)'
    BY <1>2, <2>2, <2>3
  <2>5. Turns(q, Made("check", "edit", {}, upload[q].read, Media!NoName, 0))
    BY <1>1, <1>4, CheckTurn DEF Media!SaveEdit
  <2>6. Shape(q)'
    BY <1>1, <1>4, <2>5, MadeHas DEF Media!SaveEdit, Turns, Shape, Media!At, Media!Is, Making
  <2>7. \A o \in Senders : Shape(o)'
    BY <2>5, <2>6, ShapesKept
  <2>8. leaked' \in BOOLEAN /\ UNCHANGED <<stale, uploads>>
    BY <1>1, <1>4 DEF Media!SaveEdit, Media!TypeOK
  <2> QED
    BY <1>1, <2>4, <2>5, <2>7, <2>8 DEF Base, Media!TypeOK, Turns
<1>5. CASE Media!SaveAdminEdit(q, s)
  <2>1. PICK row : row = IF upload[q].file = Media!NoName THEN upload[q].read
                         ELSE [Media!Uploaded(q) EXCEPT !.own = upload[q].read.own]
    OBVIOUS
  <2>2. upload[q].read.name \in Media!Names /\ upload[q].read.own \in BOOLEAN /\ upload[q].file \in Media!Names \cup {Media!NoName}
    BY <1>1, <1>5, MediaRowFields, MediaRequestFields DEF Media!SaveAdminEdit, Shape, Making, Media!Is, Media!At
  <2>3. row \in Media!Row /\ row.name \in Media!Names
    BY <1>1, <2>1, <2>2, UploadedRow
  <2>4. recording' = [recording EXCEPT ![s] = row]
    BY <1>5, <2>1 DEF Media!SaveAdminEdit
  <2>5. recording' \in [Verifiers -> Media!Row] /\ \A o \in Verifiers : Named(o)'
    BY <1>2, <2>3, <2>4
  <2>6. stale' \in BOOLEAN /\ leaked' \in BOOLEAN /\ uploads' = uploads /\ Media!Go(q, Media!Idle)
    BY <1>1, <1>5 DEF Media!SaveAdminEdit, Media!TypeOK
  <2> QED
    BY <1>1, <2>5, <2>6, BaseRests DEF Media!TypeOK
<1>6. CASE Media!SaveCopy(q, s)
  <2>1. upload[q].read \in Media!Row /\ upload[q].read.name \in Media!Names
    BY <1>1, <1>6 DEF Media!SaveCopy, Shape, Making, Media!Is, Media!At
  <2>2. recording' \in [Verifiers -> Media!Row] /\ \A o \in Verifiers : Named(o)'
    BY <1>2, <1>6, <2>1 DEF Media!SaveCopy
  <2>3. stale' \in BOOLEAN /\ UNCHANGED <<leaked, uploads>> /\ Media!Go(q, Media!Idle)
    BY <1>1, <1>6 DEF Media!SaveCopy, Media!TypeOK
  <2> QED
    BY <1>1, <2>2, <2>3, BaseRests DEF Media!TypeOK
<1>7. CASE Media!Delete(q, s)
  <2>1. recording' \in [Verifiers -> Media!Row] /\ \A o \in Verifiers : Named(o)'
    BY <1>2, <1>7, NoRowTyped DEF Media!Delete
  <2>2. Turns(q, Made("check", "delete", {}, recording[s], Media!NoName, 0))
    BY <1>1, <1>7, CheckTurn DEF Media!Delete
  <2>3. Shape(q)'
    BY <1>1, <1>7, <2>2, MadeHas DEF Media!Delete, Turns, Shape, Media!At, Media!Is, Making, Named
  <2>4. \A o \in Senders : Shape(o)'
    BY <2>2, <2>3, ShapesKept
  <2>5. uploads' \in 0..MaxUploads /\ UNCHANGED <<leaked, stale>>
    BY <1>1, <1>7 DEF Media!Delete, Media!TypeOK, MediaBounds
  <2> QED
    BY <1>1, <2>1, <2>2, <2>4, <2>5 DEF Base, Media!TypeOK, Turns
<1> QED
  BY <1>3, <1>4, <1>5, <1>6, <1>7

LEMMA BaseKept == ASSUME MediaBounds, Base, Media!Next \/ UNCHANGED Media!vars PROVE Base'
<1>1. CASE Media!Expire \/ UNCHANGED Media!vars
  <2>1. Media!TypeOK'
    <3>1. CASE Media!Expire
      <4>1. mediaStops' \in 0..MaxStops
        BY <3>1 DEF Base, Media!TypeOK, Media!Expire, MediaBounds
      <4>2. lapsed' \in BOOLEAN /\ uploadState' \in Media!States
        BY <3>1 DEF Media!Expire, Media!States
      <4> QED
        BY <3>1, <4>1, <4>2 DEF Base, Media!TypeOK, Media!Expire
    <3>2. CASE UNCHANGED Media!vars
      BY <3>2 DEF Base, Media!TypeOK, Media!vars
    <3> QED
      BY <1>1, <3>1, <3>2
  <2>2. UNCHANGED <<upload, recording>>
    BY <1>1 DEF Media!Expire, Media!vars
  <2> QED
    BY <2>1, <2>2 DEF Base, Shape, Media!At, Media!Is, Named, Media!Present
<1>2. ASSUME NEW s \in Verifiers, Media!AdminDelete(s) PROVE Base'
  <2>1. recording' = [recording EXCEPT ![s] = Media!NoRow] /\ Media!TypeOK
    BY <1>2 DEF Media!AdminDelete, Base
  <2>2. recording' \in [Verifiers -> Media!Row] /\ recording'[s] = Media!NoRow /\ \A o \in Verifiers \ {s} : recording'[o] = recording[o]
    BY <2>1, RowWritten, NoRowTyped
  <2>3. Media!TypeOK'
    BY <1>2, <2>1, <2>2 DEF Media!TypeOK, Media!AdminDelete, MediaBounds
  <2>4. upload' = upload
    BY <1>2 DEF Media!AdminDelete
  <2> QED
    BY <2>2, <2>3, <2>4, NamesKept DEF Base, Shape, Media!At, Media!Is
<1> QED
  BY <1>1, <1>2, BaseBeginnings, BaseGoes, BaseEnds, BaseSaves DEF Media!Next
-----------------------------------------------------------------------------
(* Nothing is left: what is stored is named by a row, or a request will save,  *)
(* look at or remove it.                                                      *)
Referenced(n) == \E s \in Verifiers : recording[s].name = n

MediaHolds(q, n) ==
    \/ Media!At(q, "save") /\ upload[q].file = n
    \/ upload[q].pc \in {"check", "clean"} /\ upload[q].read.name = n

Kept(n) == Referenced(n) \/ \E q \in Senders : MediaHolds(q, n)

Left == ~leaked => \A n \in Media!Names : stored[n] # Media!NoBytes => Kept(n)

LEMMA OthersHold ==
    ASSUME NEW q \in Senders, NEW r, Turns(q, r), NEW n, \E o \in Senders \ {q} : MediaHolds(o, n)
    PROVE  \E o \in Senders : MediaHolds(o, n)'
BY DEF Turns, MediaHolds, Media!At

LEMMA StillKept ==
    ASSUME NEW q \in Senders, NEW r, Turns(q, r), NEW n, Kept(n),
           Referenced(n) => Referenced(n)' \/ MediaHolds(q, n)',
           MediaHolds(q, n) => Referenced(n)' \/ MediaHolds(q, n)'
    PROVE  Kept(n)'
BY OthersHold DEF Kept

LEMMA NotNamed == ASSUME MediaBounds, NEW s, Media!Gone(s) PROVE recording[s].name \notin Media!Names
BY NoRowTyped, Numbers DEF Media!Gone

LEMMA LeftBeginnings ==
    ASSUME MediaBounds, Base, Left, NEW q \in Senders,
           Media!Upload(q) \/ Media!Create(q) \/ Media!AdminCreate(q) \/ \E s \in Verifiers : Media!Edit(q, s) \/ Media!AdminEdit(q, s) \/ Media!Copy(q, s)
    PROVE  Left'
<1>1. UNCHANGED <<stored, recording, leaked>> /\ Media!At(q, "idle")
  BY DEF Media!Upload, Media!Create, Media!AdminCreate, Media!Edit, Media!AdminEdit, Media!Copy, Media!Begins
<1>2. \A o \in Senders \ {q} : upload'[o] = upload[o]
  BY DEF Media!Upload, Media!Create, Media!AdminCreate, Media!Edit, Media!AdminEdit, Media!Copy,
     Media!Begins, Media!Go, Base, Media!TypeOK
<1>3. \A n : Kept(n) => Kept(n)'
  BY <1>1, <1>2 DEF Kept, Referenced, MediaHolds, Media!At
<1> QED
  BY <1>1, <1>3 DEF Left

LEMMA LeftGoes ==
    ASSUME MediaBounds, Base, Left, NEW q \in Senders, Media!Claim(q) \/ Media!Choose(q) \/ Media!Put(q) \/ Media!Check(q)
    PROVE  Left'
<1> SUFFICES ASSUME ~leaked', NEW n \in Media!Names, stored'[n] # Media!NoBytes PROVE Kept(n)'
  BY DEF Left
<1>1. Media!TypeOK /\ Shape(q) /\ upload[q] \in Media!Request /\ UNCHANGED <<recording, leaked>>
  BY DEF Base, Media!TypeOK, Media!Claim, Media!Choose, Media!Put, Media!Check
<1>2. Referenced(n) => Referenced(n)'
  BY <1>1 DEF Referenced
<1>3. CASE Media!Claim(q)
  <2>1. Turns(q, Made("name", upload[q].kind, upload[q].of, upload[q].read, upload[q].file, upload[q].bytes))
    BY <1>1, <1>3, StepTurn DEF Media!Claim
  <2>2. Kept(n) /\ ~MediaHolds(q, n)
    BY <1>1, <1>3 DEF Media!Claim, Left, MediaHolds, Media!At
  <2> QED
    BY <1>2, <2>1, <2>2, StillKept
<1>4. CASE Media!Choose(q)
  <2>1. PICK m \in Media!Names :
          /\ Media!Free(m) /\ clash' = (clash \/ m \in Media!Known(q))
          /\ Turns(q, Made("put", upload[q].kind, upload[q].of, upload[q].read, m, upload[q].bytes))
    BY <1>1, <1>4, ChooseTurn
  <2>2. stored' = stored /\ upload[q].pc = "name"
    BY <1>4 DEF Media!Choose, Media!At
  <2>3. Kept(n) /\ ~MediaHolds(q, n)
    BY <1>1, <2>2 DEF Left, MediaHolds, Media!At
  <2> QED
    BY <1>2, <2>1, <2>3, StillKept
<1>5. CASE Media!Put(q)
  <2>1. Turns(q, Made("save", upload[q].kind, upload[q].of, upload[q].read, upload[q].file, upload[q].bytes))
    BY <1>1, <1>5, StepTurn DEF Media!Put
  <2>2. CASE n = upload[q].file
    <3>1. MediaHolds(q, n)'
      BY <2>1, <2>2, MadeHas DEF Turns, MediaHolds, Media!At
    <3> QED
      BY <3>1 DEF Kept
  <2>3. CASE n # upload[q].file
    <3>1. Kept(n) /\ ~MediaHolds(q, n)
      BY <1>1, <1>5, <2>3 DEF Media!Put, Left, MediaHolds, Media!At, Media!TypeOK
    <3> QED
      BY <1>2, <2>1, <3>1, StillKept
  <2> QED
    BY <2>2, <2>3
<1>6. CASE Media!Check(q)
  <2>1. Kept(n) /\ Media!At(q, "check")
    BY <1>1, <1>6 DEF Media!Check, Left
  <2>2. CASE Media!Unreferenced(upload[q].read.name)
    <3>1. Turns(q, Made("clean", upload[q].kind, upload[q].of, upload[q].read, upload[q].file, upload[q].bytes))
      BY <1>1, <1>6, <2>2, StepTurn DEF Media!Check
    <3>2. MediaHolds(q, n) => MediaHolds(q, n)'
      BY <2>1, <3>1, MadeHas DEF Turns, MediaHolds, Media!At
    <3> QED
      BY <1>2, <2>1, <3>1, <3>2, StillKept
  <2>3. CASE ~Media!Unreferenced(upload[q].read.name)
    <3>1. Turns(q, Media!Idle)
      BY <1>1, <1>6, <2>3, RestTurn DEF Media!Check
    <3>2. MediaHolds(q, n) => Referenced(n)
      BY <2>1, <2>3 DEF MediaHolds, Media!At, Media!Unreferenced, Referenced
    <3> QED
      BY <1>2, <2>1, <3>1, <3>2, StillKept
  <2> QED
    BY <2>2, <2>3
<1> QED
  BY <1>3, <1>4, <1>5, <1>6

LEMMA LeftEnds ==
    ASSUME MediaBounds, Base, Left, NEW q \in Senders, Media!Fail(q) \/ Media!Report(q) \/ Media!Clean(q) \/ Media!Stop(q)
    PROVE  Left'
<1> SUFFICES ASSUME ~leaked', NEW n \in Media!Names, stored'[n] # Media!NoBytes PROVE Kept(n)'
  BY DEF Left
<1>1. Media!TypeOK /\ Shape(q) /\ UNCHANGED recording /\ Turns(q, Media!Idle)
  BY RestTurn DEF Base, Media!Fail, Media!Report, Media!Clean, Media!Stop
<1>2. Referenced(n) => Referenced(n)'
  BY <1>1 DEF Referenced
<1>3. CASE Media!Fail(q)
  <2>1. ~leaked /\ Media!Is(q, {"upload", "edit"}) /\ (Media!At(q, "put") \/ Media!At(q, "save"))
    BY <1>3 DEF Media!Fail
  <2>2. CASE Media!At(q, "put")
    <3>1. stored' = stored
      BY <1>3, <2>2 DEF Media!Fail, Media!At
    <3>2. Kept(n) /\ ~MediaHolds(q, n)
      BY <2>1, <2>2, <3>1 DEF Left, MediaHolds, Media!At
    <3> QED
      BY <1>1, <1>2, <3>2, StillKept
  <2>3. CASE Media!At(q, "save")
    <3>1. upload[q].file \in Media!Names
      BY <1>1, <2>1, <2>3 DEF Shape, Media!Is, Making
    <3>2. stored' = [stored EXCEPT ![upload[q].file] = Media!NoBytes]
      BY <1>3, <2>1, <2>3, <3>1, Numbers DEF Media!Fail, Media!CleansUp
    <3>3. stored'[n] = stored[n] /\ n # upload[q].file
      BY <3>1, <3>2 DEF Base, Media!TypeOK
    <3>4. Kept(n) /\ ~MediaHolds(q, n)
      BY <2>1, <2>3, <3>3 DEF Left, MediaHolds, Media!At
    <3> QED
      BY <1>1, <1>2, <3>4, StillKept
  <2> QED
    BY <2>1, <2>2, <2>3
<1>4. CASE Media!Report(q)
  <2>1. Kept(n) /\ ~MediaHolds(q, n)
    BY <1>4 DEF Media!Report, Left, MediaHolds, Media!At
  <2> QED
    BY <1>1, <1>2, <2>1, StillKept
<1>5. CASE Media!Clean(q)
  <2>1. upload[q].read.name \in Media!Names /\ stored' = [stored EXCEPT ![upload[q].read.name] = Media!NoBytes] /\ ~leaked
        /\ Media!At(q, "clean")
    BY <1>1, <1>5 DEF Media!Clean, Shape, Media!At
  <2>2. stored'[n] = stored[n] /\ n # upload[q].read.name
    BY <2>1 DEF Base, Media!TypeOK
  <2>3. Kept(n) /\ ~MediaHolds(q, n)
    BY <2>1, <2>2 DEF Left, MediaHolds, Media!At
  <2> QED
    BY <1>1, <1>2, <2>3, StillKept
<1>6. CASE Media!Stop(q)
  BY <1>6 DEF Media!Stop
<1> QED
  BY <1>3, <1>4, <1>5, <1>6

LEMMA LeftSaves ==
    ASSUME MediaBounds, Base, Left, NEW q \in Senders, NEW s \in Verifiers,
           Media!SaveNew(q, s) \/ Media!SaveEdit(q, s) \/ Media!SaveAdminEdit(q, s) \/ Media!SaveCopy(q, s) \/ Media!Delete(q, s)
    PROVE  Left'
<1> SUFFICES ASSUME ~leaked', NEW n \in Media!Names, stored'[n] # Media!NoBytes PROVE Kept(n)'
  BY DEF Left
<1>1. /\ Media!TypeOK /\ Shape(q) /\ upload[q] \in Media!Request /\ ~leaked /\ stored' = stored
      /\ recording[s] \in Media!Row /\ Named(s) /\ upload[q].read \in Media!Row /\ upload[q].file \in Media!Names \cup {Media!NoName}
  BY MediaRequestFields DEF Base, Media!TypeOK, Media!SaveNew, Media!SaveEdit, Media!SaveAdminEdit,
     Media!SaveCopy, Media!Delete
<1>2. Kept(n)
  BY <1>1 DEF Left
<1>3. ASSUME NEW row \in Media!Row, recording' = [recording EXCEPT ![s] = row]
      PROVE  /\ row.name = n => Referenced(n)'
             /\ Referenced(n) => Referenced(n)' \/ recording[s].name = n
  <2>1. recording' \in [Verifiers -> Media!Row] /\ recording'[s] = row /\ \A o \in Verifiers \ {s} : recording'[o] = recording[o]
    BY <1>1, <1>3, RowWritten
  <2> QED
    BY <2>1 DEF Referenced
<1>4. CASE Media!SaveNew(q, s)
  <2>1. Media!Uploaded(q) \in Media!Row /\ Media!Uploaded(q).name = upload[q].file /\ Media!At(q, "save") /\ Media!Gone(s)
        /\ recording' = [recording EXCEPT ![s] = Media!Uploaded(q)]
    BY <1>1, <1>4, UploadedRow DEF Media!SaveNew, Media!Unused
  <2>2. (Referenced(n) => Referenced(n)') /\ (MediaHolds(q, n) => Referenced(n)')
    BY <1>3, <2>1, NotNamed DEF MediaHolds, Media!At
  <2>3. \E r : Turns(q, r)
    BY <1>1, <1>4, ReportTurn, RestTurn DEF Media!SaveNew
  <2> QED
    BY <1>2, <2>2, <2>3, StillKept
<1>5. CASE Media!SaveEdit(q, s)
  <2>1. PICK row : row = [Media!Uploaded(q) EXCEPT !.own = recording[s].own]
    OBVIOUS
  <2>2. row \in Media!Row /\ row.name = upload[q].file /\ Media!At(q, "save") /\ recording[s].name = upload[q].read.name
    BY <1>1, <1>5, <2>1, UploadedRow, MediaRowFields DEF Media!SaveEdit
  <2>3. recording' = [recording EXCEPT ![s] = row]
    BY <1>5, <2>1 DEF Media!SaveEdit
  <2>4. Turns(q, Made("check", "edit", {}, upload[q].read, Media!NoName, 0))
    BY <1>1, <1>5, CheckTurn DEF Media!SaveEdit
  <2>5. recording[s].name = n => MediaHolds(q, n)'
    <3>1. upload'[q].pc = "check" /\ upload'[q].read = upload[q].read
      BY <2>4, MadeHas DEF Turns
    <3> QED
      BY <2>2, <3>1 DEF MediaHolds, Media!At
  <2>6. MediaHolds(q, n) => Referenced(n)'
    BY <1>3, <2>2, <2>3 DEF MediaHolds, Media!At
  <2> QED
    BY <1>2, <1>3, <2>2, <2>3, <2>4, <2>5, <2>6, StillKept
<1>6. CASE Media!SaveAdminEdit(q, s)
  <2>1. PICK row : row = IF upload[q].file = Media!NoName THEN upload[q].read
                         ELSE [Media!Uploaded(q) EXCEPT !.own = upload[q].read.own]
    OBVIOUS
  <2>2. row \in Media!Row /\ (upload[q].file # Media!NoName => row.name = upload[q].file) /\ Media!At(q, "save")
    BY <1>1, <1>6, <2>1, UploadedRow, MediaRowFields DEF Media!SaveAdminEdit
  <2>3. recording' = [recording EXCEPT ![s] = row] /\ row.name = recording[s].name /\ Media!Go(q, Media!Idle)
    BY <1>6, <2>1 DEF Media!SaveAdminEdit
  <2>4. Referenced(n) => Referenced(n)'
    BY <1>3, <2>2, <2>3
  <2>5. MediaHolds(q, n) => Referenced(n)'
    BY <1>3, <2>2, <2>3, Numbers DEF MediaHolds, Media!At
  <2>6. Turns(q, Media!Idle)
    BY <1>1, <2>3, RestTurn
  <2> QED
    BY <1>2, <2>4, <2>5, <2>6, StillKept
<1>7. CASE Media!SaveCopy(q, s)
  <2>1. Media!Gone(s) /\ recording' = [recording EXCEPT ![s] = upload[q].read] /\ Media!Go(q, Media!Idle) /\ Media!At(q, "save") /\ Media!Is(q, {"copy"})
    BY <1>7 DEF Media!SaveCopy, Media!Unused
  <2>2. Referenced(n) => Referenced(n)'
    BY <1>1, <1>3, <2>1, NotNamed
  <2>3. ~MediaHolds(q, n)
    BY <1>1, <2>1, Numbers DEF Shape, MediaHolds, Media!At
  <2>4. Turns(q, Media!Idle)
    BY <1>1, <2>1, RestTurn
  <2> QED
    BY <1>2, <2>2, <2>3, <2>4, StillKept
<1>8. CASE Media!Delete(q, s)
  <2>1. Turns(q, Made("check", "delete", {}, recording[s], Media!NoName, 0))
    BY <1>1, <1>8, CheckTurn DEF Media!Delete
  <2>2. recording[s].name = n => MediaHolds(q, n)'
    BY <2>1, MadeHas DEF Turns, MediaHolds, Media!At
  <2>3. ~MediaHolds(q, n)
    BY <1>8 DEF Media!Delete, MediaHolds, Media!At
  <2>4. recording' = [recording EXCEPT ![s] = Media!NoRow]
    BY <1>8 DEF Media!Delete
  <2> QED
    BY <1>2, <1>3, <2>1, <2>2, <2>3, <2>4, NoRowTyped, StillKept
<1> QED
  BY <1>4, <1>5, <1>6, <1>7, <1>8

LEMMA LeftKept == ASSUME MediaBounds, Base, Left, Media!Next \/ UNCHANGED Media!vars PROVE Left'
<1>1. CASE Media!Expire \/ UNCHANGED Media!vars
  BY <1>1 DEF Media!Expire, Media!vars, Left, Kept, Referenced, MediaHolds, Media!At
<1>2. ASSUME NEW s \in Verifiers, Media!AdminDelete(s) PROVE Left'
  BY <1>2 DEF Media!AdminDelete, Left
<1> QED
  BY <1>1, <1>2, LeftBeginnings, LeftGoes, LeftEnds, LeftSaves DEF Media!Next

LEMMA LeftFirst == ASSUME MediaBounds, Media!Init PROVE Left
<1> SUFFICES ASSUME NEW n \in Media!Names, stored[n] # Media!NoBytes PROVE Referenced(n)
  BY DEF Left, Kept
<1>1. n = 0
  BY DEF Media!Init
<1>2. \E s \in Verifiers : recording[s].name = 0
  BY DEF Media!Init
<1> QED
  BY <1>1, <1>2 DEF Referenced

LEMMA LeftMeans == Left => Media!NothingLeft
BY DEF Left, Media!NothingLeft, Kept, MediaHolds, Media!At, Referenced, Media!Unreferenced
-----------------------------------------------------------------------------
(* An upload id makes one song: an upload that is processed is the only one,   *)
(* and until its row is saved none of the songs is of the id.                 *)
OneUpload(q) ==
    Media!Is(q, {"upload"}) =>
        /\ ~Media!At(q, "claim") => uploadState = "processing" /\ \A r \in Senders \ {q} : ~Media!Is(r, {"upload"})
        /\ ~Media!At(q, "report") => Media!Own = {}

ReadOwn(q) == \A s \in upload[q].of : Media!Present(s) => (recording[s].own <=> upload[q].read.own)

Single == (uploadState \in {"none", "failed"} => Media!Own = {}) /\ \A a, b \in Media!Own : a = b

Once == ~lapsed /\ ~stale => (\A q \in Senders : OneUpload(q) /\ ReadOwn(q)) /\ Single

LEMMA OthersRead ==
    ASSUME NEW q \in Senders, NEW r, Turns(q, r), NEW o \in Senders \ {q}, ReadOwn(o), UNCHANGED recording
    PROVE  ReadOwn(o)'
BY DEF Turns, ReadOwn, Media!Present

LEMMA OthersUpload ==
    ASSUME NEW q \in Senders, NEW r, Turns(q, r), NEW o \in Senders \ {q}, OneUpload(o), Media!Own' \subseteq Media!Own,
           uploadState' = uploadState \/ ~Media!Is(o, {"upload"}), Media!Is(q, {"upload"})' => Media!Is(q, {"upload"})
    PROVE  OneUpload(o)'
BY DEF Turns, OneUpload, Media!Is, Media!At

LEMMA OwnSame == ASSUME UNCHANGED recording PROVE Media!Own' = Media!Own
BY DEF Media!Own

LEMMA NotAlone ==
    ASSUME NEW q \in Senders, OneUpload(q), Media!Is(q, {"upload"}), ~Media!At(q, "claim"), NEW o \in Senders \ {q}
    PROVE  ~Media!Is(o, {"upload"})
BY DEF OneUpload

(* A step that neither saves a row nor tells of the upload.                    *)
LEMMA OnceTurns ==
    ASSUME Once, NEW q \in Senders, NEW r, Turns(q, r), UNCHANGED <<recording, uploadState>>,
           ~lapsed' /\ ~stale' => ~lapsed /\ ~stale,
           r.kind = "upload" => Media!Is(q, {"upload"}) /\ ~Media!At(q, "claim") /\ ~Media!At(q, "report"),
           r.of \subseteq upload[q].of, r.of # {} => r.read = upload[q].read
    PROVE  Once'
<1> SUFFICES ASSUME ~lapsed', ~stale' PROVE (\A o \in Senders : OneUpload(o)' /\ ReadOwn(o)') /\ Single'
  BY DEF Once
<1>1. (\A o \in Senders : OneUpload(o) /\ ReadOwn(o)) /\ Single /\ Media!Own' = Media!Own /\ upload'[q] = r
  BY OwnSame DEF Once, Turns
<1>2. Media!Is(q, {"upload"})' => Media!Is(q, {"upload"}) /\ ~Media!At(q, "claim") /\ ~Media!At(q, "report")
  BY <1>1 DEF Media!Is, Media!At
<1>3. ASSUME NEW o \in Senders \ {q} PROVE OneUpload(o)' /\ ReadOwn(o)'
  BY <1>1, <1>2, OthersUpload, OthersRead
<1>4. OneUpload(q)'
  BY <1>1, <1>2 DEF OneUpload, Turns, Media!Is, Media!At
<1>5. ReadOwn(q)'
  BY <1>1 DEF ReadOwn, Media!Present
<1>6. Single'
  BY <1>1 DEF Single
<1> QED
  BY <1>3, <1>4, <1>5, <1>6

LEMMA OnceBegins ==
    ASSUME MediaBounds, Base, Once, NEW q \in Senders, NEW kind \in Media!Kinds, NEW pc \in {"claim", "name", "save"},
           NEW S \in SUBSET Verifiers, NEW row \in Media!Row, Media!Begins(q, kind, pc, S, row),
           kind = "upload" => pc = "claim" /\ Media!MayUpload,
           \A s \in S : recording[s].own <=> row.own
    PROVE  Once'
<1> DEFINE r == Made(pc, kind, S, row, Media!NoName, uploads + 1)
<1>1. Turns(q, r) /\ Media!At(q, "idle") /\ UNCHANGED <<recording, uploadState, stale, lapsed>>
  BY BeginsTurn DEF Base
<1>2. r.kind = kind /\ r.of = S /\ r.read = row /\ r.pc = pc
  BY MadeHas
<1> HIDE DEF r
<1> SUFFICES ASSUME ~lapsed', ~stale' PROVE (\A o \in Senders : OneUpload(o)' /\ ReadOwn(o)') /\ Single'
  BY DEF Once
<1>3. (\A o \in Senders : OneUpload(o) /\ ReadOwn(o)) /\ Single /\ Media!Own' = Media!Own /\ upload'[q] = r
  BY <1>1, OwnSame DEF Once, Turns
<1>4. kind = "upload" => Media!Own = {} /\ uploadState # "processing"
  <2>1. uploadState \in Media!States
    BY DEF Base, Media!TypeOK
  <2> QED
    BY <1>3, <2>1 DEF Media!MayUpload, Single, Media!States
<1>5. ASSUME NEW o \in Senders \ {q} PROVE OneUpload(o)' /\ ReadOwn(o)'
  <2>1. OneUpload(o) /\ ReadOwn(o) /\ upload'[o] = upload[o]
    BY <1>1, <1>3 DEF Turns
  <2>2. OneUpload(o)'
    BY <1>1, <1>2, <1>3, <1>4, <2>1 DEF OneUpload, Media!Is, Media!At, Turns
  <2> QED
    BY <1>1, <2>1, <2>2, OthersRead
<1>6. OneUpload(q)'
  BY <1>2, <1>3, <1>4 DEF OneUpload, Media!Is, Media!At
<1>7. ReadOwn(q)'
  BY <1>1, <1>2, <1>3 DEF ReadOwn, Media!Present
<1>8. Single'
  BY <1>1, <1>3 DEF Single
<1> QED
  BY <1>5, <1>6, <1>7, <1>8

LEMMA OnceBeginnings ==
    ASSUME MediaBounds, Base, Once, NEW q \in Senders,
           Media!Upload(q) \/ Media!Create(q) \/ Media!AdminCreate(q) \/ \E s \in Verifiers : Media!Edit(q, s) \/ Media!AdminEdit(q, s) \/ Media!Copy(q, s)
    PROVE  Once'
<1>1. CASE Media!Upload(q) \/ Media!Create(q) \/ Media!AdminCreate(q)
  BY <1>1, OnceBegins, NoRowTyped DEF Media!Upload, Media!Create, Media!AdminCreate, Media!Kinds
<1>2. ASSUME NEW s \in Verifiers, Media!Edit(q, s) \/ Media!AdminEdit(q, s) \/ Media!Copy(q, s) PROVE Once'
  <2>1. recording[s] \in Media!Row
    BY DEF Base, Media!TypeOK
  <2>2. CASE Media!Edit(q, s) \/ Media!AdminEdit(q, s)
    BY <2>1, <2>2, OnceBegins DEF Media!Edit, Media!AdminEdit, Media!Kinds
  <2>3. CASE Media!Copy(q, s)
    <3>1. PICK row : row = [recording[s] EXCEPT !.own = FALSE]
      OBVIOUS
    <3>2. row \in Media!Row
      BY <2>1, <3>1 DEF Media!Row
    <3>3. Media!Begins(q, "copy", "save", {}, row)
      BY <2>3, <3>1 DEF Media!Copy
    <3> QED
      BY <3>2, <3>3, OnceBegins DEF Media!Kinds
  <2> QED
    BY <1>2, <2>2, <2>3
<1> QED
  BY <1>1, <1>2

LEMMA OnceGoes ==
    ASSUME MediaBounds, Base, Once, NEW q \in Senders, Media!Choose(q) \/ Media!Put(q) \/ Media!Check(q) \/ Media!Clean(q) \/ Media!Stop(q)
    PROVE  Once'
<1>1. Media!TypeOK /\ Shape(q) /\ upload[q] \in Media!Request /\ UNCHANGED <<recording, uploadState, lapsed, stale>>
  BY DEF Base, Media!TypeOK, Media!Choose, Media!Put, Media!Check, Media!Clean, Media!Stop
<1>2. CASE Media!Go(q, Media!Idle)
  <2>1. Turns(q, Media!Idle)
    BY <1>1, <1>2, RestTurn
  <2> QED
    BY <1>1, <2>1, IdleHas, OnceTurns
<1>3. ASSUME NEW pc, NEW file, upload[q].pc \in {"name", "put", "check"},
             Turns(q, Made(pc, upload[q].kind, upload[q].of, upload[q].read, file, upload[q].bytes))
      PROVE  Once'
  <2>1. PICK r : r = Made(pc, upload[q].kind, upload[q].of, upload[q].read, file, upload[q].bytes)
    OBVIOUS
  <2>2. r.kind = upload[q].kind /\ r.of = upload[q].of /\ r.read = upload[q].read /\ Turns(q, r)
    BY <1>3, <2>1, MadeHas
  <2>3. r.kind = "upload" => Media!Is(q, {"upload"}) /\ ~Media!At(q, "claim") /\ ~Media!At(q, "report")
    BY <1>3, <2>2 DEF Media!Is, Media!At
  <2> QED
    BY <1>1, <2>2, <2>3, OnceTurns
<1>4. CASE Media!Choose(q)
  <2>1. PICK m \in Media!Names :
          /\ Media!Free(m) /\ clash' = (clash \/ m \in Media!Known(q))
          /\ Turns(q, Made("put", upload[q].kind, upload[q].of, upload[q].read, m, upload[q].bytes))
    BY <1>1, <1>4, ChooseTurn
  <2>2. upload[q].pc = "name"
    BY <1>4 DEF Media!Choose, Media!At
  <2> QED
    BY <1>3, <2>1, <2>2
<1>5. CASE Media!Put(q)
  <2>1. upload[q].pc = "put" /\ Media!Go(q, [upload[q] EXCEPT !.pc = "save"])
    BY <1>5 DEF Media!Put, Media!At
  <2>2. Turns(q, Made("save", upload[q].kind, upload[q].of, upload[q].read, upload[q].file, upload[q].bytes))
    BY <1>1, <2>1, StepTurn
  <2> QED
    BY <1>3, <2>1, <2>2
<1>6. CASE Media!Check(q)
  <2>1. upload[q].pc = "check" /\ (Media!Go(q, Media!Idle) \/ Media!Go(q, [upload[q] EXCEPT !.pc = "clean"]))
    BY <1>6 DEF Media!Check, Media!At
  <2>2. CASE Media!Go(q, [upload[q] EXCEPT !.pc = "clean"])
    <3>1. Turns(q, Made("clean", upload[q].kind, upload[q].of, upload[q].read, upload[q].file, upload[q].bytes))
      BY <1>1, <2>2, StepTurn
    <3> QED
      BY <1>3, <2>1, <3>1
  <2> QED
    BY <1>2, <2>1, <2>2
<1> QED
  BY <1>2, <1>4, <1>5, <1>6 DEF Media!Clean, Media!Stop

LEMMA OnceTells ==
    ASSUME MediaBounds, Base, Once, NEW q \in Senders, Media!Claim(q) \/ Media!Fail(q) \/ Media!Report(q)
    PROVE  Once'
<1> SUFFICES ASSUME ~lapsed', ~stale' PROVE (\A o \in Senders : OneUpload(o)' /\ ReadOwn(o)') /\ Single'
  BY DEF Once
<1>1. Media!TypeOK /\ Shape(q) /\ upload[q] \in Media!Request /\ UNCHANGED <<recording, stale>> /\ ~lapsed
  BY DEF Base, Media!TypeOK, Media!Claim, Media!Fail, Media!Report
<1>2. (\A o \in Senders : OneUpload(o) /\ ReadOwn(o)) /\ Single /\ Media!Own' = Media!Own
  BY <1>1, OwnSame DEF Once
<1>3. CASE Media!Claim(q)
  <2>1. PICK r : r = Made("name", upload[q].kind, upload[q].of, upload[q].read, upload[q].file, upload[q].bytes)
    OBVIOUS
  <2>2. Media!Go(q, [upload[q] EXCEPT !.pc = "name"])
    BY <1>3 DEF Media!Claim
  <2>3. Turns(q, r)
    BY <1>1, <2>1, <2>2, StepTurn
  <2>4. Turns(q, r) /\ r.kind = upload[q].kind /\ r.of = upload[q].of /\ r.read = upload[q].read /\ r.pc = "name"
    BY <2>1, <2>3, MadeHas
  <2>5. ASSUME NEW o \in Senders \ {q} PROVE ~Media!Is(o, {"upload"})
    <3>1. Shape(o) /\ (o \in Media!Others(q) => ~Media!Is(o, {"upload"}))
      BY <1>3 DEF Base, Media!Claim
    <3> QED
      BY <3>1, IdleHas DEF Media!Others, Shape, Media!Is, Media!At
  <2>6. Media!Is(q, {"upload"}) /\ Media!Own = {}
    BY <1>1, <1>2, <1>3 DEF Media!Claim, Shape, OneUpload, Media!At
  <2>7. ASSUME NEW o \in Senders \ {q} PROVE OneUpload(o)' /\ ReadOwn(o)'
    BY <1>1, <1>2, <2>4, <2>5, OthersRead DEF OneUpload, Media!Is, Turns
  <2>8. OneUpload(q)'
    BY <1>2, <1>3, <2>4, <2>5, <2>6 DEF OneUpload, Media!Claim, Turns, Media!Is, Media!At
  <2>9. ReadOwn(q)'
    BY <1>1, <1>2, <2>4 DEF ReadOwn, Media!Present, Turns
  <2> QED
    BY <1>2, <1>3, <2>7, <2>8, <2>9 DEF Single, Media!Claim
<1>4. CASE Media!Fail(q) \/ Media!Report(q)
  <2>1. Turns(q, Media!Idle)
    BY <1>1, <1>4, RestTurn DEF Media!Fail, Media!Report
  <2>2. OneUpload(q)' /\ ReadOwn(q)'
    BY <2>1, IdleHas DEF Turns, OneUpload, ReadOwn, Media!Is
  <2>3. Media!Is(q, {"upload"}) => \A o \in Senders \ {q} : ~Media!Is(o, {"upload"})
    BY <1>2, <1>4, NotAlone DEF Media!Fail, Media!Report, Media!At
  <2>4. ~Media!Is(q, {"upload"}) => uploadState' = uploadState
    BY <1>1, <1>4 DEF Media!Fail, Media!Report, Shape, Media!At
  <2>5. ASSUME NEW o \in Senders \ {q} PROVE OneUpload(o)' /\ ReadOwn(o)'
    <3>1. OneUpload(o) /\ ReadOwn(o)
      BY <1>2
    <3>2. ReadOwn(o)'
      BY <1>1, <2>1, <3>1, OthersRead
    <3>3. ~Media!Is(q, {"upload"})'
      BY <2>1, IdleHas DEF Turns, Media!Is
    <3>4. uploadState' = uploadState \/ ~Media!Is(o, {"upload"})
      BY <2>3, <2>4
    <3> QED
      BY <1>2, <2>1, <3>1, <3>2, <3>3, <3>4, OthersUpload
  <2>6. Single'
    <3>1. CASE Media!Is(q, {"upload"}) /\ Media!Fail(q)
      <4>1. Media!Own = {}
        BY <1>2, <3>1 DEF Media!Fail, OneUpload, Media!At
      <4> QED
        BY <1>2, <4>1 DEF Single
    <3>2. CASE Media!Report(q)
      BY <1>2, <3>2 DEF Single, Media!Report
    <3>3. CASE ~Media!Is(q, {"upload"})
      BY <1>2, <2>4, <3>3 DEF Single
    <3> QED
      BY <1>4, <3>1, <3>2, <3>3
  <2> QED
    BY <2>2, <2>5, <2>6
<1> QED
  BY <1>3, <1>4
(* A row is written or deleted, and no more songs are of the upload id.         *)
LEMMA OnceRow ==
    ASSUME Base, Once, ~lapsed, ~stale, NEW q \in Senders, NEW r, Turns(q, r), r.kind # "upload", r.of = {},
           UNCHANGED uploadState, NEW s \in Verifiers, NEW row, recording'[s] = row, \A o \in Verifiers \ {s} : recording'[o] = recording[o],
           row.own => recording[s].own,
           \A o \in Senders \ {q} : s \in upload[o].of /\ row # Media!NoRow => Media!Present(s) /\ (row.own <=> recording[s].own)
    PROVE  (\A o \in Senders : OneUpload(o)' /\ ReadOwn(o)') /\ Single'
<1>1. (\A o \in Senders : OneUpload(o) /\ ReadOwn(o)) /\ Single /\ Media!Own' \subseteq Media!Own
  BY DEF Once, Media!Own
<1>2. upload'[q] = r /\ \A o \in Senders \ {q} : upload'[o] = upload[o]
  BY DEF Turns
<1>3. ASSUME NEW o \in Senders \ {q} PROVE OneUpload(o)'
  BY <1>1, <1>2, <1>3, OthersUpload DEF Media!Is
<1>4. ASSUME NEW o \in Senders \ {q} PROVE ReadOwn(o)'
  <2> SUFFICES ASSUME NEW t \in upload'[o].of, Media!Present(t)' PROVE recording'[t].own <=> upload'[o].read.own
    BY DEF ReadOwn
  <2>1. CASE t = s
    BY <1>1, <1>2, <2>1 DEF ReadOwn, Media!Present
  <2>2. CASE t # s
    <3>1. ReadOwn(o) /\ upload'[o] = upload[o]
      BY <1>1, <1>2
    <3>2. t \in Verifiers
      BY <3>1, MediaRequestFields DEF Base, Media!TypeOK
    <3> QED
      BY <2>2, <3>1, <3>2 DEF ReadOwn, Media!Present
  <2> QED
    BY <2>1, <2>2
<1>5. OneUpload(q)' /\ ReadOwn(q)'
  BY <1>2 DEF OneUpload, ReadOwn, Media!Is
<1>6. Single'
  BY <1>1 DEF Single
<1> QED
  BY <1>3, <1>4, <1>5, <1>6

LEMMA OnceSaves ==
    ASSUME MediaBounds, Base, Once, NEW q \in Senders, NEW s \in Verifiers,
           Media!SaveNew(q, s) \/ Media!SaveEdit(q, s) \/ Media!SaveAdminEdit(q, s) \/ Media!SaveCopy(q, s) \/ Media!Delete(q, s)
    PROVE  Once'
<1> SUFFICES ASSUME ~lapsed', ~stale' PROVE (\A o \in Senders : OneUpload(o)' /\ ReadOwn(o)') /\ Single'
  BY DEF Once
<1>1. /\ Media!TypeOK /\ Shape(q) /\ upload[q] \in Media!Request /\ UNCHANGED <<uploadState, lapsed>> /\ ~stale
      /\ recording[s] \in Media!Row /\ upload[q].read \in Media!Row
  BY MediaRequestFields DEF Base, Media!TypeOK, Media!SaveNew, Media!SaveEdit, Media!SaveAdminEdit,
     Media!SaveCopy, Media!Delete
<1>2. (\A o \in Senders : OneUpload(o) /\ ReadOwn(o)) /\ Single /\ ~lapsed
  BY <1>1 DEF Once
<1>3. ASSUME NEW row \in Media!Row, recording' = [recording EXCEPT ![s] = row], NEW r, Turns(q, r), r.kind # "upload", r.of = {},
             row.own => recording[s].own,
             \A o \in Senders \ {q} : s \in upload[o].of /\ row # Media!NoRow => Media!Present(s) /\ (row.own <=> recording[s].own)
      PROVE  (\A o \in Senders : OneUpload(o)' /\ ReadOwn(o)') /\ Single'
  <2>1. recording'[s] = row /\ \A o \in Verifiers \ {s} : recording'[o] = recording[o]
    BY <1>1, <1>3, RowWritten
  <2> QED
    BY <1>1, <1>2, <1>3, <2>1, OnceRow
<1>4. CASE Media!SaveNew(q, s)
  <2>1. PICK row : row = Media!Uploaded(q)
    OBVIOUS
  <2>2. row \in Media!Row /\ (row.own <=> Media!Is(q, {"upload"})) /\ recording' = [recording EXCEPT ![s] = row]
    BY <1>1, <1>4, <2>1, UploadedRow DEF Media!SaveNew
  <2>3. Media!Gone(s) /\ ~recording[s].own /\ \A o \in Senders : s \notin upload[o].of
    BY <1>4, NoRowTyped DEF Media!SaveNew, Media!Unused, Media!Gone
  <2>4. CASE ~Media!Is(q, {"upload"})
    <3>1. Turns(q, Media!Idle)
      BY <1>1, <1>4, <2>4, RestTurn DEF Media!SaveNew
    <3> QED
      BY <1>3, <2>2, <2>3, <2>4, <3>1, IdleHas
  <2>5. CASE Media!Is(q, {"upload"})
    <3>1. Turns(q, Made("report", "upload", {}, Media!NoRow, Media!NoName, 0))
      BY <1>1, <1>4, <2>5, ReportTurn DEF Media!SaveNew
    <3>2. PICK r : r = Made("report", "upload", {}, Media!NoRow, Media!NoName, 0)
      OBVIOUS
    <3>3. r.pc = "report" /\ r.of = {} /\ upload'[q] = r /\ \A o \in Senders \ {q} : upload'[o] = upload[o]
      BY <3>1, <3>2, MadeHas DEF Turns
    <3>4. uploadState = "processing" /\ Media!Own = {} /\ \A o \in Senders \ {q} : ~Media!Is(o, {"upload"})
      BY <1>2, <1>4, <2>5 DEF Media!SaveNew, OneUpload, Media!At
    <3>5. recording'[s] = row /\ \A o \in Verifiers \ {s} : recording'[o] = recording[o]
      BY <1>1, <2>2, RowWritten
    <3>6. \A a \in Media!Own' : a = s
      BY <3>4, <3>5 DEF Media!Own
    <3>7. Single'
      BY <1>1, <3>4, <3>6 DEF Single
    <3>8. OneUpload(q)' /\ ReadOwn(q)'
      BY <1>1, <3>3, <3>4 DEF OneUpload, ReadOwn, Media!Is, Media!At
    <3>9. ASSUME NEW o \in Senders \ {q} PROVE OneUpload(o)' /\ ReadOwn(o)'
      <4>1. ReadOwn(o) /\ upload'[o] = upload[o] /\ ~Media!Is(o, {"upload"})
        BY <1>2, <3>3, <3>4
      <4>2. OneUpload(o)'
        BY <4>1 DEF OneUpload, Media!Is
      <4>3. ReadOwn(o)'
        BY <1>1, <2>3, <3>5, <4>1, MediaRequestFields DEF ReadOwn, Media!Present, Media!TypeOK
      <4> QED
        BY <4>2, <4>3
    <3> QED
      BY <3>7, <3>8, <3>9
  <2> QED
    BY <2>4, <2>5
<1>5. CASE Media!SaveEdit(q, s)
  <2>1. PICK row : row = [Media!Uploaded(q) EXCEPT !.own = recording[s].own]
    OBVIOUS
  <2>2. row \in Media!Row /\ (row.own <=> recording[s].own) /\ Media!Present(s)
    BY <1>1, <1>5, <2>1, UploadedRow, MediaRowFields DEF Media!SaveEdit
  <2>3. recording' = [recording EXCEPT ![s] = row]
    BY <1>5, <2>1 DEF Media!SaveEdit
  <2>4. PICK r : r = Made("check", "edit", {}, upload[q].read, Media!NoName, 0)
    OBVIOUS
  <2>5. Turns(q, r)
    BY <1>1, <1>5, <2>4, CheckTurn DEF Media!SaveEdit
  <2>6. r.kind = "edit" /\ r.of = {}
    BY <2>4, MadeHas
  <2> QED
    BY <1>3, <2>2, <2>3, <2>5, <2>6
<1>6. CASE Media!SaveAdminEdit(q, s)
  <2>1. PICK row : row = IF upload[q].file = Media!NoName THEN upload[q].read
                         ELSE [Media!Uploaded(q) EXCEPT !.own = upload[q].read.own]
    OBVIOUS
  <2>2. row \in Media!Row /\ (row.own <=> upload[q].read.own)
    BY <1>1, <2>1, UploadedRow, MediaRowFields
  <2>3. recording' = [recording EXCEPT ![s] = row] /\ Media!Go(q, Media!Idle) /\ s \in upload[q].of
    BY <1>6, <2>1 DEF Media!SaveAdminEdit
  <2>4. Media!Present(s)
    BY <1>6 DEF Media!SaveAdminEdit, Media!Gone, Media!Present
  <2>5. row.own <=> recording[s].own
    BY <1>2, <2>2, <2>3, <2>4 DEF ReadOwn
  <2>6. Turns(q, Media!Idle)
    BY <1>1, <2>3, RestTurn
  <2> QED
    BY <1>3, <2>2, <2>3, <2>4, <2>5, <2>6, IdleHas
<1>7. CASE Media!SaveCopy(q, s)
  <2>1. Media!Gone(s) /\ ~recording[s].own /\ \A o \in Senders : s \notin upload[o].of
    BY <1>7, NoRowTyped DEF Media!SaveCopy, Media!Unused, Media!Gone
  <2>2. recording' = [recording EXCEPT ![s] = upload[q].read] /\ Media!Go(q, Media!Idle) /\ ~upload[q].read.own
    BY <1>1, <1>7 DEF Media!SaveCopy, Shape
  <2>3. Turns(q, Media!Idle)
    BY <1>1, <2>2, RestTurn
  <2> QED
    BY <1>1, <1>3, <2>1, <2>2, <2>3, IdleHas
<1>8. CASE Media!Delete(q, s)
  <2>1. PICK r : r = Made("check", "delete", {}, recording[s], Media!NoName, 0)
    OBVIOUS
  <2>2. Turns(q, r)
    BY <1>1, <1>8, <2>1, CheckTurn DEF Media!Delete
  <2>3. r.kind = "delete" /\ r.of = {}
    BY <2>1, MadeHas
  <2>4. recording' = [recording EXCEPT ![s] = Media!NoRow]
    BY <1>8 DEF Media!Delete
  <2> QED
    BY <1>3, <2>2, <2>4, <2>3, NoRowTyped
<1> QED
  BY <1>4, <1>5, <1>6, <1>7, <1>8

LEMMA OnceKept == ASSUME MediaBounds, Base, Once, Media!Next \/ UNCHANGED Media!vars PROVE Once'
<1>1. CASE Media!Expire
  BY <1>1 DEF Media!Expire, Once
<1>2. CASE UNCHANGED Media!vars
  BY <1>2 DEF Media!vars, Once, OneUpload, ReadOwn, Single, Media!Own, Media!Is, Media!At, Media!Present
<1>3. ASSUME NEW s \in Verifiers, Media!AdminDelete(s) PROVE Once'
  <2> SUFFICES ASSUME ~lapsed', ~stale' PROVE (\A o \in Senders : OneUpload(o)' /\ ReadOwn(o)') /\ Single'
    BY DEF Once
  <2>1. UNCHANGED <<upload, uploadState, lapsed, stale>> /\ recording' = [recording EXCEPT ![s] = Media!NoRow] /\ Media!TypeOK
    BY <1>3 DEF Media!AdminDelete, Base
  <2>2. (\A o \in Senders : OneUpload(o) /\ ReadOwn(o)) /\ Single
    BY <2>1 DEF Once
  <2>3. recording'[s] = Media!NoRow /\ \A o \in Verifiers \ {s} : recording'[o] = recording[o]
    BY <2>1, RowWritten, NoRowTyped
  <2>4. Media!Own' \subseteq Media!Own
    BY <2>3, NoRowTyped DEF Media!Own
  <2>5. ASSUME NEW o \in Senders PROVE OneUpload(o)'
    BY <2>1, <2>2, <2>4 DEF OneUpload, Media!Is, Media!At
  <2>6. ASSUME NEW o \in Senders PROVE ReadOwn(o)'
    <3>1. ReadOwn(o) /\ upload' = upload /\ upload[o].of \subseteq Verifiers
      BY <2>1, <2>2, MediaRequestFields DEF Media!TypeOK
    <3> QED
      BY <2>3, <3>1 DEF ReadOwn, Media!Present
  <2>7. Single'
    BY <2>1, <2>2, <2>4 DEF Single
  <2> QED
    BY <2>5, <2>6, <2>7
<1> QED
  BY <1>1, <1>2, <1>3, OnceBeginnings, OnceGoes, OnceTells, OnceSaves DEF Media!Next

LEMMA OnceFirst == ASSUME MediaBounds, Media!Init PROVE Once
<1>1. \A q \in Senders : upload[q] = Media!Idle
  BY DEF Media!Init
<1>2. \A s \in Verifiers : ~recording[s].own
  BY NoRowTyped DEF Media!Init
<1> QED
  BY <1>1, <1>2, IdleHas DEF Once, OneUpload, ReadOwn, Single, Media!Own, Media!Is

LEMMA OnceMeans == Once => Media!OneSong
BY DEF Once, Media!OneSong, Single, Media!Told
-----------------------------------------------------------------------------
(* Files: a name that is given is nobody else's, what is at it when the row is *)
(* saved is the upload, what is saved as it was read is still stored, and what *)
(* is removed no row names.                                                   *)
Files == \A s \in Verifiers : Media!Present(s) => stored[recording[s].name] = recording[s].meant

NotTaken(q, n) == \A o \in Senders \ {q} : upload[o].file # n /\ upload[o].read.name # n

Alone(q) ==
    upload[q].file \in Media!Names =>
        /\ ~Referenced(upload[q].file) /\ NotTaken(q, upload[q].file)
        /\ Media!At(q, "save") => stored[upload[q].file] = upload[q].bytes

Current(q) ==
    Media!At(q, "save") /\ upload[q].file = Media!NoName /\ Referenced(upload[q].read.name)
        => stored[upload[q].read.name] = upload[q].read.meant

Removable(q) == Media!At(q, "clean") => ~Referenced(upload[q].read.name)

Sound(q) == Alone(q) /\ Current(q) /\ Removable(q)

Filed == ~clash /\ ~stale => Files /\ \A q \in Senders : Sound(q)

(* What a step changes in files and names is of its own request, and no row    *)
(* names what it changes.                                                     *)
Local(q) ==
    /\ \A n \in Media!Names : Referenced(n)' => Referenced(n) \/ n = upload[q].file
    /\ \A n \in Media!Names : stored'[n] # stored[n] => ~Referenced(n) /\ n \in {upload[q].file, upload[q].read.name}

Apart(q, r) ==
    /\ r.file \in Media!Names => NotTaken(q, r.file)
    /\ \A o \in Senders \ {q} : upload[o].file \in Media!Names => r.read.name # upload[o].file

LEMMA SoundOthers ==
    ASSUME MediaBounds, Base, \A o \in Senders : Sound(o), NEW q \in Senders, NEW r, Turns(q, r), Local(q), Apart(q, r),
           NEW p \in Senders \ {q}
    PROVE  Sound(p)'
<1>1. /\ Shape(p) /\ upload[p].file \in Media!Names \cup {Media!NoName} /\ upload[q].file \in Media!Names \cup {Media!NoName}
      /\ Alone(p) /\ Current(p) /\ Removable(p) /\ Alone(q)
  BY MediaRequestFields DEF Base, Media!TypeOK, Sound
<1>2. upload'[p] = upload[p] /\ upload'[q] = r /\ \A o \in Senders \ {q} : upload'[o] = upload[o]
  BY DEF Turns
<1>3. Alone(p)'
  <2> SUFFICES ASSUME upload[p].file \in Media!Names
               PROVE  /\ ~Referenced(upload[p].file)' /\ NotTaken(p, upload[p].file)'
                      /\ Media!At(p, "save") => stored'[upload[p].file] = upload[p].bytes
    BY <1>2 DEF Alone, Media!At, Referenced, NotTaken
  <2>1. PICK f \in Media!Names : f = upload[p].file
    OBVIOUS
  <2>2. ~Referenced(f) /\ NotTaken(p, f) /\ (Media!At(p, "save") => stored[f] = upload[p].bytes)
    BY <1>1, <2>1 DEF Alone
  <2>3. f # upload[q].file /\ f # upload[q].read.name
    BY <2>2 DEF NotTaken
  <2>4. ~Referenced(f)' /\ stored'[f] = stored[f]
    BY <2>2, <2>3 DEF Local
  <2>5. r.read.name # f
    BY <2>1 DEF Apart
  <2>6. r.file # f
    BY <2>1 DEF Apart, NotTaken
  <2>7. NotTaken(p, f)'
    BY <1>2, <2>2, <2>5, <2>6 DEF NotTaken
  <2>8. ~Referenced(upload[p].file)' /\ NotTaken(p, upload[p].file)'
    BY <1>2, <2>1, <2>4, <2>7 DEF Referenced, NotTaken
  <2> QED
    BY <2>1, <2>2, <2>4, <2>8
<1>4. Current(p)'
  <2> SUFFICES ASSUME Media!At(p, "save"), upload[p].file = Media!NoName, Referenced(upload[p].read.name)'
               PROVE  stored'[upload[p].read.name] = upload[p].read.meant
    BY <1>2 DEF Current, Media!At, Referenced
  <2>1. upload[p].read.name \in Media!Names
    BY <1>1, Numbers DEF Shape, Media!At, Media!Is
  <2>2. PICK f \in Media!Names : f = upload[p].read.name
    BY <2>1
  <2>3. f # upload[q].file
    BY <1>1, <2>2 DEF Alone, NotTaken
  <2>4. Referenced(f)'
    BY <1>2, <2>2 DEF Referenced
  <2>5. Referenced(f) /\ stored'[f] = stored[f]
    BY <2>3, <2>4 DEF Local
  <2> QED
    BY <1>1, <2>2, <2>5 DEF Current
<1>5. Removable(p)'
  <2> SUFFICES ASSUME Media!At(p, "clean"), Referenced(upload[p].read.name)' PROVE FALSE
    BY <1>2 DEF Removable, Media!At, Referenced
  <2>1. upload[p].read.name \in Media!Names
    BY <1>1 DEF Shape, Media!At
  <2>2. PICK f \in Media!Names : f = upload[p].read.name
    BY <2>1
  <2>3. f # upload[q].file
    BY <1>1, <2>2 DEF Alone, NotTaken
  <2>4. Referenced(f)'
    BY <1>2, <2>2 DEF Referenced
  <2>5. Referenced(f)
    BY <2>3, <2>4 DEF Local
  <2> QED
    BY <1>1, <2>2, <2>5 DEF Removable
<1> QED
  BY <1>3, <1>4, <1>5 DEF Sound

(* Files and rows as they are.                                                *)
LEMMA LocalSame == ASSUME NEW q, UNCHANGED <<stored, recording>> PROVE Local(q)
BY DEF Local, Referenced

LEMMA FilesSame == ASSUME Files, UNCHANGED <<stored, recording>> PROVE Files'
BY DEF Files, Media!Present

(* A request that goes on with the name and the row it has, or with neither.    *)
LEMMA ApartSame ==
    ASSUME \A o \in Senders : Sound(o), NEW q \in Senders, NEW r, r.file = upload[q].file \/ r.file \notin Media!Names,
           r.read = upload[q].read \/ r.read.name \notin Media!Names
    PROVE  Apart(q, r)
<1>1. Alone(q) /\ \A o \in Senders \ {q} : Alone(o)
  BY DEF Sound
<1>2. r.file \in Media!Names => NotTaken(q, r.file)
  BY <1>1 DEF Alone
<1>3. ASSUME NEW o \in Senders \ {q}, upload[o].file \in Media!Names PROVE r.read.name # upload[o].file
  BY <1>1, <1>3 DEF Alone, NotTaken
<1> QED
  BY <1>2, <1>3 DEF Apart

LEMMA SoundResting ==
    ASSUME NEW q \in Senders, NEW r, Turns(q, r), r.file \notin Media!Names, r.pc \notin {"save", "clean"}
    PROVE  Sound(q)'
BY DEF Turns, Sound, Alone, Current, Removable, Media!At

LEMMA AllSound ==
    ASSUME MediaBounds, Base, \A o \in Senders : Sound(o), NEW q \in Senders, NEW r, Turns(q, r), Local(q), Apart(q, r),
           Sound(q)'
    PROVE  \A o \in Senders : Sound(o)'
BY SoundOthers
(* What has just been read of a row is stored.                                 *)
LEMMA FiledBegins ==
    ASSUME MediaBounds, Base, Filed, NEW q \in Senders, NEW kind \in Media!Kinds, NEW pc \in {"claim", "name", "save"},
           NEW S \in SUBSET Verifiers, NEW row \in Media!Row, Media!Begins(q, kind, pc, S, row),
           (row = Media!NoRow /\ pc # "save")
             \/ \E s \in Verifiers : Media!Present(s) /\ row.name = recording[s].name /\ row.meant = recording[s].meant
    PROVE  Filed'
<1>1. PICK r : r = Made(pc, kind, S, row, Media!NoName, uploads + 1)
  OBVIOUS
<1>2. Turns(q, r) /\ UNCHANGED <<stored, recording, clash, stale>>
  BY <1>1, BeginsTurn DEF Base
<1>3. r.read = row /\ r.pc = pc /\ r.file = Media!NoName
  BY <1>1, MadeHas
<1> SUFFICES ASSUME ~clash, ~stale PROVE Files' /\ \A o \in Senders : Sound(o)'
  BY <1>2 DEF Filed
<1>4. Files /\ \A o \in Senders : Sound(o)
  BY DEF Filed
<1>5. (row = Media!NoRow /\ pc # "save") \/ (Referenced(row.name) /\ stored[row.name] = row.meant)
  BY <1>4 DEF Files, Referenced
<1>6. ASSUME NEW o \in Senders \ {q}, upload[o].file \in Media!Names PROVE r.read.name # upload[o].file
  <2>1. ~Referenced(upload[o].file)
    BY <1>4, <1>6 DEF Sound, Alone
  <2>2. row.name # upload[o].file
    <3>1. CASE row = Media!NoRow
      BY <1>6, <3>1, NoRowTyped, Numbers
    <3>2. CASE Referenced(row.name)
      BY <2>1, <3>2
    <3> QED
      BY <1>5, <3>1, <3>2
  <2> QED
    BY <1>3, <2>2
<1>7. Apart(q, r)
  BY <1>3, <1>6, Numbers DEF Apart
<1>8. Sound(q)'
  <2>1. upload'[q] = r /\ UNCHANGED stored
    BY <1>2 DEF Turns
  <2> QED
    BY <1>3, <1>5, <2>1, Numbers DEF Sound, Alone, Current, Removable, Media!At, Referenced
<1> QED
  BY <1>2, <1>4, <1>7, <1>8, LocalSame, FilesSame, AllSound

LEMMA FiledBeginnings ==
    ASSUME MediaBounds, Base, Filed, NEW q \in Senders,
           Media!Upload(q) \/ Media!Create(q) \/ Media!AdminCreate(q) \/ \E s \in Verifiers : Media!Edit(q, s) \/ Media!AdminEdit(q, s) \/ Media!Copy(q, s)
    PROVE  Filed'
<1>1. CASE Media!Upload(q) \/ Media!Create(q) \/ Media!AdminCreate(q)
  BY <1>1, FiledBegins, NoRowTyped DEF Media!Upload, Media!Create, Media!AdminCreate, Media!Kinds
<1>2. ASSUME NEW s \in Verifiers, Media!Edit(q, s) \/ Media!AdminEdit(q, s) \/ Media!Copy(q, s) PROVE Filed'
  <2>1. recording[s] \in Media!Row /\ Media!Present(s)
    BY <1>2 DEF Base, Media!TypeOK, Media!Edit, Media!AdminEdit, Media!Copy
  <2>2. CASE Media!Edit(q, s) \/ Media!AdminEdit(q, s)
    BY <2>1, <2>2, FiledBegins DEF Media!Edit, Media!AdminEdit, Media!Kinds
  <2>3. CASE Media!Copy(q, s)
    <3>1. PICK row : row = [recording[s] EXCEPT !.own = FALSE]
      OBVIOUS
    <3>2. row \in Media!Row /\ row.name = recording[s].name /\ row.meant = recording[s].meant
      BY <2>1, <3>1 DEF Media!Row
    <3>3. Media!Begins(q, "copy", "save", {}, row)
      BY <2>3, <3>1 DEF Media!Copy
    <3> QED
      BY <2>1, <3>2, <3>3, FiledBegins DEF Media!Kinds
  <2> QED
    BY <1>2, <2>2, <2>3
<1> QED
  BY <1>1, <1>2

LEMMA FiledRests ==
    ASSUME MediaBounds, Base, Filed, NEW q \in Senders, Media!Go(q, Media!Idle), UNCHANGED <<stored, recording, clash, stale>>
    PROVE  Filed'
<1> SUFFICES ASSUME ~clash, ~stale PROVE Files' /\ \A o \in Senders : Sound(o)'
  BY DEF Filed
<1>1. Files /\ \A o \in Senders : Sound(o)
  BY DEF Filed
<1>2. Turns(q, Media!Idle)
  BY RestTurn DEF Base
<1>3. Media!Idle.file \notin Media!Names /\ Media!Idle.read.name \notin Media!Names /\ Media!Idle.pc \notin {"save", "clean"}
  BY IdleHas, NoRowTyped, Numbers
<1> QED
  BY <1>1, <1>2, <1>3, LocalSame, FilesSame, ApartSame, SoundResting, AllSound

(* Of a name that nothing is kept under and nobody knows.                      *)
LEMMA FiledChoose == ASSUME MediaBounds, Base, Filed, NEW q \in Senders, Media!Choose(q) PROVE Filed'
<1>1. PICK n \in Media!Names :
        /\ Media!Free(n) /\ clash' = (clash \/ n \in Media!Known(q))
        /\ Turns(q, Made("put", upload[q].kind, upload[q].of, upload[q].read, n, upload[q].bytes))
  BY ChooseTurn DEF Base
<1>2. PICK r : r = Made("put", upload[q].kind, upload[q].of, upload[q].read, n, upload[q].bytes)
  OBVIOUS
<1>3. r.pc = "put" /\ r.read = upload[q].read /\ r.file = n /\ Turns(q, r)
  BY <1>1, <1>2, MadeHas
<1>4. UNCHANGED <<stored, recording, stale>>
  BY DEF Media!Choose
<1> SUFFICES ASSUME ~clash', ~stale PROVE Files' /\ \A o \in Senders : Sound(o)'
  BY <1>4 DEF Filed
<1>5. ~clash /\ n \notin Media!Known(q)
  BY <1>1
<1>6. Files /\ \A o \in Senders : Sound(o)
  BY <1>5 DEF Filed
<1>7. NotTaken(q, n)
  <2> SUFFICES ASSUME NEW o \in Senders \ {q} PROVE upload[o].file # n /\ upload[o].read.name # n
    BY DEF NotTaken
  <2>1. CASE Media!At(o, "idle")
    <3>1. upload[o] = Media!Idle
      BY <2>1 DEF Base, Shape
    <3> QED
      BY <3>1, IdleHas, NoRowTyped, Numbers
  <2>2. CASE ~Media!At(o, "idle")
    BY <1>5, <2>2 DEF Media!Known, Media!Others
  <2> QED
    BY <2>1, <2>2
<1>8. ~Referenced(n)
  <2> SUFFICES ASSUME NEW s \in Verifiers, recording[s].name = n PROVE FALSE
    BY DEF Referenced
  <2>1. Media!Present(s)
    BY NoRowTyped, Numbers DEF Media!Present
  <2>2. stored[n] \in Media!Uploads
    <3>1. recording[s] \in Media!Row
      BY DEF Base, Media!TypeOK
    <3> QED
      BY <1>6, <2>1, <3>1, MediaRowFields DEF Files
  <2> QED
    BY <1>1, <2>2, Numbers DEF Media!Free
<1>9. Apart(q, r)
  BY <1>3, <1>6, <1>7 DEF Apart, Sound, Alone, NotTaken
<1>10. Sound(q)'
  <2>1. upload'[q] = r /\ \A o \in Senders \ {q} : upload'[o] = upload[o]
    BY <1>3 DEF Turns
  <2>2. NotTaken(q, n)' /\ ~Referenced(n)'
    BY <1>4, <1>7, <1>8, <2>1 DEF NotTaken, Referenced
  <2>3. Alone(q)'
    BY <1>3, <2>1, <2>2 DEF Alone, Media!At, NotTaken, Referenced
  <2>4. Current(q)' /\ Removable(q)'
    BY <1>3, <2>1 DEF Current, Removable, Media!At
  <2> QED
    BY <2>3, <2>4 DEF Sound
<1> QED
  BY <1>3, <1>4, <1>6, <1>9, <1>10, LocalSame, FilesSame, AllSound

(* The file of a name no row has is written or removed.                        *)
LEMMA FilesElsewhere ==
    ASSUME MediaBounds, Base, Files, NEW n \in Media!Names, ~Referenced(n), UNCHANGED recording,
           \A m \in Media!Names \ {n} : stored'[m] = stored[m]
    PROVE  Files'
<1> SUFFICES ASSUME NEW s \in Verifiers, Media!Present(s) PROVE stored'[recording[s].name] = recording[s].meant
  BY DEF Files, Media!Present
<1>1. recording[s].name \in Media!Names /\ recording[s].name # n
  BY DEF Base, Named, Referenced
<1> QED
  BY <1>1 DEF Files

LEMMA LocalElsewhere ==
    ASSUME NEW q, NEW n \in {upload[q].file, upload[q].read.name}, ~Referenced(n), UNCHANGED recording,
           \A m \in Media!Names \ {n} : stored'[m] = stored[m]
    PROVE  Local(q)
BY DEF Local, Referenced

LEMMA FiledPut == ASSUME MediaBounds, Base, Filed, NEW q \in Senders, Media!Put(q) PROVE Filed'
<1>1. Media!Go(q, [upload[q] EXCEPT !.pc = "save"]) /\ Media!At(q, "put") /\ UNCHANGED <<recording, clash, stale>>
      /\ stored' = [stored EXCEPT ![upload[q].file] = upload[q].bytes]
  BY DEF Media!Put
<1>2. Turns(q, Made("save", upload[q].kind, upload[q].of, upload[q].read, upload[q].file, upload[q].bytes))
  BY <1>1, StepTurn DEF Base
<1>3. PICK r : r = Made("save", upload[q].kind, upload[q].of, upload[q].read, upload[q].file, upload[q].bytes)
  OBVIOUS
<1>4. r.pc = "save" /\ r.read = upload[q].read /\ r.file = upload[q].file /\ r.bytes = upload[q].bytes
  BY <1>3, MadeHas
<1> SUFFICES ASSUME ~clash, ~stale PROVE Files' /\ \A o \in Senders : Sound(o)'
  BY <1>1 DEF Filed
<1>5. Files /\ \A o \in Senders : Sound(o)
  BY DEF Filed
<1>6. PICK f \in Media!Names : f = upload[q].file
  BY <1>1 DEF Base, Shape
<1>7. ~Referenced(f) /\ NotTaken(q, f)
  BY <1>5, <1>6 DEF Sound, Alone
<1>8. stored'[f] = upload[q].bytes /\ \A m \in Media!Names \ {f} : stored'[m] = stored[m]
  <2>1. upload[q].bytes \in Media!Uploads
    BY MediaRequestFields DEF Base, Media!TypeOK
  <2>2. PICK b \in Media!Uploads : b = upload[q].bytes
    BY <2>1
  <2>3. stored' = [stored EXCEPT ![f] = b]
    BY <1>1, <1>6, <2>2
  <2> QED
    BY <2>2, <2>3, BytesWritten DEF Base
<1>9. Sound(q)'
  <2>1. upload'[q] = r /\ \A o \in Senders \ {q} : upload'[o] = upload[o]
    BY <1>2, <1>3 DEF Turns
  <2>2. NotTaken(q, f)' /\ ~Referenced(f)'
    BY <1>1, <1>7, <2>1 DEF NotTaken, Referenced
  <2>3. Alone(q)'
    BY <1>4, <1>6, <1>8, <2>1, <2>2 DEF Alone, Media!At, NotTaken, Referenced
  <2>4. Current(q)' /\ Removable(q)'
    BY <1>4, <1>6, <2>1, Numbers DEF Current, Removable, Media!At
  <2> QED
    BY <2>3, <2>4 DEF Sound
<1>10. Apart(q, r) /\ Turns(q, r)
  BY <1>2, <1>3, <1>4, <1>5, ApartSame
<1>11. Files' /\ Local(q)
  BY <1>1, <1>5, <1>6, <1>7, <1>8, FilesElsewhere, LocalElsewhere
<1> QED
  BY <1>5, <1>9, <1>10, <1>11, AllSound

(* A file is removed: the request's own, or one that no row names.             *)
LEMMA FiledRemoves ==
    ASSUME MediaBounds, Base, Filed, NEW q \in Senders, NEW n \in Media!Names, n \in {upload[q].file, upload[q].read.name},
           n = upload[q].file \/ Media!At(q, "clean"), stored' = [stored EXCEPT ![n] = Media!NoBytes],
           Media!Go(q, Media!Idle), UNCHANGED <<recording, clash, stale>>
    PROVE  Filed'
<1> SUFFICES ASSUME ~clash, ~stale PROVE Files' /\ \A o \in Senders : Sound(o)'
  BY DEF Filed
<1>1. Files /\ \A o \in Senders : Sound(o)
  BY DEF Filed
<1>2. ~Referenced(n)
  BY <1>1 DEF Sound, Alone, Removable
<1>3. \A m \in Media!Names \ {n} : stored'[m] = stored[m]
  BY BytesWritten DEF Base
<1>4. Files' /\ Local(q)
  BY <1>1, <1>2, <1>3, FilesElsewhere, LocalElsewhere
<1>5. Turns(q, Media!Idle)
  BY RestTurn DEF Base
<1>6. Media!Idle.file \notin Media!Names /\ Media!Idle.read.name \notin Media!Names /\ Media!Idle.pc \notin {"save", "clean"}
  BY IdleHas, NoRowTyped, Numbers
<1> QED
  BY <1>1, <1>4, <1>5, <1>6, ApartSame, SoundResting, AllSound
LEMMA FiledGoes ==
    ASSUME MediaBounds, Base, Filed, NEW q \in Senders, Media!Claim(q) \/ Media!Fail(q) \/ Media!Report(q) \/ Media!Check(q) \/ Media!Clean(q) \/ Media!Stop(q)
    PROVE  Filed'
<1>1. Shape(q) /\ Media!TypeOK
  BY DEF Base
<1>2. CASE Media!Claim(q)
  <2>1. PICK r : r = Made("name", upload[q].kind, upload[q].of, upload[q].read, upload[q].file, upload[q].bytes)
    OBVIOUS
  <2>2. Media!Go(q, [upload[q] EXCEPT !.pc = "name"]) /\ UNCHANGED <<stored, recording, clash, stale>> /\ Media!At(q, "claim")
    BY <1>2 DEF Media!Claim
  <2>3. Turns(q, r)
    BY <1>1, <2>1, <2>2, StepTurn
  <2>4. r.pc = "name" /\ r.read = upload[q].read /\ r.file = upload[q].file /\ r.file \notin Media!Names
    BY <1>1, <2>1, <2>2, MadeHas, Numbers DEF Shape, Media!At
  <2> SUFFICES ASSUME ~clash, ~stale PROVE Files' /\ \A o \in Senders : Sound(o)'
    BY <2>2 DEF Filed
  <2>5. Files /\ \A o \in Senders : Sound(o)
    BY DEF Filed
  <2> QED
    BY <2>2, <2>3, <2>4, <2>5, LocalSame, FilesSame, ApartSame, SoundResting, AllSound
<1>3. CASE Media!Fail(q)
  <2>1. Media!Go(q, Media!Idle) /\ UNCHANGED <<recording, clash, stale>>
    BY <1>3 DEF Media!Fail
  <2>2. CASE Media!At(q, "save") /\ upload[q].file # Media!NoName /\ Media!CleansUp(q)
    <3>1. upload[q].file \in Media!Names \cup {Media!NoName}
      BY <1>1, MediaRequestFields DEF Media!TypeOK
    <3>2. PICK n \in Media!Names : n = upload[q].file
      BY <2>2, <3>1
    <3>3. stored' = [stored EXCEPT ![n] = Media!NoBytes]
      BY <1>3, <2>2, <3>2 DEF Media!Fail
    <3> QED
      BY <2>1, <3>2, <3>3, FiledRemoves
  <2>3. CASE ~(Media!At(q, "save") /\ upload[q].file # Media!NoName /\ Media!CleansUp(q))
    <3>1. stored' = stored
      BY <1>3, <2>3 DEF Media!Fail
    <3> QED
      BY <2>1, <3>1, FiledRests
  <2> QED
    BY <2>2, <2>3
<1>4. CASE Media!Report(q) \/ Media!Stop(q)
  BY <1>4, FiledRests DEF Media!Report, Media!Stop
<1>5. CASE Media!Check(q)
  <2>1. Media!At(q, "check") /\ UNCHANGED <<stored, recording, clash, stale>>
    BY <1>5 DEF Media!Check
  <2>2. CASE ~Media!Unreferenced(upload[q].read.name)
    BY <1>5, <2>1, <2>2, FiledRests DEF Media!Check
  <2>3. CASE Media!Unreferenced(upload[q].read.name)
    <3>1. PICK r : r = Made("clean", upload[q].kind, upload[q].of, upload[q].read, upload[q].file, upload[q].bytes)
      OBVIOUS
    <3>2. Media!Go(q, [upload[q] EXCEPT !.pc = "clean"])
      BY <1>5, <2>3 DEF Media!Check
    <3>3. Turns(q, r)
      BY <1>1, <3>1, <3>2, StepTurn
    <3>4. r.pc = "clean" /\ r.read = upload[q].read /\ r.file = upload[q].file /\ r.file \notin Media!Names
      BY <1>1, <2>1, <3>1, MadeHas, Numbers DEF Shape, Media!At
    <3> SUFFICES ASSUME ~clash, ~stale PROVE Files' /\ \A o \in Senders : Sound(o)'
      BY <2>1 DEF Filed
    <3>5. Files /\ \A o \in Senders : Sound(o)
      BY DEF Filed
    <3>6. Sound(q)'
      <4>1. upload'[q] = r /\ recording' = recording
        BY <2>1, <3>3 DEF Turns
      <4> QED
        BY <2>3, <3>4, <4>1 DEF Sound, Alone, Current, Removable, Media!At, Referenced, Media!Unreferenced
    <3> QED
      BY <2>1, <3>3, <3>4, <3>5, <3>6, LocalSame, FilesSame, ApartSame, AllSound
  <2> QED
    BY <2>2, <2>3
<1>6. CASE Media!Clean(q)
  <2>1. Media!At(q, "clean") /\ Media!Go(q, Media!Idle) /\ UNCHANGED <<recording, clash, stale>>
    BY <1>6 DEF Media!Clean
  <2>2. PICK n \in Media!Names : n = upload[q].read.name
    BY <1>1, <2>1 DEF Shape, Media!At
  <2>3. stored' = [stored EXCEPT ![n] = Media!NoBytes]
    BY <1>6, <2>2 DEF Media!Clean
  <2> QED
    BY <2>1, <2>2, <2>3, FiledRemoves
<1> QED
  BY <1>2, <1>3, <1>4, <1>5, <1>6

(* A row is written with a name that is stored, or deleted.                    *)
LEMMA FiledRow ==
    ASSUME MediaBounds, Base, Files, \A o \in Senders : Sound(o), NEW q \in Senders, NEW s \in Verifiers, NEW r,
           Turns(q, r), r.file \notin Media!Names, r.pc \notin {"save", "clean"},
           r.read \in {upload[q].read, recording[s]} \/ r.read.name \notin Media!Names,
           NEW row \in Media!Row, recording' = [recording EXCEPT ![s] = row], UNCHANGED stored,
           \/ row = Media!NoRow
           \/ /\ row.name \in Media!Names /\ stored[row.name] = row.meant
              /\ row.name = upload[q].file \/ Referenced(row.name)
    PROVE  Files' /\ \A o \in Senders : Sound(o)'
<1>1. recording'[s] = row /\ \A o \in Verifiers \ {s} : recording'[o] = recording[o]
  BY RowWritten DEF Base
<1>2. Files'
  BY <1>1 DEF Files, Media!Present
<1>3. Local(q)
  <2> SUFFICES ASSUME NEW n \in Media!Names, Referenced(n)', n # upload[q].file PROVE Referenced(n)
    BY DEF Local
  <2>1. PICK o \in Verifiers : recording'[o].name = n
    BY DEF Referenced
  <2>2. CASE o = s
    BY <1>1, <2>1, <2>2, NoRowTyped, Numbers
  <2>3. CASE o # s
    BY <1>1, <2>1, <2>3 DEF Referenced
  <2> QED
    BY <2>2, <2>3
<1>4. Apart(q, r)
  <2>1. CASE r.read = recording[s]
    BY <2>1 DEF Apart, Sound, Alone, Referenced
  <2>2. CASE r.read = upload[q].read \/ r.read.name \notin Media!Names
    BY <2>2, ApartSame
  <2> QED
    BY <2>1, <2>2
<1>5. Sound(q)'
  BY SoundResting
<1> QED
  BY <1>2, <1>3, <1>4, <1>5, AllSound
LEMMA FiledSaves ==
    ASSUME MediaBounds, Base, Filed, NEW q \in Senders, NEW s \in Verifiers,
           Media!SaveNew(q, s) \/ Media!SaveEdit(q, s) \/ Media!SaveAdminEdit(q, s) \/ Media!SaveCopy(q, s) \/ Media!Delete(q, s)
    PROVE  Filed'
<1>1. /\ Media!TypeOK /\ Shape(q) /\ upload[q] \in Media!Request /\ UNCHANGED <<stored, clash>> /\ (~stale' => ~stale)
      /\ recording[s] \in Media!Row /\ upload[q].read \in Media!Row /\ upload[q].file \in Media!Names \cup {Media!NoName}
  BY MediaRequestFields DEF Base, Media!TypeOK, Media!SaveNew, Media!SaveEdit, Media!SaveAdminEdit,
     Media!SaveCopy, Media!Delete
<1> SUFFICES ASSUME ~clash, ~stale, ~stale' PROVE Files' /\ \A o \in Senders : Sound(o)'
  BY <1>1 DEF Filed
<1>2. Files /\ \A o \in Senders : Sound(o)
  BY DEF Filed
<1>3. Media!At(q, "save") /\ upload[q].file \in Media!Names => stored[upload[q].file] = upload[q].bytes
  BY <1>2 DEF Sound, Alone
<1>4. Media!SaveNew(q, s) \/ Media!SaveEdit(q, s) => Media!At(q, "save") /\ upload[q].file \in Media!Names
  BY <1>1 DEF Media!SaveNew, Media!SaveEdit, Shape, Making, Media!Is
<1>5. Media!Idle.pc = "idle" /\ Media!Idle.file \notin Media!Names /\ Media!Idle.read.name \notin Media!Names
  BY IdleHas, NoRowTyped, Numbers
<1>6. CASE Media!SaveNew(q, s)
  <2>1. PICK row \in Media!Row : row = Media!Uploaded(q)
    BY <1>1, UploadedRow
  <2>2. row.name = upload[q].file /\ row.meant = upload[q].bytes /\ recording' = [recording EXCEPT ![s] = row]
    BY <1>1, <1>6, <2>1, UploadedRow DEF Media!SaveNew
  <2>3. CASE ~Media!Is(q, {"upload"})
    <3>1. Turns(q, Media!Idle)
      BY <1>1, <1>6, <2>3, RestTurn DEF Media!SaveNew
    <3> QED
      BY <1>1, <1>2, <1>3, <1>4, <1>5, <1>6, <2>2, <3>1, FiledRow
  <2>4. CASE Media!Is(q, {"upload"})
    <3>1. PICK r : r = Made("report", "upload", {}, Media!NoRow, Media!NoName, 0)
      OBVIOUS
    <3>2. Turns(q, r)
      BY <1>1, <1>6, <2>4, <3>1, ReportTurn DEF Media!SaveNew
    <3>3. r.pc = "report" /\ r.file \notin Media!Names /\ r.read.name \notin Media!Names
      BY <3>1, MadeHas, NoRowTyped, Numbers
    <3> QED
      BY <1>1, <1>2, <1>3, <1>4, <1>6, <2>2, <3>2, <3>3, FiledRow
  <2> QED
    BY <2>3, <2>4
<1>7. CASE Media!SaveEdit(q, s)
  <2>1. PICK row : row = [Media!Uploaded(q) EXCEPT !.own = recording[s].own]
    OBVIOUS
  <2>2. row \in Media!Row /\ row.name = upload[q].file /\ row.meant = upload[q].bytes
    BY <1>1, <2>1, UploadedRow, MediaRowFields
  <2>3. recording' = [recording EXCEPT ![s] = row]
    BY <1>7, <2>1 DEF Media!SaveEdit
  <2>4. PICK r : r = Made("check", "edit", {}, upload[q].read, Media!NoName, 0)
    OBVIOUS
  <2>5. Turns(q, r)
    BY <1>1, <1>7, <2>4, CheckTurn DEF Media!SaveEdit
  <2>6. r.pc = "check" /\ r.file \notin Media!Names /\ r.read = upload[q].read
    BY <2>4, MadeHas, Numbers
  <2> QED
    BY <1>1, <1>2, <1>3, <1>4, <1>7, <2>2, <2>3, <2>5, <2>6, FiledRow
<1>8. CASE Media!SaveAdminEdit(q, s)
  <2>1. PICK row : row = IF upload[q].file = Media!NoName THEN upload[q].read
                         ELSE [Media!Uploaded(q) EXCEPT !.own = upload[q].read.own]
    OBVIOUS
  <2>2. recording' = [recording EXCEPT ![s] = row] /\ Turns(q, Media!Idle) /\ Media!At(q, "save") /\ Media!Is(q, {"admin_edit"})
    BY <1>1, <1>8, <2>1, RestTurn DEF Media!SaveAdminEdit
  <2>3. upload[q].read.name \in Media!Names
    BY <1>1, <2>2 DEF Shape, Making, Media!Is, Media!At
  <2>4. CASE upload[q].file = Media!NoName
    <3>1. row = upload[q].read /\ row \in Media!Row /\ recording[s].name = row.name
      BY <1>1, <1>8, <2>1, <2>4 DEF Media!SaveAdminEdit, Media!Losing
    <3>2. Referenced(row.name)
      BY <3>1 DEF Referenced
    <3>3. stored[row.name] = row.meant
      BY <1>2, <2>2, <2>4, <3>1, <3>2 DEF Sound, Current
    <3> QED
      BY <1>1, <1>2, <1>5, <2>2, <2>3, <3>1, <3>2, <3>3, FiledRow
  <2>5. CASE upload[q].file # Media!NoName
    <3>1. row \in Media!Row /\ row.name = upload[q].file /\ row.meant = upload[q].bytes
      BY <1>1, <2>1, <2>5, UploadedRow, MediaRowFields
    <3>2. upload[q].file \in Media!Names
      BY <1>1, <2>5
    <3> QED
      BY <1>1, <1>2, <1>3, <1>5, <2>2, <3>1, <3>2, FiledRow
  <2> QED
    BY <2>4, <2>5
<1>9. CASE Media!SaveCopy(q, s)
  <2>1. PICK o \in Verifiers : recording[o].name = upload[q].read.name /\ recording[o].meant = upload[q].read.meant
    BY <1>9 DEF Media!SaveCopy
  <2>2. recording' = [recording EXCEPT ![s] = upload[q].read] /\ Turns(q, Media!Idle) /\ Media!At(q, "save") /\ Media!Is(q, {"copy"})
    BY <1>1, <1>9, RestTurn DEF Media!SaveCopy
  <2>3. upload[q].read.name \in Media!Names
    BY <1>1, <2>2 DEF Shape, Making, Media!Is, Media!At
  <2>4. Media!Present(o)
    BY <2>1, <2>3, NoRowTyped, Numbers DEF Media!Present
  <2>5. Referenced(upload[q].read.name) /\ stored[upload[q].read.name] = upload[q].read.meant
    BY <1>2, <2>1, <2>4 DEF Referenced, Files
  <2> QED
    BY <1>1, <1>2, <1>5, <2>2, <2>3, <2>5, FiledRow
<1>10. CASE Media!Delete(q, s)
  <2>1. PICK r : r = Made("check", "delete", {}, recording[s], Media!NoName, 0)
    OBVIOUS
  <2>2. Turns(q, r)
    BY <1>1, <1>10, <2>1, CheckTurn DEF Media!Delete
  <2>3. r.pc = "check" /\ r.file \notin Media!Names /\ r.read = recording[s]
    BY <2>1, MadeHas, Numbers
  <2>4. recording' = [recording EXCEPT ![s] = Media!NoRow] /\ Media!NoRow \in Media!Row
    BY <1>10, NoRowTyped DEF Media!Delete
  <2> QED
    BY <1>1, <1>2, <2>2, <2>3, <2>4, FiledRow
<1> QED
  BY <1>6, <1>7, <1>8, <1>9, <1>10

LEMMA FiledKept == ASSUME MediaBounds, Base, Filed, Media!Next \/ UNCHANGED Media!vars PROVE Filed'
<1>1. CASE Media!Expire \/ UNCHANGED Media!vars
  BY <1>1 DEF Media!Expire, Media!vars, Filed, Files, Media!Present, Sound, Alone, Current, Removable,
     Media!At, NotTaken, Referenced
<1>2. ASSUME NEW s \in Verifiers, Media!AdminDelete(s) PROVE Filed'
  <2>1. UNCHANGED <<stored, upload, clash, stale>> /\ recording' = [recording EXCEPT ![s] = Media!NoRow]
    BY <1>2 DEF Media!AdminDelete
  <2>2. recording'[s] = Media!NoRow /\ \A o \in Verifiers \ {s} : recording'[o] = recording[o]
    BY <2>1, RowWritten, NoRowTyped DEF Base
  <2> SUFFICES ASSUME ~clash, ~stale PROVE Files' /\ \A o \in Senders : Sound(o)'
    BY <2>1 DEF Filed
  <2>3. Files /\ \A o \in Senders : Sound(o)
    BY DEF Filed
  <2>4. Files'
    BY <2>1, <2>2, <2>3 DEF Files, Media!Present
  <2>5. \A n \in Media!Names : Referenced(n)' => Referenced(n)
    BY <2>2, NoRowTyped, Numbers DEF Referenced
  <2>6. ASSUME NEW o \in Senders PROVE Sound(o)'
    <3>1. Alone(o) /\ Current(o) /\ Removable(o) /\ Shape(o)
      BY <2>3 DEF Sound, Base
    <3>2. Media!At(o, "save") /\ upload[o].file = Media!NoName => upload[o].read.name \in Media!Names
      BY <3>1, Numbers DEF Shape, Media!At, Media!Is
    <3>3. Media!At(o, "clean") => upload[o].read.name \in Media!Names
      BY <3>1 DEF Shape, Media!At
    <3>4. PICK f, n : f = upload[o].file /\ n = upload[o].read.name
      OBVIOUS
    <3>5. (f \in Media!Names => ~Referenced(f)') /\ (n \in Media!Names /\ Referenced(n)' => Referenced(n))
      BY <2>5, <3>1, <3>4 DEF Alone
    <3>6. Alone(o)'
      BY <2>1, <3>1, <3>4, <3>5 DEF Alone, NotTaken, Media!At, Referenced
    <3>7. Current(o)'
      BY <2>1, <3>1, <3>2, <3>4, <3>5 DEF Current, Media!At, Referenced
    <3>8. Removable(o)'
      BY <2>1, <3>1, <3>3, <3>4, <3>5 DEF Removable, Media!At, Referenced
    <3> QED
      BY <3>6, <3>7, <3>8 DEF Sound
  <2> QED
    BY <2>4, <2>6
<1>3. ASSUME NEW q \in Senders,
             \/ Media!Upload(q) \/ Media!Claim(q) \/ Media!Create(q) \/ Media!AdminCreate(q) \/ Media!Choose(q) \/ Media!Put(q) \/ Media!Fail(q) \/ Media!Report(q)
             \/ Media!Check(q) \/ Media!Clean(q) \/ Media!Stop(q)
             \/ \E s \in Verifiers :
                 \/ Media!Edit(q, s) \/ Media!AdminEdit(q, s) \/ Media!Copy(q, s) \/ Media!Delete(q, s)
                 \/ Media!SaveNew(q, s) \/ Media!SaveEdit(q, s) \/ Media!SaveAdminEdit(q, s) \/ Media!SaveCopy(q, s)
      PROVE  Filed'
  BY <1>3, FiledBeginnings, FiledChoose, FiledPut, FiledGoes, FiledSaves
<1> QED
  BY <1>1, <1>2, <1>3 DEF Media!Next

LEMMA FiledFirst == ASSUME MediaBounds, Media!Init PROVE Filed
<1>1. PICK s \in Verifiers :
        recording = [o \in Verifiers |-> IF o = s THEN [name |-> 0, meant |-> 0, own |-> FALSE] ELSE Media!NoRow]
  BY DEF Media!Init
<1>2. Files
  BY <1>1, Numbers DEF Media!Init, Files, Media!Present
<1>3. ASSUME NEW q \in Senders PROVE Sound(q)
  <2>1. upload[q] = Media!Idle
    BY DEF Media!Init
  <2> QED
    BY <2>1, IdleHas, Numbers DEF Sound, Alone, Current, Removable, Media!At
<1> QED
  BY <1>2, <1>3 DEF Filed

LEMMA FiledMeans == Filed => Media!FilesKept
BY DEF Filed, Media!FilesKept, Files
-----------------------------------------------------------------------------
MediaIInv == Base /\ Left /\ Once /\ Filed

LEMMA MediaFirst == ASSUME MediaBounds, Media!Init PROVE MediaIInv
BY BaseFirst, LeftFirst, OnceFirst, FiledFirst DEF MediaIInv

LEMMA MediaStepKept == ASSUME MediaBounds, MediaIInv, Media!Next \/ UNCHANGED Media!vars PROVE MediaIInv'
BY BaseKept, LeftKept, OnceKept, FiledKept DEF MediaIInv

LEMMA FilesMeant == MediaIInv => Media!FilesKept /\ Media!NothingLeft /\ Media!OneSong
BY LeftMeans, OnceMeans, FiledMeans DEF MediaIInv

-----------------------------------------------------------------------------
(* The parts side by side: a behaviour is one of its part, the others rest.    *)

LEMMA GuardSound == GInv => TypeOK /\ AcceptedOnce /\ AttemptsBounded /\ OneLive /\ NotFoundHonest
BY LiveOneIsOneLive DEF GInv, IInv, SeenKept, NotFoundHonest

LEMMA CodesBegin == Init => GInv
BY First, NoneGuarded DEF GInv

CodesKept == part = "codes" => GInv

LEMMA CodesKeptStart == ASSUME "guard" \notin Outages, AccessInit PROVE CodesKept
<1> SUFFICES ASSUME part = "codes" PROVE GInv
  BY DEF CodesKept
<1>1. Init
  BY DEF AccessInit
<1> QED
  BY <1>1, CodesBegin

LEMMA CodesKeptPart ==
  ASSUME AccessNext \/ UNCHANGED AccessVars
  PROVE part' = part /\ (part = "codes" => Next \/ UNCHANGED vars)
BY DEF AccessNext, AccessVars, CodeVars, vars

LEMMA CodesKeptStep == ASSUME "guard" \notin Outages, AccessNext \/ UNCHANGED AccessVars, CodesKept PROVE CodesKept'
<1> SUFFICES ASSUME part' = "codes" PROVE GInv'
  BY DEF CodesKept
<1>1. part = "codes" /\ (Next \/ UNCHANGED vars)
  BY CodesKeptPart
<1> QED
  BY <1>1, GuardKept DEF CodesKept

(* Codes are sound where the guard that spaces the sends does not fail        *)
(* (consume_otp, create_and_send_otp, latest_valid_otp).                      *)
THEOREM SoundCodes == ASSUME "guard" \notin Outages PROVE AccessSpec => []CodesSound
<1>1. AccessInit => CodesKept
  BY CodesKeptStart
<1>2. CodesKept /\ [AccessNext]_AccessVars => CodesKept'
  BY CodesKeptStep
<1>3. CodesKept => CodesSound
  BY GuardSound DEF CodesKept, CodesSound
<1> QED
  BY <1>1, <1>2, <1>3, PTL DEF AccessSpec

MembersKept == part = "members" => MembersIInv

LEMMA MembersKeptStart == ASSUME MaxPeriods \in Nat \ {0}, MaxBegun \in Nat, AccessInit PROVE MembersKept
<1> SUFFICES ASSUME part = "members" PROVE MembersIInv
  BY DEF MembersKept
<1>1. Members!Init
  BY DEF AccessInit
<1> QED
  BY <1>1, MembersFirst

LEMMA MembersKeptPart ==
  ASSUME AccessNext \/ UNCHANGED AccessVars
  PROVE part' = part /\ (part = "members" => Members!Next \/ UNCHANGED Members!vars)
BY DEF AccessNext, AccessVars, MemberVars, Members!vars

LEMMA MembersKeptStep == ASSUME MaxPeriods \in Nat \ {0}, MaxBegun \in Nat, AccessNext \/ UNCHANGED AccessVars, MembersKept PROVE MembersKept'
<1> SUFFICES ASSUME part' = "members" PROVE MembersIInv'
  BY DEF MembersKept
<1>1. part = "members" /\ (Members!Next \/ UNCHANGED Members!vars)
  BY MembersKeptPart
<1> QED
  BY <1>1, MembersStepKept DEF MembersKept

(* Until the thirty days of the last payment are over the user is premium,     *)
(* but for a copy read before it, whatever the number of payments and of       *)
(* handlers at once (subscriptions.py:94).                                    *)
THEOREM PremiumStays == ASSUME MaxPeriods \in Nat \ {0}, MaxBegun \in Nat PROVE AccessSpec => []PremiumLasts
<1>1. AccessInit => MembersKept
  BY MembersKeptStart
<1>2. MembersKept /\ [AccessNext]_AccessVars => MembersKept'
  BY MembersKeptStep
<1>3. MembersKept => PremiumLasts
  BY DEF MembersKept, MembersIInv, PremiumLasts
<1> QED
  BY <1>1, <1>2, <1>3, PTL DEF AccessSpec

DiscsInv == Typed /\ Discs!EmptiedGone

LEMMA DiscsBegin == Discs!Init => DiscsInv
BY TypedFirst, FirstFull DEF DiscsInv

LEMMA DiscsGo == ASSUME NoAlbum \notin Collections, DiscsInv, Discs!Next \/ UNCHANGED Discs!vars PROVE DiscsInv'
BY TypesKept, StepEmptiesNone DEF DiscsInv

DiscsKept == part = "albums" => DiscsInv

LEMMA DiscsKeptStart == ASSUME NoAlbum \notin Collections, AccessInit PROVE DiscsKept
<1> SUFFICES ASSUME part = "albums" PROVE DiscsInv
  BY DEF DiscsKept
<1>1. Discs!Init
  BY DEF AccessInit
<1> QED
  BY <1>1, DiscsBegin

LEMMA DiscsKeptPart ==
  ASSUME AccessNext \/ UNCHANGED AccessVars
  PROVE part' = part /\ (part = "albums" => Discs!Next \/ UNCHANGED Discs!vars)
BY DEF AccessNext, AccessVars, DiscVars, Discs!vars

LEMMA DiscsKeptStep == ASSUME NoAlbum \notin Collections, AccessNext \/ UNCHANGED AccessVars, DiscsKept PROVE DiscsKept'
<1> SUFFICES ASSUME part' = "albums" PROVE DiscsInv'
  BY DEF DiscsKept
<1>1. part = "albums" /\ (Discs!Next \/ UNCHANGED Discs!vars)
  BY DiscsKeptPart
<1> QED
  BY <1>1, DiscsGo DEF DiscsKept

(* An album goes with its last song, however many requests move songs at once *)
(* (views.py:9443).                                                           *)
THEOREM AlbumsStayFull == ASSUME NoAlbum \notin Collections PROVE AccessSpec => []AlbumsFilled
<1>1. AccessInit => DiscsKept
  BY DiscsKeptStart
<1>2. DiscsKept /\ [AccessNext]_AccessVars => DiscsKept'
  BY DiscsKeptStep
<1>3. DiscsKept => AlbumsFilled
  BY DEF DiscsKept, DiscsInv, Typed, AlbumsFilled
<1> QED
  BY <1>1, <1>2, <1>3, PTL DEF AccessSpec

LEMMA ArtistsMeet == ArtistsIInv => Artists!TypeOK /\ Artists!DecisionKept /\ Artists!AcceptedLinked /\ Artists!OneProfile
BY AcceptedAreLinked DEF ArtistsIInv

LEMMA ArtistsBegin == ASSUME ArtistBounds PROVE Artists!Init => ArtistsIInv
BY ArtistsFirst

ArtistsKept == part = "artists" => ArtistsIInv

LEMMA ArtistsKeptStart == ASSUME ArtistBounds, AccessInit PROVE ArtistsKept
<1> SUFFICES ASSUME part = "artists" PROVE ArtistsIInv
  BY DEF ArtistsKept
<1>1. Artists!Init
  BY DEF AccessInit
<1> QED
  BY <1>1, ArtistsBegin

LEMMA ArtistsKeptPart ==
  ASSUME AccessNext \/ UNCHANGED AccessVars
  PROVE part' = part /\ (part = "artists" => Artists!Next \/ UNCHANGED Artists!vars)
BY DEF AccessNext, AccessVars, ArtistVars, Artists!vars

LEMMA ArtistsKeptStep == ASSUME ArtistBounds, AccessNext \/ UNCHANGED AccessVars, ArtistsKept PROVE ArtistsKept'
<1> SUFFICES ASSUME part' = "artists" PROVE ArtistsIInv'
  BY DEF ArtistsKept
<1>1. part = "artists" /\ (Artists!Next \/ UNCHANGED Artists!vars)
  BY ArtistsKeptPart
<1> QED
  BY <1>1, ArtistsStepKept DEF ArtistsKept

(* The decision about a submission stands, an accepted artist has the profile  *)
(* claimed, and no user has two, however many handlers save what they had read *)
(* (models.py:440, artist_auth_service.py:57).                                *)
THEOREM DecisionsKept == ASSUME ArtistBounds PROVE AccessSpec => []DecisionsStand
<1>1. AccessInit => ArtistsKept
  BY ArtistsKeptStart
<1>2. ArtistsKept /\ [AccessNext]_AccessVars => ArtistsKept'
  BY ArtistsKeptStep
<1>3. ArtistsKept => DecisionsStand
  BY ArtistsMeet DEF ArtistsKept, DecisionsStand
<1> QED
  BY <1>1, <1>2, <1>3, PTL DEF AccessSpec

LEMMA MediaMeet == MediaIInv => Media!TypeOK /\ Media!FilesKept /\ Media!NothingLeft /\ Media!OneSong
BY FilesMeant DEF MediaIInv, Base

MediaKept == part = "media" => MediaIInv

LEMMA MediaKeptStart == ASSUME MediaBounds, AccessInit PROVE MediaKept
<1> SUFFICES ASSUME part = "media" PROVE MediaIInv
  BY DEF MediaKept
<1>1. Media!Init
  BY DEF AccessInit
<1> QED
  BY <1>1, MediaFirst

LEMMA MediaKeptPart ==
  ASSUME AccessNext \/ UNCHANGED AccessVars
  PROVE part' = part /\ (part = "media" => Media!Next \/ UNCHANGED Media!vars)
BY DEF AccessNext, AccessVars, MediaVars, Media!vars

LEMMA MediaKeptStep == ASSUME MediaBounds, AccessNext \/ UNCHANGED AccessVars, MediaKept PROVE MediaKept'
<1> SUFFICES ASSUME part' = "media" PROVE MediaIInv'
  BY DEF MediaKept
<1>1. part = "media" /\ (Media!Next \/ UNCHANGED Media!vars)
  BY MediaKeptPart
<1> QED
  BY <1>1, MediaStepKept DEF MediaKept

(* A file that a row names is there and is the one uploaded for it, what is    *)
(* stored at rest some row names, and a repeated upload makes one song,        *)
(* however many requests write and remove files at once (views.py:501, 8841,   *)
(* 8468).                                                                     *)
THEOREM FilesAreKept == ASSUME MediaBounds PROVE AccessSpec => []FilesMatch
<1>1. AccessInit => MediaKept
  BY MediaKeptStart
<1>2. MediaKept /\ [AccessNext]_AccessVars => MediaKept'
  BY MediaKeptStep
<1>3. MediaKept => FilesMatch
  BY MediaMeet DEF MediaKept, FilesMatch
<1> QED
  BY <1>1, <1>2, <1>3, PTL DEF AccessSpec

StepMeant ==
  /\ part = "members" => Members!Meant
  /\ part = "artists" => Artists!OwnerStays
  /\ part = "albums" => Discs!NotTaken

LEMMA StepIsMeant ==
  ASSUME ArtistBounds, MembersKept, ArtistsKept, DiscsKept, AccessNext \/ UNCHANGED AccessVars
  PROVE  StepMeant
<1>1. part = "members" => Members!Meant
  BY MembersKeptPart, SaveMeant DEF MembersKept
<1>2. part = "artists" => Artists!OwnerStays
  BY ArtistsKeptPart, NoneDisowned DEF ArtistsKept
<1>3. part = "albums" => Discs!NotTaken
  BY DiscsKeptPart, StepTakesNone DEF DiscsKept, DiscsInv
<1> QED
  BY <1>1, <1>2, <1>3 DEF StepMeant

(* A handler changes the columns it is about or those of an old copy, a         *)
(* profile's owner loses it by an edit or a deletion of the profile only, and a *)
(* song that is on an album is not put on another (artist_auth_service.py:76,   *)
(* views.py:9053).                                                             *)
THEOREM StepsAreMeant ==
  ASSUME MaxPeriods \in Nat \ {0}, MaxBegun \in Nat, ArtistBounds, NoAlbum \notin Collections
  PROVE  AccessSpec => StepsMeant
<1>1. AccessInit => MembersKept /\ ArtistsKept /\ DiscsKept
  BY MembersKeptStart, ArtistsKeptStart, DiscsKeptStart
<1>2. /\ MembersKept /\ ArtistsKept /\ DiscsKept
      /\ [AccessNext]_AccessVars
      => (MembersKept /\ ArtistsKept /\ DiscsKept)'
  BY MembersKeptStep, ArtistsKeptStep, DiscsKeptStep
<1>3. MembersKept /\ ArtistsKept /\ DiscsKept /\ [AccessNext]_AccessVars => [StepMeant]_AccessVars
  BY StepIsMeant
<1>4. AccessSpec => [][StepMeant]_AccessVars
  BY <1>1, <1>2, <1>3, PTL DEF AccessSpec
<1> QED
  BY <1>4 DEF StepsMeant, StepMeant
=============================================================================
