------------------------------ MODULE OtpCodes ------------------------------
(***************************************************************************)
(* The one-time codes of one user for one purpose: requests that send a    *)
(* new code and put the older ones out of use, requests that check a code, *)
(* and two Redis keys beside the table, the guard that spaces the sends    *)
(* and the id of the latest code.                                          *)
(*                                                                         *)
(* PostgreSQL runs READ COMMITTED.  A statement that locks rows picks them *)
(* in the snapshot it starts with, waits for their locks, and drops those  *)
(* that no longer match when it gets them; rows inserted meanwhile are not *)
(* looked at again.  Picking and locking are two actions below.            *)
(***************************************************************************)
EXTENDS Integers, FiniteSets

CONSTANTS
    Senders, Verifiers,  \* requests in progress at once (a bound)
    Faulty,              \* requests an exception or a crash may end
    MaxCode,             \* last code (a bound)
    MaxAttempts,         \* consume_otp's max_attempts
    Outages,             \* the Redis keys whose calls may fail
    MarksVerified        \* the purpose is one that verifies the account

ASSUME BoundAssumption == MaxCode \in Nat /\ MaxAttempts \in Nat
ASSUME RequestAssumption ==
    Senders \cap Verifiers = {} /\ Faulty \subseteq Senders \cup Verifiers
ASSUME OutageAssumption == Outages \subseteq {"guard", "latest"} /\ MarksVerified \in BOOLEAN

VARIABLES
    otp,       \* Codes -> OtpCode row; a higher code is a newer row
    latest,    \* the key of the latest code's id, 0 when it is missing
    guard,     \* the send guard is set
    recent,    \* the newest row is younger than the cooldown
    send,      \* Senders -> create_and_send_otp
    verify,    \* Verifiers -> consume_otp
    accepted,  \* Codes -> how many requests the code let through
    is_verified  \* of the user

vars == <<otp, latest, guard, recent, send, verify, accepted, is_verified>>

Codes == 1..MaxCode
Requests == Senders \cup Verifiers

\* The text of a code is its id here, and 0 is a text no code has.
Otp == [life : {"unborn", "sent"}, consumed : BOOLEAN, expired : BOOLEAN,
        attempts : Nat, lock : SUBSET Requests]

Send == [pc : {"idle", "pick", "lock", "insert", "key", "sms", "withdraw", "drop_key", "drop_guard"},
         code : 0..MaxCode, picked : SUBSET Codes]

Verify == [pc : {"idle", "cached", "lock_cached", "scan", "lock", "check"},
           code : 0..MaxCode, guess : 0..MaxCode, picked : SUBSET Codes, seen : SUBSET Codes]

NoSend == [pc |-> "idle", code |-> 0, picked |-> {}]
NoVerify == [pc |-> "idle", code |-> 0, guess |-> 0, picked |-> {}, seen |-> {}]

-----------------------------------------------------------------------------
Exists(c) == otp[c].life = "sent"
Unconsumed == {c \in Codes : Exists(c) /\ ~otp[c].consumed}

\* consumed=False and expires_at__gt=now
Valid == {c \in Unconsumed : ~otp[c].expired}

Unlocked(c) == otp[c].lock = {}
Newest(S) == CHOOSE c \in S : \A d \in S : d <= c

\* What a Redis write of the given key may leave behind.
MaySet(key, old, new) == IF key \in Outages THEN {old, new} ELSE {new}

Init ==
    /\ otp = [c \in Codes |-> [life |-> "unborn", consumed |-> FALSE, expired |-> FALSE,
                               attempts |-> 0, lock |-> {}]]
    /\ latest = 0
    /\ guard = FALSE
    /\ recent = FALSE
    /\ send = [s \in Senders |-> NoSend]
    /\ verify = [v \in Verifiers |-> NoVerify]
    /\ accepted = [c \in Codes |-> 0]
    /\ is_verified = FALSE

-----------------------------------------------------------------------------
(* create_and_send_otp, behind otp_rate_limit_retry_after                  *)

\* The guard is taken with SET NX; without Redis the age of the newest row
\* decides.  These are the values the guard may have once a send may go on.
MaySend ==
    (IF guard THEN {} ELSE {TRUE}) \cup
    (IF "guard" \in Outages /\ ~recent THEN {guard} ELSE {})

SendStart(s) ==
    /\ send[s] = NoSend
    /\ guard' \in MaySend
    /\ send' = [send EXCEPT ![s] = [NoSend EXCEPT !.pc = "pick"]]
    /\ UNCHANGED <<otp, latest, recent, verify, accepted, is_verified>>

SendPick(s) ==
    /\ send[s].pc = "pick"
    /\ send' = [send EXCEPT ![s] = [@ EXCEPT !.pc = "lock", !.picked = Unconsumed]]
    /\ UNCHANGED <<otp, latest, guard, recent, verify, accepted, is_verified>>

SendLock(s) ==
    LET rows == send[s].picked \cap Unconsumed
    IN  /\ send[s].pc = "lock"
        /\ \A c \in send[s].picked : Unlocked(c)
        /\ otp' = [c \in Codes |-> IF c \in rows THEN [otp[c] EXCEPT !.lock = {s}] ELSE otp[c]]
        /\ send' = [send EXCEPT ![s] = [@ EXCEPT !.pc = "insert", !.picked = rows]]
        /\ UNCHANGED <<latest, guard, recent, verify, accepted, is_verified>>

Supersede(c, s) == [otp[c] EXCEPT !.consumed = TRUE, !.lock = @ \ {s}]

SendInsert(s) ==
    \E new \in Codes :
        /\ send[s].pc = "insert"
        /\ ~Exists(new)
        /\ \A c \in Codes : ~Exists(c) => new <= c
        /\ otp' = [c \in Codes |->
                     IF c = new THEN [otp[c] EXCEPT !.life = "sent"]
                     ELSE IF c \in send[s].picked THEN Supersede(c, s)
                     ELSE otp[c]]
        /\ recent' = TRUE
        /\ send' = [send EXCEPT ![s] = [@ EXCEPT !.pc = "key", !.code = new, !.picked = {}]]
        /\ UNCHANGED <<latest, guard, verify, accepted, is_verified>>

SendKey(s) ==
    /\ send[s].pc = "key"
    /\ latest' \in MaySet("latest", latest, send[s].code)
    /\ send' = [send EXCEPT ![s].pc = "sms"]
    /\ UNCHANGED <<otp, guard, recent, verify, accepted, is_verified>>

SmsAccepted(s) ==
    /\ send[s].pc = "sms"
    /\ send' = [send EXCEPT ![s] = NoSend]
    /\ UNCHANGED <<otp, latest, guard, recent, verify, accepted, is_verified>>

SmsRefused(s) ==
    /\ send[s].pc = "sms"
    /\ send' = [send EXCEPT ![s].pc = "withdraw"]
    /\ UNCHANGED <<otp, latest, guard, recent, verify, accepted, is_verified>>

Withdraw(s) ==
    /\ send[s].pc = "withdraw"
    /\ Unlocked(send[s].code)
    /\ otp' = [otp EXCEPT ![send[s].code].consumed = TRUE]
    /\ send' = [send EXCEPT ![s].pc = "drop_key"]
    /\ UNCHANGED <<latest, guard, recent, verify, accepted, is_verified>>

DropKey(s) ==
    /\ send[s].pc = "drop_key"
    /\ latest' \in MaySet("latest", latest, 0)
    /\ send' = [send EXCEPT ![s].pc = "drop_guard"]
    /\ UNCHANGED <<otp, guard, recent, verify, accepted, is_verified>>

DropGuard(s) ==
    /\ send[s].pc = "drop_guard"
    /\ guard' \in MaySet("guard", guard, FALSE)
    /\ send' = [send EXCEPT ![s] = NoSend]
    /\ UNCHANGED <<otp, latest, recent, verify, accepted, is_verified>>

-----------------------------------------------------------------------------
(* consume_otp, one transaction                                            *)

\* seen remembers, for the properties, the codes in use when the request began.
VerifyStart(v) ==
    /\ verify[v] = NoVerify
    /\ \E guess \in 0..MaxCode :
        /\ guess \in Codes => Exists(guess)
        /\ verify' = [verify EXCEPT ![v] = [NoVerify EXCEPT !.pc = "cached", !.guess = guess,
                                                            !.seen = Valid]]
    /\ UNCHANGED <<otp, latest, guard, recent, send, accepted, is_verified>>

\* The id in Redis, when the row it names is still valid, else the table.
VerifyCached(v) ==
    /\ verify[v].pc = "cached"
    /\ \E id \in {latest} \cup (IF "latest" \in Outages THEN {0} ELSE {}) :
        verify' = [verify EXCEPT ![v] =
                     IF id \in Valid THEN [@ EXCEPT !.pc = "lock_cached", !.code = id]
                     ELSE [@ EXCEPT !.pc = "scan"]]
    /\ UNCHANGED <<otp, latest, guard, recent, send, accepted, is_verified>>

Locked(v, c) == [otp EXCEPT ![c].lock = @ \cup {v}]

\* Mutant: select_for_update is left out.
GrantedUnlocked(c) == Exists(c)

Granted(c) == Unlocked(c)

\* The lock is granted and the row still matches, or it does not any more.
VerifyLockCached(v) ==
    LET c == verify[v].code
    IN  /\ verify[v].pc = "lock_cached"
        /\ Granted(c)
        /\ \/ /\ c \in Valid
              /\ otp' = Locked(v, c)
              /\ verify' = [verify EXCEPT ![v].pc = "check"]
           \/ /\ c \notin Valid
              /\ verify' = [verify EXCEPT ![v] = [@ EXCEPT !.pc = "scan", !.code = 0]]
              /\ otp' = otp
        /\ UNCHANGED <<latest, guard, recent, send, accepted, is_verified>>

Scanned == Valid

VerifyScan(v) ==
    /\ verify[v].pc = "scan"
    /\ verify' = [verify EXCEPT ![v] = [@ EXCEPT !.pc = "lock", !.picked = Scanned]]
    /\ UNCHANGED <<otp, latest, guard, recent, send, accepted, is_verified>>

\* ORDER BY created_at DESC LIMIT 1: the newest row picked that still matches.
VerifyLock(v) ==
    LET c == Newest(verify[v].picked)
    IN  /\ verify[v].pc = "lock"
        /\ verify[v].picked # {}
        /\ Granted(c)
        /\ \/ /\ c \in Valid
              /\ otp' = Locked(v, c)
              /\ latest' \in MaySet("latest", latest, c)
              /\ verify' = [verify EXCEPT ![v] = [@ EXCEPT !.pc = "check", !.code = c, !.picked = {}]]
           \/ /\ c \notin Valid
              /\ verify' = [verify EXCEPT ![v].picked = @ \ {c}]
              /\ UNCHANGED <<otp, latest>>
        /\ UNCHANGED <<guard, recent, send, accepted, is_verified>>

VerifyNotFound(v) ==
    /\ verify[v].pc = "lock"
    /\ verify[v].picked = {}
    /\ latest' \in MaySet("latest", latest, 0)
    /\ verify' = [verify EXCEPT ![v] = NoVerify]
    /\ UNCHANGED <<otp, guard, recent, send, accepted, is_verified>>

Exceeded(v) == otp[verify[v].code].attempts >= MaxAttempts

\* The row is updated, the key deleted if the code is out of use, the lock freed.
Checked(v, row, deleted) ==
    /\ otp' = [otp EXCEPT ![verify[v].code] = [row EXCEPT !.lock = @ \ {v}]]
    /\ latest' \in IF deleted THEN MaySet("latest", latest, 0) ELSE {latest}
    /\ verify' = [verify EXCEPT ![v] = NoVerify]
    /\ UNCHANGED <<guard, recent, send>>

Consumed(row) == [row EXCEPT !.consumed = TRUE]

Attempted(row) == [row EXCEPT !.attempts = @ + 1]

VerifyExceeded(v) ==
    /\ verify[v].pc = "check"
    /\ Exceeded(v)
    /\ Checked(v, Consumed(otp[verify[v].code]), TRUE)
    /\ UNCHANGED <<accepted, is_verified>>

VerifyInvalid(v) ==
    /\ verify[v].pc = "check"
    /\ ~Exceeded(v)
    /\ verify[v].guess # verify[v].code
    /\ Checked(v, Attempted(otp[verify[v].code]), FALSE)
    /\ UNCHANGED <<accepted, is_verified>>

VerifyOk(v) ==
    /\ verify[v].pc = "check"
    /\ ~Exceeded(v)
    /\ verify[v].guess = verify[v].code
    /\ Checked(v, Consumed(otp[verify[v].code]), TRUE)
    /\ accepted' = [accepted EXCEPT ![verify[v].code] = @ + 1]
    /\ is_verified' = (is_verified \/ MarksVerified)

-----------------------------------------------------------------------------
\* An exception or a crash: the open transaction rolls back and frees its locks.
Fail(r) ==
    /\ r \in Faulty
    /\ \/ r \in Senders /\ send[r] # NoSend
       \/ r \in Verifiers /\ verify[r] # NoVerify
    /\ otp' = [c \in Codes |-> [otp[c] EXCEPT !.lock = @ \ {r}]]
    /\ send' = [s \in Senders |-> IF s = r THEN NoSend ELSE send[s]]
    /\ verify' = [v \in Verifiers |-> IF v = r THEN NoVerify ELSE verify[v]]
    /\ UNCHANGED <<latest, guard, recent, accepted, is_verified>>

Expire ==
    \E c \in Codes :
        /\ Exists(c) /\ ~otp[c].expired
        /\ otp' = [otp EXCEPT ![c].expired = TRUE]
        /\ UNCHANGED <<latest, guard, recent, send, verify, accepted, is_verified>>

\* A minute passes.  A send is over by then: its provider call gives up after
\* five seconds.
CooldownOver ==
    /\ guard \/ recent
    /\ \A s \in Senders : send[s] = NoSend
    /\ guard' = FALSE
    /\ recent' = FALSE
    /\ UNCHANGED <<otp, latest, send, verify, accepted, is_verified>>

LatestExpires ==
    /\ latest # 0
    /\ latest' = 0
    /\ UNCHANGED <<otp, guard, recent, send, verify, accepted, is_verified>>

Next ==
    \/ \E s \in Senders :
        \/ SendStart(s) \/ SendPick(s) \/ SendLock(s) \/ SendInsert(s) \/ SendKey(s)
        \/ SmsAccepted(s) \/ SmsRefused(s) \/ Withdraw(s) \/ DropKey(s) \/ DropGuard(s)
    \/ \E v \in Verifiers :
        \/ VerifyStart(v) \/ VerifyCached(v) \/ VerifyLockCached(v) \/ VerifyScan(v)
        \/ VerifyLock(v) \/ VerifyNotFound(v)
        \/ VerifyExceeded(v) \/ VerifyInvalid(v) \/ VerifyOk(v)
    \/ \E r \in Requests : Fail(r)
    \/ Expire \/ CooldownOver \/ LatestExpires

Spec == Init /\ [][Next]_vars

-----------------------------------------------------------------------------
TypeOK ==
    /\ otp \in [Codes -> Otp]
    /\ latest \in 0..MaxCode
    /\ guard \in BOOLEAN /\ recent \in BOOLEAN
    /\ send \in [Senders -> Send]
    /\ verify \in [Verifiers -> Verify]
    /\ accepted \in [Codes -> Nat]
    /\ is_verified \in BOOLEAN

\* "Row locking prevents two simultaneous verify requests from consuming the
\* same code" (consume_otp): a code lets at most one request through, and a code
\* that did is out of use.
AcceptedOnce ==
    \A c \in Codes : accepted[c] <= 1 /\ (accepted[c] = 1 => otp[c].consumed)

\* However many requests check a code at once, at most max_attempts of them are
\* told that it is wrong.
AttemptsBounded == \A c \in Codes : otp[c].attempts <= MaxAttempts

\* "Keep only one live OTP per user/purpose" (create_and_send_otp).
OneLive == Cardinality(Valid) <= 1

\* A request is about to be told that there is no code only when every code that was in use
\* when it began has been consumed, superseded or has expired since: a missing
\* or stale key in Redis never hides a code (latest_valid_otp).
NotFoundHonest ==
    \A v \in Verifiers :
        verify[v].pc = "lock" /\ verify[v].picked = {} => verify[v].seen \cap Valid = {}
=============================================================================
