----------------------------- MODULE ArtistPayout ----------------------------
(***************************************************************************)
(* The payout requests of one artist: the artist submits and cancels them, *)
(* administrators decide them, and the plays of the artist's songs earn    *)
(* the credit they draw on.  A submission is one transaction under a lock  *)
(* on the Artist row; a decision reads the request, checks the transition  *)
(* and saves the changed columns with no transaction around the three.     *)
(*                                                                         *)
(* Amounts: plays earn in units of FINANCE_QUANTUM, a payout is in units   *)
(* of PAYOUT_QUANTUM, Quanta of the former to one of the latter.           *)
(***************************************************************************)
EXTENDS Naturals, FiniteSetsExt

CONSTANTS
    Deposits,       \* primary keys of payout requests (a bound)
    NoDeposit,
    Sessions,       \* submissions of the artist in progress at once (a bound)
    Admins,         \* decisions in progress at once (a bound)
    AdminTargets,   \* statuses administrators ask for
    Quanta,         \* FINANCE_QUANTUM units in a PAYOUT_QUANTUM
    MinimumPayout,  \* minimum_payout_amount, in payout units
    PlayWorths,     \* what one play may earn
    MaxEarned       \* credit ever earned (a bound)

Statuses == {"pending", "approved", "rejected", "done"}

ASSUME NullAssumption == NoDeposit \notin Deposits
ASSUME TargetAssumption == AdminTargets \subseteq Statuses
ASSUME AmountAssumption == /\ Quanta \in Nat \ {0} /\ MinimumPayout \in Nat \ {0}
                           /\ PlayWorths \subseteq Nat /\ MaxEarned \in Nat

VARIABLES
    deposit,  \* Deposits -> DepositRequest record
    credit,   \* Sum('pay') over the plays of the artist's songs
    earned,   \* the same sum, had no song or listener been deleted
    session,  \* Sessions -> state of DepositRequestView.post
    admin     \* Admins -> state of AdminDepositRequestDetailView.patch

vars == <<deposit, credit, earned, session, admin>>

Deposit == [status : Statuses \cup {"unborn", "cancelled"}, amount : Nat, transaction : BOOLEAN]

Submission == [pc : {"idle", "active", "credit", "reserved", "create"},
               credit : Nat, amount : Nat]

\* read: status and transaction number in memory since the read; changes: the
\* columns of update_fields.
Decision == [pc : {"idle", "save"}, id : Deposits \cup {NoDeposit},
             status : Statuses, transaction : BOOLEAN,
             changes : SUBSET {"status", "transaction"}]

NoSubmission == [pc |-> "idle", credit |-> 0, amount |-> 0]
NoDecision == [pc |-> "idle", id |-> NoDeposit, status |-> "pending",
               transaction |-> FALSE, changes |-> {}]

-----------------------------------------------------------------------------
Active == {d \in Deposits : deposit[d].status \in {"pending", "approved"}}
Done == {d \in Deposits : deposit[d].status = "done"}

TotalOf(ds) == MapThenSumSet(LAMBDA d : deposit[d].amount, ds)

\* The amounts the code calls reserved: open requests and executed payouts.
Reserved == TotalOf(Active \cup Done)

\* Mutant: rounded up.
AvailableRoundedUp(total, reserved) ==
    IF total > reserved * Quanta THEN (total - reserved * Quanta + Quanta - 1) \div Quanta ELSE 0

\* max(0, total_credit - reserved) rounded down to PAYOUT_QUANTUM.
Available(total, reserved) ==
    IF total > reserved * Quanta THEN (total - reserved * Quanta) \div Quanta ELSE 0

\* The Artist row is locked by at most one submission.
ArtistLocked == \E s \in Sessions : session[s].pc # "idle"

Init ==
    /\ deposit = [d \in Deposits |-> [status |-> "unborn", amount |-> 0, transaction |-> FALSE]]
    /\ credit = 0 /\ earned = 0
    /\ session = [s \in Sessions |-> NoSubmission]
    /\ admin = [a \in Admins |-> NoDecision]

-----------------------------------------------------------------------------
\* A play of one of the artist's songs is committed.
Play ==
    /\ \E worth \in PlayWorths :
         /\ earned + worth <= MaxEarned
         /\ credit' = credit + worth
         /\ earned' = earned + worth
    /\ UNCHANGED <<deposit, session, admin>>

\* A song or a listener is deleted: its plays leave the sum.
ForgetPlays ==
    /\ \E worth \in PlayWorths : worth > 0 /\ worth <= credit /\ credit' = credit - worth
    /\ UNCHANGED <<deposit, earned, session, admin>>

-----------------------------------------------------------------------------
(* DepositRequestView.post, under the lock of the Artist row               *)

\* Mutant: the submission does not lock the Artist row.
ArtistLockFree == TRUE

ArtistUnlocked == ~ArtistLocked

SubmitLock(s) ==
    /\ session[s].pc = "idle" /\ ArtistUnlocked
    /\ session' = [session EXCEPT ![s].pc = "active"]
    /\ UNCHANGED <<deposit, credit, earned, admin>>

\* A request that is open refuses another one.
SubmitCheckActive(s) ==
    /\ session[s].pc = "active"
    /\ session' = [session EXCEPT ![s] = IF Active = {} THEN [@ EXCEPT !.pc = "credit"]
                                         ELSE NoSubmission]
    /\ UNCHANGED <<deposit, credit, earned, admin>>

SubmitReadCredit(s) ==
    /\ session[s].pc = "credit"
    /\ session' = [session EXCEPT ![s] = [@ EXCEPT !.pc = "reserved", !.credit = credit]]
    /\ UNCHANGED <<deposit, credit, earned, admin>>

ReservedRead == Reserved

SubmitReadReserved(s) ==
    /\ session[s].pc = "reserved"
    /\ LET available == Available(session[s].credit, ReservedRead) IN
         session' = [session EXCEPT ![s] =
                       IF available < MinimumPayout THEN NoSubmission
                       ELSE [@ EXCEPT !.pc = "create", !.amount = available]]
    /\ UNCHANGED <<deposit, credit, earned, admin>>

\* Mutant: a status that is not one of STATUS_CHOICES.
NewDepositUnknown(amount) == [status |-> "submitted", amount |-> amount, transaction |-> FALSE]

NewDeposit(amount) == [status |-> "pending", amount |-> amount, transaction |-> FALSE]

SubmitCreate(s) ==
    /\ session[s].pc = "create"
    /\ \E d \in Deposits :
         /\ deposit[d].status = "unborn"
         /\ deposit' = [deposit EXCEPT ![d] = NewDeposit(session[s].amount)]
    /\ session' = [session EXCEPT ![s] = NoSubmission]
    /\ UNCHANGED <<credit, earned, admin>>

\* The split of the amount over the songs fails, or an exception or a crash
\* rolls the transaction back.
SubmitAbort(s) ==
    /\ session[s].pc # "idle"
    /\ session' = [session EXCEPT ![s] = NoSubmission]
    /\ UNCHANGED <<deposit, credit, earned, admin>>

-----------------------------------------------------------------------------
(* DepositRequestView.delete: one transaction under a lock on the request  *)

Cancel(d) ==
    /\ deposit[d].status = "pending"
    /\ deposit' = [deposit EXCEPT ![d].status = "cancelled"]
    /\ UNCHANGED <<credit, earned, session, admin>>

-----------------------------------------------------------------------------
(* AdminDepositRequestDetailView.patch                                     *)

Allowed == [pending  |-> {"pending", "approved", "rejected"},
            approved |-> {"approved", "done", "rejected"},
            rejected |-> {"rejected", "pending"},
            done     |-> {"done"}]

AllowedTransitions == Allowed

TransactionGiven(target, transaction) == target = "done" => transaction

\* The request is read and the change is checked against what was read.  A
\* patch keeps the transaction number, gives one, or clears it.
DecideRead(a, d) ==
    /\ admin[a].pc = "idle"
    /\ deposit[d].status \in Statuses
    /\ LET read == deposit[d] IN
         \E target \in AdminTargets \cup {read.status}, transaction \in BOOLEAN :
           LET changes == (IF target # read.status THEN {"status"} ELSE {})
                          \cup (IF transaction # read.transaction THEN {"transaction"} ELSE {})
           IN /\ target \in AllowedTransitions[read.status]
              /\ TransactionGiven(target, transaction)
              /\ changes # {}
              /\ admin' = [admin EXCEPT ![a] = [pc |-> "save", id |-> d, status |-> target,
                                                transaction |-> transaction, changes |-> changes]]
    /\ UNCHANGED <<deposit, credit, earned, session>>

\* The UPDATE writes only the columns of update_fields.
Saved(row, new) ==
    [row EXCEPT !.status = IF "status" \in new.changes THEN new.status ELSE @,
                !.transaction = IF "transaction" \in new.changes THEN new.transaction ELSE @]

\* save(update_fields=changed); saving a request that is gone raises.
DecideSave(a) ==
    LET d == admin[a].id IN
    /\ admin[a].pc = "save"
    /\ deposit' = IF deposit[d].status \notin Statuses THEN deposit
                  ELSE [deposit EXCEPT ![d] = Saved(@, admin[a])]
    /\ admin' = [admin EXCEPT ![a] = NoDecision]
    /\ UNCHANGED <<credit, earned, session>>

\* The request fails before it saves.
DecideAbort(a) ==
    /\ admin[a].pc = "save"
    /\ admin' = [admin EXCEPT ![a] = NoDecision]
    /\ UNCHANGED <<deposit, credit, earned, session>>

-----------------------------------------------------------------------------
Submit(s) ==
    \/ SubmitLock(s) \/ SubmitCheckActive(s) \/ SubmitReadCredit(s) \/ SubmitReadReserved(s)
    \/ SubmitCreate(s) \/ SubmitAbort(s)

Next ==
    \/ Play \/ ForgetPlays
    \/ \E s \in Sessions : Submit(s)
    \/ \E d \in Deposits : Cancel(d)
    \/ \E a \in Admins : (\E d \in Deposits : DecideRead(a, d)) \/ DecideSave(a) \/ DecideAbort(a)

Spec == Init /\ [][Next]_vars

-----------------------------------------------------------------------------
TypeOK ==
    /\ deposit \in [Deposits -> Deposit]
    /\ credit \in Nat /\ earned \in Nat
    /\ session \in [Sessions -> Submission]
    /\ admin \in [Admins -> Decision]

\* "You have an active payout request" (DepositRequestView.post): an artist has
\* at most one request that is neither refused, cancelled nor executed.
OneActive == \A d, e \in Active : d = e

\* Why OneActive holds: a submission that has found no open request is alone
\* under the artist's lock, and until it ends nothing but a submission opens
\* one; a decision in flight that changes the status is about a request that
\* was open when it was read and can only have been cancelled since.
OpenSlot ==
    /\ \A s, t \in Sessions : session[s].pc # "idle" /\ session[t].pc # "idle" => s = t
    /\ \A s \in Sessions : session[s].pc \in {"credit", "reserved", "create"} => Active = {}
    /\ \A a \in Admins : admin[a].pc = "save" /\ "status" \in admin[a].changes =>
         /\ admin[a].id \in Deposits /\ admin[a].status # "pending"
         /\ deposit[admin[a].id].status \in {"pending", "approved", "cancelled"}

\* The requests implement the ledger: every step of the three views draws,
\* gives back or pays an amount the ledger allows, or leaves it alone.
Ledger == INSTANCE PayoutLedger WITH
            drawn <- TotalOf(Active) * Quanta, paid <- TotalOf(Done) * Quanta
LedgerKept == Ledger!Spec
=============================================================================
