--------------------------- MODULE PayoutAllocation --------------------------
(***************************************************************************)
(* How the amount of a payout is split over the songs that earned it.  The *)
(* split is computed when the payout is requested and saved in its summary;*)
(* later it is computed again from the saved splits of all payouts that    *)
(* count, in the order they were submitted, against what the songs have    *)
(* earned by then.  Amounts are whole numbers of FINANCE_QUANTUM.          *)
(***************************************************************************)
EXTENDS Integers, Sequences, FiniteSetsExt

CONSTANTS
    Songs,       \* primary keys, whole numbers: ties are broken by them
    Quanta,      \* FINANCE_QUANTUM units in a PAYOUT_QUANTUM
    MaxIncome,   \* income of one song (a bound)
    MaxPayouts   \* payouts of the artist (a bound)

VARIABLES
    income,   \* Songs -> Sum('play_counts__pay'), 0 once the song is deleted
    payouts,  \* in submission order: amount, saved split, whether it counts
    disturbed \* income has been lost with its song or listener, or a rejected
              \* payout has been put back

vars == <<income, payouts, disturbed>>

TotalOver(f, S) == MapThenSumSet(LAMBDA s : f[s], S)
Total(f) == TotalOver(f, Songs)
Zero == [s \in Songs |-> 0]
AtMost(a, b) == IF a < b THEN a ELSE b

Positive(a) == IF a > 0 THEN a ELSE 0

-----------------------------------------------------------------------------
\* sorted(..., key=lambda item: (-item[1], item[0]))
Before(balance, s, t) == balance[s] > balance[t] \/ (balance[s] = balance[t] /\ s < t)

\* What the songs can still carry.
Balance(totals, allocated) == [s \in Songs |-> Positive(totals[s] - allocated[s])]

\* The proportional shares, rounded down.
Share(target, balance, total) == (target * balance) \div total
Shares(target, balance) ==
    [s \in Songs |-> AtMost(balance[s], Share(target, balance[s], Total(balance)))]

\* What the songs before s in the order take first.
Ahead(room, balance, s) == TotalOver(room, {t \in Songs \ {s} : Before(balance, t, s)})

\* What rounding left over goes to the songs in order, each up to its own balance.
LeftOver(remainder, room, balance) ==
    [s \in Songs |-> AtMost(room[s], Positive(remainder - Ahead(room, balance, s)))]

Plus(f, g) == [s \in Songs |-> f[s] + g[s]]

\* _finance_allocate_across_songs: proportional shares, then the remainder.
AllocateAcrossSongs(totals, allocated, amount) ==
    LET balance == Balance(totals, allocated)
        target == AtMost(amount, Total(balance))
        share == Shares(target, balance)
        room == [s \in Songs |-> balance[s] - share[s]]
    IN IF target <= 0 THEN Zero
       ELSE Plus(share, LeftOver(target - Total(share), room, balance))

\* Mutant: the saved split is taken as it is.
SavedAsItIs(saved, totals, reserved) == saved

\* A saved split counts as far as the songs can still carry it.
ValidSaved(saved, totals, reserved) ==
    [s \in Songs |-> AtMost(saved[s], Positive(totals[s] - reserved[s]))]

Differ(a, b) == a - b > 1 \/ b - a > 1

\* The split one payout is given when the splits before it reserve that much.
SplitOf(payout, totals, reserved) ==
    LET valid == ValidSaved(payout.saved, totals, reserved) IN
    IF Total(valid) = 0 \/ Differ(Total(valid), payout.amount)
    THEN AllocateAcrossSongs(totals, reserved, payout.amount)
    ELSE valid

\* A payout that counts is charged to the songs.
Charged(payout, totals, reserved) ==
    IF payout.counts THEN Plus(reserved, SplitOf(payout, totals, reserved)) ELSE reserved

\* _finance_artist_song_allocations: what is reserved after a list of payouts,
\* each charged to what the ones before it leave.
ReservedBy(list, totals) ==
    MapThenFoldSet(LAMBDA payout, reserved : Charged(payout, totals, reserved), Zero,
                   LAMBDA i : list[i], Max, DOMAIN list)

Counting == {i \in DOMAIN payouts : payouts[i].counts}

-----------------------------------------------------------------------------
Init == income = Zero /\ payouts = <<>> /\ disturbed = FALSE

Play(s) ==
    /\ income[s] < MaxIncome
    /\ income' = [income EXCEPT ![s] = @ + 1]
    /\ UNCHANGED <<payouts, disturbed>>

\* The song is deleted, or listeners of it are: its income is what is left.
Forget(s) ==
    /\ income[s] > 0
    /\ \E left \in 0 .. income[s] - 1 : income' = [income EXCEPT ![s] = left]
    /\ disturbed' = TRUE
    /\ UNCHANGED payouts

Drawn == TotalOver([i \in Counting |-> payouts[i].amount], Counting)

\* DepositRequestView.post: the withdrawable amount, rounded to PAYOUT_QUANTUM,
\* and its split; a split that misses the amount is a 409.
Submit ==
    LET amount == (Positive(Total(income) - Drawn) \div Quanta) * Quanta
        split == AllocateAcrossSongs(income, ReservedBy(payouts, income), amount)
    IN /\ Len(payouts) < MaxPayouts
       /\ amount > 0
       /\ ~Differ(Total(split), amount)
       /\ payouts' = Append(payouts, [amount |-> amount, saved |-> split, counts |-> TRUE])
       /\ UNCHANGED <<income, disturbed>>

\* An administrator rejects a payout, or puts a rejected one back.
Reject(i) ==
    /\ payouts[i].counts
    /\ payouts' = [payouts EXCEPT ![i].counts = FALSE]
    /\ UNCHANGED <<income, disturbed>>

Reopen(i) ==
    /\ ~payouts[i].counts
    /\ payouts' = [payouts EXCEPT ![i].counts = TRUE]
    /\ disturbed' = TRUE
    /\ UNCHANGED income

Next ==
    \/ \E s \in Songs : Play(s) \/ Forget(s)
    \/ Submit
    \/ \E i \in DOMAIN payouts : Reject(i) \/ Reopen(i)

Spec == Init /\ [][Next]_vars

-----------------------------------------------------------------------------
TypeOK ==
    /\ income \in [Songs -> Nat]
    /\ payouts \in Seq([amount : Nat, saved : [Songs -> Nat], counts : BOOLEAN])
    /\ disturbed \in BOOLEAN

\* Whatever was deleted since, no song is charged with more than it has earned
\* (ArtistFinanceView shows balance = income - reserved for every song).
NoSongOverdrawn ==
    LET reserved == ReservedBy(payouts, income) IN
    \A s \in Songs : 0 <= reserved[s] /\ reserved[s] <= income[s]

\* A new amount is split to the last quantum over the songs with a balance, the
\* larger balance never getting the smaller part.
SplitExact ==
    LET reserved == ReservedBy(payouts, income) IN
    \A amount \in 1 .. Positive(Total(income) - Total(reserved)) :
      LET split == AllocateAcrossSongs(income, reserved, amount) IN
      /\ Total(split) = amount
      /\ \A s, t \in Songs : income[s] - reserved[s] > income[t] - reserved[t] => split[s] >= split[t]

\* The split of a payout is sound for every song and every amount.
SplitSound == NoSongOverdrawn /\ SplitExact

\* The history of an artist is stable: until income is lost or a payout put
\* back, every payout that counts is split as it was when it was requested,
\* whatever was played, requested and rejected since.
HistoryStable ==
    ~disturbed =>
      \A i \in Counting :
        LET before == ReservedBy(SubSeq(payouts, 1, i - 1), income) IN
        SplitOf(payouts[i], income, before) = payouts[i].saved
=============================================================================
