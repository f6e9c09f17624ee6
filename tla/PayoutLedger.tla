---------------------------- MODULE PayoutLedger -----------------------------
(***************************************************************************)
(* What the payouts of an artist promise, without requests, locks or       *)
(* administrators: money is drawn only from what was earned, a draw is     *)
(* given back or paid, and what was paid stays paid.                       *)
(***************************************************************************)
EXTENDS Naturals

VARIABLES earned, drawn, paid

Init == earned = 0 /\ drawn = 0 /\ paid = 0

Earn == earned' > earned /\ UNCHANGED <<drawn, paid>>

Draw == drawn' > drawn /\ drawn' + paid <= earned /\ UNCHANGED <<earned, paid>>

GiveBack == drawn' < drawn /\ UNCHANGED <<earned, paid>>

Pay == drawn' < drawn /\ drawn' + paid' = drawn + paid /\ UNCHANGED earned

Next == Earn \/ Draw \/ GiveBack \/ Pay

Spec == Init /\ [][Next]_<<earned, drawn, paid>>
=============================================================================
