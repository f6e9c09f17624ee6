-------------------------- MODULE ArtistPayoutProofs -------------------------
(***************************************************************************)
(* Proofs about ArtistPayout, for any number of requests, of submissions   *)
(* at once and of plays.  OneActive and the refinement of the ledger are   *)
(* proved for a team in which one decision is taken at a time and no       *)
(* rejected request is reopened: the runs on the two configurations        *)
(* without these assumptions refute OneActive.  The types need only that   *)
(* the payout requests are finitely many.                                  *)
(***************************************************************************)
EXTENDS ArtistPayout, FiniteSetTheorems, WellFoundedInduction, TLAPS

OneDecisionAtATime == \A a, b \in Admins : a = b
NoReopening == "pending" \notin AdminTargets

DepositStatuses == Statuses \cup {"unborn", "cancelled"}
Pcs == {"idle", "active", "credit", "reserved", "create"}

\* The part of the type invariant that does not need amounts to be numbers.
Shape ==
    /\ DOMAIN deposit = Deposits
    /\ \A d \in Deposits : "status" \in DOMAIN deposit[d] /\ deposit[d].status \in DepositStatuses
    /\ DOMAIN session = Sessions
    /\ \A s \in Sessions : "pc" \in DOMAIN session[s] /\ session[s].pc \in Pcs
    /\ admin \in [Admins -> Decision]

Inv == Shape /\ OneActive /\ OpenSlot

LEMMA InvInit == Init => Inv
<1> SUFFICES ASSUME Init PROVE Inv
  OBVIOUS
<1>1. Shape
  BY DEF Init, Shape, DepositStatuses, Pcs, NoSubmission, NoDecision, Decision, Statuses
<1>2. Active = {}
  BY DEF Init, Active
<1>3. OneActive /\ OpenSlot
  BY <1>2 DEF Init, OneActive, OpenSlot, NoSubmission, NoDecision
<1> QED
  BY <1>1, <1>3 DEF Inv

\* A submission moves on and leaves the requests alone.
LEMMA SessionMove ==
  ASSUME Inv, NEW s \in Sessions, UNCHANGED <<deposit, admin>>,
         DOMAIN session' = Sessions, \A t \in Sessions \ {s} : session'[t] = session[t],
         "pc" \in DOMAIN session'[s], session'[s].pc \in Pcs,
         session'[s].pc # "idle" => session[s].pc # "idle" \/ ~ArtistLocked,
         session'[s].pc \in {"credit", "reserved", "create"} => Active = {}
  PROVE  Inv'
<1>1. Shape'
  BY DEF Inv, Shape
<1>2. Active' = Active
  BY DEF Active
<1>3. OneActive'
  BY <1>2 DEF Inv, OneActive
<1>4. \A t, u \in Sessions : session'[t].pc # "idle" /\ session'[u].pc # "idle" => t = u
  BY DEF Inv, OpenSlot, ArtistLocked
<1>5. \A t \in Sessions : session'[t].pc \in {"credit", "reserved", "create"} => Active' = {}
  BY <1>2 DEF Inv, OpenSlot
<1>6. OpenSlot'
  BY <1>4, <1>5 DEF Inv, OpenSlot
<1> QED
  BY <1>1, <1>3, <1>6 DEF Inv

LEMMA InvStep ==
  ASSUME OneDecisionAtATime, NoReopening, Inv, [Next]_vars
  PROVE  Inv'
<1>s. Shape /\ OneActive /\ OpenSlot
  BY DEF Inv
<1>1. CASE Play
  BY <1>1, <1>s DEF Play, Inv, Shape, OneActive, OpenSlot, Active
<1>2. CASE ForgetPlays
  BY <1>2, <1>s DEF ForgetPlays, Inv, Shape, OneActive, OpenSlot, Active
<1>3. ASSUME NEW s \in Sessions, SubmitLock(s) PROVE Inv'
  BY <1>3, <1>s, SessionMove DEF SubmitLock, ArtistUnlocked, Shape, Pcs
<1>4. ASSUME NEW s \in Sessions, SubmitCheckActive(s) PROVE Inv'
  BY <1>4, <1>s, SessionMove DEF SubmitCheckActive, NoSubmission, Shape, Pcs
<1>5. ASSUME NEW s \in Sessions, SubmitReadCredit(s) PROVE Inv'
  BY <1>5, <1>s, SessionMove DEF SubmitReadCredit, Shape, Pcs, OpenSlot
<1>6. ASSUME NEW s \in Sessions, SubmitReadReserved(s) PROVE Inv'
  BY <1>6, <1>s, SessionMove DEF SubmitReadReserved, NoSubmission, Shape, Pcs, OpenSlot
<1>7. ASSUME NEW s \in Sessions, SubmitCreate(s) PROVE Inv'
  <2>1. PICK d \in Deposits : /\ deposit[d].status = "unborn"
                              /\ deposit' = [deposit EXCEPT ![d] = NewDeposit(session[s].amount)]
    BY <1>7 DEF SubmitCreate
  <2>2. /\ session[s].pc = "create" /\ session' = [session EXCEPT ![s] = NoSubmission]
        /\ admin' = admin
    BY <1>7 DEF SubmitCreate
  <2>3. /\ DOMAIN deposit' = Deposits /\ deposit'[d] = NewDeposit(session[s].amount)
        /\ \A e \in Deposits \ {d} : deposit'[e] = deposit[e]
    BY <2>1, <1>s DEF Shape
  <2>4. DOMAIN session' = Sessions /\ session'[s] = NoSubmission
        /\ \A t \in Sessions \ {s} : session'[t] = session[t]
    BY <2>2, <1>s DEF Shape
  <2>5. Shape'
    BY <2>2, <2>3, <2>4, <1>s DEF Shape, NewDeposit, NoSubmission, DepositStatuses, Statuses, Pcs
  <2>6. Active = {}
    BY <2>2, <1>s DEF OpenSlot
  <2>7. OneActive'
    BY <2>3, <2>6 DEF OneActive, Active
  <2>8. \A t \in Sessions : session'[t].pc = "idle"
    BY <2>2, <2>4, <1>s DEF OpenSlot, NoSubmission
  <2>9. \A a \in Admins : admin[a].pc = "save" /\ "status" \in admin[a].changes => admin[a].id # d
    BY <2>1, <1>s DEF OpenSlot
  <2> QED
    BY <2>2, <2>3, <2>5, <2>7, <2>8, <2>9, <1>s DEF Inv, OpenSlot
<1>8. ASSUME NEW s \in Sessions, SubmitAbort(s) PROVE Inv'
  BY <1>8, <1>s, SessionMove DEF SubmitAbort, NoSubmission, Shape, Pcs
<1>9. ASSUME NEW d \in Deposits, Cancel(d) PROVE Inv'
  <2>1. /\ deposit[d].status = "pending" /\ UNCHANGED <<session, admin>>
        /\ deposit' = [deposit EXCEPT ![d].status = "cancelled"]
    BY <1>9 DEF Cancel
  <2>2. /\ DOMAIN deposit' = Deposits
        /\ deposit'[d].status = "cancelled" /\ "status" \in DOMAIN deposit'[d]
        /\ \A e \in Deposits \ {d} : deposit'[e] = deposit[e]
    BY <2>1, <1>s DEF Shape
  <2>3. Shape'
    BY <2>1, <2>2, <1>s DEF Shape, DepositStatuses
  <2>4. Active' \subseteq Active
    BY <2>2 DEF Active
  <2>5. OneActive' /\ OpenSlot'
    BY <2>1, <2>2, <2>4, <1>s DEF OneActive, OpenSlot
  <2> QED
    BY <2>3, <2>5 DEF Inv
<1>10. ASSUME NEW a \in Admins, NEW d \in Deposits, DecideRead(a, d) PROVE Inv'
  <2>1. PICK target \in AdminTargets \cup {deposit[d].status}, transaction \in BOOLEAN,
             changes \in SUBSET {"status", "transaction"} :
          /\ deposit[d].status \in Statuses
          /\ target \in AllowedTransitions[deposit[d].status]
          /\ "status" \in changes => target # deposit[d].status
          /\ admin' = [admin EXCEPT ![a] = [pc |-> "save", id |-> d, status |-> target,
                                            transaction |-> transaction, changes |-> changes]]
    BY <1>10 DEF DecideRead
  <2>2. UNCHANGED <<deposit, session>>
    BY <1>10 DEF DecideRead
  <2>3. target \in Statuses
    BY <2>1, TargetAssumption
  <2>4. Shape'
    BY <2>1, <2>2, <2>3, <1>s DEF Shape, Decision
  <2>5. Active' = Active
    BY <2>2 DEF Active
  <2>6. "status" \in changes => target # "pending" /\ deposit[d].status \in {"pending", "approved"}
    BY <2>1 DEF NoReopening, AllowedTransitions, Allowed, Statuses
  <2>7. /\ admin'[a].id = d /\ admin'[a].changes = changes /\ admin'[a].status = target
        /\ \A b \in Admins \ {a} : admin'[b] = admin[b]
    BY <2>1, <1>s DEF Shape
  <2> QED
    BY <2>2, <2>4, <2>5, <2>6, <2>7, <1>s DEF Inv, OneActive, OpenSlot
<1>11. ASSUME NEW a \in Admins, DecideSave(a) PROVE Inv'
  <2> DEFINE d == admin[a].id
  <2>1. session' = session /\ admin[a].pc = "save" /\ admin' = [admin EXCEPT ![a] = NoDecision]
    BY <1>11 DEF DecideSave
  <2>2. admin' \in [Admins -> Decision] /\ admin'[a].pc = "idle"
    BY <2>1, <1>s DEF Shape, NoDecision, Decision, Statuses
  <2>3. \A b \in Admins : admin'[b].pc = "idle"
    BY <2>2 DEF OneDecisionAtATime
  <2>4. admin[a] \in Decision
    BY <1>s DEF Shape
  <2>5. /\ DOMAIN deposit' = Deposits
        /\ \A e \in Deposits : "status" \in DOMAIN deposit'[e]
        /\ \A e \in Deposits \ {d} : deposit'[e].status = deposit[e].status
        /\ d \in Deposits => \/ deposit'[d].status = deposit[d].status
                             \/ /\ "status" \in admin[a].changes
                                /\ deposit[d].status \in Statuses
                                /\ deposit'[d].status = admin[a].status
    <3>1. CASE deposit[d].status \notin Statuses
      BY <1>11, <3>1, <1>s DEF DecideSave, Shape
    <3>2. CASE deposit[d].status \in Statuses
      <4> DEFINE row == Saved(deposit[d], admin[a])
      <4>1. deposit' = [deposit EXCEPT ![d] = row]
        BY <1>11, <3>2 DEF DecideSave
      <4>2. d \in Deposits =>
              /\ "status" \in DOMAIN row
              /\ row.status = IF "status" \in admin[a].changes THEN admin[a].status
                              ELSE deposit[d].status
        BY <1>s DEF Shape, Saved
      <4> HIDE DEF row, d
      <4>3. /\ DOMAIN deposit' = Deposits
            /\ \A e \in Deposits \ {d} : deposit'[e] = deposit[e]
            /\ d \in Deposits => deposit'[d] = row
        BY <4>1, <1>s DEF Shape
      <4> QED
        BY <3>2, <4>2, <4>3, <1>s DEF Shape
    <3> QED
      BY <3>1, <3>2
  <2>6. Active' \subseteq Active
    BY <2>1, <2>5, <1>s DEF Active, OpenSlot, Statuses
  <2>7. Shape'
    BY <2>1, <2>2, <2>4, <2>5, <1>s DEF Shape, Decision, DepositStatuses
  <2>8. OneActive' /\ OpenSlot'
    BY <2>1, <2>3, <2>6, <1>s DEF OneActive, OpenSlot
  <2> QED
    BY <2>7, <2>8 DEF Inv
<1>12. ASSUME NEW a \in Admins, DecideAbort(a) PROVE Inv'
  <2>1. /\ UNCHANGED <<deposit, session>> /\ admin' = [admin EXCEPT ![a] = NoDecision]
    BY <1>12 DEF DecideAbort
  <2>2. admin' \in [Admins -> Decision] /\ admin'[a].pc = "idle"
        /\ \A b \in Admins \ {a} : admin'[b] = admin[b]
    BY <2>1, <1>s DEF Shape, NoDecision, Decision, Statuses
  <2> QED
    BY <2>1, <2>2, <1>s DEF Inv, Shape, OneActive, OpenSlot, Active
<1>13. CASE UNCHANGED vars
  BY <1>13, <1>s DEF vars, Inv, Shape, OneActive, OpenSlot, Active
<1> QED
  BY <1>1, <1>2, <1>3, <1>4, <1>5, <1>6, <1>7, <1>8, <1>9, <1>10, <1>11, <1>12, <1>13
     DEF Next, Submit

\* Where decisions are taken one at a time and a rejected request is not
\* reopened, no race of submissions, cancellations and decisions leaves an
\* artist with two open payout requests.
THEOREM AtMostOneActive ==
  ASSUME OneDecisionAtATime, NoReopening
  PROVE  Spec => []OneActive
<1>1. Init => Inv
  BY InvInit
<1>2. Inv /\ [Next]_vars => Inv'
  BY InvStep
<1>3. Inv => OneActive
  BY DEF Inv
<1> QED
  BY <1>1, <1>2, <1>3, PTL DEF Spec

-----------------------------------------------------------------------------
(* Sums over the subsets of a finite set.  The fold that TotalOf uses is a *)
(* function defined by recursion over sets: SetInduction is what is needed *)
(* of the induction over the subsets of D, from their well-founded order.  *)

\* A family of subsets of D that has every set whose one-smaller subsets it has, has them all.
LEMMA SetInduction ==
    ASSUME NEW D, IsFiniteSet(D), NEW T \in SUBSET (SUBSET D),
           \A s \in SUBSET D : (\A x \in s : s \ {x} \in T) => s \in T
    PROVE  T = SUBSET D
<1> SUFFICES ASSUME T # SUBSET D PROVE FALSE
  OBVIOUS
<1>1. PICK bad \in SUBSET (SUBSET D) : bad = (SUBSET D) \ T
  OBVIOUS
<1>2. bad # {} /\ bad \subseteq FiniteSubsetsOf(D)
  BY <1>1, FS_FiniteSubsetsOfFinite
<1>3. PICK s \in bad : \A t \in bad : ~ <<t, s>> \in StrictSubsetOrdering(D)
  BY <1>2, FS_StrictSubsetOrderingWellFounded, WFMin
<1>4. s \notin T /\ s \in SUBSET D
  BY <1>1
<1>5. ASSUME NEW x \in s PROVE s \ {x} \in T
  <2>1. s \ {x} \in SUBSET D /\ s \ {x} # s
    BY <1>4
  <2>2. s \ {x} \notin bad
    BY <1>3, <1>4, <2>1 DEF StrictSubsetOrdering
  <2> QED
    BY <1>1, <2>1, <2>2
<1> QED
  BY <1>4, <1>5

\* h[s] is the sum of f over s, whichever element is taken first.
Adds(h, f, D) ==
    /\ h \in [SUBSET D -> Nat] /\ h[{}] = 0
    /\ \A s \in SUBSET D : \A x \in s : h[s] = f[x] + h[s \ {x}]

\* Such a function exists: it is built from one element to the next.
LEMMA SumsExist == ASSUME NEW D, IsFiniteSet(D), NEW f \in [D -> Nat] PROVE \E h : Adds(h, f, D)
<1> DEFINE T == {s \in SUBSET D : \E h : Adds(h, f, s)}
<1>1. {} \in T
  <2>1. PICK h : h = [s \in SUBSET {} |-> 0]
    OBVIOUS
  <2>2. Adds(h, f, {})
    BY <2>1 DEF Adds
  <2> QED
    BY <2>2
<1>2. ASSUME NEW all \in SUBSET D, \A x \in all : all \ {x} \in T PROVE all \in T
  <2>1. CASE all = {}
    BY <1>1, <2>1
  <2>2. CASE all # {}
    <3>0. PICK x \in all : TRUE
      BY <2>2
    <3> DEFINE s == all \ {x}
    <3>1. PICK g : Adds(g, f, s)
      BY <1>2
    <3>2. PICK h : h = [t \in SUBSET (s \cup {x}) |-> IF x \in t THEN f[x] + g[t \ {x}] ELSE g[t]]
      OBVIOUS
    <3>3. h \in [SUBSET (s \cup {x}) -> Nat]
      BY <3>1, <3>2 DEF Adds
    <3>4. h[{}] = 0
      BY <3>1, <3>2 DEF Adds
    <3>5. ASSUME NEW t \in SUBSET (s \cup {x}), NEW y \in t PROVE h[t] = f[y] + h[t \ {y}]
      <4>0. s \subseteq D
        OBVIOUS
      <4>1. CASE y = x
        <5>1. h[t \ {y}] = g[t \ {x}] /\ h[t] = f[x] + g[t \ {x}]
          BY <3>2, <4>1
        <5> QED
          BY <4>1, <5>1
      <4>2. CASE y # x /\ x \notin t
        <5>1. h[t \ {y}] = g[t \ {y}] /\ h[t] = g[t] /\ t \in SUBSET s
          BY <3>2, <4>2
        <5> QED
          BY <3>1, <5>1 DEF Adds
      <4>3. CASE y # x /\ x \in t
        <5>1. h[t \ {y}] = f[x] + g[(t \ {y}) \ {x}] /\ h[t] = f[x] + g[t \ {x}]
          BY <3>2, <4>3
        <5>2. g[t \ {x}] = f[y] + g[(t \ {x}) \ {y}]
          BY <3>1, <4>3 DEF Adds
        <5>3. (t \ {x}) \ {y} = (t \ {y}) \ {x}
          OBVIOUS
        <5>4. (t \ {x}) \ {y} \in SUBSET s
          OBVIOUS
        <5>5. PICK k \in Nat : k = g[(t \ {x}) \ {y}]
          BY <3>1, <5>4 DEF Adds
        <5>6. f[x] \in Nat /\ f[y] \in Nat
          BY <4>0
        <5>7. g[(t \ {y}) \ {x}] = k
          BY <5>3, <5>5
        <5>8. h[t \ {y}] = f[x] + k /\ h[t] = f[x] + (f[y] + k)
          BY <5>1, <5>2, <5>5, <5>7
        <5> QED
          BY <5>5, <5>6, <5>8
      <4> QED
        BY <4>1, <4>2, <4>3
    <3>6. Adds(h, f, s \cup {x})
      BY <3>3, <3>4, <3>5 DEF Adds
    <3>7. s \cup {x} = all
      OBVIOUS
    <3> QED
      BY <3>6, <3>7
  <2> QED
    BY <2>1, <2>2
<1>3. T \in SUBSET (SUBSET D)
  OBVIOUS
<1> HIDE DEF T
<1>4. T = SUBSET D
  BY <1>1, <1>2, <1>3, SetInduction
<1>5. D \in T
  BY <1>4
<1> QED
  BY <1>5 DEF T

\* TotalOf with the table of requests as an argument.
TotalIn(rows, ds) == MapThenSumSet(LAMBDA d : rows[d].amount, ds)

\* The fold computes that sum.
LEMMA FoldIs ==
    ASSUME NEW D, IsFiniteSet(D), NEW rows, NEW f, \A d \in D : f[d] = rows[d].amount,
           NEW h, Adds(h, f, D), NEW S \in SUBSET D
    PROVE  TotalIn(rows, S) = h[S]
<1> DEFINE Step(g, s) == IF s = {} THEN 0 ELSE rows[CHOOSE x \in s : TRUE].amount + g[s \ {CHOOSE x \in s : TRUE}]
<1>1. TotalIn(rows, S) = (CHOOSE g : g = [s \in SUBSET S |-> Step(g, s)])[S]
  BY DEF TotalIn, MapThenSumSet, MapThenFoldSet
<1>0. /\ \A s \in SUBSET D : h[s] \in Nat
      /\ h[{}] = 0 /\ \A s \in SUBSET D : \A x \in s : h[s] = rows[x].amount + h[s \ {x}]
  BY DEF Adds
<1>2. PICK k : k = [s \in SUBSET S |-> h[s]]
  OBVIOUS
<1>3. ASSUME NEW s \in SUBSET S PROVE k[s] = Step(k, s)
  <2>1. CASE s = {}
    BY <1>0, <1>2, <2>1
  <2>2. CASE s # {}
    <3>1. PICK x \in s : x = CHOOSE y \in s : TRUE
      BY <2>2, Zenon
    <3>2. s \in SUBSET D /\ s \ {x} \in SUBSET S
      OBVIOUS
    <3>3. k[s] = h[s] /\ k[s \ {x}] = h[s \ {x}]
      BY <1>2, <3>2
    <3>4. k[s] = rows[x].amount + k[s \ {x}]
      BY <1>0, <3>2, <3>3
    <3> QED
      BY <2>2, <3>1, <3>4
  <2> QED
    BY <2>1, <2>2
<1>4. k = [s \in SUBSET S |-> Step(k, s)]
  <2> HIDE DEF Step
  <2> QED
    BY <1>2, <1>3
<1>5. ASSUME NEW g, g = [s \in SUBSET S |-> Step(g, s)] PROVE g = k
  <2> DEFINE T == {s \in SUBSET S : g[s] = h[s]}
  <2>1. ASSUME NEW s \in SUBSET S PROVE g[s] = Step(g, s)
    <3> HIDE DEF Step
    <3> QED
      BY <1>5
  <2>2. ASSUME NEW s \in SUBSET S, \A x \in s : s \ {x} \in T PROVE s \in T
    <3>1. CASE s = {}
      <4>1. g[s] = 0
        BY <2>1, <3>1
      <4> QED
        BY <1>0, <3>1, <4>1
    <3>2. CASE s # {}
      <4>1. PICK x \in s : x = CHOOSE y \in s : TRUE
        BY <3>2, Zenon
      <4>2. g[s] = rows[x].amount + g[s \ {x}]
        BY <2>1, <3>2, <4>1
      <4>3. g[s \ {x}] = h[s \ {x}]
        BY <2>2
      <4>4. h[s] = rows[x].amount + h[s \ {x}]
        BY <1>0
      <4> QED
        BY <4>2, <4>3, <4>4
    <3> QED
      BY <3>1, <3>2
  <2>3. IsFiniteSet(S) /\ T \in SUBSET (SUBSET S)
    BY FS_Subset
  <2>4. T = SUBSET S
    <3> HIDE DEF T
    <3> QED
      BY <2>2, <2>3, SetInduction
  <2>5. \A s \in SUBSET S : g[s] = h[s]
    BY <2>4
  <2>6. g = [s \in SUBSET S |-> g[s]]
    <3> HIDE DEF Step
    <3> QED
      BY <1>5
  <2> QED
    BY <1>2, <2>5, <2>6
<1>6. PICK j : j = CHOOSE g : g = [s \in SUBSET S |-> Step(g, s)]
  OBVIOUS
<1>7. j = [s \in SUBSET S |-> Step(j, s)]
  <2> HIDE DEF Step
  <2> QED
    BY <1>4, <1>6, Zenon
<1>8. j = k
  <2> HIDE DEF Step
  <2> QED
    BY <1>5, <1>7, Zenon
<1> QED
  BY <1>1, <1>2, <1>6, <1>8

FiniteDeposits == IsFiniteSet(Deposits)
Amounts(rows) == \A d \in Deposits : rows[d].amount \in Nat

\* h tabulates the totals of every set of requests.
Totals(h, rows) ==
    /\ h \in [SUBSET Deposits -> Nat] /\ h[{}] = 0
    /\ \A s \in SUBSET Deposits : TotalIn(rows, s) = h[s]
    /\ \A s \in SUBSET Deposits : \A x \in s : h[s] = rows[x].amount + h[s \ {x}]

\* The totals add up, whatever order the fold takes the requests in.
LEMMA TotalsAdd == ASSUME FiniteDeposits, NEW rows, Amounts(rows) PROVE \E h : Totals(h, rows)
<1>1. PICK f \in [Deposits -> Nat] : \A d \in Deposits : f[d] = rows[d].amount
  <2>1. [d \in Deposits |-> rows[d].amount] \in [Deposits -> Nat]
    BY DEF Amounts
  <2> QED
    BY <2>1
<1>2. PICK h : Adds(h, f, Deposits)
  BY SumsExist DEF FiniteDeposits
<1>3. \A s \in SUBSET Deposits : TotalIn(rows, s) = h[s]
  BY <1>1, <1>2, FoldIs DEF FiniteDeposits
<1>4. \A s \in SUBSET Deposits : \A x \in s : h[s] = rows[x].amount + h[s \ {x}]
  BY <1>1, <1>2 DEF Adds
<1> QED
  BY <1>2, <1>3, <1>4 DEF Adds, Totals

\* A total of amounts is an amount; that of no request is 0.
LEMMA TotalIsNat ==
    ASSUME FiniteDeposits, NEW rows, Amounts(rows), NEW s \in SUBSET Deposits
    PROVE  TotalIn(rows, s) \in Nat /\ TotalIn(rows, {}) = 0
<1>0. PICK h : Totals(h, rows)
  BY TotalsAdd
<1>1. {} \in SUBSET Deposits
  OBVIOUS
<1> QED
  BY <1>0, <1>1 DEF Totals

\* A request counts its own amount.
LEMMA TotalWithout ==
    ASSUME FiniteDeposits, NEW rows, Amounts(rows), NEW s \in SUBSET Deposits, NEW x \in s
    PROVE  TotalIn(rows, s) = rows[x].amount + TotalIn(rows, s \ {x})
<1>0. PICK h : Totals(h, rows)
  BY TotalsAdd
<1>1. s \ {x} \in SUBSET Deposits
  OBVIOUS
<1> QED
  BY <1>0, <1>1 DEF Totals

\* A change of statuses or of requests outside a set does not change its total.
LEMMA TotalStays ==
    ASSUME FiniteDeposits, NEW rows, NEW news, NEW s \in SUBSET Deposits, Amounts(rows),
           \A d \in s : news[d].amount = rows[d].amount
    PROVE  TotalIn(news, s) = TotalIn(rows, s)
<1>1. IsFiniteSet(s)
  BY FS_Subset DEF FiniteDeposits
<1>2. PICK f \in [s -> Nat] : \A d \in s : f[d] = rows[d].amount
  <2>1. [d \in s |-> rows[d].amount] \in [s -> Nat]
    BY DEF Amounts
  <2> QED
    BY <2>1
<1>3. PICK h : Adds(h, f, s)
  BY <1>1, SumsExist
<1>4. TotalIn(rows, s) = h[s]
  BY <1>1, <1>2, <1>3, FoldIs
<1>5. TotalIn(news, s) = h[s]
  BY <1>1, <1>2, <1>3, FoldIs
<1> QED
  BY <1>4, <1>5

-----------------------------------------------------------------------------
(* Types                                                                   *)

\* TotalOf is the total in the present table.
LEMMA TotalOfIs == \A ds : TotalOf(ds) = TotalIn(deposit, ds)
BY DEF TotalOf, TotalIn

\* What is reserved is an amount.
LEMMA ReservedIsNat == ASSUME FiniteDeposits, TypeOK PROVE Reserved \in Nat
<1>1. Amounts(deposit)
  BY DEF TypeOK, Deposit, Amounts
<1>2. Active \cup Done \in SUBSET Deposits
  BY DEF Active, Done
<1>3. TotalIn(deposit, Active \cup Done) \in Nat
  BY <1>1, <1>2, TotalIsNat
<1> QED
  BY <1>3, TotalOfIs DEF Reserved

\* What a submission finds available is rounded down: with what is reserved it
\* does not exceed the credit it read.
LEMMA Rounding ==
    ASSUME NEW total \in Nat, NEW reserved \in Nat
    PROVE  /\ Available(total, reserved) \in Nat
           /\ Available(total, reserved) > 0 => (reserved + Available(total, reserved)) * Quanta <= total
<1>1. PICK q \in Nat : q = Quanta /\ q > 0
  BY AmountAssumption
<1>2. PICK r \in Nat : r = reserved * q
  BY <1>1
<1>3. CASE total > r
  <2>1. PICK n \in Nat : n = total - r
    BY <1>2, <1>3
  <2>2. n \div q \in Nat /\ (n \div q) * q <= n
    BY <1>1, <2>1
  <2>3. PICK k \in Nat : k = n \div q
    BY <2>2
  <2>4. Available(total, reserved) = k
    BY <1>1, <1>2, <1>3, <2>1, <2>3 DEF Available
  <2>5. (reserved + k) * q = r + k * q
    BY <1>1, <1>2, <2>3
  <2> QED
    BY <1>1, <1>2, <2>1, <2>2, <2>3, <2>4, <2>5
<1>4. CASE ~(total > r)
  <2>1. Available(total, reserved) = 0
    BY <1>1, <1>2, <1>4 DEF Available
  <2> QED
    BY <2>1
<1> QED
  BY <1>3, <1>4

\* No request, no play: the initial amounts are numbers.
LEMMA TypeInit == Init => TypeOK
BY DEF Init, TypeOK, Deposit, Statuses, Submission, NoSubmission, Decision, NoDecision

\* Every handler keeps the rows and its own state of their types.
LEMMA TypeStep == ASSUME FiniteDeposits, TypeOK, [Next]_vars PROVE TypeOK'
<1>0. NoSubmission \in Submission /\ NoDecision \in Decision
  BY DEF Submission, NoSubmission, Decision, NoDecision, Statuses
<1>1. CASE Play
  BY <1>1, AmountAssumption DEF Play, TypeOK
<1>2. CASE ForgetPlays
  <2>1. PICK worth \in Nat : worth <= credit /\ credit' = credit - worth
    BY <1>2, AmountAssumption DEF ForgetPlays
  <2> QED
    BY <1>2, <2>1 DEF ForgetPlays, TypeOK
<1>3. ASSUME NEW s \in Sessions, SubmitLock(s) \/ SubmitCheckActive(s) \/ SubmitReadCredit(s) \/ SubmitAbort(s) PROVE TypeOK'
  <2>1. session' \in [Sessions -> Submission]
    <3>1. CASE SubmitLock(s)
      BY <3>1 DEF SubmitLock, TypeOK, Submission
    <3>2. CASE SubmitCheckActive(s)
      BY <1>0, <3>2 DEF SubmitCheckActive, TypeOK, Submission
    <3>3. CASE SubmitReadCredit(s)
      BY <3>3 DEF SubmitReadCredit, TypeOK, Submission
    <3>4. CASE SubmitAbort(s)
      BY <1>0, <3>4 DEF SubmitAbort, TypeOK
    <3> QED
      BY <1>3, <3>1, <3>2, <3>3, <3>4
  <2>2. UNCHANGED <<deposit, earned, credit, admin>>
    BY <1>3 DEF SubmitLock, SubmitCheckActive, SubmitReadCredit, SubmitAbort
  <2> QED
    BY <2>1, <2>2 DEF TypeOK
<1>4. ASSUME NEW s \in Sessions, SubmitReadReserved(s) PROVE TypeOK'
  <2>1. PICK n : n = Available(session[s].credit, ReservedRead)
    OBVIOUS
  <2>2. n \in Nat
    BY <2>1, ReservedIsNat, Rounding DEF ReservedRead, TypeOK, Submission
  <2>3. session' = [session EXCEPT ![s] = IF n < MinimumPayout THEN NoSubmission ELSE [@ EXCEPT !.pc = "create", !.amount = n]]
    BY <1>4, <2>1 DEF SubmitReadReserved
  <2>4. session' \in [Sessions -> Submission]
    BY <1>0, <2>2, <2>3 DEF TypeOK, Submission
  <2>5. UNCHANGED <<deposit, earned, credit, admin>>
    BY <1>4 DEF SubmitReadReserved
  <2> QED
    BY <2>4, <2>5 DEF TypeOK
<1>5. ASSUME NEW s \in Sessions, SubmitCreate(s) PROVE TypeOK'
  <2>1. PICK n \in Nat : n = session[s].amount
    BY DEF TypeOK, Submission
  <2>2. NewDeposit(n) \in Deposit
    BY DEF NewDeposit, Deposit, Statuses
  <2> QED
    BY <1>0, <1>5, <2>1, <2>2 DEF SubmitCreate, TypeOK
<1>6. ASSUME NEW d \in Deposits, Cancel(d) PROVE TypeOK'
  BY <1>6 DEF Cancel, TypeOK, Deposit
<1>7. ASSUME NEW a \in Admins, NEW d \in Deposits, DecideRead(a, d) PROVE TypeOK'
  <2>1. PICK n \in Decision : admin' = [admin EXCEPT ![a] = n]
    <3>1. PICK target \in AdminTargets \cup {deposit[d].status}, transaction \in BOOLEAN,
               changes \in SUBSET {"status", "transaction"} :
            admin' = [admin EXCEPT ![a] = [pc |-> "save", id |-> d, status |-> target,
                                           transaction |-> transaction, changes |-> changes]]
      BY <1>7 DEF DecideRead
    <3>2. deposit[d].status \in Statuses
      BY <1>7 DEF DecideRead
    <3>3. target \in Statuses
      BY <3>2, TargetAssumption
    <3>4. [pc |-> "save", id |-> d, status |-> target, transaction |-> transaction, changes |-> changes] \in Decision
      BY <3>3 DEF Decision
    <3> QED
      BY <3>1, <3>4
  <2> QED
    BY <1>7, <2>1 DEF DecideRead, TypeOK
<1>8. ASSUME NEW a \in Admins, DecideSave(a) PROVE TypeOK'
  <2>1. PICK d : d = admin[a].id
    OBVIOUS
  <2>2. PICK n \in Decision : n = admin[a]
    BY DEF TypeOK
  <2>3. ASSUME d \in Deposits PROVE Saved(deposit[d], n) \in Deposit
    <3>1. PICK row \in Deposit : row = deposit[d]
      BY <2>3 DEF TypeOK
    <3>2. PICK status \in Statuses \cup {"unborn", "cancelled"} : status = IF "status" \in n.changes THEN n.status ELSE row.status
      BY DEF Deposit, Decision
    <3>3. PICK transaction \in BOOLEAN : transaction = IF "transaction" \in n.changes THEN n.transaction ELSE row.transaction
      <4>1. n.transaction \in BOOLEAN /\ row.transaction \in BOOLEAN
        BY DEF Deposit, Decision
      <4> QED
        BY <4>1, Zenon
    <3>4. Saved(row, n) = [row EXCEPT !.status = status, !.transaction = transaction]
      BY <3>2, <3>3 DEF Saved
    <3> QED
      BY <3>1, <3>4 DEF Deposit
  <2>4. deposit' = deposit \/ deposit' = [deposit EXCEPT ![d] = Saved(deposit[d], n)]
    BY <1>8, <2>1, <2>2 DEF DecideSave
  <2>5. deposit' \in [Deposits -> Deposit]
    BY <2>3, <2>4 DEF TypeOK
  <2> QED
    BY <1>0, <1>8, <2>5 DEF DecideSave, TypeOK
<1>9. ASSUME NEW a \in Admins, DecideAbort(a) PROVE TypeOK'
  BY <1>0, <1>9 DEF DecideAbort, TypeOK
<1>10. CASE UNCHANGED vars
  BY <1>10 DEF vars, TypeOK
<1> QED
  BY <1>1, <1>2, <1>3, <1>4, <1>5, <1>6, <1>7, <1>8, <1>9, <1>10 DEF Next, Submit

\* The payout requests, the credit and what submissions and decisions in flight
\* remember always have their types; the amount a submission draws is a number of
\* payout units because the sums of DepositRequest amounts are.
THEOREM PayoutTyped == ASSUME FiniteDeposits PROVE Spec => []TypeOK
<1>1. Init => TypeOK
  BY TypeInit
<1>2. TypeOK /\ [Next]_vars => TypeOK'
  BY TypeStep
<1> QED
  BY <1>1, <1>2, PTL DEF Spec

-----------------------------------------------------------------------------
(* The ledger                                                              *)

\* What is drawn and paid was earned, and so is what a submission is about to draw.
Funded ==
    /\ \A d \in Deposits : deposit[d].status # "unborn" => deposit[d].amount > 0
    /\ credit <= earned
    /\ (TotalOf(Active) + TotalOf(Done)) * Quanta <= earned
    /\ \A s \in Sessions :
        /\ session[s].pc = "reserved" => session[s].credit <= earned
        /\ session[s].pc = "create" => session[s].amount > 0 /\ (TotalOf(Done) + session[s].amount) * Quanta <= earned

\* The inductive invariant of the refinement.
LedgerInv == Inv /\ TypeOK /\ Funded

\* What is drawn and paid, before and after a step, as totals of two tables.
LEMMA Totals2 ==
    /\ TotalOf(Active) = TotalIn(deposit, Active) /\ TotalOf(Done) = TotalIn(deposit, Done)
    /\ TotalOf(Active)' = TotalIn(deposit', Active') /\ TotalOf(Done)' = TotalIn(deposit', Done')
BY DEF TotalOf, TotalIn, MapThenSumSet, MapThenFoldSet

\* What is drawn and what is paid are amounts.
LEMMA TotalsNat == ASSUME FiniteDeposits, TypeOK PROVE TotalOf(Active) \in Nat /\ TotalOf(Done) \in Nat
<1>1. Amounts(deposit)
  BY DEF TypeOK, Deposit, Amounts
<1>2. Active \in SUBSET Deposits /\ Done \in SUBSET Deposits
  BY DEF Active, Done
<1>3. TotalIn(deposit, Active) \in Nat /\ TotalIn(deposit, Done) \in Nat
  BY <1>1, <1>2, TotalIsNat
<1> QED
  BY <1>3, Totals2

\* Of the other requests neither status nor amount changes.
Rest(d) == \A e \in Deposits \ {d} : deposit'[e].status = deposit[e].status /\ deposit'[e].amount = deposit[e].amount

\* A step that moves no status and no amount leaves the books alone.
LEMMA BooksStay ==
    ASSUME FiniteDeposits, TypeOK,
           \A d \in Deposits : deposit'[d].status = deposit[d].status /\ deposit'[d].amount = deposit[d].amount
    PROVE  Active' = Active /\ Done' = Done /\ TotalOf(Active)' = TotalOf(Active) /\ TotalOf(Done)' = TotalOf(Done)
<1>1. Active' = Active /\ Done' = Done
  BY DEF Active, Done
<1>2. Amounts(deposit)
  BY DEF TypeOK, Deposit, Amounts
<1>3. Active \in SUBSET Deposits /\ Done \in SUBSET Deposits
  BY DEF Active, Done
<1>4. TotalIn(deposit', Active) = TotalIn(deposit, Active) /\ TotalIn(deposit', Done) = TotalIn(deposit, Done)
  BY <1>2, <1>3, TotalStays
<1> QED
  BY <1>1, <1>4, Totals2

\* What becomes of the books when an open request moves to another status.
LEMMA BooksChange ==
    ASSUME FiniteDeposits, TypeOK, NEW d \in Active, Rest(d), deposit'[d].amount = deposit[d].amount
    PROVE  /\ deposit'[d].status = "approved" =>
                Active' = Active /\ TotalOf(Active)' = TotalOf(Active) /\ TotalOf(Done)' = TotalOf(Done)
           /\ deposit'[d].status \in {"rejected", "cancelled"} =>
                /\ TotalOf(Active) = deposit[d].amount + TotalOf(Active)' /\ TotalOf(Done)' = TotalOf(Done)
           /\ deposit'[d].status = "done" =>
                /\ TotalOf(Active) = deposit[d].amount + TotalOf(Active)'
                /\ TotalOf(Done)' = deposit[d].amount + TotalOf(Done)
<1>1. Amounts(deposit) /\ Amounts(deposit')
  BY DEF TypeOK, Deposit, Amounts, Rest, Active
<1>2. Active \in SUBSET Deposits /\ Done \in SUBSET Deposits /\ Active \ {d} \in SUBSET Deposits /\ d \in Deposits /\ d \notin Done
  BY DEF Active, Done
<1>3. \A e \in Deposits : deposit'[e].amount = deposit[e].amount
  BY DEF Rest
<1>4. /\ TotalIn(deposit', Active) = TotalIn(deposit, Active) /\ TotalIn(deposit', Done) = TotalIn(deposit, Done)
      /\ TotalIn(deposit', Active \ {d}) = TotalIn(deposit, Active \ {d})
  BY <1>1, <1>2, <1>3, TotalStays
<1>5. TotalIn(deposit, Active) = deposit[d].amount + TotalIn(deposit, Active \ {d})
  BY <1>1, <1>2, TotalWithout
<1>6. CASE deposit'[d].status = "approved"
  <2>1. Active' = Active /\ Done' = Done
    BY <1>2, <1>6 DEF Active, Done, Rest
  <2> QED
    BY <1>4, <1>6, <2>1, Totals2
<1>7. CASE deposit'[d].status \in {"rejected", "cancelled"}
  <2>1. Active' = Active \ {d} /\ Done' = Done
    BY <1>2, <1>7 DEF Active, Done, Rest
  <2> QED
    BY <1>4, <1>5, <1>7, <2>1, Totals2
<1>8. CASE deposit'[d].status = "done"
  <2>1. Active' = Active \ {d} /\ Done' = Done \cup {d}
    BY <1>2, <1>8 DEF Active, Done, Rest
  <2>2. Done' \in SUBSET Deposits /\ d \in Done' /\ Done' \ {d} = Done
    BY <1>2, <2>1
  <2>3. TotalIn(deposit', Done') = deposit'[d].amount + TotalIn(deposit', Done)
    BY <1>1, <2>2, TotalWithout
  <2>4. TotalIn(deposit', Done') = deposit[d].amount + TotalIn(deposit, Done)
    BY <1>4, <2>3
  <2>5. TotalIn(deposit, Active) = deposit[d].amount + TotalIn(deposit', Active')
    BY <1>4, <1>5, <2>1
  <2> QED
    BY <1>8, <2>4, <2>5, Totals2
<1> QED
  BY <1>6, <1>7, <1>8

\* A new request adds its amount to what is drawn.
LEMMA BooksDrawn ==
    ASSUME FiniteDeposits, TypeOK, NEW d \in Deposits, Rest(d), Active = {}, deposit[d].status = "unborn",
           deposit'[d].status = "pending", deposit'[d].amount \in Nat
    PROVE  TotalOf(Active) = 0 /\ TotalOf(Active)' = deposit'[d].amount /\ TotalOf(Done)' = TotalOf(Done)
<1>1. Amounts(deposit) /\ Amounts(deposit')
  BY DEF TypeOK, Deposit, Amounts, Rest
<1>2. Active' = {d} /\ Done' = Done /\ Done \in SUBSET Deposits
  BY DEF Active, Done, Rest
<1>3. \A e \in Done : deposit'[e].amount = deposit[e].amount
  BY DEF Done, Rest
<1>4. TotalIn(deposit', Done) = TotalIn(deposit, Done)
  BY <1>1, <1>2, <1>3, TotalStays
<1>5. {d} \in SUBSET Deposits /\ {d} \ {d} = {}
  OBVIOUS
<1>6. TotalIn(deposit', {d}) = deposit'[d].amount + TotalIn(deposit', {})
  BY <1>1, <1>5, TotalWithout
<1>7. TotalIn(deposit', {}) = 0 /\ TotalIn(deposit, {}) = 0
  BY <1>1, <1>5, TotalIsNat
<1> QED
  BY <1>2, <1>4, <1>6, <1>7, Totals2

\* A step of the ledger, or a stutter of it.
Money == [Ledger!Next]_<<earned, TotalOf(Active) * Quanta, TotalOf(Done) * Quanta>>

\* Payout units in finance units.
LEMMA Times ==
    ASSUME NEW a \in Nat, NEW b \in Nat
    PROVE  /\ a * Quanta \in Nat /\ (a + b) * Quanta = a * Quanta + b * Quanta
           /\ a > 0 => a * Quanta > 0
<1>1. PICK q \in Nat : q = Quanta /\ q > 0
  BY AmountAssumption
<1>2. a * q \in Nat /\ (a + b) * q = a * q + b * q
  BY <1>1
<1>3. a > 0 => a * q > 0
  BY <1>1
<1> QED
  BY <1>1, <1>2, <1>3

\* No amount moves.
\* A step that earns nothing and moves no request is a stutter of the ledger.
LEMMA Quiet ==
    ASSUME FiniteDeposits, LedgerInv, earned' = earned, credit' <= earned,
           \A d \in Deposits : deposit'[d].status = deposit[d].status /\ deposit'[d].amount = deposit[d].amount,
           \A s \in Sessions :
              /\ session'[s].pc = "reserved" => session'[s].credit <= earned
              /\ session'[s].pc = "create" => session'[s].amount > 0 /\ (TotalOf(Done) + session'[s].amount) * Quanta <= earned
    PROVE  Funded' /\ Money
<1>1. Active' = Active /\ Done' = Done /\ TotalOf(Active)' = TotalOf(Active) /\ TotalOf(Done)' = TotalOf(Done)
  BY BooksStay DEF LedgerInv
<1>2. Funded'
  BY <1>1 DEF LedgerInv, Funded
<1> QED
  BY <1>1, <1>2 DEF Money

\* A submission moves on without creating its request.
LEMMA SubmitFunded ==
    ASSUME FiniteDeposits, LedgerInv, NEW s \in Sessions, UNCHANGED <<deposit, earned, credit>>, NEW n,
           session' = [session EXCEPT ![s] = n],
           n.pc = "reserved" => n.credit <= earned,
           n.pc = "create" => n.amount > 0 /\ (TotalOf(Done) + n.amount) * Quanta <= earned
    PROVE  Funded' /\ Money
<1>1. session'[s] = n /\ \A t \in Sessions \ {s} : session'[t] = session[t]
  BY DEF LedgerInv, TypeOK
<1>2. \A t \in Sessions :
         /\ session'[t].pc = "reserved" => session'[t].credit <= earned
         /\ session'[t].pc = "create" => session'[t].amount > 0 /\ (TotalOf(Done) + session'[t].amount) * Quanta <= earned
  BY <1>1 DEF LedgerInv, Funded
<1>3. credit' <= earned /\ earned' = earned
  BY DEF LedgerInv, Funded
<1> QED
  BY <1>2, <1>3, Quiet

\* An open request is decided or cancelled: no submission is about to draw.
\* An open request is approved, refused, cancelled or executed.
LEMMA OpenMoves ==
    ASSUME FiniteDeposits, LedgerInv, NEW d \in Active, Rest(d), deposit'[d].amount = deposit[d].amount,
           deposit'[d].status \in {"approved", "rejected", "cancelled", "done"}, UNCHANGED <<earned, credit, session>>
    PROVE  Funded' /\ Money
<1>1. \A s \in Sessions : session[s].pc \notin {"credit", "reserved", "create"}
  BY DEF LedgerInv, Inv, OpenSlot
<1>2. /\ TotalOf(Active) \in Nat /\ TotalOf(Done) \in Nat /\ deposit[d].amount \in Nat /\ deposit[d].amount > 0
      /\ earned \in Nat
  BY TotalsNat DEF LedgerInv, TypeOK, Deposit, Funded, Active
<1>3. PICK a \in Nat : a = TotalOf(Active)
  BY <1>2
<1>4. PICK p \in Nat : p = TotalOf(Done)
  BY <1>2
<1>5. PICK m \in Nat : m = deposit[d].amount /\ m > 0
  BY <1>2
<1>6. (a + p) * Quanta <= earned
  BY <1>3, <1>4 DEF LedgerInv, Funded
<1>7. \A e \in Deposits : deposit'[e].status # "unborn" => deposit'[e].amount > 0
  BY <1>2 DEF LedgerInv, Funded, Rest, Active
<1>8. CASE deposit'[d].status = "approved"
  <2>1. TotalOf(Active)' = a /\ TotalOf(Done)' = p
    BY <1>3, <1>4, <1>8, BooksChange DEF LedgerInv
  <2>2. Funded'
    BY <1>1, <1>6, <1>7, <2>1 DEF LedgerInv, Funded
  <2> QED
    BY <1>3, <1>4, <2>1, <2>2 DEF Money
<1>9. CASE deposit'[d].status \in {"rejected", "cancelled"}
  <2>1. a = m + TotalOf(Active)' /\ TotalOf(Done)' = p
    BY <1>3, <1>4, <1>5, <1>9, BooksChange DEF LedgerInv
  <2>2. PICK b \in Nat : b = TotalOf(Active)' /\ a = m + b
    <3>1. FiniteDeposits /\ Amounts(deposit') /\ Active' \in SUBSET Deposits
      BY <1>2 DEF LedgerInv, TypeOK, Deposit, Amounts, Rest, Active
    <3>2. TotalIn(deposit', Active') \in Nat
      BY <3>1, TotalIsNat
    <3> QED
      BY <2>1, <3>2, Totals2
  <2>3. (m + b) * Quanta = m * Quanta + b * Quanta /\ m * Quanta > 0 /\ m * Quanta \in Nat /\ b * Quanta \in Nat
        /\ (a + p) * Quanta = a * Quanta + p * Quanta /\ (b + p) * Quanta = b * Quanta + p * Quanta /\ p * Quanta \in Nat
    BY <1>5, Times
  <2>4. (b + p) * Quanta <= earned /\ b * Quanta < a * Quanta
    BY <1>2, <1>6, <2>2, <2>3
  <2>5. Funded'
    BY <1>1, <1>7, <2>1, <2>2, <2>4 DEF LedgerInv, Funded
  <2>6. Ledger!GiveBack
    BY <1>3, <1>4, <2>1, <2>2, <2>4 DEF Ledger!GiveBack
  <2> QED
    BY <2>5, <2>6 DEF Money, Ledger!Next
<1>10. CASE deposit'[d].status = "done"
  <2>1. a = m + TotalOf(Active)' /\ TotalOf(Done)' = m + p
    BY <1>3, <1>4, <1>5, <1>10, BooksChange DEF LedgerInv
  <2>2. PICK b \in Nat : b = TotalOf(Active)' /\ a = m + b
    <3>1. FiniteDeposits /\ Amounts(deposit') /\ Active' \in SUBSET Deposits
      BY <1>2 DEF LedgerInv, TypeOK, Deposit, Amounts, Rest, Active
    <3>2. TotalIn(deposit', Active') \in Nat
      BY <3>1, TotalIsNat
    <3> QED
      BY <2>1, <3>2, Totals2
  <2>3. (m + b) * Quanta = m * Quanta + b * Quanta /\ m * Quanta > 0 /\ m * Quanta \in Nat /\ b * Quanta \in Nat
        /\ (m + p) * Quanta = m * Quanta + p * Quanta /\ p * Quanta \in Nat
    BY <1>5, Times
  <2>4. b + (m + p) = a + p
    BY <2>2
  <2>5. b * Quanta < a * Quanta /\ b * Quanta + (m + p) * Quanta = a * Quanta + p * Quanta
    BY <2>2, <2>3
  <2>6. Funded'
    BY <1>1, <1>6, <1>7, <2>1, <2>2, <2>4 DEF LedgerInv, Funded
  <2>7. Ledger!Pay
    BY <1>3, <1>4, <2>1, <2>2, <2>5 DEF Ledger!Pay
  <2> QED
    BY <2>6, <2>7 DEF Money, Ledger!Next
<1> QED
  BY <1>8, <1>9, <1>10

\* A play earns.
LEMMA PlayFunded == ASSUME FiniteDeposits, LedgerInv, Play PROVE Funded' /\ Money
<1>1. PICK worth \in Nat : credit' = credit + worth /\ earned' = earned + worth
  BY AmountAssumption DEF Play
<1>2. UNCHANGED <<deposit, session, admin>>
  BY DEF Play
<1>3. Active' = Active /\ Done' = Done /\ TotalOf(Active)' = TotalOf(Active) /\ TotalOf(Done)' = TotalOf(Done)
  BY <1>2, BooksStay DEF LedgerInv
<1>4. TotalOf(Active) \in Nat /\ TotalOf(Done) \in Nat /\ credit \in Nat /\ earned \in Nat
  BY TotalsNat DEF LedgerInv, TypeOK
<1>5. PICK total \in Nat : total = (TotalOf(Active) + TotalOf(Done)) * Quanta
  BY <1>4, Times
<1>6. total <= earned + worth /\ credit' <= earned + worth
  BY <1>1, <1>4, <1>5 DEF LedgerInv, Funded
<1>7. ASSUME NEW s \in Sessions
      PROVE  /\ session[s].pc = "reserved" => session[s].credit <= earned + worth
             /\ session[s].pc = "create" =>
                   session[s].amount > 0 /\ (TotalOf(Done) + session[s].amount) * Quanta <= earned + worth
  <2>1. session[s].credit \in Nat /\ session[s].amount \in Nat
    BY DEF LedgerInv, TypeOK, Submission
  <2>2. PICK n \in Nat : n = session[s].amount
    BY <2>1
  <2>3. PICK p \in Nat : p = TotalOf(Done)
    BY <1>4
  <2>4. (p + n) * Quanta \in Nat
    BY Times
  <2>5. session[s].pc = "create" => n > 0 /\ (p + n) * Quanta <= earned
    BY <2>2, <2>3 DEF LedgerInv, Funded
  <2>6. session[s].pc = "create" => n > 0 /\ (p + n) * Quanta <= earned + worth
    BY <1>4, <2>4, <2>5
  <2>7. session[s].pc = "reserved" => session[s].credit <= earned + worth
    BY <1>4, <2>1 DEF LedgerInv, Funded
  <2> QED
    BY <2>2, <2>3, <2>6, <2>7
<1>8. Funded'
  BY <1>1, <1>2, <1>3, <1>5, <1>6, <1>7 DEF LedgerInv, Funded
<1>9. worth > 0 => Ledger!Earn
  BY <1>1, <1>3, <1>4 DEF Ledger!Earn
<1> QED
  BY <1>1, <1>3, <1>4, <1>8, <1>9 DEF Money, Ledger!Next

\* Plays that leave the sum take back no payout.
LEMMA ForgetFunded == ASSUME FiniteDeposits, LedgerInv, ForgetPlays PROVE Funded' /\ Money
<1>1. PICK worth \in Nat : worth <= credit /\ credit' = credit - worth
  BY AmountAssumption DEF ForgetPlays
<1>2. UNCHANGED <<deposit, earned, session, admin>>
  BY DEF ForgetPlays
<1>3. credit' <= earned
  BY <1>1 DEF LedgerInv, TypeOK, Funded
<1> QED
  BY <1>2, <1>3, Quiet DEF LedgerInv, Funded

\* The amount a submission settles on was earned: nothing is open while it is under
\* the lock, so that what is reserved is what was paid.
LEMMA ReadReservedFunded == ASSUME FiniteDeposits, LedgerInv, NEW s \in Sessions, SubmitReadReserved(s) PROVE Funded' /\ Money
<1>1. session[s].pc = "reserved" /\ UNCHANGED <<deposit, earned, credit, admin>>
  BY DEF SubmitReadReserved
<1>2. Active = {}
  BY <1>1 DEF LedgerInv, Inv, OpenSlot
<1>3. PICK r \in Nat : r = TotalOf(Done)
  BY TotalsNat DEF LedgerInv
<1>4. ReservedRead = r
  BY <1>2, <1>3 DEF ReservedRead, Reserved
<1>5. PICK c \in Nat : c = session[s].credit
  BY DEF LedgerInv, TypeOK, Submission
<1>6. PICK n \in Nat : n = Available(c, r)
  BY Rounding
<1>7. n > 0 => (r + n) * Quanta <= c
  BY <1>6, Rounding
<1>8. c <= earned /\ earned \in Nat /\ (r + n) * Quanta \in Nat
  <2>1. c <= earned /\ earned \in Nat
    BY <1>1, <1>5 DEF LedgerInv, TypeOK, Funded
  <2>2. (r + n) * Quanta \in Nat
    BY Times
  <2> QED
    BY <2>1, <2>2
<1>9. PICK after : after = IF n < MinimumPayout THEN NoSubmission ELSE [session[s] EXCEPT !.pc = "create", !.amount = n]
  OBVIOUS
<1>10. session' = [session EXCEPT ![s] = after]
  BY <1>4, <1>5, <1>6, <1>9 DEF SubmitReadReserved
<1>11. after.pc # "reserved" /\ (after.pc = "create" => after.amount = n /\ n > 0)
  BY <1>9, AmountAssumption DEF NoSubmission, LedgerInv, TypeOK, Submission
<1>12. after.pc = "create" => n > 0 /\ (r + n) * Quanta <= earned
  BY <1>7, <1>8, <1>11
<1>13. after.pc = "create" => after.amount > 0 /\ (TotalOf(Done) + after.amount) * Quanta <= earned
  BY <1>3, <1>11, <1>12
<1> QED
  BY <1>1, <1>10, <1>11, <1>13, SubmitFunded

\* A submission draws what it settled on.
LEMMA CreateFunded == ASSUME FiniteDeposits, LedgerInv, NEW s \in Sessions, SubmitCreate(s) PROVE Funded' /\ Money
<1>1. session[s].pc = "create" /\ session' = [session EXCEPT ![s] = NoSubmission] /\ UNCHANGED <<credit, earned, admin>>
  BY DEF SubmitCreate
<1>2. PICK m \in Nat : m = session[s].amount
  BY DEF LedgerInv, TypeOK, Submission
<1>3. PICK d \in Deposits : deposit[d].status = "unborn" /\ deposit' = [deposit EXCEPT ![d] = NewDeposit(m)]
  BY <1>2 DEF SubmitCreate
<1>4. m > 0 /\ (TotalOf(Done) + m) * Quanta <= earned
  BY <1>1, <1>2 DEF LedgerInv, Funded
<1>5. /\ deposit'[d].status = "pending" /\ deposit'[d].amount = m
      /\ \A e \in Deposits \ {d} : deposit'[e] = deposit[e]
  BY <1>3 DEF NewDeposit, LedgerInv, TypeOK
<1>6. Active = {}
  BY <1>1 DEF LedgerInv, Inv, OpenSlot
<1>7. TotalOf(Active) = 0 /\ TotalOf(Active)' = m /\ TotalOf(Done)' = TotalOf(Done)
  BY <1>3, <1>5, <1>6, BooksDrawn DEF LedgerInv, Rest
<1>8. PICK p \in Nat : p = TotalOf(Done)
  BY TotalsNat DEF LedgerInv
<1>9. \A t \in Sessions : session'[t].pc = "idle"
  BY <1>1 DEF NoSubmission, LedgerInv, TypeOK, Inv, OpenSlot
<1>10. (m + p) * Quanta = m * Quanta + p * Quanta /\ (p + m) * Quanta = m * Quanta + p * Quanta
       /\ m * Quanta > 0 /\ m * Quanta \in Nat /\ p * Quanta \in Nat /\ 0 * Quanta = 0
  <2>1. 0 * Quanta = 0
    BY AmountAssumption
  <2>2. p + m = m + p
    OBVIOUS
  <2> QED
    BY <1>4, <2>1, <2>2, Times
<1>11. Funded'
  BY <1>1, <1>4, <1>5, <1>7, <1>8, <1>9, <1>10 DEF LedgerInv, Funded
<1>12. Ledger!Draw
  BY <1>1, <1>4, <1>7, <1>8, <1>10 DEF Ledger!Draw
<1> QED
  BY <1>11, <1>12 DEF Money, Ledger!Next

\* The artist cancels an open request.
LEMMA CancelFunded == ASSUME FiniteDeposits, LedgerInv, NEW d \in Deposits, Cancel(d) PROVE Funded' /\ Money
<1>1. /\ deposit[d].status = "pending" /\ deposit' = [deposit EXCEPT ![d].status = "cancelled"]
      /\ UNCHANGED <<credit, earned, session>>
  BY DEF Cancel
<1>2. d \in Active
  BY <1>1 DEF Active
<1>3. deposit'[d].status = "cancelled" /\ deposit'[d].amount = deposit[d].amount /\ Rest(d)
  BY <1>1 DEF LedgerInv, TypeOK, Deposit, Rest
<1> QED
  BY <1>1, <1>2, <1>3, OpenMoves

\* A decision is saved on the request it read, or on one cancelled since.
LEMMA SaveFunded == ASSUME FiniteDeposits, LedgerInv, NEW a \in Admins, DecideSave(a) PROVE Funded' /\ Money
<1>1. PICK d : d = admin[a].id
  OBVIOUS
<1>2. PICK n \in Decision : n = admin[a]
  BY DEF LedgerInv, TypeOK
<1>3. admin[a].pc = "save" /\ UNCHANGED <<credit, earned, session>>
  BY DEF DecideSave
<1>4. credit' <= earned /\ earned' = earned /\
      \A s \in Sessions :
        /\ session'[s].pc = "reserved" => session'[s].credit <= earned
        /\ session'[s].pc = "create" => session'[s].amount > 0 /\ (TotalOf(Done) + session'[s].amount) * Quanta <= earned
  BY <1>3 DEF LedgerInv, Funded
<1>5. CASE deposit' = deposit
  BY <1>4, <1>5, Quiet
<1>6. CASE /\ deposit[d].status \in Statuses /\ d \in Deposits
           /\ deposit' = [deposit EXCEPT ![d] = Saved(deposit[d], n)]
  <2>1. PICK row \in Deposit : row = deposit[d]
    BY <1>6 DEF LedgerInv, TypeOK
  <2>2. PICK saved : saved = Saved(row, n)
    OBVIOUS
  <2>3. saved.amount = row.amount /\ saved.status = IF "status" \in n.changes THEN n.status ELSE row.status
    BY <2>2 DEF Saved, Deposit
  <2>4. deposit'[d] = saved /\ \A e \in Deposits \ {d} : deposit'[e] = deposit[e]
    BY <1>6, <2>1, <2>2 DEF LedgerInv, TypeOK
  <2>5. CASE "status" \notin n.changes
    <3>1. \A e \in Deposits : deposit'[e].status = deposit[e].status /\ deposit'[e].amount = deposit[e].amount
      BY <2>1, <2>3, <2>4, <2>5
    <3> QED
      BY <1>4, <3>1, Quiet
  <2>6. CASE "status" \in n.changes
    <3>1. n.status \in Statuses /\ n.status # "pending" /\ deposit[d].status \in {"pending", "approved", "cancelled"}
      BY <1>1, <1>2, <1>3, <2>6 DEF LedgerInv, Inv, OpenSlot, Decision
    <3>2. d \in Active
      BY <1>6, <3>1 DEF Active, Statuses
    <3>3. deposit'[d].status \in {"approved", "rejected", "cancelled", "done"}
      BY <2>3, <2>4, <2>6, <3>1 DEF Statuses
    <3>4. Rest(d) /\ deposit'[d].amount = deposit[d].amount
      BY <2>1, <2>3, <2>4 DEF Rest
    <3> QED
      BY <1>3, <3>2, <3>3, <3>4, OpenMoves
  <2> QED
    BY <2>5, <2>6
<1>7. deposit' = deposit \/ (deposit[d].status \in Statuses /\ deposit' = [deposit EXCEPT ![d] = Saved(deposit[d], n)])
  BY <1>1, <1>2 DEF DecideSave
<1>8. CASE d \notin Deposits
  <2>1. deposit' = deposit
    BY <1>7, <1>8 DEF LedgerInv, TypeOK
  <2> QED
    BY <1>5, <2>1
<1> QED
  BY <1>5, <1>6, <1>7, <1>8

\* Every step keeps the invariant and is one of the ledger.
LEMMA LedgerStep ==
    ASSUME OneDecisionAtATime, NoReopening, FiniteDeposits, LedgerInv, [Next]_vars
    PROVE  LedgerInv' /\ Money
<1>1. Inv' /\ TypeOK'
  BY InvStep, TypeStep DEF LedgerInv
<1>2. Funded' /\ Money
  <2>1. CASE Play \/ ForgetPlays
    BY <2>1, PlayFunded, ForgetFunded
  <2>2. ASSUME NEW s \in Sessions, SubmitLock(s) \/ SubmitCheckActive(s) \/ SubmitReadCredit(s) \/ SubmitAbort(s)
        PROVE  Funded' /\ Money
    <3>1. UNCHANGED <<deposit, earned, credit>>
      BY <2>2 DEF SubmitLock, SubmitCheckActive, SubmitReadCredit, SubmitAbort
    <3>2. session[s] \in Submission /\ NoSubmission.pc = "idle"
      BY DEF LedgerInv, TypeOK, NoSubmission
    <3>3. PICK n : /\ session' = [session EXCEPT ![s] = n] /\ n.pc # "create" /\ (n.pc = "reserved" => n.credit = credit)
      <4>1. CASE SubmitLock(s)
        <5>1. PICK n : n = [session[s] EXCEPT !.pc = "active"]
          OBVIOUS
        <5>2. n.pc = "active"
          BY <3>2, <5>1 DEF Submission
        <5>3. session' = [session EXCEPT ![s] = n]
          BY <4>1, <5>1 DEF SubmitLock
        <5> QED
          BY <5>2, <5>3
      <4>2. CASE SubmitCheckActive(s)
        <5>1. PICK n : n = IF Active = {} THEN [session[s] EXCEPT !.pc = "credit"] ELSE NoSubmission
          OBVIOUS
        <5> QED
          BY <3>2, <4>2, <5>1 DEF SubmitCheckActive, Submission
      <4>3. CASE SubmitReadCredit(s)
        <5>1. PICK n : n = [session[s] EXCEPT !.pc = "reserved", !.credit = credit]
          OBVIOUS
        <5>2. n.pc = "reserved" /\ n.credit = credit
          BY <3>2, <5>1 DEF Submission
        <5>3. session' = [session EXCEPT ![s] = n]
          BY <4>3, <5>1 DEF SubmitReadCredit
        <5> QED
          BY <5>2, <5>3
      <4>4. CASE SubmitAbort(s)
        BY <3>2, <4>4 DEF SubmitAbort
      <4> QED
        BY <2>2, <4>1, <4>2, <4>3, <4>4
    <3>4. credit <= earned
      BY DEF LedgerInv, Funded
    <3> QED
      BY <3>1, <3>3, <3>4, SubmitFunded
  <2>3. ASSUME NEW s \in Sessions, SubmitReadReserved(s) \/ SubmitCreate(s) PROVE Funded' /\ Money
    BY <2>3, ReadReservedFunded, CreateFunded
  <2>4. ASSUME NEW d \in Deposits, Cancel(d) PROVE Funded' /\ Money
    BY <2>4, CancelFunded
  <2>5. ASSUME NEW a \in Admins, DecideSave(a) PROVE Funded' /\ Money
    BY <2>5, SaveFunded
  <2>6. CASE UNCHANGED <<deposit, credit, earned, session>>
    BY <2>6, Quiet DEF LedgerInv, Funded
  <2>7. ASSUME NEW a \in Admins, DecideAbort(a) \/ \E d \in Deposits : DecideRead(a, d)
        PROVE  UNCHANGED <<deposit, credit, earned, session>>
    BY <2>7 DEF DecideRead, DecideAbort
  <2> QED
    BY <2>1, <2>2, <2>3, <2>4, <2>5, <2>6, <2>7 DEF Next, Submit, vars
<1> QED
  BY <1>1, <1>2 DEF LedgerInv

\* The initial state is the ledger's.
LEMMA LedgerStart == ASSUME FiniteDeposits, Init PROVE LedgerInv /\ Ledger!Init
<1>1. Inv /\ TypeOK
  BY InvInit, TypeInit
<1>2. Active = {} /\ Done = {} /\ earned = 0 /\ credit = 0
  BY DEF Init, Active, Done
<1>3. Amounts(deposit)
  BY <1>1 DEF TypeOK, Deposit, Amounts
<1>4. TotalOf(Active) = 0 /\ TotalOf(Done) = 0
  <2>1. {} \in SUBSET Deposits
    OBVIOUS
  <2>2. TotalIn(deposit, {}) = 0
    BY <1>3, <2>1, TotalIsNat
  <2> QED
    BY <1>2, <2>2, Totals2
<1>5. 0 * Quanta = 0 /\ (0 + 0) * Quanta = 0
  BY AmountAssumption
<1>6. Funded
  BY <1>2, <1>4, <1>5 DEF Init, Funded, NoSubmission
<1>7. Ledger!Init
  BY <1>2, <1>4, <1>5 DEF Ledger!Init
<1> QED
  BY <1>1, <1>6, <1>7 DEF LedgerInv

\* The requests implement PayoutLedger, where decisions are taken one at a time and
\* no rejected request is reopened: every step of the submission, the cancellation
\* and the decision draws, gives back or pays what the ledger allows, and never more
\* than the artist's plays have earned, for any number of requests and any amounts.
THEOREM LedgerImplemented ==
    ASSUME OneDecisionAtATime, NoReopening, FiniteDeposits
    PROVE  Spec => LedgerKept
<1>1. Init => LedgerInv /\ Ledger!Init
  BY LedgerStart
<1>2. LedgerInv /\ [Next]_vars => LedgerInv' /\ Money
  BY LedgerStep
<1> QED
  BY <1>1, <1>2, PTL DEF Spec, LedgerKept, Ledger!Spec, Money
=============================================================================
