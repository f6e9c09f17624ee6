------------------------ MODULE PersonalRefreshProofs ------------------------
(***************************************************************************)
(* The refresh of personal recommendations, for any number of users, of     *)
(* receivers and Home requests at work at once, and of faults: a pool is    *)
(* never called newer than it is, and nobody who is due one is forgotten.   *)
(*                                                                         *)
(* The invariant has two parts.  Core says what each handler may know at    *)
(* each of its steps.  Promise says who still owes each user a refresh; it  *)
(* relies on Core, and Core does not rely on it.                            *)
(***************************************************************************)
EXTENDS PersonalRefresh, FiniteSetTheorems, TLAPS

-----------------------------------------------------------------------------
(* What the handlers' steps do to their own record.                        *)

LEMMA JobFields ==
    ASSUME NEW j \in Job
    PROVE  /\ j.pc \in Steps /\ j.user \in Users \cup {NoUser} /\ j.ids \in BOOLEAN
           /\ j.next \in {"idle", "answered", "wait", "generate"}
           /\ j.seen \in Versions /\ j.own \in Versions /\ j.cut \in BOOLEAN /\ j.taste \in Versions
  BY DEF Job

LEMMA IdleJob ==
    /\ Idle \in Job /\ Idle.pc = "idle" /\ Idle.user = NoUser /\ Idle.ids = FALSE /\ Idle.next = "idle"
    /\ Idle.seen = 0 /\ Idle.own = 0 /\ Idle.cut = FALSE /\ Idle.taste = 0 /\ 0 \in Versions
  BY BoundAssumption DEF Idle, Job, Steps, Versions

LEMMA HigherFacts ==
    ASSUME NEW a \in Versions, NEW b \in Versions
    PROVE  Higher(a, b) \in Versions /\ Higher(a, b) >= a /\ Higher(a, b) >= b
           /\ (Higher(a, b) = a \/ Higher(a, b) = b)
  BY BoundAssumption DEF Higher, Versions

\* Only p's handler moves, and its fields other than those named stay.
Moves(p) == job' \in [Processes -> Job] /\ \A q \in Processes \ {p} : job'[q] = job[q]

Same(j, k) == /\ j.user = k.user /\ j.seen = k.seen /\ j.own = k.own /\ j.cut = k.cut
              /\ j.taste = k.taste /\ j.ids = k.ids

LEMMA GotoStep ==
    ASSUME job \in [Processes -> Job], NEW p \in Processes, NEW s \in Steps, Goto(p, s)
    PROVE  Moves(p) /\ job'[p].pc = s /\ job'[p].next = job[p].next /\ Same(job'[p], job[p])
  <1>1. PICK r : r = [job[p] EXCEPT !.pc = s]  OBVIOUS
  <1>2. job' = [job EXCEPT ![p] = r]
    BY <1>1 DEF Goto
  <1>3. r \in Job /\ r.pc = s /\ r.next = job[p].next /\ Same(r, job[p])
    BY <1>1 DEF Job, Same
  <1> QED BY <1>2, <1>3 DEF Moves

LEMMA EndStep ==
    ASSUME job \in [Processes -> Job], NEW p \in Processes, End(p)
    PROVE  Moves(p) /\ job'[p] = Idle
  BY IdleJob DEF End, Moves

LEMMA ReturnStep ==
    ASSUME job \in [Processes -> Job], NEW p \in Processes, Return(p)
    PROVE  /\ Moves(p)
           /\ \/ job'[p] = Idle /\ job[p].next = "idle"
              \/ job[p].next # "idle" /\ job'[p].pc = job[p].next /\ job'[p].next = "idle" /\ Same(job'[p], job[p])
  <1>1. CASE job[p].next = "idle"
    BY <1>1, EndStep DEF Return
  <1>2. CASE job[p].next # "idle"
    <2>1. PICK r : r = [job[p] EXCEPT !.pc = job[p].next, !.next = "idle"]  OBVIOUS
    <2>2. job' = [job EXCEPT ![p] = r]
      BY <2>1, <1>2 DEF Return
    <2>3. r \in Job /\ r.pc = job[p].next /\ r.next = "idle" /\ Same(r, job[p])
      BY <2>1 DEF Job, Same, Steps
    <2> QED BY <1>2, <2>2, <2>3 DEF Moves
  <1> QED BY <1>1, <1>2
-----------------------------------------------------------------------------
(* The inductive invariant.                                                *)

Bumping(u) == {h \in Hooks : At(h, "bump") /\ User(h) = u}

\* A version counts interactions that are committed and bumped already.
Counted == \A u \in Users : version[u] + Cardinality(Bumping(u)) <= taste[u]

StepsOf(p) ==
    IF p \in Hooks THEN {"idle", "bump", "claim", "push"}
    ELSE IF p \in Homes
    THEN {"idle", "version", "done", "claim", "push", "wait", "answered",
          "generate", "lookup", "read", "store", "publish", "mark"}
    ELSE {"idle", "release", "target", "generate", "lookup", "read", "store", "publish",
          "mark", "recheck", "claim", "push"}

\* What a handler has read, beside the version v, pool s and highest mark m of
\* its user: it was true when it read it, and what it stored covers it.
Fresh(j, v, s, m) ==
    /\ j.seen <= v /\ j.own <= v
    /\ j.pc = "lookup" /\ ~j.cut => j.seen <= j.own
    /\ j.pc = "store" => j.seen <= j.taste /\ j.own <= j.taste
    /\ j.pc = "publish" => j.seen <= s /\ j.own <= s
    /\ j.pc = "mark" => j.seen <= s
    /\ j.pc = "recheck" => j.seen <= m
    /\ "answered" \in {j.pc, j.next} => j.seen <= s

RoleOK(p, j) ==
    /\ j.pc \in StepsOf(p)
    /\ j.pc = "idle" <=> j.user = NoUser
    /\ j.next # "idle" => p \in Homes /\ j.pc \in {"claim", "push"}

Jobs == \A p \in Processes :
    /\ RoleOK(p, job[p])
    /\ \A u \in Users : User(p) = u => Fresh(job[p], version[u], pool[u], marked[u])

\* A cached generation key names a version that a stored pool covers.
PoolHonest == \A u \in Users : \A v \in pooled[u] : v <= pool[u]

Numbers ==
    /\ job \in [Processes -> Job] /\ taste \in [Users -> Versions] /\ version \in [Users -> Versions]
    /\ done \in [Users -> Versions \cup {NoMark}] /\ marked \in [Users -> Versions]
    /\ pool \in [Users -> Versions] /\ pooled \in [Users -> SUBSET Versions]

Core == Numbers /\ Counted /\ Jobs /\ PoolHonest /\ MarkerHonest

\* A deduplication key stands for a job that will still read the version.
DedupeBacked == \A u \in dedupe \ lost :
    \/ Queued(u)
    \/ \E p \in Processes : User(p) = u /\ At(p, "push")
    \/ User(Worker) = u /\ At(Worker, "release")

Lists == queue \in Seq(Users) /\ dedupe \subseteq Users /\ lost \subseteq Users /\ faults \in 0..MaxFaults

IInv == Core /\ Lists /\ DedupeBacked /\ NoLostRefresh

LEMMA IInvMeans == IInv => TypeOK /\ FreshnessHonest /\ NoLostRefresh
  <1> SUFFICES ASSUME IInv PROVE TypeOK /\ FreshnessHonest /\ NoLostRefresh
    OBVIOUS
  <1>1. TypeOK
    BY DEF IInv, Core, Numbers, Lists, TypeOK
  <1>2. ASSUME NEW h \in Homes, At(h, "answered")
        PROVE  pool[User(h)] >= job[h].seen
    <2>1. h \in Processes /\ job[h] \in Job
      BY DEF IInv, Core, Numbers, Processes
    <2>2. User(h) \in Users
      BY <2>1, <1>2, JobFields DEF IInv, Core, Jobs, RoleOK, At, User
    <2>3. Fresh(job[h], version[User(h)], pool[User(h)], marked[User(h)])
      BY <2>1, <2>2 DEF IInv, Core, Jobs
    <2>4. pool[User(h)] \in Versions /\ job[h].seen \in Versions
      BY <2>1, <2>2, JobFields DEF IInv, Core, Numbers
    <2> QED BY <2>3, <2>4, <1>2, BoundAssumption DEF Fresh, At, Versions
  <1> QED BY <1>1, <1>2 DEF IInv, Core, FreshnessHonest, AnswerFromFresh

LEMMA FreshGrows ==
    ASSUME NEW j \in Job, NEW v \in Versions, NEW w \in Versions, NEW s \in Versions,
           NEW t \in Versions, NEW m \in Versions, NEW n \in Versions,
           v <= w, s <= t, m <= n, Fresh(j, v, s, m)
    PROVE  Fresh(j, w, t, n)
  <1>1. j.seen \in Versions /\ j.own \in Versions
    BY JobFields
  <1>2. \A a \in Versions : (a <= v => a <= w) /\ (a <= s => a <= t) /\ (a <= m => a <= n)
    BY BoundAssumption DEF Versions
  <1> QED BY <1>1, <1>2 DEF Fresh

Grows == \A u \in Users :
    version[u] <= version'[u] /\ pool[u] <= pool'[u] /\ marked[u] <= marked'[u]

\* The handlers that did not move stay fresh.
LEMMA JobsKept ==
    ASSUME Core, Numbers', Grows, NEW p \in Processes, Moves(p), RoleOK(p, job'[p]),
           \A u \in Users : job'[p].user = u => Fresh(job'[p], version'[u], pool'[u], marked'[u])
    PROVE  Jobs'
  <1>1. ASSUME NEW q \in Processes, q # p
        PROVE  RoleOK(q, job'[q]) /\ \A u \in Users : job'[q].user = u =>
                 Fresh(job'[q], version'[u], pool'[u], marked'[u])
    <2>1. PICK j : j = job[q]  OBVIOUS
    <2>2. job'[q] = j /\ j \in Job
      BY <1>1, <2>1 DEF Moves, Core, Numbers
    <2>3. RoleOK(q, j) /\ \A u \in Users : j.user = u => Fresh(j, version[u], pool[u], marked[u])
      BY <2>1 DEF Core, Jobs, User
    <2>4. ASSUME NEW u \in Users, j.user = u
          PROVE  Fresh(j, version'[u], pool'[u], marked'[u])
      <3>1. version[u] \in Versions /\ version'[u] \in Versions /\ pool[u] \in Versions
            /\ pool'[u] \in Versions /\ marked[u] \in Versions /\ marked'[u] \in Versions
        BY DEF Core, Numbers
      <3> QED BY <3>1, <2>2, <2>3, <2>4, FreshGrows DEF Grows
    <2> QED BY <2>2, <2>3, <2>4
  <1> QED BY <1>1 DEF Jobs, RoleOK, User
LEMMA BumpingFinite ==
    ASSUME NEW u \in Users
    PROVE  IsFiniteSet(Bumping(u)) /\ Cardinality(Bumping(u)) \in Nat
  <1>1. Bumping(u) \subseteq Hooks
    BY DEF Bumping
  <1> QED BY <1>1, ProcessAssumption, FS_Subset, FS_CardinalityType

\* The committed interactions are never behind what was counted.
LEMMA VersionBelow ==
    ASSUME Numbers, Counted, NEW u \in Users
    PROVE  version[u] <= taste[u]
  BY BumpingFinite, BoundAssumption DEF Numbers, Counted, Versions

\* A step that lets no new handler begin to bump keeps the count.
LEMMA CountedKept ==
    ASSUME Numbers, Counted, NEW p \in Processes, Moves(p), job'[p].pc # "bump", UNCHANGED requests
    PROVE  Counted'
  <1>1. SUFFICES ASSUME NEW u \in Users
                 PROVE  version[u] + Cardinality(Bumping(u)') <= taste[u]
    BY DEF Counted, requests
  <1>2. Bumping(u)' \subseteq Bumping(u)
    BY DEF Bumping, At, User, Moves, Processes
  <1>3. Cardinality(Bumping(u)') \in Nat /\ Cardinality(Bumping(u)') <= Cardinality(Bumping(u))
    BY <1>2, BumpingFinite, FS_Subset, FS_CardinalityType
  <1> QED BY <1>3, BumpingFinite, BoundAssumption DEF Numbers, Counted, Versions

\* A handler that only reads, or that moves entries of the lists.
LEMMA PlainStep ==
    ASSUME Core, NEW p \in Processes, Moves(p), job'[p].pc # "bump", RoleOK(p, job'[p]),
           UNCHANGED <<requests, generations, done, marked>>,
           \A u \in Users : job'[p].user = u => Fresh(job'[p], version[u], pool[u], marked[u])
    PROVE  Core'
  <1>1. Numbers'
    BY DEF Core, Numbers, Moves, requests, generations
  <1>2. Grows
    BY BoundAssumption DEF Core, Numbers, Grows, Versions, requests, generations
  <1>3. \A u \in Users : job'[p].user = u => Fresh(job'[p], version'[u], pool'[u], marked'[u])
    BY DEF requests, generations
  <1>4. Jobs'
    BY <1>1, <1>2, <1>3, JobsKept
  <1>5. Counted'
    BY CountedKept DEF Core
  <1>6. PoolHonest' /\ MarkerHonest'
    BY DEF Core, PoolHonest, MarkerHonest, generations
  <1> QED BY <1>1, <1>4, <1>5, <1>6 DEF Core

\* A handler that works for user u.
LEMMA Working ==
    ASSUME Core, NEW p \in Processes, job[p].pc # "idle"
    PROVE  /\ job[p] \in Job /\ job[p].user \in Users /\ job[p].user = User(p)
           /\ RoleOK(p, job[p])
           /\ Fresh(job[p], version[User(p)], pool[User(p)], marked[User(p)])
           /\ version[User(p)] \in Versions /\ pool[User(p)] \in Versions /\ marked[User(p)] \in Versions
           /\ taste[User(p)] \in Versions
  <1>1. job[p] \in Job /\ RoleOK(p, job[p])
    BY DEF Core, Numbers, Jobs
  <1>2. job[p].user \in Users
    BY <1>1, JobFields DEF RoleOK
  <1> QED BY <1>1, <1>2 DEF Core, Numbers, Jobs, User

\* Becoming idle disturbs nothing.
LEMMA EndKeeps ==
    ASSUME Core, NEW p \in Processes, Moves(p), job'[p] = Idle,
           UNCHANGED <<requests, generations, done, marked>>
    PROVE  Core'
  <1>1. RoleOK(p, job'[p]) /\ job'[p].pc # "bump"
    BY IdleJob DEF RoleOK, StepsOf
  <1>2. \A u \in Users : job'[p].user # u
    BY IdleJob, ProcessAssumption
  <1> QED BY <1>1, <1>2, PlainStep

\* The same job at another step, where that step's freshness is known.
LEMMA GoesOn ==
    ASSUME Core, NEW p \in Processes, job[p].pc # "idle", Moves(p),
           Same(job'[p], job[p]), job'[p].next \in {job[p].next, "idle"},
           job'[p].pc \in StepsOf(p) \ {"idle", "bump"},
           job'[p].next # "idle" => job'[p].pc \in {"claim", "push"},
           UNCHANGED <<requests, generations, done, marked>>,
           Fresh(job'[p], version[User(p)], pool[User(p)], marked[User(p)])
    PROVE  Core'
  <1>1. RoleOK(p, job'[p])
    BY Working, ProcessAssumption DEF RoleOK, Same
  <1>2. job'[p].user = User(p)
    BY Working DEF Same
  <1> QED BY <1>1, <1>2, PlainStep

LEMMA RolesFacts ==
    /\ \A h \in Hooks : h \in Processes /\ h \notin Homes /\ h # Worker
    /\ \A h \in Homes : h \in Processes /\ h \notin Hooks /\ h # Worker
    /\ Worker \in Processes /\ Worker \notin Hooks /\ Worker \notin Homes
    /\ \A p \in Processes : p \in Hooks \/ p \in Homes \/ p = Worker
  BY ProcessAssumption DEF Processes

LEMMA ReturnCore ==
    ASSUME Core, NEW p \in Processes, job[p].pc \in {"claim", "push"}, Return(p),
           UNCHANGED <<requests, generations, done, marked>>
    PROVE  Core'
  <1>1. Moves(p)
    BY ReturnStep DEF Core, Numbers
  <1>2. CASE job'[p] = Idle
    BY <1>1, <1>2, EndKeeps
  <1>3. CASE job'[p] # Idle
    <2>1. job[p].next # "idle" /\ job'[p].pc = job[p].next /\ job'[p].next = "idle" /\ Same(job'[p], job[p])
      BY <1>3, ReturnStep DEF Core, Numbers
    <2>2. p \in Homes /\ job'[p].pc \in {"answered", "wait", "generate"}
      BY <2>1, Working, JobFields DEF RoleOK
    <2>3. job'[p].pc \in StepsOf(p) \ {"idle", "bump"}
      BY <2>2, RolesFacts DEF StepsOf
    <2>4. Fresh(job'[p], version[User(p)], pool[User(p)], marked[User(p)])
      BY <2>1, <2>2, Working DEF Fresh, Same
    <2> QED BY <1>1, <2>1, <2>3, <2>4, GoesOn
  <1> QED BY <1>2, <1>3
-----------------------------------------------------------------------------
(* Each action keeps Core.                                                 *)

LEMMA GotoCore ==
    ASSUME Core, NEW p \in Processes, job[p].pc # "idle", NEW s \in Steps, Goto(p, s),
           job[p].next = "idle" \/ s \in {"claim", "push"},
           s \in StepsOf(p) \ {"idle", "bump", "lookup", "store", "publish", "mark", "recheck", "answered"},
           UNCHANGED <<requests, generations, done, marked>>
    PROVE  Core'
  <1>1. Moves(p) /\ job'[p].pc = s /\ job'[p].next = job[p].next /\ Same(job'[p], job[p])
    BY GotoStep DEF Core, Numbers
  <1>2. Fresh(job'[p], version[User(p)], pool[User(p)], marked[User(p)])
    BY <1>1, Working DEF Fresh, Same
  <1> QED BY <1>1, <1>2, GoesOn

LEMMA StepNames ==
    /\ \A p \in Processes : {"claim", "push"} \subseteq StepsOf(p)
    /\ \A p \in Homes \cup {Worker} : {"generate", "lookup", "read", "store", "publish", "mark"} \subseteq StepsOf(p)
    /\ \A p \in Processes : "generate" \in StepsOf(p) \/ "read" \in StepsOf(p) => p \in Homes \cup {Worker}
    /\ {"claim", "push", "read", "target", "release", "generate", "lookup", "store", "publish", "mark", "recheck",
        "bump", "version", "done", "wait", "answered", "idle"} \subseteq Steps
  BY RolesFacts DEF StepsOf, Steps

LEMMA EnqueueCore ==
    ASSUME Core, NEW p \in Processes, Enqueue(p)
    PROVE  Core'
  <1>1. UNCHANGED <<requests, generations, done, marked>>
    BY DEF Enqueue, Claim, ClaimResent, Push, PushFails
  <1>2. job[p].pc \in {"claim", "push"}
    BY DEF Enqueue, Claim, ClaimResent, Push, PushFails, At
  <1>3. Return(p) \/ Goto(p, "push")
    BY DEF Enqueue, Claim, ClaimResent, Push, PushFails
  <1>4. CASE Return(p)
    BY <1>1, <1>2, <1>4, ReturnCore
  <1>5. CASE Goto(p, "push")
    BY <1>1, <1>2, <1>5, GotoCore, StepNames
  <1> QED BY <1>3, <1>4, <1>5

LEMMA AskCore ==
    ASSUME Core, NEW h \in Homes, NEW u \in Users, Ask(h, u)
    PROVE  Core'
  <1>1. PICK found \in BOOLEAN :
          job' = [job EXCEPT ![h] = [Idle EXCEPT !.pc = "version", !.user = u, !.ids = found]]
    <2>1. (pool[u] > 0) = TRUE \/ (pool[u] > 0) = FALSE
      <3>1. pool[u] \in Nat
        BY BoundAssumption DEF Core, Numbers, Versions
      <3>2. CASE pool[u] > 0
        BY <3>2
      <3>3. CASE ~(pool[u] > 0)
        BY <3>3
      <3> QED BY <3>2, <3>3
    <2> QED BY <2>1, Zenon DEF Ask
  <1>2. PICK r : r = [Idle EXCEPT !.pc = "version", !.user = u, !.ids = found]  OBVIOUS
  <1>3. found \in BOOLEAN
    BY <1>1
  <1>4. r \in Job /\ r.pc = "version" /\ r.user = u /\ r.next = "idle" /\ r.seen = 0 /\ r.own = 0
    BY <1>2, <1>3, IdleJob, StepNames DEF Job
  <1>5. Moves(h) /\ job'[h] = r /\ h \in Processes
    BY <1>1, <1>2, <1>4, RolesFacts DEF Core, Numbers, Moves
  <1>6. RoleOK(h, r)
    BY <1>4, RolesFacts, ProcessAssumption DEF RoleOK, StepsOf
  <1>7. \A w \in Users : r.user = w => Fresh(r, version[w], pool[w], marked[w])
    BY <1>4, BoundAssumption DEF Fresh, Core, Numbers, Versions
  <1>8. UNCHANGED <<requests, generations, done, marked>> /\ r.pc # "bump"
    BY <1>4 DEF Ask, redis
  <1> QED BY <1>5, <1>6, <1>7, <1>8, PlainStep

LEMMA ReadVersionCore ==
    ASSUME Core, NEW p \in Homes \cup {Worker}, ReadVersion(p)
    PROVE  Core'
  <1>1. p \in Processes /\ job[p].pc # "idle" /\ job[p] \in Job
    BY RolesFacts DEF ReadVersion, At, Core, Numbers
  <1>2. PICK a \in {0, version[User(p)]}, s \in {"done", "generate"} :
          /\ job' = [job EXCEPT ![p].seen = a, ![p].pc = s]
          /\ s = IF p \in Homes THEN "done" ELSE "generate"
    BY DEF ReadVersion
  <1>3. a \in Versions /\ a <= version[User(p)]
    BY <1>1, <1>2, Working, BoundAssumption DEF Versions
  <1>4. PICK r : r = [job[p] EXCEPT !.seen = a, !.pc = s]  OBVIOUS
  <1>5. r \in Job /\ r.pc = s /\ r.seen = a /\ r.user = job[p].user /\ r.own = job[p].own /\ r.next = job[p].next
    BY <1>1, <1>2, <1>3, <1>4, StepNames DEF Job
  <1>6. Moves(p) /\ job'[p] = r
    BY <1>1, <1>2, <1>4, <1>5 DEF Core, Numbers, Moves
  <1>7. s \in StepsOf(p)
    BY <1>2, StepNames, RolesFacts DEF StepsOf
  <1>8. r.next = "idle"
    BY <1>1, <1>5, Working DEF RoleOK, ReadVersion, At
  <1>9. r.user \in Users /\ r.pc # "idle"
    BY <1>1, <1>2, <1>5, Working
  <1>10. RoleOK(p, r)
    BY <1>5, <1>7, <1>8, <1>9, ProcessAssumption DEF RoleOK
  <1>11. Fresh(r, version[User(p)], pool[User(p)], marked[User(p)])
    BY <1>1, <1>2, <1>3, <1>5, <1>8, Working DEF Fresh
  <1>12. r.user = User(p) /\ UNCHANGED <<requests, generations, done, marked>> /\ r.pc # "bump"
    BY <1>1, <1>2, <1>5, Working DEF ReadVersion, redis
  <1> QED BY <1>1, <1>6, <1>10, <1>11, <1>12, PlainStep
\* A handler goes on with the record r in place of its own.
LEMMA Rework ==
    ASSUME Core, NEW p \in Processes, job[p].pc # "idle", NEW r \in Job, Moves(p), job'[p] = r,
           r.user = job[p].user, r.pc \in StepsOf(p) \ {"idle", "bump"},
           r.next # "idle" => p \in Homes /\ r.pc \in {"claim", "push"},
           UNCHANGED <<requests, generations, done, marked>>,
           Fresh(r, version[User(p)], pool[User(p)], marked[User(p)])
    PROVE  Core'
  <1>1. r.user \in Users /\ r.user = User(p)
    BY Working
  <1>2. RoleOK(p, r)
    BY <1>1, ProcessAssumption DEF RoleOK
  <1> QED BY <1>1, <1>2, PlainStep

LEMMA ReadDoneCore ==
    ASSUME Core, NEW h \in Homes, ReadDone(h)
    PROVE  Core'
  <1>1. h \in Processes /\ job[h].pc = "done" /\ job[h].pc # "idle" /\ job[h] \in Job
    BY RolesFacts DEF ReadDone, At, Core, Numbers
  <1>2. PICK n : n = CASE ~job[h].ids -> "generate"
                       [] Reached(done[User(h)], job[h].seen) -> "answered"
                       [] OTHER -> "wait"
    OBVIOUS
  <1>3. n \in {"generate", "answered", "wait"}
        /\ (n = "answered" => Reached(done[User(h)], job[h].seen))
    BY <1>2, <1>1, JobFields
  <1>4. PICK r : r = [job[h] EXCEPT !.pc = "claim", !.ids = FALSE, !.next = n]  OBVIOUS
  <1>5. r \in Job /\ r.pc = "claim" /\ r.next = n /\ r.seen = job[h].seen /\ r.own = job[h].own
        /\ r.user = job[h].user
    BY <1>1, <1>3, <1>4, StepNames DEF Job
  <1>6. Moves(h) /\ job'[h] = r
    BY <1>1, <1>2, <1>4, <1>5 DEF ReadDone, Core, Numbers, Moves
  <1>7. Reached(done[User(h)], job[h].seen) => job[h].seen <= pool[User(h)]
    <2>1. User(h) \in Users /\ job[h].seen \in Versions /\ pool[User(h)] \in Versions
          /\ done[User(h)] \in Versions \cup {NoMark} /\ done[User(h)] <= pool[User(h)]
      BY <1>1, Working, JobFields DEF Core, Numbers, MarkerHonest
    <2> QED BY <2>1, BoundAssumption DEF Reached, Versions, NoMark
  <1>8. Fresh(r, version[User(h)], pool[User(h)], marked[User(h)])
    BY <1>1, <1>3, <1>5, <1>7, Working DEF Fresh
  <1>9. UNCHANGED <<requests, generations, done, marked>>
    BY DEF ReadDone, redis
  <1>10. r.pc \in StepsOf(h) \ {"idle", "bump"}
    BY <1>1, <1>5, StepNames
  <1> QED BY <1>1, <1>5, <1>6, <1>8, <1>9, <1>10, Rework

LEMMA WaitCore ==
    ASSUME Core, NEW h \in Homes, Wait(h)
    PROVE  Core'
  <1>1. h \in Processes /\ job[h].pc = "wait" /\ job[h].pc # "idle" /\ job[h] \in Job
    BY RolesFacts DEF Wait, At, Core, Numbers
  <1>2. UNCHANGED <<requests, generations, done, marked>>
    BY DEF Wait, redis
  <1>3. job[h].next = "idle"
    BY <1>1, Working DEF RoleOK
  <1>4. CASE Goto(h, "generate")
    BY <1>1, <1>2, <1>3, <1>4, GotoCore, StepNames
  <1>5. CASE Reached(done[User(h)], job[h].seen) /\ Goto(h, "answered")
    <2>1. Moves(h) /\ job'[h].pc = "answered" /\ job'[h].next = "idle" /\ Same(job'[h], job[h])
      BY <1>1, <1>3, <1>5, GotoStep, StepNames DEF Core, Numbers
    <2>2. job[h].seen <= pool[User(h)]
      <3>1. User(h) \in Users /\ job[h].seen \in Versions /\ pool[User(h)] \in Versions
            /\ done[User(h)] \in Versions \cup {NoMark} /\ done[User(h)] <= pool[User(h)]
        BY <1>1, Working, JobFields DEF Core, Numbers, MarkerHonest
      <3> QED BY <3>1, <1>5, BoundAssumption DEF Reached, Versions, NoMark
    <2>3. Fresh(job'[h], version[User(h)], pool[User(h)], marked[User(h)])
      BY <1>1, <2>1, <2>2, Working DEF Fresh, Same
    <2>4. "answered" \in StepsOf(h) \ {"idle", "bump"}
      BY RolesFacts DEF StepsOf
    <2> QED BY <1>1, <1>2, <2>1, <2>3, <2>4, GoesOn
  <1> QED BY <1>4, <1>5 DEF Wait

LEMMA AnswerCore ==
    ASSUME Core, NEW h \in Homes, Answer(h)
    PROVE  Core'
  <1>1. h \in Processes /\ Moves(h) /\ job'[h] = Idle
    BY RolesFacts, EndStep DEF Answer, Core, Numbers
  <1>2. UNCHANGED <<requests, generations, done, marked>>
    BY DEF Answer, redis
  <1> QED BY <1>1, <1>2, EndKeeps

LEMMA GenerateVersionCore ==
    ASSUME Core, NEW p \in Homes \cup {Worker}, GenerateVersion(p)
    PROVE  Core'
  <1>1. p \in Processes /\ job[p].pc = "generate" /\ job[p].pc # "idle" /\ job[p] \in Job
    BY RolesFacts DEF GenerateVersion, At, Core, Numbers
  <1>2. PICK a \in {0, version[User(p)]}, c \in BOOLEAN :
          /\ job' = [job EXCEPT ![p].own = a, ![p].cut = c, ![p].pc = "lookup"]
          /\ c = FALSE => a = version[User(p)]
    BY DEF GenerateVersion
  <1>3. a \in Versions /\ a <= version[User(p)]
    BY <1>1, <1>2, Working, BoundAssumption DEF Versions
  <1>4. PICK r : r = [job[p] EXCEPT !.own = a, !.cut = c, !.pc = "lookup"]  OBVIOUS
  <1>5. r \in Job /\ r.pc = "lookup" /\ r.seen = job[p].seen /\ r.user = job[p].user /\ r.own = a
        /\ r.cut = c /\ r.next = job[p].next
    BY <1>1, <1>2, <1>3, <1>4, StepNames DEF Job
  <1>6. Moves(p) /\ job'[p] = r
    BY <1>1, <1>2, <1>4, <1>5 DEF Core, Numbers, Moves
  <1>7. r.next = "idle"
    BY <1>1, <1>5, Working DEF RoleOK
  <1>8. r.pc \in StepsOf(p) \ {"idle", "bump"}
    BY <1>5, StepNames
  <1>9. ~r.cut => r.seen <= r.own
    BY <1>1, <1>2, <1>5, Working DEF Fresh
  <1>10. Fresh(r, version[User(p)], pool[User(p)], marked[User(p)])
    BY <1>1, <1>3, <1>5, <1>7, <1>9, Working DEF Fresh
  <1>11. UNCHANGED <<requests, generations, done, marked>>
    BY DEF GenerateVersion, redis
  <1> QED BY <1>1, <1>5, <1>6, <1>7, <1>8, <1>10, <1>11, Rework

LEMMA LookupCore ==
    ASSUME Core, NEW p \in Homes \cup {Worker}, LookupFinds(p) \/ LookupMisses(p)
    PROVE  Core'
  <1>1. p \in Processes /\ job[p].pc = "lookup" /\ job[p].pc # "idle" /\ job[p] \in Job
    BY RolesFacts DEF LookupFinds, LookupMisses, At, Core, Numbers
  <1>2. UNCHANGED <<requests, generations, done, marked>>
    BY DEF LookupFinds, LookupMisses, redis
  <1>3. job[p].next = "idle"
    BY <1>1, Working DEF RoleOK
  <1>4. CASE LookupMisses(p)
    BY <1>1, <1>2, <1>3, <1>4, GotoCore, StepNames DEF LookupMisses
  <1>5. CASE LookupFinds(p)
    <2>1. PICK r : r = [job[p] EXCEPT !.own = 0, !.pc = "mark"]  OBVIOUS
    <2>2. r \in Job /\ r.pc = "mark" /\ r.seen = job[p].seen /\ r.user = job[p].user /\ r.own = 0
          /\ r.next = job[p].next
      BY <1>1, <2>1, StepNames, IdleJob DEF Job
    <2>3. Moves(p) /\ job'[p] = r
      BY <1>1, <1>5, <2>1, <2>2 DEF LookupFinds, Core, Numbers, Moves
    <2>4. job[p].seen <= pool[User(p)]
      <3>1. job[p].own \in pooled[User(p)] /\ job[p].seen <= job[p].own
        BY <1>1, <1>5, Working DEF LookupFinds, Fresh
      <3>2. job[p].own <= pool[User(p)]
        BY <1>1, <3>1, Working DEF Core, PoolHonest
      <3> QED BY <1>1, <3>1, <3>2, Working, JobFields, BoundAssumption DEF Versions
    <2>5. 0 <= version[User(p)]
      BY <1>1, Working, BoundAssumption DEF Versions
    <2>6. Fresh(r, version[User(p)], pool[User(p)], marked[User(p)])
      BY <1>1, <1>3, <2>2, <2>4, <2>5, Working DEF Fresh
    <2>7. r.pc \in StepsOf(p) \ {"idle", "bump"}
      BY <2>2, StepNames
    <2> QED BY <1>1, <1>2, <1>3, <2>2, <2>3, <2>6, <2>7, Rework
  <1> QED BY <1>4, <1>5

LEMMA ReadTasteCore ==
    ASSUME Core, NEW p \in Homes \cup {Worker}, ReadTaste(p)
    PROVE  Core'
  <1>1. p \in Processes /\ job[p].pc = "read" /\ job[p].pc # "idle" /\ job[p] \in Job
    BY RolesFacts DEF ReadTaste, At, Core, Numbers
  <1>2. UNCHANGED <<requests, generations, done, marked>>
    BY DEF ReadTaste, redis
  <1>3. PICK r : r = [job[p] EXCEPT !.taste = taste[User(p)], !.pc = "store"]  OBVIOUS
  <1>4. r \in Job /\ r.pc = "store" /\ r.seen = job[p].seen /\ r.user = job[p].user /\ r.own = job[p].own
        /\ r.next = job[p].next /\ r.taste = taste[User(p)]
    BY <1>1, <1>3, StepNames, Working DEF Job
  <1>5. Moves(p) /\ job'[p] = r
    BY <1>1, <1>3, <1>4 DEF ReadTaste, Core, Numbers, Moves
  <1>6. r.next = "idle"
    BY <1>1, <1>4, Working DEF RoleOK
  <1>7. r.seen <= r.taste /\ r.own <= r.taste
    <2>1. version[User(p)] <= taste[User(p)]
      BY <1>1, Working, VersionBelow DEF Core
    <2>2. job[p].seen <= version[User(p)] /\ job[p].own <= version[User(p)]
      BY <1>1, Working DEF Fresh
    <2> QED BY <1>1, <1>4, <2>1, <2>2, Working, JobFields, BoundAssumption DEF Versions
  <1>8. Fresh(r, version[User(p)], pool[User(p)], marked[User(p)])
    BY <1>1, <1>4, <1>6, <1>7, Working DEF Fresh
  <1>9. r.pc \in StepsOf(p) \ {"idle", "bump"}
    BY <1>4, StepNames
  <1> QED BY <1>1, <1>2, <1>4, <1>5, <1>6, <1>8, <1>9, Rework
LEMMA StoreCore ==
    ASSUME Core, NEW p \in Homes \cup {Worker}, Store(p)
    PROVE  Core'
  <1>1. p \in Processes /\ job[p].pc = "store" /\ job[p].pc # "idle" /\ job[p] \in Job
    BY RolesFacts DEF Store, At, Core, Numbers
  <1>2. PICK u \in Users : u = User(p)
    BY <1>1, Working
  <1>3. UNCHANGED <<requests, done, marked, pooled>>
    BY DEF Store, redis
  <1>4. PICK w : w = Higher(pool[u], job[p].taste)  OBVIOUS
  <1>5. pool[u] \in Versions /\ job[p].taste \in Versions /\ pool \in [Users -> Versions]
    BY <1>1, JobFields DEF Core, Numbers
  <1>6. w \in Versions /\ w >= pool[u] /\ w >= job[p].taste
    BY <1>4, <1>5, HigherFacts
  <1>7. pool' = [pool EXCEPT ![u] = w]
    BY <1>2, <1>4 DEF Store
  <1>8. pool' \in [Users -> Versions] /\ \A x \in Users : pool[x] <= pool'[x]
    <2>1. ASSUME NEW x \in Users  PROVE pool[x] <= pool'[x]
      BY <1>5, <1>6, <1>7, BoundAssumption DEF Versions
    <2> QED BY <1>5, <1>6, <1>7, <2>1
  <1>9. PICK r : r = [job[p] EXCEPT !.taste = 0, !.pc = "publish"]  OBVIOUS
  <1>10. r \in Job /\ r.pc = "publish" /\ r.seen = job[p].seen /\ r.user = job[p].user /\ r.own = job[p].own
         /\ r.next = job[p].next
    BY <1>1, <1>9, StepNames, IdleJob DEF Job
  <1>11. Moves(p) /\ job'[p] = r
    BY <1>1, <1>9, <1>10 DEF Store, Core, Numbers, Moves
  <1>12. Numbers'
    BY <1>3, <1>8, <1>11 DEF Core, Numbers, Moves, requests
  <1>13. Grows
    <2>1. ASSUME NEW x \in Users
          PROVE  version[x] <= version'[x] /\ marked[x] <= marked'[x]
      BY <1>3, BoundAssumption DEF Core, Numbers, Versions, requests
    <2> QED BY <1>8, <2>1 DEF Grows
  <1>14. RoleOK(p, r)
    <2>1. r.next = "idle" /\ r.user \in Users
      BY <1>1, <1>10, Working DEF RoleOK
    <2>2. r.pc \in StepsOf(p)
      BY <1>10, StepNames
    <2> QED BY <1>10, <2>1, <2>2, ProcessAssumption DEF RoleOK
  <1>15. Fresh(r, version'[u], pool'[u], marked'[u])
    <2>1. pool'[u] = w /\ version'[u] = version[u]
      BY <1>3, <1>5, <1>7 DEF requests
    <2>2. r.seen <= w /\ r.own <= w
      <3>1. job[p].seen <= job[p].taste /\ job[p].own <= job[p].taste
        BY <1>1, Working DEF Fresh
      <3> QED BY <1>1, <1>5, <1>6, <1>10, <3>1, JobFields, BoundAssumption DEF Versions
    <2>3. r.seen <= version[u] /\ r.own <= version[u] /\ r.next = "idle"
      BY <1>1, <1>2, <1>10, Working DEF Fresh, RoleOK
    <2> QED BY <1>10, <2>1, <2>2, <2>3 DEF Fresh
  <1>16. \A x \in Users : job'[p].user = x => Fresh(job'[p], version'[x], pool'[x], marked'[x])
    BY <1>1, <1>2, <1>10, <1>11, <1>15, Working
  <1>17. Jobs'
    BY <1>1, <1>11, <1>12, <1>13, <1>14, <1>16, JobsKept
  <1>18. Counted'
    BY <1>1, <1>3, <1>10, <1>11, CountedKept DEF Core
  <1>19. ASSUME NEW x \in Users, NEW v \in Versions, v <= pool[x]
         PROVE  v <= pool'[x]
    BY <1>5, <1>8, <1>19, BoundAssumption DEF Versions
  <1>20. PoolHonest'
    BY <1>3, <1>19 DEF Core, Numbers, PoolHonest
  <1>21. MarkerHonest'
    <2>1. ASSUME NEW x \in Users  PROVE done[x] <= pool'[x]
      <3>1. done[x] \in Versions \cup {NoMark} /\ done[x] <= pool[x] /\ pool[x] \in Versions /\ pool'[x] \in Versions
        BY <1>8 DEF Core, Numbers, MarkerHonest
      <3> QED BY <1>8, <3>1, BoundAssumption DEF Versions, NoMark
    <2> QED BY <1>3, <2>1 DEF MarkerHonest
  <1> QED BY <1>12, <1>17, <1>18, <1>20, <1>21 DEF Core

LEMMA PublishCore ==
    ASSUME Core, NEW p \in Homes \cup {Worker}, Publish(p)
    PROVE  Core'
  <1>1. p \in Processes /\ job[p].pc = "publish" /\ job[p].pc # "idle" /\ job[p] \in Job
    BY RolesFacts DEF Publish, At, Core, Numbers
  <1>2. PICK u \in Users : u = User(p)
    BY <1>1, Working
  <1>3. UNCHANGED <<requests, done, marked, pool>>
    BY DEF Publish, redis
  <1>4. pooled \in [Users -> SUBSET Versions] /\ job[p].own \in Versions /\ job[p].own <= pool[u]
    BY <1>1, <1>2, Working, JobFields DEF Core, Numbers, Fresh
  <1>5. pooled' = pooled \/ pooled' = [pooled EXCEPT ![u] = @ \cup {job[p].own}]
    BY <1>2 DEF Publish
  <1>6. pooled' \in [Users -> SUBSET Versions]
        /\ \A x \in Users : \A v \in pooled'[x] : v \in pooled[x] \/ (x = u /\ v = job[p].own)
    <2>1. CASE pooled' = pooled
      BY <1>4, <2>1
    <2>2. CASE pooled' = [pooled EXCEPT ![u] = @ \cup {job[p].own}]
      BY <1>4, <2>2
    <2> QED BY <1>5, <2>1, <2>2
  <1>7. PoolHonest'
    BY <1>3, <1>4, <1>6 DEF Core, PoolHonest
  <1>8. PICK r : r = [job[p] EXCEPT !.own = 0, !.cut = FALSE, !.pc = "mark"]  OBVIOUS
  <1>9. r \in Job /\ r.pc = "mark" /\ r.seen = job[p].seen /\ r.user = job[p].user /\ r.own = 0
        /\ r.next = job[p].next
    BY <1>1, <1>8, StepNames, IdleJob DEF Job
  <1>10. Moves(p) /\ job'[p] = r
    BY <1>1, <1>8, <1>9 DEF Publish, Core, Numbers, Moves
  <1>11. Numbers'
    BY <1>3, <1>6, <1>10 DEF Core, Numbers, Moves, requests
  <1>12. Grows
    BY <1>3, BoundAssumption DEF Core, Numbers, Grows, Versions, requests
  <1>13. RoleOK(p, r)
    <2>1. r.next = "idle" /\ r.user \in Users
      BY <1>1, <1>9, Working DEF RoleOK
    <2>2. r.pc \in StepsOf(p)
      BY <1>9, StepNames
    <2> QED BY <1>9, <2>1, <2>2, ProcessAssumption DEF RoleOK
  <1>14. Fresh(r, version[u], pool[u], marked[u])
    <2>1. r.seen <= version[u] /\ r.seen <= pool[u] /\ r.next = "idle"
      BY <1>1, <1>2, <1>9, Working DEF Fresh, RoleOK
    <2>2. 0 <= version[u]
      BY BoundAssumption DEF Core, Numbers, Versions
    <2> QED BY <1>9, <2>1, <2>2 DEF Fresh
  <1>15. \A x \in Users : job'[p].user = x => Fresh(job'[p], version'[x], pool'[x], marked'[x])
    BY <1>1, <1>2, <1>3, <1>9, <1>10, <1>14, Working DEF requests
  <1>16. Jobs'
    BY <1>1, <1>10, <1>11, <1>12, <1>13, <1>15, JobsKept
  <1>17. Counted'
    BY <1>1, <1>3, <1>9, <1>10, CountedKept DEF Core
  <1>18. MarkerHonest'
    BY <1>3 DEF Core, MarkerHonest
  <1> QED BY <1>7, <1>11, <1>16, <1>17, <1>18 DEF Core

LEMMA MarkCore ==
    ASSUME Core, NEW p \in Homes \cup {Worker}, Mark(p)
    PROVE  Core'
  <1>1. p \in Processes /\ job[p].pc = "mark" /\ job[p].pc # "idle" /\ job[p] \in Job
    BY RolesFacts DEF Mark, At, Core, Numbers
  <1>2. PICK u \in Users : u = User(p)
    BY <1>1, Working
  <1>3. UNCHANGED <<requests, generations>>
    BY DEF Mark
  <1>4. PICK a \in Versions : a = job[p].seen
    BY <1>1, JobFields
  <1>5. a <= pool[u] /\ a <= version[u]
    BY <1>1, <1>2, <1>4, Working DEF Fresh
  <1>6. done' = [done EXCEPT ![u] = a]
    BY <1>2, <1>4 DEF Mark
  <1>7. PICK w : w = Higher(marked[u], a)  OBVIOUS
  <1>8. w \in Versions /\ w >= marked[u] /\ w >= a
    BY <1>7, HigherFacts DEF Core, Numbers
  <1>9. marked' = [marked EXCEPT ![u] = w]
    BY <1>2, <1>4, <1>7 DEF Mark
  <1>10. marked' \in [Users -> Versions] /\ done' \in [Users -> Versions \cup {NoMark}]
    BY <1>6, <1>8, <1>9 DEF Core, Numbers
  <1>11. \A x \in Users : marked[x] <= marked'[x]
    BY <1>8, <1>9, BoundAssumption DEF Core, Numbers, Versions
  <1>12. MarkerHonest'
    BY <1>3, <1>5, <1>6 DEF Core, Numbers, MarkerHonest, generations
  <1>13. /\ Moves(p)
         /\ \/ p \in Homes /\ job'[p] = Idle
            \/ p = Worker /\ job'[p].pc = "recheck" /\ job'[p].next = job[p].next /\ Same(job'[p], job[p])
    BY <1>1, EndStep, GotoStep, StepNames DEF Mark, Core, Numbers
  <1>14. Numbers'
    BY <1>3, <1>10, <1>13 DEF Core, Numbers, Moves, requests, generations
  <1>15. Grows
    <2>1. ASSUME NEW x \in Users
          PROVE  version[x] <= version'[x] /\ pool[x] <= pool'[x]
      BY <1>3, BoundAssumption DEF Core, Numbers, Versions, requests, generations
    <2> QED BY <1>11, <2>1 DEF Grows
  <1>16. job[p].next = "idle" /\ job[p].user = u
    BY <1>1, <1>2, Working DEF RoleOK
  <1>17. RoleOK(p, job'[p]) /\ job'[p].pc # "bump"
    <2>1. CASE job'[p] = Idle
      BY <2>1, IdleJob DEF RoleOK, StepsOf
    <2>2. CASE p = Worker /\ job'[p].pc = "recheck" /\ job'[p].next = job[p].next /\ Same(job'[p], job[p])
      <3>1. job'[p].pc \in StepsOf(p)
        BY <2>2, RolesFacts DEF StepsOf
      <3> QED BY <2>2, <3>1, <1>16, ProcessAssumption DEF RoleOK, Same
    <2> QED BY <1>13, <2>1, <2>2
  <1>18. ASSUME NEW x \in Users, job'[p].user = x
         PROVE  Fresh(job'[p], version'[x], pool'[x], marked'[x])
    <2>1. job'[p].pc = "recheck" /\ job'[p].next = "idle" /\ job'[p].seen = a /\ x = u /\ job'[p].own = job[p].own
      BY <1>4, <1>13, <1>16, <1>18, IdleJob, ProcessAssumption DEF Same
    <2>2. marked'[u] = w /\ version'[u] = version[u]
      BY <1>3, <1>9 DEF requests, Core, Numbers
    <2>3. job[p].own <= version[u] /\ a <= w
      BY <1>1, <1>2, <1>8, Working, BoundAssumption DEF Fresh, Versions
    <2> QED BY <1>5, <2>1, <2>2, <2>3 DEF Fresh
  <1>19. Jobs'
    BY <1>1, <1>13, <1>14, <1>15, <1>17, <1>18, JobsKept
  <1>20. Counted'
    BY <1>1, <1>3, <1>13, <1>17, CountedKept DEF Core
  <1>21. PoolHonest'
    BY <1>3 DEF Core, PoolHonest, generations
  <1> QED BY <1>12, <1>14, <1>19, <1>20, <1>21 DEF Core
LEMMA InteractCore ==
    ASSUME Core, NEW h \in Hooks, NEW u \in Users, Interact(h, u)
    PROVE  Core'
  <1>1. h \in Processes /\ job[h].pc = "idle" /\ taste[u] < MaxTaste
    BY RolesFacts DEF Interact, At
  <1>2. UNCHANGED <<version, done, marked, generations>>
    BY DEF Interact, redis
  <1>3. taste' = [taste EXCEPT ![u] = taste[u] + 1] /\ taste \in [Users -> Versions]
    BY DEF Interact, Core, Numbers
  <1>4. taste[u] \in Nat /\ taste[u] + 1 \in Versions
    BY <1>1, <1>3, BoundAssumption DEF Versions
  <1>5. taste' \in [Users -> Versions] /\ taste'[u] = taste[u] + 1
        /\ \A x \in Users \ {u} : taste'[x] = taste[x]
    BY <1>3, <1>4
  <1>6. PICK r : r = [Idle EXCEPT !.pc = "bump", !.user = u]  OBVIOUS
  <1>7. r \in Job /\ r.pc = "bump" /\ r.user = u /\ r.next = "idle" /\ r.seen = 0 /\ r.own = 0
    BY <1>6, IdleJob, StepNames DEF Job
  <1>8. Moves(h) /\ job'[h] = r
    BY <1>1, <1>6, <1>7 DEF Interact, Core, Numbers, Moves
  <1>9. Numbers'
    BY <1>2, <1>5, <1>8 DEF Core, Numbers, Moves, generations
  <1>10. Grows
    BY <1>2, BoundAssumption DEF Core, Numbers, Grows, Versions, generations
  <1>11. RoleOK(h, r)
    BY <1>7, ProcessAssumption DEF RoleOK, StepsOf
  <1>12. ASSUME NEW x \in Users
         PROVE  Fresh(r, version'[x], pool'[x], marked'[x])
    <2>1. 0 <= version'[x]
      BY <1>9, BoundAssumption DEF Numbers, Versions
    <2> QED BY <1>7, <2>1 DEF Fresh
  <1>13. Jobs'
    BY <1>1, <1>8, <1>9, <1>10, <1>11, <1>12, JobsKept
  <1>14. ASSUME NEW x \in Users
         PROVE  version[x] + Cardinality(Bumping(x)') <= taste'[x]
    <2>1. CASE x = u
      <3>1. Bumping(x)' = Bumping(x) \cup {h} /\ h \notin Bumping(x)
        BY <1>1, <1>7, <1>8, <2>1 DEF Bumping, At, User, Moves, Processes
      <3>2. Cardinality(Bumping(x)') = Cardinality(Bumping(x)) + 1
        BY <3>1, BumpingFinite, FS_AddElement
      <3>3. version[x] \in Nat /\ Cardinality(Bumping(x)) \in Nat
            /\ version[x] + Cardinality(Bumping(x)) <= taste[x]
        BY BumpingFinite, BoundAssumption DEF Core, Numbers, Counted, Versions
      <3> QED BY <1>4, <1>5, <2>1, <3>2, <3>3
    <2>2. CASE x # u
      <3>1. Bumping(x)' = Bumping(x)
        BY <1>1, <1>7, <1>8, <2>2, RolesFacts, IdleJob, ProcessAssumption
        DEF Bumping, At, User, Moves, Processes, Core, Jobs, RoleOK
      <3> QED BY <1>5, <2>2, <3>1 DEF Core, Counted
    <2> QED BY <2>1, <2>2
  <1>15. Counted'
    BY <1>2, <1>14 DEF Counted
  <1>16. PoolHonest' /\ MarkerHonest'
    BY <1>2 DEF Core, PoolHonest, MarkerHonest, generations
  <1> QED BY <1>9, <1>13, <1>15, <1>16 DEF Core

LEMMA BumpCore ==
    ASSUME Core, NEW h \in Hooks, Bump(h)
    PROVE  Core'
  <1>1. h \in Processes /\ job[h].pc = "bump" /\ job[h].pc # "idle" /\ job[h] \in Job
    BY RolesFacts DEF Bump, At, Core, Numbers
  <1>2. PICK u \in Users : u = User(h) /\ u = job[h].user
    BY <1>1, Working
  <1>3. UNCHANGED <<taste, done, marked, generations>>
    BY DEF Bump, redis
  <1>4. PICK b \in {0, 1} : version' = [version EXCEPT ![u] = version[u] + b]
    <2>1. CASE version' = [version EXCEPT ![User(h)] = @ + 1]
      BY <1>2, <2>1
    <2>2. CASE UNCHANGED version
      <3>1. version[u] + 0 = version[u] /\ version = [version EXCEPT ![u] = version[u]]
        BY BoundAssumption DEF Core, Numbers, Versions
      <3> QED BY <2>2, <3>1
    <2> QED BY <2>1, <2>2 DEF Bump
  <1>5. Moves(h) /\ job'[h].pc = "claim" /\ job'[h].next = job[h].next /\ Same(job'[h], job[h])
    BY <1>1, GotoStep, StepNames DEF Bump, Core, Numbers
  <1>6. h \in Bumping(u)
    BY <1>1, <1>2 DEF Bumping, At
  <1>7. Bumping(u)' = Bumping(u) \ {h}
    BY <1>1, <1>5 DEF Bumping, At, User, Moves, Processes
  <1>8. Cardinality(Bumping(u)') = Cardinality(Bumping(u)) - 1 /\ Cardinality(Bumping(u)') \in Nat
    <2>1. IsFiniteSet(Bumping(u)')
      BY <1>7, BumpingFinite, FS_Subset
    <2> QED BY <1>6, <1>7, <2>1, BumpingFinite, FS_RemoveElement, FS_CardinalityType
  <1>9. version[u] \in Nat /\ version[u] + Cardinality(Bumping(u)) <= taste[u] /\ taste[u] \in Versions
        /\ Cardinality(Bumping(u)) \in Nat
    BY BumpingFinite, BoundAssumption DEF Core, Numbers, Counted, Versions
  <1>10. version[u] + b \in Versions /\ version[u] + b + Cardinality(Bumping(u)') <= taste[u]
    BY <1>8, <1>9, BoundAssumption DEF Versions
  <1>11. version' \in [Users -> Versions] /\ version'[u] = version[u] + b
         /\ \A x \in Users \ {u} : version'[x] = version[x]
    BY <1>4, <1>10 DEF Core, Numbers
  <1>12. Numbers'
    BY <1>3, <1>5, <1>11 DEF Core, Numbers, Moves, generations
  <1>13. Grows
    <2>1. ASSUME NEW x \in Users
          PROVE  version[x] <= version'[x] /\ pool[x] <= pool'[x] /\ marked[x] <= marked'[x]
      <3>1. version[x] <= version'[x]
        BY <1>9, <1>11, BoundAssumption DEF Core, Numbers, Versions
      <3> QED BY <3>1, <1>3, BoundAssumption DEF Core, Numbers, Versions, generations
    <2> QED BY <2>1 DEF Grows
  <1>14. RoleOK(h, job'[h])
    <2>1. job'[h].user = u /\ job'[h].next = "idle" /\ job'[h].pc \in StepsOf(h)
      BY <1>1, <1>2, <1>5, Working, StepNames DEF RoleOK, Same
    <2> QED BY <1>5, <2>1, ProcessAssumption DEF RoleOK
  <1>15. ASSUME NEW x \in Users, job'[h].user = x
         PROVE  Fresh(job'[h], version'[x], pool'[x], marked'[x])
    <2>1. x = u /\ job'[h].next = "idle" /\ job'[h].seen = job[h].seen /\ job'[h].own = job[h].own
      BY <1>1, <1>2, <1>5, <1>15, Working DEF RoleOK, Same
    <2>2. job[h].seen \in Versions /\ job[h].own \in Versions /\ job[h].seen <= version[u] /\ job[h].own <= version[u]
      BY <1>1, <1>2, Working, JobFields DEF Fresh
    <2>3. job[h].seen <= version'[u] /\ job[h].own <= version'[u]
      BY <1>9, <1>11, <2>2, BoundAssumption DEF Versions
    <2> QED BY <1>5, <2>1, <2>3 DEF Fresh
  <1>16. Jobs'
    BY <1>1, <1>5, <1>12, <1>13, <1>14, <1>15, JobsKept
  <1>17. ASSUME NEW x \in Users
         PROVE  version'[x] + Cardinality(Bumping(x)') <= taste[x]
    <2>1. CASE x = u
      BY <1>9, <1>10, <1>11, <2>1
    <2>2. CASE x # u
      <3>1. Bumping(x)' = Bumping(x)
        BY <1>1, <1>2, <1>5, <2>2 DEF Bumping, At, User, Moves, Processes, Same
      <3> QED BY <1>11, <2>2, <3>1 DEF Core, Counted
    <2> QED BY <2>1, <2>2
  <1>18. Counted'
    BY <1>3, <1>17 DEF Counted
  <1>19. PoolHonest' /\ MarkerHonest'
    BY <1>3 DEF Core, PoolHonest, MarkerHonest, generations
  <1> QED BY <1>12, <1>16, <1>18, <1>19 DEF Core

LEMMA WorkerCore ==
    ASSUME Core, Lists, Pop \/ Release \/ GenerateFails \/ Recheck
    PROVE  Core'
  <1>1. Worker \in Processes /\ job[Worker] \in Job
    BY RolesFacts DEF Core, Numbers
  <1>2. UNCHANGED <<requests, generations, done, marked>>
    BY DEF Pop, Release, GenerateFails, Recheck, redis
  <1>3. ASSUME NEW s \in {"release", "claim"}, NEW u \in Users,
               job' = [job EXCEPT ![Worker] = [Idle EXCEPT !.pc = s, !.user = u]]
        PROVE  Core'
    <2>1. PICK r : r = [Idle EXCEPT !.pc = s, !.user = u]  OBVIOUS
    <2>2. r \in Job /\ r.pc = s /\ r.user = u /\ r.next = "idle" /\ r.seen = 0 /\ r.own = 0
      BY <2>1, IdleJob, StepNames DEF Job
    <2>3. Moves(Worker) /\ job'[Worker] = r
      BY <1>1, <1>3, <2>1, <2>2 DEF Core, Numbers, Moves
    <2>4. s \in StepsOf(Worker)
      BY RolesFacts DEF StepsOf
    <2>5. RoleOK(Worker, r) /\ r.pc # "bump"
      BY <2>2, <2>4, ProcessAssumption DEF RoleOK
    <2>6. ASSUME NEW x \in Users
          PROVE  Fresh(r, version[x], pool[x], marked[x])
      <3>1. 0 <= version[x]
        BY BoundAssumption DEF Core, Numbers, Versions
      <3> QED BY <2>2, <3>1 DEF Fresh
    <2> QED BY <1>1, <1>2, <2>3, <2>5, <2>6, PlainStep
  <1>4. CASE Pop
    <2>1. Head(queue) \in Users
      BY <1>4 DEF Pop, Lists
    <2>2. CASE job' = [job EXCEPT ![Worker] = [Idle EXCEPT !.pc = "release", !.user = Head(queue)]]
      BY <2>1, <2>2, <1>3
    <2>3. CASE UNCHANGED job
      BY <1>2, <2>3 DEF Core, Numbers, Counted, Bumping, At, User, Jobs, PoolHonest, MarkerHonest, requests,
         generations
    <2> QED BY <1>4, <2>2, <2>3 DEF Pop
  <1>5. CASE GenerateFails
    <2>1. User(Worker) \in Users
      BY <1>1, <1>5, Working DEF GenerateFails
    <2> QED BY <1>3, <1>5, <2>1 DEF GenerateFails
  <1>6. CASE Release
    <2>1. job[Worker].pc # "idle" /\ job[Worker].next = "idle" /\ Goto(Worker, "target")
      BY <1>1, <1>6, Working DEF Release, At, RoleOK
    <2>2. "target" \in StepsOf(Worker)
      BY RolesFacts DEF StepsOf
    <2> QED BY <1>1, <1>2, <2>1, <2>2, GotoCore, StepNames
  <1>7. CASE Recheck
    <2>1. job[Worker].pc # "idle" /\ (Goto(Worker, "claim") \/ End(Worker))
      BY <1>7 DEF Recheck, At
    <2>2. CASE Goto(Worker, "claim")
      BY <1>1, <1>2, <2>1, <2>2, GotoCore, StepNames
    <2>3. CASE End(Worker)
      BY <1>1, <1>2, <2>3, EndStep, EndKeeps DEF Core, Numbers
    <2> QED BY <2>1, <2>2, <2>3
  <1> QED BY <1>4, <1>5, <1>6, <1>7

LEMMA CoreStep ==
    ASSUME Core, Lists, [Next]_vars
    PROVE  Core'
  <1>1. CASE UNCHANGED vars
    BY <1>1 DEF vars, Core, Numbers, Counted, Bumping, At, User, Jobs, PoolHonest, MarkerHonest
  <1>2. ASSUME NEW p \in Processes, End(p), UNCHANGED <<requests, generations, done, marked>>
        PROVE  Core'
    BY <1>2, EndStep, EndKeeps DEF Core, Numbers
  <1>3. ASSUME NEW p \in Homes \cup {Worker}, Generate(p)
        PROVE  Core'
    BY <1>3, GenerateVersionCore, LookupCore, ReadTasteCore, StoreCore, PublishCore, MarkCore DEF Generate
  <1>4. CASE HookNext
    BY <1>4, BumpCore, EnqueueCore, InteractCore, RolesFacts DEF HookNext
  <1>5. CASE HomeNext
    BY <1>3, <1>5, ReadVersionCore, ReadDoneCore, EnqueueCore, WaitCore, AnswerCore, AskCore,
       RolesFacts DEF HomeNext
  <1>6. CASE WorkerNext
    BY <1>3, <1>6, WorkerCore, ReadVersionCore, EnqueueCore, RolesFacts DEF WorkerNext
  <1>7. CASE Environment
    <2>1. ASSUME NEW u \in Users, ExpireDedupe(u)
          PROVE  Core'
      BY <2>1 DEF ExpireDedupe, Core, Numbers, Counted, Bumping, At, User, Jobs, PoolHonest, MarkerHonest,
         requests, generations
    <2>2. ASSUME NEW p \in Processes, Crash(p)
          PROVE  Core'
      BY <1>2, <2>2 DEF Crash
    <2> QED BY <1>7, <2>1, <2>2 DEF Environment
  <1> QED BY <1>1, <1>4, <1>5, <1>6, <1>7 DEF Next
-----------------------------------------------------------------------------
(* No wake-up is lost.                                                     *)

LEMMA ListsStep ==
    ASSUME Core, Lists, [Next]_vars
    PROVE  Lists'
  <1>1. CASE UNCHANGED <<queue, dedupe, lost, faults>>
    BY <1>1 DEF Lists
  <1>2. faults' \in 0..MaxFaults
    <2>1. ASSUME NEW p \in Processes, Enqueue(p)
          PROVE  NoFault \/ Fault
      BY <2>1, Zenon DEF Enqueue, Claim, ClaimResent, Push, PushFails
    <2>2. ASSUME NEW p \in Processes, Generate(p)
          PROVE  NoFault \/ Fault
      BY <2>2, Zenon DEF Generate, NoFault, GenerateVersion, LookupFinds, LookupMisses, ReadTaste, Store,
         Publish, Mark
    <2>3. ASSUME NEW p \in Processes, ReadVersion(p) \/ Crash(p)
          PROVE  NoFault \/ Fault
      BY <2>3, Zenon DEF ReadVersion, Crash
    <2>4. NoFault \/ Fault
      <3>1. CASE HookNext
        BY <2>1, <3>1, RolesFacts DEF HookNext, Bump, Interact, NoFault
      <3>2. CASE HomeNext
        BY <2>1, <2>2, <2>3, <3>2, RolesFacts DEF HomeNext, ReadDone, Wait, Answer, Ask, NoFault
      <3>3. CASE WorkerNext
        BY <2>1, <2>2, <2>3, <3>3, RolesFacts DEF WorkerNext, Pop, Release, GenerateFails, Recheck, NoFault
      <3>4. CASE Environment
        BY <2>3, <3>4 DEF Environment, ExpireDedupe
      <3>5. CASE UNCHANGED vars
        BY <3>5 DEF vars, NoFault
      <3> QED BY <3>1, <3>2, <3>3, <3>4, <3>5 DEF Next
    <2> QED BY <2>4, BoundAssumption DEF Lists, Fault, NoFault
  <1>3. ASSUME NEW p \in Processes, Enqueue(p)
        PROVE  queue' \in Seq(Users) /\ dedupe' \subseteq Users /\ lost' \subseteq Users
    <2>1. User(p) \in Users
      BY <1>3, Working DEF Enqueue, Claim, ClaimResent, Push, PushFails, At
    <2>2. CASE Claim(p) \/ ClaimResent(p) \/ PushFails(p)
      BY <2>1, <2>2 DEF Claim, ClaimResent, PushFails, Lists
    <2>3. CASE Push(p)
      BY <2>1, <2>3 DEF Push, Lists
    <2> QED BY <1>3, <2>2, <2>3 DEF Enqueue
  <1>4. CASE Pop
    <2>1. Head(queue) \in Users /\ Tail(queue) \in Seq(Users)
      BY <1>4 DEF Pop, Lists
    <2> QED BY <1>2, <1>4, <2>1 DEF Pop, Lists
  <1>5. ASSUME NEW p \in Processes, Crash(p)
        PROVE  queue' \in Seq(Users) /\ dedupe' \subseteq Users /\ lost' \subseteq Users
    <2>1. User(p) \in Users
      BY <1>5, Working DEF Crash, At
    <2> QED BY <1>5, <2>1 DEF Crash, Lists
  <1>6. CASE Release \/ \E u \in Users : ExpireDedupe(u)
    BY <1>2, <1>6 DEF Release, ExpireDedupe, Lists
  <1>7. CASE UNCHANGED <<queue, dedupe, lost>>
    BY <1>2, <1>7 DEF Lists
  <1>8. \/ UNCHANGED <<queue, dedupe, lost>> \/ Release \/ Pop
        \/ \E u \in Users : ExpireDedupe(u)
        \/ \E p \in Processes : Enqueue(p) \/ Crash(p)
    BY RolesFacts DEF Next, vars, HookNext, HomeNext, WorkerNext, Environment, Generate, redis,
       Interact, Bump, Ask, ReadVersion, ReadDone, Wait, Answer, GenerateVersion, LookupFinds, LookupMisses,
       ReadTaste, Store, Publish, Mark, GenerateFails, Recheck
  <1> QED BY <1>2, <1>3, <1>4, <1>5, <1>6, <1>7, <1>8 DEF Lists

\* Handler p is a reason why user u will be refreshed, or will be queued.
Owing(p, u) ==
    /\ User(p) = u
    /\ job[p].pc \in {"bump", "push"} \/ (p \in Hooks /\ At(p, "claim")) \/ p = Worker

LEMMA OwedMeans ==
    ASSUME NEW u \in Users
    PROVE  Owed(u) <=> Queued(u) \/ \E p \in Processes : Owing(p, u)
  BY RolesFacts DEF Owed, Owing, At, User

\* Handler p is what the deduplication key of u stands for.
Backing(p, u) == User(p) = u /\ (At(p, "push") \/ (p = Worker /\ At(p, "release")))

LEMMA BackedMeans ==
    DedupeBacked <=> \A u \in dedupe \ lost : Queued(u) \/ \E p \in Processes : Backing(p, u)
  BY RolesFacts DEF DedupeBacked, Backing

LEMMA BackedIsOwed ==
    ASSUME NEW u \in Users, NEW p \in Processes, Backing(p, u)
    PROVE  Owing(p, u) /\ job[p].pc \in {"push", "release"}
  BY DEF Backing, Owing, At

\* What stays when only handler p moves.
LEMMA OthersOwe ==
    ASSUME NEW p \in Processes, Moves(p), NEW q \in Processes, q # p, NEW u \in Users
    PROVE  (Owing(q, u) => Owing(q, u)') /\ (Backing(q, u) => Backing(q, u)')
  BY DEF Moves, Owing, Backing, At, User

Backed(u) == Queued(u) \/ \E p \in Processes : Backing(p, u)
Awaits(u) == Queued(u) \/ \E p \in Processes : Owing(p, u)

\* A step of p that leaves the queue alone and that p does not owe anything by.
LEMMA StillBacked ==
    ASSUME NEW p \in Processes, Moves(p), NEW u \in Users, Queued(u) => Queued(u)',
           Backing(p, u) => Backing(p, u)', Backed(u)
    PROVE  Backed(u)'
  <1>1. CASE Queued(u)
    BY <1>1 DEF Backed
  <1>2. ASSUME NEW q \in Processes, Backing(q, u)
        PROVE  Backing(q, u)'
    BY <1>2, OthersOwe
  <1> QED BY <1>1, <1>2 DEF Backed

LEMMA StillAwaited ==
    ASSUME NEW p \in Processes, Moves(p), NEW u \in Users, Queued(u) => Queued(u)',
           Owing(p, u) => Owing(p, u)', Awaits(u)
    PROVE  Awaits(u)'
  <1>1. CASE Queued(u)
    BY <1>1 DEF Awaits
  <1>2. ASSUME NEW q \in Processes, Owing(q, u)
        PROVE  Owing(q, u)'
    BY <1>2, OthersOwe
  <1> QED BY <1>1, <1>2 DEF Awaits

Promise ==
    /\ \A u \in dedupe \ lost : Backed(u)
    /\ \A u \in Users : Stale(u) /\ u \notin lost => Awaits(u)

LEMMA PromiseMeans == Promise <=> DedupeBacked /\ NoLostRefresh
  BY BackedMeans, OwedMeans DEF Promise, NoLostRefresh, Backed, Awaits
LEMMA PromiseKept ==
    ASSUME Promise, NEW p \in Processes, Moves(p), UNCHANGED <<queue, dedupe, lost, version>>,
           dedupe \subseteq Users,
           \A u \in Users : marked[u] <= marked'[u] /\ marked[u] \in Int /\ marked'[u] \in Int /\ version[u] \in Int,
           \A u \in Users : Backing(p, u) => Backing(p, u)',
           \A u \in Users : Owing(p, u) => Owing(p, u)'
    PROVE  Promise'
  <1>1. \A u \in Users : Queued(u) => Queued(u)'
    BY DEF Queued
  <1>2. ASSUME NEW u \in dedupe \ lost
        PROVE  Backed(u)'
    BY <1>1, StillBacked DEF Promise
  <1>3. ASSUME NEW u \in Users, Stale(u)', u \notin lost
        PROVE  Awaits(u)'
    <2>1. Stale(u)
      BY <1>3 DEF Stale
    <2> QED BY <1>1, <1>3, <2>1, StillAwaited DEF Promise
  <1> QED BY <1>2, <1>3 DEF Promise

LEMMA MarksNumbers ==
    ASSUME Numbers, UNCHANGED marked
    PROVE  \A u \in Users : marked[u] <= marked'[u] /\ marked[u] \in Int /\ marked'[u] \in Int /\ version[u] \in Int
  BY BoundAssumption DEF Numbers, Versions

LEMMA HomeMoves ==
    ASSUME Core, Lists, Promise, NEW p \in Homes, Moves(p), job[p].pc # "push",
           UNCHANGED <<queue, dedupe, lost, version>>,
           \A u \in Users : marked[u] <= marked'[u] /\ marked[u] \in Int /\ marked'[u] \in Int /\ version[u] \in Int
    PROVE  Promise'
  <1>1. p \in Processes /\ p \notin Hooks /\ p # Worker /\ job[p].pc # "bump"
    BY RolesFacts DEF Core, Jobs, RoleOK, StepsOf
  <1>2. \A u \in Users : ~Backing(p, u) /\ ~Owing(p, u)
    BY <1>1 DEF Backing, Owing, At
  <1> QED BY <1>1, <1>2, PromiseKept DEF Lists

LEMMA WorkerMoves ==
    ASSUME Core, Lists, Promise, Moves(Worker), job[Worker].pc \notin {"push", "release"},
           job'[Worker].user = job[Worker].user,
           UNCHANGED <<queue, dedupe, lost, version>>,
           \A u \in Users : marked[u] <= marked'[u] /\ marked[u] \in Int /\ marked'[u] \in Int /\ version[u] \in Int
    PROVE  Promise'
  <1>1. Worker \in Processes /\ Worker \notin Hooks
    BY RolesFacts
  <1>2. \A u \in Users : ~Backing(Worker, u) /\ (Owing(Worker, u) => Owing(Worker, u)')
    BY <1>1 DEF Backing, Owing, At, User
  <1> QED BY <1>1, <1>2, PromiseKept DEF Lists

LEMMA InteractPromise ==
    ASSUME Core, Lists, Promise, NEW h \in Hooks, NEW u \in Users, Interact(h, u)
    PROVE  Promise'
  <1>1. h \in Processes /\ h # Worker /\ job[h].pc = "idle"
    BY RolesFacts DEF Interact, At
  <1>2. \A w \in Users : ~Backing(h, w) /\ ~Owing(h, w)
    BY <1>1 DEF Backing, Owing, At
  <1>3. PICK r : r = [Idle EXCEPT !.pc = "bump", !.user = u]  OBVIOUS
  <1>4. r \in Job
    BY <1>3, IdleJob, StepNames DEF Job
  <1>5. Moves(h)
    BY <1>1, <1>3, <1>4 DEF Interact, Core, Numbers, Moves
  <1>6. UNCHANGED <<queue, dedupe, lost, version, marked>>
    BY DEF Interact, redis
  <1> QED BY <1>1, <1>2, <1>5, <1>6, MarksNumbers, PromiseKept DEF Core, Lists

LEMMA BumpPromise ==
    ASSUME Core, Lists, Promise, NEW h \in Hooks, Bump(h)
    PROVE  Promise'
  <1>1. h \in Processes /\ h # Worker /\ job[h].pc = "bump" /\ job[h].pc # "idle"
    BY RolesFacts DEF Bump, At
  <1>2. Moves(h) /\ job'[h].pc = "claim" /\ job'[h].user = job[h].user
    BY <1>1, GotoStep, StepNames DEF Bump, Core, Numbers, Same
  <1>3. UNCHANGED <<queue, dedupe, lost, marked>> /\ \A u \in Users : Queued(u) => Queued(u)'
    BY DEF Bump, redis, Queued
  <1>4. \A u \in Users : ~Backing(h, u) /\ (Owing(h, u) => Owing(h, u)')
    BY <1>1, <1>2 DEF Backing, Owing, At, User
  <1>5. ASSUME NEW u \in dedupe \ lost
        PROVE  Backed(u)'
    BY <1>1, <1>2, <1>3, <1>4, StillBacked DEF Promise, Lists
  <1>6. ASSUME NEW u \in Users, Stale(u)', u \notin lost
        PROVE  Awaits(u)'
    <2>1. CASE u = User(h)
      <3>1. Owing(h, u)'
        BY <1>1, <1>2, <2>1 DEF Owing, At, User
      <3> QED BY <1>1, <3>1 DEF Awaits
    <2>2. CASE u # User(h)
      <3>1. version'[u] = version[u]
        BY <2>2 DEF Bump, Core, Numbers
      <3>2. Stale(u)
        BY <1>3, <1>6, <3>1 DEF Stale
      <3> QED BY <1>1, <1>2, <1>3, <1>4, <1>6, <3>2, StillAwaited DEF Promise
    <2> QED BY <2>1, <2>2
  <1> QED BY <1>3, <1>5, <1>6 DEF Promise

LEMMA EnqueuePromise ==
    ASSUME Core, Lists, Promise, NEW p \in Processes, Enqueue(p)
    PROVE  Promise'
  <1>1. job[p].pc \in {"claim", "push"} /\ job[p].pc # "idle"
    BY DEF Enqueue, Claim, ClaimResent, Push, PushFails, At
  <1>2. PICK u \in Users : u = User(p) /\ u = job[p].user
    BY <1>1, Working
  <1>3. UNCHANGED <<version, marked>>
    BY DEF Enqueue, Claim, ClaimResent, Push, PushFails, requests
  <1>4. Moves(p)
    BY ReturnStep, GotoStep, StepNames DEF Enqueue, Claim, ClaimResent, Push, PushFails, Core, Numbers
  <1>5. \A w \in Users : Queued(w) => Queued(w)'
    <2>1. CASE UNCHANGED queue
      BY <2>1 DEF Queued
    <2>2. CASE queue' = Append(queue, User(p))
      <3>1. ASSUME NEW w \in Users, NEW i \in DOMAIN queue, queue[i] = w
            PROVE  i \in DOMAIN queue' /\ queue'[i] = w
        BY <1>2, <2>2, <3>1 DEF Lists
      <3> QED BY <3>1 DEF Queued
    <2> QED BY <2>1, <2>2 DEF Enqueue, Claim, ClaimResent, Push, PushFails
  <1>6. \A w \in Users \ {u} : Backing(p, w) = FALSE /\ Owing(p, w) = FALSE
    BY <1>2 DEF Backing, Owing
  \* Another user's claims and reasons are untouched.
  <1>7. dedupe' \subseteq dedupe \cup {u} /\ lost \ {u} = lost' \ {u}
    BY <1>2 DEF Enqueue, Claim, ClaimResent, Push, PushFails
  <1>8. ASSUME NEW w \in dedupe' \ lost', w # u
        PROVE  Backed(w)'
    <2>1. w \in dedupe \ lost /\ w \in Users /\ ~Backing(p, w)
      BY <1>6, <1>7, <1>8 DEF Lists
    <2> QED BY <1>4, <1>5, <2>1, StillBacked DEF Promise
  <1>9. ASSUME NEW w \in Users, w # u, Stale(w)', w \notin lost'
        PROVE  Awaits(w)'
    <2>1. Stale(w) /\ w \notin lost /\ ~Owing(p, w)
      BY <1>3, <1>6, <1>7, <1>9 DEF Stale
    <2> QED BY <1>4, <1>5, <2>1, StillAwaited DEF Promise
  \* The user of this handler is queued, about to be, or lost.
  <1>10. CASE u \in lost'
    BY <1>8, <1>9, <1>10 DEF Promise
  <1>11. CASE Push(p)
    <2>1. queue' = Append(queue, u)
      BY <1>2, <1>11 DEF Push
    <2>2. queue \in Seq(Users)
      BY DEF Lists
    <2>3. queue' = Append(queue, u) /\ queue \in Seq(Users) /\ Len(queue) \in Nat
      BY <2>1, <2>2
    <2>4. Len(queue') = Len(queue) + 1 /\ queue' \in Seq(Users) /\ queue'[Len(queue) + 1] = u
      BY <2>3
    <2>5. Len(queue) + 1 \in DOMAIN queue' /\ queue'[Len(queue) + 1] = u
      BY <2>3, <2>4
    <2>6. Backed(u)' /\ Awaits(u)'
      BY <2>5 DEF Backed, Awaits, Queued
    <2> QED BY <1>8, <1>9, <2>6 DEF Promise
  <1>12. CASE Claim(p) /\ u \notin dedupe
    <2>1. Goto(p, "push")
      BY <1>2, <1>12 DEF Claim
    <2>2. job'[p].pc = "push" /\ job'[p].user = u
      BY <1>2, <2>1, GotoStep, StepNames DEF Core, Numbers, Same
    <2>3. Backing(p, u)' /\ Owing(p, u)'
      BY <2>2 DEF Backing, Owing, At, User
    <2>4. Backed(u)' /\ Awaits(u)'
      BY <2>3 DEF Backed, Awaits
    <2> QED BY <1>8, <1>9, <2>4 DEF Promise
  <1>13. CASE Claim(p) /\ u \in dedupe /\ u \notin lost'
    <2>1. u \notin lost /\ UNCHANGED queue /\ ~Backing(p, u)
      BY <1>13 DEF Claim, Backing, At
    <2>2. Backed(u)
      BY <1>13, <2>1 DEF Promise
    <2>3. Backed(u)'
      BY <1>4, <1>5, <2>1, <2>2, StillBacked
    <2>4. Awaits(u)'
      <3>1. \A q \in Processes : Backing(q, u)' => Owing(q, u)'
        BY DEF Backing, Owing, At
      <3> QED BY <2>3, <3>1 DEF Backed, Awaits
    <2> QED BY <1>8, <1>9, <2>3, <2>4 DEF Promise
  <1>14. CASE ClaimResent(p) \/ PushFails(p)
    BY <1>2, <1>10, <1>14 DEF ClaimResent, PushFails
  <1> QED BY <1>10, <1>11, <1>12, <1>13, <1>14 DEF Enqueue
\* Only what is said of user u may change.
LEMMA OthersPromised ==
    ASSUME Promise, Lists, NEW p \in Processes, Moves(p), NEW u \in Users, User(p) \in {u, NoUser},
           UNCHANGED <<version, marked>>,
           \A w \in Users \ {u} : Queued(w) => Queued(w)',
           dedupe' \subseteq dedupe, lost' = lost \/ lost' = lost \cup {u},
           u \in dedupe' \ lost' => Backed(u)',
           Stale(u)' /\ u \notin lost' => Awaits(u)'
    PROVE  Promise'
  <1>1. \A w \in Users \ {u} : ~Backing(p, w) /\ ~Owing(p, w)
    BY ProcessAssumption DEF Backing, Owing
  <1>2. ASSUME NEW w \in dedupe' \ lost', w # u
        PROVE  Backed(w)'
    <2>1. w \in dedupe \ lost /\ w \in Users /\ ~Backing(p, w)
      BY <1>1, <1>2 DEF Lists
    <2> QED BY <1>2, <2>1, StillBacked DEF Promise
  <1>3. ASSUME NEW w \in Users, w # u, Stale(w)', w \notin lost'
        PROVE  Awaits(w)'
    <2>1. Stale(w) /\ w \notin lost /\ ~Owing(p, w)
      BY <1>1, <1>3 DEF Stale
    <2> QED BY <1>3, <2>1, StillAwaited DEF Promise
  <1> QED BY <1>2, <1>3 DEF Promise

LEMMA PopPromise ==
    ASSUME Core, Lists, Promise, Pop
    PROVE  Promise'
  <1>1. Worker \in Processes /\ job[Worker].pc = "idle" /\ queue # <<>> /\ queue \in Seq(Users)
        /\ queue' = Tail(queue)
    BY RolesFacts DEF Pop, At, Lists
  <1>2. PICK u \in Users : u = Head(queue)
    BY <1>1
  <1>3. User(Worker) = NoUser
    BY <1>1 DEF Core, Jobs, RoleOK, User
  <1>4. \A w \in Users \ {u} : Queued(w) => Queued(w)'
    <2>1. ASSUME NEW w \in Users \ {u}, NEW i \in DOMAIN queue, queue[i] = w
          PROVE  i - 1 \in DOMAIN queue' /\ queue'[i - 1] = w
      <3>1. i # 1
        BY <1>1, <1>2, <2>1
      <3>2. Len(queue') = Len(queue) - 1 /\ queue' \in Seq(Users) /\ Len(queue) \in Nat
        BY <1>1
      <3>3. i \in 1..Len(queue) /\ i - 1 \in 1..Len(queue')
        BY <1>1, <3>1, <3>2
      <3>4. queue'[i - 1] = queue[i]
        BY <1>1, <3>2, <3>3
      <3> QED BY <2>1, <3>2, <3>3, <3>4
    <2> QED BY <2>1 DEF Queued
  <1>5. UNCHANGED <<version, marked, dedupe>>
    BY DEF Pop, requests
  <1>6. CASE job' = [job EXCEPT ![Worker] = [Idle EXCEPT !.pc = "release", !.user = Head(queue)]] /\ UNCHANGED lost
    <2>1. PICK r : r = [Idle EXCEPT !.pc = "release", !.user = u]  OBVIOUS
    <2>2. r \in Job /\ r.pc = "release" /\ r.user = u
      BY <2>1, IdleJob, StepNames DEF Job
    <2>3. Moves(Worker) /\ job'[Worker] = r
      BY <1>1, <1>2, <1>6, <2>1, <2>2 DEF Core, Numbers, Moves
    <2>4. Backing(Worker, u)' /\ Owing(Worker, u)'
      BY <2>2, <2>3 DEF Backing, Owing, At, User
    <2>5. Backed(u)' /\ Awaits(u)'
      BY <1>1, <2>4 DEF Backed, Awaits
    <2> QED BY <1>1, <1>3, <1>4, <1>5, <1>6, <2>3, <2>5, OthersPromised
  <1>7. CASE UNCHANGED job /\ lost' = lost \cup {Head(queue)}
    <2>1. Moves(Worker)
      BY <1>7 DEF Moves, Core, Numbers
    <2>2. lost' = lost \cup {u}
      BY <1>2, <1>7
    <2> QED BY <1>1, <1>3, <1>4, <1>5, <2>1, <2>2, OthersPromised
  <1> QED BY <1>6, <1>7 DEF Pop

LEMMA ReleasePromise ==
    ASSUME Core, Lists, Promise, Release
    PROVE  Promise'
  <1>1. Worker \in Processes /\ job[Worker].pc = "release" /\ job[Worker].pc # "idle"
    BY RolesFacts DEF Release, At
  <1>2. PICK u \in Users : u = User(Worker) /\ u = job[Worker].user
    BY <1>1, Working
  <1>3. Moves(Worker) /\ job'[Worker].user = u
    BY <1>1, <1>2, GotoStep, StepNames DEF Release, Core, Numbers, Same
  <1>4. UNCHANGED <<version, marked, queue, lost>> /\ dedupe' = dedupe \ {u}
    BY <1>2 DEF Release, requests
  <1>5. Owing(Worker, u)' /\ Awaits(u)'
    BY <1>1, <1>3 DEF Owing, User, Awaits
  <1>6. \A w \in Users \ {u} : Queued(w) => Queued(w)'
    BY <1>4 DEF Queued
  <1> QED BY <1>1, <1>2, <1>3, <1>4, <1>5, <1>6, OthersPromised

LEMMA RecheckPromise ==
    ASSUME Core, Lists, Promise, Recheck
    PROVE  Promise'
  <1>1. Worker \in Processes /\ job[Worker].pc = "recheck" /\ job[Worker].pc # "idle"
    BY RolesFacts DEF Recheck, At
  <1>2. PICK u \in Users : u = User(Worker)
    BY <1>1, Working
  <1>3. UNCHANGED <<version, marked, queue, lost, dedupe>>
    BY DEF Recheck, requests, redis
  <1>4. CASE version[u] > job[Worker].seen
    <2>1. Goto(Worker, "claim")
      BY <1>2, <1>4 DEF Recheck
    <2>2. Moves(Worker) /\ job'[Worker].user = job[Worker].user
      BY <1>1, <2>1, GotoStep, StepNames DEF Core, Numbers, Same
    <2> QED BY <1>1, <1>3, <2>2, MarksNumbers, WorkerMoves DEF Core
  <1>5. CASE ~(version[u] > job[Worker].seen)
    <2>1. Moves(Worker)
      BY <1>1, <1>2, <1>5, EndStep DEF Recheck, Core, Numbers
    \* The version was marked at least as far as it has got.
    <2>2. ~Stale(u)
      <3>1. job[Worker].seen <= marked[u]
        BY <1>1, <1>2, Working DEF Fresh
      <3>2. job[Worker].seen \in Versions /\ marked[u] \in Versions /\ version[u] \in Versions
        BY <1>1, <1>2, Working, JobFields
      <3> QED BY <1>5, <3>1, <3>2, BoundAssumption DEF Stale, Versions
    <2>3. ~Stale(u)'
      BY <1>3, <2>2 DEF Stale
    <2>4. u \in dedupe' \ lost' => Backed(u)'
      <3>1. ~Backing(Worker, u)
        BY <1>1 DEF Backing, At
      <3>2. Queued(u) => Queued(u)'
        BY <1>3 DEF Queued
      <3> QED BY <1>1, <1>3, <2>1, <3>1, <3>2, StillBacked DEF Promise
    <2>5. \A w \in Users \ {u} : Queued(w) => Queued(w)'
      BY <1>3 DEF Queued
    <2> QED BY <1>1, <1>2, <1>3, <2>1, <2>3, <2>4, <2>5, OthersPromised
  <1> QED BY <1>4, <1>5

LEMMA CrashPromise ==
    ASSUME Core, Lists, Promise, NEW p \in Processes, Crash(p)
    PROVE  Promise'
  <1>1. job[p].pc # "idle" /\ Moves(p)
    BY EndStep DEF Crash, At, Core, Numbers
  <1>2. PICK u \in Users : u = User(p)
    BY <1>1, Working
  <1>3. UNCHANGED <<version, marked, queue, dedupe>>
    BY DEF Crash, requests
  <1>4. CASE p \in Homes /\ job[p].pc # "push"
    BY <1>1, <1>3, <1>4, MarksNumbers, HomeMoves DEF Crash, At, Core
  <1>5. CASE ~(p \in Homes /\ job[p].pc # "push")
    <2>1. lost' = lost \cup {u}
      BY <1>2, <1>5 DEF Crash, At
    <2>2. \A w \in Users \ {u} : Queued(w) => Queued(w)'
      BY <1>3 DEF Queued
    <2> QED BY <1>1, <1>2, <1>3, <2>1, <2>2, OthersPromised
  <1> QED BY <1>4, <1>5

\* The steps of a generation, and of a Home request around it.
LEMMA RestPromise ==
    ASSUME Core, Lists, Promise, Core',
           NEW p \in Homes \cup {Worker},
           \/ ReadVersion(p) \/ Generate(p)
           \/ p \in Homes /\ (ReadDone(p) \/ Wait(p) \/ Answer(p) \/ \E u \in Users : Ask(p, u))
           \/ p = Worker /\ GenerateFails
    PROVE  Promise'
  <1>1. p \in Processes
    BY RolesFacts
  <1>2. UNCHANGED <<queue, dedupe, lost, version>>
    BY DEF ReadVersion, Generate, ReadDone, Wait, Answer, Ask, GenerateFails, GenerateVersion, LookupFinds,
       LookupMisses, ReadTaste, Store, Publish, Mark, requests, redis
  <1>3. \A u \in Users : marked[u] <= marked'[u] /\ marked[u] \in Int /\ marked'[u] \in Int /\ version[u] \in Int
    <2>1. CASE Mark(p)
      <3>1. job[p].seen \in Versions /\ marked \in [Users -> Versions] /\ User(p) \in Users
        BY <1>1, <2>1, Working, JobFields DEF Mark, At, Core, Numbers
      <3>2. \A u \in Users : marked[u] <= marked'[u]
        <4>1. PICK w : w = Higher(marked[User(p)], job[p].seen)  OBVIOUS
        <4>2. w \in Versions /\ w >= marked[User(p)]
          BY <3>1, <4>1, HigherFacts
        <4>3. marked' = [marked EXCEPT ![User(p)] = w]
          BY <2>1, <4>1 DEF Mark
        <4> QED BY <3>1, <4>2, <4>3, BoundAssumption DEF Versions
      <3> QED BY <3>2, BoundAssumption DEF Core, Numbers, Versions
    <2>2. CASE UNCHANGED marked
      BY <2>2, MarksNumbers DEF Core
    <2> QED BY <2>1, <2>2 DEF ReadVersion, Generate, ReadDone, Wait, Answer, Ask, GenerateFails, GenerateVersion,
         LookupFinds, LookupMisses, ReadTaste, Store, Publish, redis
  <1>4. job[p].pc \notin {"push", "release"}
    BY DEF ReadVersion, Generate, ReadDone, Wait, Answer, Ask, GenerateFails, GenerateVersion,
         LookupFinds, LookupMisses, ReadTaste, Store, Publish, Mark, At
  <1>5. Moves(p)
    <2>1. job' \in [Processes -> Job] /\ job \in [Processes -> Job]
      BY DEF Core, Numbers
    <2>2. \A q \in Processes \ {p} : job'[q] = job[q]
      <3>1. CASE ReadVersion(p)
        BY <2>1, <3>1 DEF ReadVersion
      <3>2. CASE Generate(p)
        <4>1. CASE GenerateVersion(p)
          BY <2>1, <4>1 DEF GenerateVersion
        <4>2. CASE LookupFinds(p) \/ LookupMisses(p) \/ ReadTaste(p)
          BY <2>1, <4>2 DEF LookupFinds, LookupMisses, ReadTaste, Goto
        <4>3. CASE Store(p) \/ Publish(p)
          BY <2>1, <4>3 DEF Store, Publish
        <4>4. CASE Mark(p)
          BY <2>1, <4>4 DEF Mark, Goto, End
        <4> QED BY <3>2, <4>1, <4>2, <4>3, <4>4 DEF Generate
      <3>3. CASE ReadDone(p) \/ Wait(p) \/ Answer(p)
        BY <2>1, <3>3 DEF ReadDone, Wait, Answer, Goto, End
      <3>4. CASE \E u \in Users : Ask(p, u)
        BY <2>1, <3>4 DEF Ask
      <3>5. CASE p = Worker /\ GenerateFails
        BY <2>1, <3>5 DEF GenerateFails
      <3> QED BY <3>1, <3>2, <3>3, <3>4, <3>5
    <2> QED BY <2>1, <2>2 DEF Moves
  <1>6. CASE p \in Homes
    BY <1>2, <1>3, <1>4, <1>5, <1>6, HomeMoves
  <1>7. CASE p = Worker
    <2>1. p \notin Homes
      BY <1>7, RolesFacts
    <2>2. job'[p].user = job[p].user
      <3>1. job[p] \in Job /\ job \in [Processes -> Job]
        BY <1>1 DEF Core, Numbers
      <3>2. CASE ReadVersion(p)
        BY <1>1, <3>1, <3>2 DEF ReadVersion, Job
      <3>3. CASE Generate(p)
        <4>1. CASE GenerateVersion(p)
          BY <1>1, <3>1, <4>1 DEF GenerateVersion, Job
        <4>2. CASE LookupFinds(p) \/ LookupMisses(p) \/ ReadTaste(p)
          BY <1>1, <3>1, <4>2 DEF LookupFinds, LookupMisses, ReadTaste, Goto, Job
        <4>3. CASE Store(p) \/ Publish(p)
          BY <1>1, <3>1, <4>3 DEF Store, Publish, Job
        <4>4. CASE Mark(p)
          BY <1>1, <2>1, <3>1, <4>4 DEF Mark, Goto, Job
        <4> QED BY <3>3, <4>1, <4>2, <4>3, <4>4 DEF Generate
      <3>4. CASE GenerateFails
        <4>1. PICK u : u = User(p)  OBVIOUS
        <4>2. PICK r : r = [Idle EXCEPT !.pc = "claim", !.user = u]  OBVIOUS
        <4>3. r.user = u
          BY <4>2 DEF Idle
        <4>4. job' = [job EXCEPT ![p] = r]
          BY <1>7, <3>4, <4>1, <4>2 DEF GenerateFails
        <4> QED BY <1>1, <3>1, <4>1, <4>3, <4>4 DEF User
      <3> QED BY <1>7, <2>1, <3>2, <3>3, <3>4
    <2> QED BY <1>2, <1>3, <1>4, <1>5, <1>7, <2>2, WorkerMoves
  <1> QED BY <1>6, <1>7
LEMMA PromiseStep ==
    ASSUME Core, Lists, Promise, Core', [Next]_vars
    PROVE  Promise'
  <1>1. CASE UNCHANGED vars
    <2>1. UNCHANGED <<queue, dedupe, lost, version, marked, job>>
      BY <1>1 DEF vars
    <2> QED BY <2>1 DEF Promise, Backed, Awaits, Backing, Owing, Stale, Queued, At, User
  <1>2. CASE HookNext
    BY <1>2, BumpPromise, EnqueuePromise, InteractPromise, RolesFacts DEF HookNext
  <1>3. CASE HomeNext
    BY <1>3, RestPromise, EnqueuePromise, RolesFacts DEF HomeNext
  <1>4. CASE WorkerNext
    BY <1>4, RestPromise, EnqueuePromise, PopPromise, ReleasePromise, RecheckPromise, RolesFacts DEF WorkerNext
  <1>5. CASE Environment
    <2>1. ASSUME NEW u \in Users, ExpireDedupe(u)
          PROVE  Promise'
      BY <2>1 DEF ExpireDedupe, requests, Promise, Backed, Awaits, Backing, Owing, Stale, Queued, At, User
    <2> QED BY <1>5, <2>1, CrashPromise DEF Environment
  <1> QED BY <1>1, <1>2, <1>3, <1>4, <1>5 DEF Next

-----------------------------------------------------------------------------
(* The theorems.                                                           *)

LEMMA RefreshInit == Init => IInv
  <1> SUFFICES ASSUME Init PROVE IInv
    OBVIOUS
  <1>1. job \in [Processes -> Job] /\ \A p \in Processes : job[p] = Idle
    BY IdleJob DEF Init
  <1>2. Numbers
    <2>1. 0 \in Versions /\ NoMark \in Versions \cup {NoMark} /\ {} \in SUBSET Versions
      BY IdleJob
    <2>2. taste = [u \in Users |-> 0] /\ version = taste /\ pool = taste /\ marked = [u \in Users |-> 0]
          /\ done = [u \in Users |-> NoMark] /\ pooled = [u \in Users |-> {}]
      BY DEF Init
    <2> QED BY <1>1, <2>1, <2>2 DEF Numbers
  <1>3. Counted
    <2>1. ASSUME NEW u \in Users
          PROVE  Bumping(u) = {}
      BY <1>1, IdleJob, RolesFacts DEF Bumping, At
    <2>2. Cardinality({}) = 0
      BY FS_EmptySet
    <2>3. \A u \in Users : version[u] = 0 /\ taste[u] = 0
      BY DEF Init
    <2>4. ASSUME NEW u \in Users
          PROVE  version[u] + Cardinality(Bumping(u)) <= taste[u]
      <3>1. Cardinality(Bumping(u)) = 0
        BY <2>1, <2>2
      <3> QED BY <2>3, <3>1
    <2> QED BY <2>4 DEF Counted
  <1>4. Jobs
    <2>1. ASSUME NEW p \in Processes
          PROVE  RoleOK(p, job[p]) /\ User(p) \notin Users
      BY <1>1, IdleJob, ProcessAssumption DEF RoleOK, StepsOf, User
    <2> QED BY <2>1 DEF Jobs
  <1>5. PoolHonest /\ MarkerHonest
    BY DEF Init, PoolHonest, MarkerHonest, NoMark
  <1>6. Lists /\ DedupeBacked /\ NoLostRefresh
    BY BoundAssumption DEF Init, Lists, DedupeBacked, NoLostRefresh, Stale
  <1> QED BY <1>2, <1>3, <1>4, <1>5, <1>6 DEF IInv, Core

LEMMA RefreshStep == IInv /\ [Next]_vars => IInv'
  <1> SUFFICES ASSUME IInv, [Next]_vars PROVE IInv'
    OBVIOUS
  <1>1. Core /\ Lists /\ Promise
    BY PromiseMeans DEF IInv
  <1>2. Core' /\ Lists'
    BY <1>1, CoreStep, ListsStep
  <1>3. Promise'
    BY <1>1, <1>2, PromiseStep
  <1>4. DedupeBacked' /\ NoLostRefresh'
    BY <1>3, PromiseMeans, PTL
  <1> QED BY <1>2, <1>4 DEF IInv

LEMMA RefreshInvariant == Spec => []IInv
  <1> QED BY RefreshInit, RefreshStep, PTL DEF Spec

\* Every variable keeps its type, a version never passing what its user did.
THEOREM RefreshTyped == Spec => []TypeOK
  <1>1. IInv => TypeOK
    BY IInvMeans
  <1> QED BY <1>1, RefreshInvariant, PTL

\* However generations overlap, fail or hit a cached key: nothing is marked done
\* that no stored pool has seen, and no Home request answers from an older pool
\* than the version it read (run_recommendation_worker, _ensure_personal_recommendations).
THEOREM FreshnessStays == Spec => []FreshnessHonest
  <1>1. IInv => FreshnessHonest
    BY IInvMeans
  <1> QED BY <1>1, RefreshInvariant, PTL

\* However receivers, Home requests and the worker overlap: a user whose version
\* is ahead of what was marked has a job queued or under way, or lost one with a
\* call or a process (enqueue_personal_recommendation_refresh).
THEOREM WakeUpsKept == Spec => []NoLostRefresh
  <1>1. IInv => NoLostRefresh
    BY IInvMeans
  <1> QED BY <1>1, RefreshInvariant, PTL
=============================================================================
