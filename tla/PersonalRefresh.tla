--------------------------- MODULE PersonalRefresh ---------------------------
(***************************************************************************)
(* The refresh of personal recommendations.  An interaction commits, bumps *)
(* the user's affinity version and queues a job behind a deduplication     *)
(* key; the worker pops jobs and generates; a Home request answers from    *)
(* the stored pool when the done marker has reached the version it read,   *)
(* and generates by itself otherwise.  Every call to Redis or PostgreSQL   *)
(* is an action.  The k-th interaction of a user is abstracted to k: what  *)
(* a pool was generated from is the number of interactions it has seen.    *)
(***************************************************************************)
EXTENDS Integers, Sequences, FiniteSets

CONSTANTS
    Users, NoUser,
    Hooks,        \* commit callbacks that may be under way at once
    Homes,        \* Home requests that may be under way at once
    Worker,       \* the recommendation worker
    MaxTaste,     \* interactions of a user (a bound)
    MaxFaults     \* faults of a behaviour (a bound)

Processes == Hooks \cup Homes \cup {Worker}

ASSUME ProcessAssumption ==
    /\ IsFiniteSet(Hooks) /\ NoUser \notin Users
    /\ Hooks \cap Homes = {} /\ Worker \notin Hooks \cup Homes
ASSUME BoundAssumption == MaxTaste \in Nat /\ MaxFaults \in Nat

VARIABLES
    taste,     \* Users -> interactions committed
    version,   \* Users -> the affinity version in the cache
    done,      \* Users -> the done marker, NoMark when absent
    queue,     \* the list of user ids, its head the next to pop
    dedupe,    \* users whose deduplication key is present
    pool,      \* Users -> interactions the newest stored generation has seen
    pooled,    \* Users -> versions whose generation key was cached
    job,       \* Processes -> the handler under way
    marked,    \* Users -> the highest version ever marked done
    lost,      \* users with a refresh lost since one was last pushed
    faults

vars == <<taste, version, done, queue, dedupe, pool, pooled, job, marked, lost, faults>>
requests == <<taste, version>>
redis == <<done, queue, dedupe, marked, lost>>
generations == <<pool, pooled>>

NoMark == -1
Versions == 0..MaxTaste
Steps == {"idle", "bump", "claim", "push", "version", "done", "wait", "answered",
          "release", "target", "generate", "lookup", "read", "store", "publish", "mark", "recheck"}

\* ids: recent rows were found; next: where the handler goes on after queueing;
\* seen: the version it answers for; own: the version its generation read; cut:
\* that read failed and the circuit breaker answers for the cache.
Job == [pc : Steps, user : Users \cup {NoUser}, ids : BOOLEAN,
        next : {"idle", "answered", "wait", "generate"},
        seen : Versions, own : Versions, cut : BOOLEAN, taste : Versions]
Idle == [pc |-> "idle", user |-> NoUser, ids |-> FALSE, next |-> "idle", seen |-> 0, own |-> 0, cut |-> FALSE, taste |-> 0]

At(p, pc) == job[p].pc = pc
User(p) == job[p].user
Goto(p, pc) == job' = [job EXCEPT ![p].pc = pc]
End(p) == job' = [job EXCEPT ![p] = Idle]
Fault == faults < MaxFaults /\ faults' = faults + 1
NoFault == UNCHANGED faults
Queued(u) == \E i \in DOMAIN queue : queue[i] = u
Higher(a, b) == IF a > b THEN a ELSE b

\* Where enqueue_personal_recommendation_refresh returns to.
Return(p) == IF job[p].next = "idle" THEN End(p)
             ELSE job' = [job EXCEPT ![p].pc = job[p].next, ![p].next = "idle"]

-----------------------------------------------------------------------------
(* The signal handlers: an interaction commits, its callback bumps and queues. *)
Interact(h, u) ==
    /\ At(h, "idle") /\ taste[u] < MaxTaste
    /\ taste' = [taste EXCEPT ![u] = @ + 1]
    /\ job' = [job EXCEPT ![h] = [Idle EXCEPT !.pc = "bump", !.user = u]]
    /\ UNCHANGED <<version, redis, generations, faults>>

\* Mutant: the receiver is connected twice.
BumpTwice(h) ==
    /\ At(h, "bump")
    /\ version' = [version EXCEPT ![User(h)] = @ + 2] /\ NoFault
    /\ Goto(h, "claim")
    /\ UNCHANGED <<taste, redis, generations>>

\* An increment that Redis refuses is swallowed.
Bump(h) ==
    /\ At(h, "bump")
    /\ \/ version' = [version EXCEPT ![User(h)] = @ + 1] /\ NoFault
       \/ UNCHANGED version /\ Fault
    /\ Goto(h, "claim")
    /\ UNCHANGED <<taste, redis, generations>>

(* enqueue_personal_recommendation_refresh: SET NX, then LPUSH. *)
Claim(p) ==
    /\ At(p, "claim")
    /\ IF User(p) \in dedupe THEN Return(p) /\ UNCHANGED dedupe
                             ELSE Goto(p, "push") /\ dedupe' = dedupe \cup {User(p)}
    /\ NoFault
    /\ UNCHANGED <<requests, done, queue, marked, lost, generations>>

\* The answer to the first SET is lost; the one sent again is refused.
ClaimResent(p) ==
    /\ At(p, "claim") /\ User(p) \notin dedupe
    /\ dedupe' = dedupe \cup {User(p)}
    /\ lost' = lost \cup {User(p)}
    /\ Return(p) /\ Fault
    /\ UNCHANGED <<requests, done, queue, marked, generations>>

Push(p) ==
    /\ At(p, "push")
    /\ queue' = Append(queue, User(p))
    /\ lost' = lost \ {User(p)}
    /\ Return(p) /\ NoFault
    /\ UNCHANGED <<requests, done, dedupe, marked, generations>>

\* The push fails and the key is deleted, if that call does not fail as well.
PushFails(p) ==
    /\ At(p, "push")
    /\ dedupe' \in {dedupe, dedupe \ {User(p)}}
    /\ lost' = lost \cup {User(p)}
    /\ Return(p) /\ Fault
    /\ UNCHANGED <<requests, done, queue, marked, generations>>

ExpireDedupe(u) ==
    /\ u \in dedupe
    /\ dedupe' = dedupe \ {u}
    /\ Fault
    /\ UNCHANGED <<requests, done, queue, marked, lost, generations, job>>

-----------------------------------------------------------------------------
(* _ensure_personal_recommendations, of a Home request.  Of what was stored,    *)
(* rows older than twenty minutes are not found.                               *)
Ask(h, u) ==
    /\ At(h, "idle")
    /\ \E found \in {FALSE, pool[u] > 0} :
        job' = [job EXCEPT ![h] = [Idle EXCEPT !.pc = "version", !.user = u, !.ids = found]]
    /\ UNCHANGED <<requests, redis, generations, faults>>

\* user_affinity_version, of a Home request or of the worker: 0 when the cache fails.
ReadVersion(p) ==
    /\ At(p, "version") \/ At(p, "target")
    /\ \/ job' = [job EXCEPT ![p].seen = version[User(p)],
                             ![p].pc = IF p \in Homes THEN "done" ELSE "generate"]
          /\ NoFault
       \/ job' = [job EXCEPT ![p].seen = 0, ![p].pc = IF p \in Homes THEN "done" ELSE "generate"]
          /\ Fault
    /\ UNCHANGED <<requests, redis, generations>>

\* The marker has reached the version this request answers for.
Reached(mark, seen) == mark # NoMark /\ mark >= seen

ReadDone(h) ==
    /\ At(h, "done")
    /\ job' = [job EXCEPT ![h].pc = "claim", ![h].ids = FALSE, ![h].next =
                  CASE ~job[h].ids -> "generate"
                    [] Reached(done[User(h)], job[h].seen) -> "answered"
                    [] OTHER -> "wait"]
    /\ UNCHANGED <<requests, redis, generations, faults>>

\* The bounded wait for the worker, which ends with an answer or in a generation.
Wait(h) ==
    /\ At(h, "wait")
    /\ \/ Reached(done[User(h)], job[h].seen) /\ Goto(h, "answered")
       \/ Goto(h, "generate")
    /\ UNCHANGED <<requests, redis, generations, faults>>

Answer(h) ==
    /\ At(h, "answered") /\ End(h)
    /\ UNCHANGED <<requests, redis, generations, faults>>

-----------------------------------------------------------------------------
(* _generate_personal_recommendations, of a Home request or of the worker. *)
GenerateVersion(p) ==
    /\ At(p, "generate")
    /\ \/ job' = [job EXCEPT ![p].own = version[User(p)], ![p].cut = FALSE, ![p].pc = "lookup"]
          /\ NoFault
       \/ job' = [job EXCEPT ![p].own = 0, ![p].cut = TRUE, ![p].pc = "lookup"] /\ Fault
    /\ UNCHANGED <<requests, redis, generations>>

\* cache_get_or_claim; a claim only delays, as the wait for it is bounded.  A key
\* that was cached may have expired.
LookupFinds(p) ==
    /\ At(p, "lookup") /\ ~job[p].cut /\ job[p].own \in pooled[User(p)]
    /\ job' = [job EXCEPT ![p].own = 0, ![p].pc = "mark"]
    /\ UNCHANGED <<requests, redis, generations, faults>>

LookupMisses(p) ==
    /\ At(p, "lookup") /\ Goto(p, "read")
    /\ UNCHANGED <<requests, redis, generations, faults>>

ReadTaste(p) ==
    /\ At(p, "read")
    /\ job' = [job EXCEPT ![p].taste = taste[User(p)], ![p].pc = "store"]
    /\ UNCHANGED <<requests, redis, generations, faults>>

Store(p) ==
    /\ At(p, "store")
    /\ pool' = [pool EXCEPT ![User(p)] = Higher(@, job[p].taste)]
    /\ job' = [job EXCEPT ![p].taste = 0, ![p].pc = "publish"]
    /\ UNCHANGED <<requests, redis, pooled, faults>>

Publish(p) ==
    /\ At(p, "publish")
    /\ pooled' = IF job[p].cut THEN pooled ELSE [pooled EXCEPT ![User(p)] = @ \cup {job[p].own}]
    /\ job' = [job EXCEPT ![p].own = 0, ![p].cut = FALSE, ![p].pc = "mark"]
    /\ UNCHANGED <<requests, redis, pool, faults>>

\* Mutant: the version marked is read after the generation.
MarkCurrent(p) ==
    /\ At(p, "mark")
    /\ done' = [done EXCEPT ![User(p)] = version[User(p)]]
    /\ marked' = [marked EXCEPT ![User(p)] = Higher(@, version[User(p)])]
    /\ IF p \in Homes THEN End(p) ELSE Goto(p, "recheck")
    /\ UNCHANGED <<requests, queue, dedupe, lost, generations, faults>>

\* mark_personal_recommendation_refresh
Mark(p) ==
    /\ At(p, "mark")
    /\ done' = [done EXCEPT ![User(p)] = job[p].seen]
    /\ marked' = [marked EXCEPT ![User(p)] = Higher(@, job[p].seen)]
    /\ IF p \in Homes THEN End(p) ELSE Goto(p, "recheck")
    /\ UNCHANGED <<requests, queue, dedupe, lost, generations, faults>>

-----------------------------------------------------------------------------
(* The worker. *)
Pop ==
    /\ At(Worker, "idle") /\ queue # <<>>
    /\ queue' = Tail(queue)
    /\ \/ job' = [job EXCEPT ![Worker] = [Idle EXCEPT !.pc = "release", !.user = Head(queue)]]
          /\ UNCHANGED lost /\ NoFault
       \/ UNCHANGED job /\ lost' = lost \cup {Head(queue)} /\ Fault   \* the answer is lost
    /\ UNCHANGED <<requests, done, dedupe, marked, generations>>

\* Mutant: the key is kept until it expires.
ReleaseNothing ==
    /\ At(Worker, "release")
    /\ Goto(Worker, "target")
    /\ UNCHANGED <<requests, redis, generations, faults>>

\* The key is deleted before the version is read: a later bump can queue again.
Release ==
    /\ At(Worker, "release")
    /\ dedupe' = dedupe \ {User(Worker)}
    /\ Goto(Worker, "target")
    /\ UNCHANGED <<requests, done, queue, marked, lost, generations, faults>>

\* Mutant: the worker only logs the exception.
GenerateGivesUp ==
    /\ job[Worker].pc \in {"generate", "lookup", "read", "store", "publish"}
    /\ End(Worker) /\ Fault
    /\ UNCHANGED <<requests, redis, generations>>

\* An exception of the generation: the job is queued once more.
GenerateFails ==
    /\ job[Worker].pc \in {"generate", "lookup", "read", "store", "publish"}
    /\ job' = [job EXCEPT ![Worker] = [Idle EXCEPT !.pc = "claim", !.user = User(Worker)]] /\ Fault
    /\ UNCHANGED <<requests, redis, generations>>

Recheck ==
    /\ At(Worker, "recheck")
    /\ IF version[User(Worker)] > job[Worker].seen THEN Goto(Worker, "claim") ELSE End(Worker)
    /\ UNCHANGED <<requests, redis, generations, faults>>

\* A process ends between two calls and starts again.
Crash(p) ==
    /\ ~At(p, "idle")
    /\ lost' = IF p \in Homes /\ ~At(p, "push") THEN lost ELSE lost \cup {User(p)}
    /\ End(p) /\ Fault
    /\ UNCHANGED <<requests, done, queue, dedupe, marked, generations>>

-----------------------------------------------------------------------------
Init ==
    /\ taste = [u \in Users |-> 0] /\ version = taste /\ pool = taste
    /\ done = [u \in Users |-> NoMark] /\ marked = [u \in Users |-> 0]
    /\ queue = <<>> /\ dedupe = {} /\ lost = {} /\ faults = 0
    /\ pooled = [u \in Users |-> {}]
    /\ job = [p \in Processes |-> Idle]

Enqueue(p) == Claim(p) \/ ClaimResent(p) \/ Push(p) \/ PushFails(p)
Generate(p) == GenerateVersion(p) \/ LookupFinds(p) \/ LookupMisses(p) \/ ReadTaste(p) \/ Store(p) \/ Publish(p) \/ Mark(p)
HookNext == \E h \in Hooks : Bump(h) \/ Enqueue(h) \/ (\E u \in Users : Interact(h, u))
HomeNext == \E h \in Homes :
    \/ ReadVersion(h) \/ ReadDone(h) \/ Enqueue(h) \/ Wait(h) \/ Generate(h) \/ Answer(h)
    \/ \E u \in Users : Ask(h, u)
WorkerNext == Pop \/ Release \/ ReadVersion(Worker) \/ Generate(Worker) \/ GenerateFails \/ Recheck
              \/ Enqueue(Worker)
Environment ==
    \/ \E u \in Users : ExpireDedupe(u)
    \/ \E p \in Processes : Crash(p)

Next == HookNext \/ HomeNext \/ WorkerNext \/ Environment
Spec == Init /\ [][Next]_vars

\* The worker keeps running, and a callback that has begun goes on.
Fairness == /\ WF_vars(WorkerNext)
            /\ \A h \in Hooks : WF_vars(Bump(h) \/ Enqueue(h))
            /\ \A h \in Homes : WF_vars(Enqueue(h))
FairSpec == Spec /\ Fairness

-----------------------------------------------------------------------------
\* Every variable keeps its type.
TypeOK ==
    /\ taste \in [Users -> Versions] /\ version \in [Users -> Versions]
    /\ done \in [Users -> Versions \cup {NoMark}] /\ marked \in [Users -> Versions]
    /\ queue \in Seq(Users) /\ dedupe \subseteq Users /\ lost \subseteq Users
    /\ pool \in [Users -> Versions] /\ pooled \in [Users -> SUBSET Versions]
    /\ job \in [Processes -> Job] /\ faults \in 0..MaxFaults

\* The done marker never claims more than was generated: whatever generations of
\* Home requests and of the worker overlap, fail or hit the generation key, a pool
\* that has seen every interaction the marked version counts has been stored
\* (run_recommendation_worker captures the version first, "we never mark that
\* newer version complete by accident").
MarkerHonest == \A u \in Users : done[u] <= pool[u]

\* A Home request that answers without generating answers from a pool that has
\* seen every interaction counted by the version it read (the docstring of
\* _ensure_personal_recommendations: freshness never intentionally regresses).
AnswerFromFresh == \A h \in Homes : At(h, "answered") => pool[User(h)] >= job[h].seen

\* What is claimed and what is answered is as fresh as it is said to be.
FreshnessHonest == MarkerHonest /\ AnswerFromFresh

Stale(u) == version[u] > marked[u]
Owed(u) ==
    \/ Queued(u)
    \/ \E p \in Processes : User(p) = u /\ job[p].pc \in {"bump", "push"}
    \/ \E h \in Hooks : User(h) = u /\ At(h, "claim")
    \/ User(Worker) = u

\* No wake-up is lost: a bump that found the deduplication key taken is served by
\* the job that key stands for, which reads the version after deleting the key.
\* Only a lost call or a crash leaves a stale user without a job.
NoLostRefresh == \A u \in Users : Stale(u) /\ u \notin lost => Owed(u)

\* A stale user is refreshed, or a call or a process was lost on the way.
Refreshed == \A u \in Users : Stale(u) ~> (~Stale(u) \/ u \in lost)

=============================================================================
