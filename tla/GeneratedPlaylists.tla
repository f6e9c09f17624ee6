------------------------- MODULE GeneratedPlaylists -------------------------
(***************************************************************************)
(* Generated playlists and their clean-up.  Lists show unexpired rows and  *)
(* stamp their use in Redis; a detail view, a like or a save makes a row   *)
(* durable, creating it first when the mix was only in memory; a generator *)
(* rewrites the rows it found not durable; the clean-up scans for expired  *)
(* rows without a durable use, drops those with a recent stamp, looks      *)
(* again and deletes by key.  One account makes the requests.              *)
(***************************************************************************)
EXTENDS Integers, FiniteSets

CONSTANTS
    Mixes,        \* unique ids of playlists
    NoMix,
    Requests,     \* requests under way at once
    Cleaners,     \* clean-up passes under way at once
    MaxKeys,      \* rows a mix may get, one after the other (a bound)
    MaxPasses,    \* clean-up passes (a bound)
    MaxFaults     \* lost calls and expired locks of a behaviour (a bound)

VARIABLES
    personal,   \* the mixes a generation writes; the others exist in memory first
    mix,        \* Mixes -> its row
    stamp,      \* Mixes -> the stamp of its row in the usage set
    request,    \* Requests -> the handler under way
    generator,  \* the generation under way: the rows it may rewrite, those it creates
    lock,       \* the clean-up lock: the cleaner that holds it
    cleaner,    \* Cleaners -> the pass under way
    used,       \* rows opened once, or kept and not rewritten by a generation since
    passes, faults

vars == <<personal, mix, stamp, request, generator, lock, cleaner, used, passes, faults>>

NoCleaner == "none"
Keys == 1..MaxKeys
\* Row k of mix m.
Refs == Mixes \X Keys

Row == [key : 0..MaxKeys, live : BOOLEAN, expired : BOOLEAN,
        kept : BOOLEAN, views : BOOLEAN, liked : BOOLEAN, saved : BOOLEAN, viewed : BOOLEAN]
NoRow == [key |-> 0, live |-> FALSE, expired |-> FALSE,
          kept |-> FALSE, views |-> FALSE, liked |-> FALSE, saved |-> FALSE, viewed |-> FALSE]
NewRow(m) == [NoRow EXCEPT !.key = mix[m].key + 1, !.live = TRUE]

Request == [pc : {"idle", "show", "get", "open", "viewer", "keep", "stamp", "toggle", "add", "remove", "renew"},
            kind : {"none", "show", "detail", "like", "save"}, mix : Mixes \cup {NoMix}, key : 0..MaxKeys]
Idle == [pc |-> "idle", kind |-> "none", mix |-> NoMix, key |-> 0]

\* blind: it got no scores; protected: stamped rows when it began; found, victims: its lists;
\* safe: rows so used when it looked again.
Cleaner == [pc : {"idle", "scan", "score", "look", "delete", "forget", "unlock"},
            blind : BOOLEAN, protected : SUBSET Refs, found : SUBSET Refs, victims : SUBSET Refs, safe : SUBSET Refs]
NoPass == [pc |-> "idle", blind |-> FALSE, protected |-> {}, found |-> {}, victims |-> {}, safe |-> {}]

Durable(m) == mix[m].kept \/ mix[m].views \/ mix[m].liked \/ mix[m].saved \/ mix[m].viewed
Ref(m) == <<m, mix[m].key>>
At(p, pc) == request[p].pc = pc
Mix(p) == request[p].mix
\* The row a request works on still exists.
Present(p) == mix[Mix(p)].live /\ mix[Mix(p)].key = request[p].key
Goto(p, pc) == request' = [request EXCEPT ![p].pc = pc]
End(p) == request' = [request EXCEPT ![p] = Idle]
Fault == faults < MaxFaults /\ faults' = faults + 1
NoFault == UNCHANGED faults
rest == <<personal, generator, lock, cleaner, passes>>

-----------------------------------------------------------------------------
(* A list answers with unexpired rows and then stamps them. *)
Shown(m) == mix[m].live /\ (~mix[m].expired \/ mix[m].kept)

Show(p, m) ==
    /\ At(p, "idle") /\ Shown(m)
    /\ request' = [request EXCEPT ![p] = [pc |-> "stamp", kind |-> "show", mix |-> m, key |-> mix[m].key]]
    /\ UNCHANGED <<mix, stamp, used, rest, faults>>

\* Where a request goes once it has its row.
FirstStep(kind, m) ==
    IF kind = "detail" THEN "open" ELSE IF mix[m].kept THEN "stamp" ELSE "keep"

Get(p, kind, m) ==
    /\ At(p, "idle") /\ kind \in {"detail", "like", "save"} /\ mix[m].live
    /\ request' = [request EXCEPT ![p] = [pc |-> FirstStep(kind, m), kind |-> kind, mix |-> m, key |-> mix[m].key]]
    /\ UNCHANGED <<mix, stamp, used, rest, faults>>

\* The mix is only in memory: get_or_create under a transaction.
Materialize(p, kind, m) ==
    /\ At(p, "idle") /\ m \notin personal /\ kind \in {"detail", "like"} /\ ~mix[m].live /\ mix[m].key < MaxKeys
    /\ mix' = [mix EXCEPT ![m] = NewRow(m)]
    /\ request' = [request EXCEPT ![p] = [pc |-> IF kind = "detail" THEN "open" ELSE "stamp",
                                          kind |-> kind, mix |-> m, key |-> mix[m].key + 1]]
    /\ stamp' = [stamp EXCEPT ![m] = "none"]
    /\ UNCHANGED <<used, rest, faults>>

\* An update by key, which touches nothing when the row is gone.
Touch(p, row) ==
    IF Present(p) THEN /\ mix' = [mix EXCEPT ![Mix(p)] = row]
                       /\ used' = used \cup {Ref(Mix(p))}
                  ELSE UNCHANGED <<mix, used>>

Open(p) ==
    /\ At(p, "open")
    /\ Touch(p, [mix[Mix(p)] EXCEPT !.views = TRUE, !.kept = TRUE])
    /\ Goto(p, "viewer")
    /\ UNCHANGED <<stamp, rest, faults>>

\* viewed_by.add: a row that is gone fails the request.
AddViewer(p) ==
    /\ At(p, "viewer")
    /\ IF Present(p) THEN Touch(p, [mix[Mix(p)] EXCEPT !.viewed = TRUE]) /\ Goto(p, "stamp")
                     ELSE UNCHANGED <<mix, used>> /\ End(p)
    /\ UNCHANGED <<stamp, rest, faults>>

Keep(p) ==
    /\ At(p, "keep")
    /\ Touch(p, [mix[Mix(p)] EXCEPT !.kept = TRUE])
    /\ Goto(p, "stamp")
    /\ UNCHANGED <<stamp, rest, faults>>

(* mark_generated_playlist_usage: a call that fails is swallowed. *)
Stamp(p) ==
    /\ At(p, "stamp")
    /\ \/ stamp' = [stamp EXCEPT ![Mix(p)] = IF mix[Mix(p)].key = request[p].key THEN "recent" ELSE @] /\ NoFault
       \/ UNCHANGED stamp /\ Fault
    /\ IF request[p].kind \in {"like", "save"} THEN Goto(p, "toggle") ELSE End(p)
    /\ UNCHANGED <<mix, used, rest>>

\* The like or the save is looked up, unless the client names the state it wants.
Toggle(p) ==
    /\ At(p, "toggle")
    /\ LET on == Present(p) /\ IF request[p].kind = "like" THEN mix[Mix(p)].liked ELSE mix[Mix(p)].saved
       IN  \/ Goto(p, IF on THEN "remove" ELSE "add")
           \/ request[p].kind = "like" /\ End(p)
    /\ UNCHANGED <<mix, stamp, used, rest, faults>>

Set(p, on) == IF request[p].kind = "like" THEN [mix[Mix(p)] EXCEPT !.liked = on]
                                          ELSE [mix[Mix(p)] EXCEPT !.saved = on]
Add(p) ==
    /\ At(p, "add")
    /\ mix' = IF Present(p) THEN [mix EXCEPT ![Mix(p)] = Set(p, TRUE)] ELSE mix
    /\ IF Present(p) /\ request[p].kind = "like" THEN Goto(p, "renew") ELSE End(p)
    /\ UNCHANGED <<stamp, used, rest, faults>>

Renew(p) ==
    /\ At(p, "renew")
    /\ Touch(p, [mix[Mix(p)] EXCEPT !.kept = TRUE, !.expired = FALSE])
    /\ End(p)
    /\ UNCHANGED <<stamp, rest, faults>>

Remove(p) ==
    /\ At(p, "remove")
    /\ mix' = IF Present(p) THEN [mix EXCEPT ![Mix(p)] = Set(p, FALSE)] ELSE mix
    /\ End(p)
    /\ UNCHANGED <<stamp, used, rest, faults>>

-----------------------------------------------------------------------------
(* A generation reads which of the rows of its unique ids are durable, then   *)
(* rewrites or creates the others: columns, song links and a new expiry.      *)
NoGeneration == [pc |-> "idle", rows |-> {}, absent |-> {}]

GenerateRead ==
    /\ generator.pc = "idle" /\ personal # {}
    /\ generator' = [pc |-> "write", rows |-> {Ref(m) : m \in {n \in personal : mix[n].live /\ ~Durable(n)}},
                     absent |-> {m \in personal : ~mix[m].live}]
    /\ UNCHANGED <<personal, mix, stamp, request, lock, cleaner, used, passes, faults>>

Rewritten(m) ==
    IF mix[m].live /\ Ref(m) \in generator.rows THEN [mix[m] EXCEPT !.expired = FALSE, !.kept = FALSE]
    ELSE IF m \in generator.absent /\ ~mix[m].live /\ mix[m].key < MaxKeys THEN NewRow(m) ELSE mix[m]

Overwritten == {ref \in generator.rows : mix[ref[1]].live /\ Ref(ref[1]) = ref /\ ~mix[ref[1]].views}

GenerateWrite ==
    /\ generator.pc = "write"
    /\ used' = used \ Overwritten
    /\ mix' = [m \in Mixes |-> IF m \in personal THEN Rewritten(m) ELSE mix[m]]
    /\ stamp' = [m \in Mixes |-> IF mix'[m].key = mix[m].key THEN stamp[m] ELSE "none"]
    /\ generator' = NoGeneration
    /\ UNCHANGED <<personal, request, lock, cleaner, passes, faults>>

\* Two hours pass since the row was written, far longer than a request or a pass
\* lasts: the row expires, and stamps as old as the row no longer count.  A list
\* that answered in the last hour is one that stamps after this step.
Expire(m) ==
    /\ mix[m].live /\ ~mix[m].expired
    /\ generator.pc = "idle" /\ \A c \in Cleaners : cleaner[c].pc = "idle"
    /\ \A p \in Requests : request[p].kind \in {"none", "show"}
    /\ mix' = [mix EXCEPT ![m].expired = TRUE]
    /\ stamp' = [stamp EXCEPT ![m] = "none"]
    /\ UNCHANGED <<request, used, rest, faults>>

\* An hour passes: a stamp is too old to count.
AgeStamp(m) ==
    /\ stamp[m] = "recent"
    /\ stamp' = [stamp EXCEPT ![m] = "none"]
    /\ cleaner' = [c \in Cleaners |-> [cleaner[c] EXCEPT !.protected = @ \ {Ref(m)}]]
    /\ UNCHANGED <<personal, mix, request, generator, lock, used, passes, faults>>

-----------------------------------------------------------------------------
(* cleanup_unused_generated_playlists.                                        *)
CAt(c, pc) == cleaner[c].pc = pc
cleanerOnly == <<personal, mix, stamp, request, generator, lock, used, passes>>

Begin(c) ==
    /\ CAt(c, "idle") /\ lock = NoCleaner /\ passes < MaxPasses
    /\ lock' = c /\ passes' = passes + 1
    /\ cleaner' = [cleaner EXCEPT ![c] = [NoPass EXCEPT !.pc = "scan",
                       !.protected = {Ref(m) : m \in {n \in Mixes : stamp[n] = "recent"}}]]
    /\ UNCHANGED <<personal, mix, stamp, request, generator, used, faults>>

LockExpires ==
    /\ lock # NoCleaner /\ Fault
    /\ lock' = NoCleaner
    /\ UNCHANGED <<personal, mix, stamp, request, generator, cleaner, used, passes>>

Disposable(m) == mix[m].live /\ mix[m].expired /\ ~Durable(m)
Candidates == {Ref(m) : m \in {n \in Mixes : Disposable(n)}}

\* Where a pass goes on with a list: an empty one ends it.
Continue(c, pc, refs) ==
    cleaner' = [cleaner EXCEPT ![c].pc = IF refs = {} THEN "unlock" ELSE pc, ![c].found = refs]

Scan(c) ==
    /\ CAt(c, "scan")
    /\ Continue(c, "score", Candidates)
    /\ UNCHANGED cleanerOnly /\ NoFault

Stamped(ref) == stamp[ref[1]] = "recent" /\ Ref(ref[1]) = ref

Score(c) ==
    /\ CAt(c, "score")
    /\ Continue(c, "look", {ref \in cleaner[c].found : ~Stamped(ref)})
    /\ UNCHANGED cleanerOnly /\ NoFault

\* Redis fails now: no row has a score.
ScoreLost(c) ==
    /\ CAt(c, "score") /\ Fault
    /\ cleaner' = [cleaner EXCEPT ![c].pc = "look", ![c].blind = TRUE]
    /\ UNCHANGED cleanerOnly

\* Mutant: what the scan found is deleted.
StillFound(c) == cleaner[c].found
\* The deleting query filters again.
Still(c) == cleaner[c].found \cap Candidates

Look(c) ==
    /\ CAt(c, "look")
    /\ cleaner' = [cleaner EXCEPT ![c].pc = "delete", ![c].victims = Still(c), ![c].safe = used]
    /\ UNCHANGED cleanerOnly /\ NoFault

Delete(c) ==
    /\ CAt(c, "delete")
    /\ mix' = [m \in Mixes |-> IF mix[m].live /\ Ref(m) \in cleaner[c].victims THEN [NoRow EXCEPT !.key = mix[m].key] ELSE mix[m]]
    /\ cleaner' = [cleaner EXCEPT ![c].pc = "forget", ![c].victims = {}, ![c].safe = {}]
    /\ UNCHANGED <<personal, stamp, request, generator, lock, used, passes, faults>>

\* A like, a save or a view committed meanwhile fails the deletion at its commit.
DeleteFails(c) ==
    /\ CAt(c, "delete")
    /\ \E m \in Mixes : Ref(m) \in cleaner[c].victims /\ (mix[m].liked \/ mix[m].saved \/ mix[m].viewed)
    /\ cleaner' = [cleaner EXCEPT ![c] = [NoPass EXCEPT !.pc = "unlock"]]
    /\ UNCHANGED cleanerOnly /\ NoFault

Forget(c) ==
    /\ CAt(c, "forget")
    /\ stamp' = [m \in Mixes |-> IF Ref(m) \in cleaner[c].found THEN "none" ELSE stamp[m]]
    /\ cleaner' = [cleaner EXCEPT ![c] = [NoPass EXCEPT !.pc = "unlock"]]
    /\ UNCHANGED <<personal, mix, request, generator, lock, used, passes, faults>>

\* The lock is deleted if it holds the pass's token; it may change hands in between.
Unlock(c) ==
    /\ CAt(c, "unlock")
    /\ \/ lock' = (IF lock = c THEN NoCleaner ELSE lock) /\ NoFault
       \/ lock' = NoCleaner /\ Fault
    /\ cleaner' = [cleaner EXCEPT ![c] = NoPass]
    /\ UNCHANGED <<personal, mix, stamp, request, generator, used, passes>>

-----------------------------------------------------------------------------
Init ==
    /\ personal \in {{}, Mixes}
    /\ mix = [m \in Mixes |-> NoRow]
    /\ stamp = [m \in Mixes |-> "none"]
    /\ request = [p \in Requests |-> Idle]
    /\ generator = NoGeneration
    /\ lock = NoCleaner
    /\ cleaner = [c \in Cleaners |-> NoPass]
    /\ used = {} /\ passes = 0 /\ faults = 0

RequestNext(p) ==
    \/ \E m \in Mixes : Show(p, m)
    \/ \E m \in Mixes, kind \in {"detail", "like", "save"} : Get(p, kind, m) \/ Materialize(p, kind, m)
    \/ Open(p) \/ AddViewer(p) \/ Keep(p) \/ Stamp(p) \/ Toggle(p) \/ Add(p) \/ Renew(p) \/ Remove(p)

CleanerNext(c) ==
    \/ Begin(c) \/ Scan(c) \/ Score(c) \/ ScoreLost(c) \/ Look(c) \/ Delete(c) \/ DeleteFails(c)
    \/ Forget(c) \/ Unlock(c)

Next ==
    \/ \E p \in Requests : RequestNext(p)
    \/ GenerateRead \/ GenerateWrite
    \/ \E m \in Mixes : Expire(m) \/ AgeStamp(m)
    \/ \E c \in Cleaners : CleanerNext(c)
    \/ LockExpires

Spec == Init /\ [][Next]_vars

-----------------------------------------------------------------------------
(* Every variable keeps its type. *)
TypeOK ==
    /\ personal \subseteq Mixes
    /\ mix \in [Mixes -> Row]
    /\ stamp \in [Mixes -> {"none", "recent"}]
    /\ request \in [Requests -> Request]
    /\ generator \in [pc : {"idle", "write"}, rows : SUBSET Refs, absent : SUBSET Mixes]
    /\ lock \in Cleaners \cup {NoCleaner}
    /\ cleaner \in [Cleaners -> Cleaner]
    /\ used \subseteq Refs /\ passes \in 0..MaxPasses /\ faults \in 0..MaxFaults

(* A pass that could read the stamps never deletes a row stamped as used     *)
(* before it began and within the hour (recommendation_runtime.py:369), also  *)
(* when another pass overlaps it and removes stamps.                          *)
StampedKept == \A c \in Cleaners : cleaner[c].blind \/ cleaner[c].victims \cap cleaner[c].protected = {}

(* A row that was ever opened, and one that was kept since the last           *)
(* generation that rewrote it, is not deleted by a pass that looks after it    *)
(* (recommendation_runtime.py:374): also when the like or the save was undone. *)
UsedKept == \A c \in Cleaners : cleaner[c].victims \cap cleaner[c].safe = {}
=============================================================================
