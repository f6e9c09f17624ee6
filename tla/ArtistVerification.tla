------------------------- MODULE ArtistVerification -------------------------
(***************************************************************************)
(* The submissions by which users ask to be artists, the decisions of the  *)
(* administration about them, and the artist profile an accepted one gets. *)
(* Submissions and profiles are saved whole, as they were read before the  *)
(* uploads; the profile is linked in a callback after the commit, under    *)
(* locks, by a function that may run again and that nothing repeats.       *)
(***************************************************************************)
EXTENDS Naturals

CONSTANTS
    Users, NoUser,
    Profiles, NoProfile,
    Requests,    \* requests under way at once
    MaxRows,     \* submissions of a user, one after the other (a bound)
    MaxEdits,    \* edits and decisions of a behaviour (a bound)
    MaxFaults    \* processes that stop before their callback (a bound)

VARIABLES
    submission,  \* Users -> the row [no, status, type, claim], status "none" if there is none
    rows,        \* Users -> the number of the last row inserted, which no other gets
    profile,     \* Profiles -> [state, owner]
    request,     \* Requests -> the handler under way
    decision,    \* Users -> what was decided last about the submission
    undone,      \* users whose decision a copy read before it has overwritten
    excused,     \* users whose link failed, was lost, or was changed by an administrator
    edits, faults

vars == <<submission, rows, profile, request, decision, undone, excused, edits, faults>>

Statuses == {"pending", "accepted", "rejected"}
Keep == "keep"
Submission == [no : 0..MaxRows, status : Statuses \cup {"none"}, type : {"fresh", "existing"},
               claim : Profiles \cup {NoProfile}]
NoSubmission == [no |-> 0, status |-> "none", type |-> "fresh", claim |-> NoProfile]

\* copy: the row that will be saved; sent: the decision; stale: another was saved since it was read.
Request ==
    [pc : {"idle", "create", "edit", "check", "decide", "provision", "profile"},
     user : Users \cup {NoUser}, copy : Submission, sent : Statuses \cup {Keep}, verified : BOOLEAN,
     profile : Profiles \cup {NoProfile}, owner : Users \cup {NoUser}, stale : BOOLEAN]
Idle == [pc |-> "idle", user |-> NoUser, copy |-> NoSubmission, sent |-> Keep, verified |-> FALSE,
         profile |-> NoProfile, owner |-> NoUser, stale |-> FALSE]

At(q, pc) == request[q].pc = pc
User(q) == request[q].user
End(q) == request' = [request EXCEPT ![q] = Idle]
Row(q) == request[q].copy
Live(a) == profile[a].state = "live"
Own(u) == {a \in Profiles : Live(a) /\ profile[a].owner = u}
Begin(q, r) ==
    /\ At(q, "idle") /\ edits < MaxEdits
    /\ request' = [request EXCEPT ![q] = r]
    /\ edits' = edits + 1
    /\ UNCHANGED <<submission, rows, profile, decision, undone, excused, faults>>

-----------------------------------------------------------------------------
(* The artist: one submission, which may be edited whatever was decided.      *)
Submit(q, u, type, a) ==
    /\ submission[u].status = "none" /\ rows[u] < MaxRows
    /\ type = "existing" => a # NoProfile
    /\ Begin(q, [Idle EXCEPT !.pc = "create", !.user = u,
                 !.copy = [no |-> 0, status |-> "pending", type |-> type, claim |-> a]])

\* The row names no profile that is gone.
ClaimStands(q) == Row(q).claim = NoProfile \/ Live(Row(q).claim)

\* A second submission of the user breaks the constraint of the column user.
Create(q) ==
    /\ At(q, "create")
    /\ LET u == User(q)
       IN IF submission[u].status = "none" /\ rows[u] < MaxRows /\ ClaimStands(q)
          THEN /\ rows' = [rows EXCEPT ![u] = @ + 1]
               /\ submission' = [submission EXCEPT ![u] = [Row(q) EXCEPT !.no = rows'[u]]]
               /\ decision' = [decision EXCEPT ![u] = "pending"]
               /\ undone' = undone \ {u}
          ELSE UNCHANGED <<submission, rows, decision, undone>>
    /\ End(q)
    /\ UNCHANGED <<profile, excused, edits, faults>>

\* A claim of nothing passes for an existing artist when the row had one.
Edit(q, u, type, a) ==
    /\ submission[u].status # "none"
    /\ type = "existing" => a # NoProfile \/ submission[u].claim # NoProfile
    /\ Begin(q, [Idle EXCEPT !.pc = "edit", !.user = u,
                 !.copy = [submission[u] EXCEPT !.type = type, !.claim = a]])

\* ArtistAuth.save: what is rejected is not verified, what is accepted or verified is both.
\* Mutant: what is verified is accepted, whatever the status.
NormalVerified(status, verified) ==
    IF status = "accepted" \/ verified THEN "accepted" ELSE status
Normal(status, verified) ==
    IF status = "rejected" THEN "rejected"
    ELSE IF status = "accepted" \/ verified THEN "accepted" ELSE "pending"

\* The row is written whole; one that was deleted is inserted again, unless
\* the user has another by now.
Writable(q) == (submission[User(q)].no = Row(q).no \/ submission[User(q)].status = "none") /\ ClaimStands(q)

Afterwards(q, status) ==
    IF status = "accepted" THEN [Idle EXCEPT !.pc = "provision", !.user = User(q), !.copy.no = Row(q).no] ELSE Idle

SaveEdit(q) ==
    /\ At(q, "edit")
    /\ LET u == User(q)
           status == Normal(Row(q).status, Row(q).status = "accepted")
       IN IF Writable(q)
          THEN /\ submission' = [submission EXCEPT ![u] = [Row(q) EXCEPT !.status = status]]
               /\ request' = [request EXCEPT ![q] = Afterwards(q, status)]
               /\ undone' = IF request[q].stale THEN undone \cup {u} ELSE undone
          ELSE UNCHANGED <<submission, undone>> /\ End(q)
    /\ UNCHANGED <<rows, profile, decision, excused, edits, faults>>

-----------------------------------------------------------------------------
(* The administration: the row is read, checked and saved whole.              *)
Decide(q, u, status, verified) ==
    /\ submission[u].status # "none"
    /\ Begin(q, [Idle EXCEPT !.pc = "check", !.user = u, !.copy = submission[u],
                 !.sent = status, !.verified = verified])

SentStatus(q) == IF request[q].sent = Keep THEN Row(q).status ELSE request[q].sent

Claimable(u, a) == Live(a) /\ profile[a].owner \in {NoUser, u} /\ Own(u) \subseteq {a}

\* A row that was verified and goes on to be is checked too, the one to be rejected included.
Check(q) ==
    /\ At(q, "check")
    /\ IF /\ SentStatus(q) = "accepted" \/ request[q].verified
          /\ Row(q).type = "existing"
          /\ Row(q).claim = NoProfile \/ ~Claimable(User(q), Row(q).claim)
       THEN End(q) ELSE request' = [request EXCEPT ![q].pc = "decide"]
    /\ UNCHANGED <<submission, rows, profile, decision, undone, excused, edits, faults>>

SaveDecision(q) ==
    /\ At(q, "decide")
    /\ LET u == User(q)
           status == Normal(SentStatus(q), request[q].verified)
       IN IF Writable(q)
          THEN /\ submission' = [submission EXCEPT ![u] = [Row(q) EXCEPT !.status = status]]
               /\ request' = [r \in Requests |-> IF r = q THEN Afterwards(q, status)
                                                 ELSE [request[r] EXCEPT !.stale = @ \/ request[r].user = u]]
               /\ decision' = [decision EXCEPT ![u] = IF request[q].sent \in {"accepted", "rejected"}
                                                      THEN request[q].sent ELSE status]
               /\ undone' = undone \ {u}
          ELSE UNCHANGED <<submission, decision, undone>> /\ End(q)
    /\ UNCHANGED <<rows, profile, excused, edits, faults>>

DeleteSubmission(u) ==
    /\ submission[u].status # "none"
    /\ submission' = [submission EXCEPT ![u] = NoSubmission]
    /\ decision' = [decision EXCEPT ![u] = "none"]
    /\ undone' = undone \cup {u}
    /\ UNCHANGED <<rows, profile, request, excused, edits, faults>>

-----------------------------------------------------------------------------
(* provision_artist_profile, in one transaction under the locks of the        *)
(* submission, the user and the profiles.                                     *)
Approved(q) == submission[User(q)].no = Row(q).no /\ submission[User(q)].status = "accepted"

\* The profile to link: the one claimed, or the one the user has, or a new one.
Candidates(u) ==
    IF submission[u].type = "existing"
    THEN {a \in {submission[u].claim} \cap Profiles : Claimable(u, a)}
    ELSE IF Own(u) # {} THEN Own(u) ELSE {a \in Profiles : profile[a].state = "new"}

Provision(q) ==
    /\ At(q, "provision") /\ Approved(q)
    /\ LET u == User(q) IN
       \E a \in Candidates(u) :
         /\ profile' = [profile EXCEPT ![a] = [state |-> "live", owner |-> u]]
         /\ submission' = [submission EXCEPT ![u].claim = a]
         /\ excused' = excused \ {u}
    /\ End(q)
    /\ UNCHANGED <<rows, decision, undone, edits, faults>>

\* The row is not accepted any more.
Decline(q) ==
    /\ At(q, "provision") /\ ~Approved(q)
    /\ End(q)
    /\ UNCHANGED <<submission, rows, profile, decision, undone, excused, edits, faults>>

\* The claim cannot be met: the error is logged, the submission stays accepted.
Refuse(q) ==
    /\ At(q, "provision") /\ Approved(q)
    /\ submission[User(q)].type = "existing" /\ Candidates(User(q)) = {}
    /\ excused' = excused \cup {User(q)}
    /\ End(q)
    /\ UNCHANGED <<submission, rows, profile, decision, undone, edits, faults>>

\* The process stops between the commit and the callback.
Lose(q) ==
    /\ At(q, "provision") /\ faults < MaxFaults
    /\ faults' = faults + 1
    /\ excused' = excused \cup {User(q)}
    /\ End(q)
    /\ UNCHANGED <<submission, rows, profile, decision, undone, edits>>

-----------------------------------------------------------------------------
(* Profiles are read, their images uploaded, and saved whole.                 *)
EditProfile(q, a, owner) ==
    /\ Live(a)
    /\ Begin(q, [Idle EXCEPT !.pc = "profile", !.profile = a,
                 !.owner = IF owner = Keep THEN profile[a].owner ELSE owner])

\* ArtistProfileView: the artist's own edit saves the profile whole as well.
EditOwnProfile(q, u) == \E a \in Own(u) : EditProfile(q, a, Keep)

\* Two profiles of one user break the constraint of the column user.
SaveProfile(q) ==
    /\ At(q, "profile")
    /\ LET a == request[q].profile
           u == request[q].owner
       IN IF u = NoUser \/ Own(u) \subseteq {a}
          THEN /\ profile' = [profile EXCEPT ![a] = [state |-> "live", owner |-> u]]
               /\ excused' = IF u = profile[a].owner THEN excused ELSE excused \cup ({u, profile[a].owner} \ {NoUser})
          ELSE UNCHANGED <<profile, excused>>
    /\ End(q)
    /\ UNCHANGED <<submission, rows, decision, undone, edits, faults>>

\* A profile without songs, albums, releases and payout requests; claims of it become empty.
DeleteProfile(a) ==
    /\ Live(a) /\ edits < MaxEdits
    /\ edits' = edits + 1
    /\ profile' = [profile EXCEPT ![a] = [state |-> "gone", owner |-> NoUser]]
    /\ submission' = [u \in Users |-> [submission[u] EXCEPT !.claim = IF @ = a THEN NoProfile ELSE @]]
    /\ excused' = excused \cup ({profile[a].owner} \ {NoUser})
    /\ UNCHANGED <<rows, request, decision, undone, faults>>

-----------------------------------------------------------------------------
Init ==
    /\ submission = [u \in Users |-> NoSubmission] /\ rows = [u \in Users |-> 0]
    /\ \E old \in SUBSET Profiles :
         profile = [a \in Profiles |-> [state |-> IF a \in old THEN "live" ELSE "new", owner |-> NoUser]]
    /\ request = [q \in Requests |-> Idle]
    /\ decision = [u \in Users |-> "none"]
    /\ undone = {} /\ excused = {} /\ edits = 0 /\ faults = 0

Next ==
    \/ \E q \in Requests, u \in Users :
        \/ \E type \in {"fresh", "existing"}, a \in {b \in Profiles : Live(b)} \cup {NoProfile} :
             Submit(q, u, type, a) \/ Edit(q, u, type, a)
        \/ \E status \in Statuses \cup {Keep}, verified \in BOOLEAN : Decide(q, u, status, verified)
        \/ EditOwnProfile(q, u)
    \/ \E q \in Requests :
        \/ Create(q) \/ SaveEdit(q) \/ Check(q) \/ SaveDecision(q)
        \/ Provision(q) \/ Decline(q) \/ Refuse(q) \/ Lose(q) \/ SaveProfile(q)
        \/ \E a \in Profiles, owner \in Users \cup {NoUser, Keep} : EditProfile(q, a, owner)
    \/ \E u \in Users : DeleteSubmission(u)
    \/ \E a \in Profiles : DeleteProfile(a)

Spec == Init /\ [][Next]_vars

-----------------------------------------------------------------------------
(* Every variable keeps its type. *)
TypeOK ==
    /\ submission \in [Users -> Submission] /\ rows \in [Users -> 0..MaxRows]
    /\ profile \in [Profiles -> [state : {"new", "live", "gone"}, owner : Users \cup {NoUser}]]
    /\ request \in [Requests -> Request]
    /\ decision \in [Users -> Statuses \cup {"none"}]
    /\ undone \subseteq Users /\ excused \subseteq Users
    /\ edits \in 0..MaxEdits /\ faults \in 0..MaxFaults

(* A submission has the status decided last, whatever row the decision was     *)
(* made on, unless an edit or a decision that read it before has been saved    *)
(* since (models.py:440).                                                     *)
DecisionKept ==
    \A u \in Users : submission[u].status # "none" /\ u \notin undone => submission[u].status = decision[u]

(* An accepted submission has its profile once its callback has run, also when *)
(* an edit has put the claim back that it read before (artist_auth_service.py: *)
(* 57), unless the link failed or the profile was changed or deleted after.    *)
AcceptedLinked ==
    \A u \in Users :
        /\ submission[u].status = "accepted" /\ u \notin excused
        /\ \A q \in Requests : ~(At(q, "provision") /\ User(q) = u)
        => submission[u].claim \in Own(u)

(* No user has two profiles: linking them alone never breaks the constraint.   *)
OneProfile == \A a, b \in Profiles : a \in Own(profile[b].owner) => a = b \/ profile[b].owner = NoUser

(* A profile that has an owner is taken from it only by an edit of the profile  *)
(* or its deletion, never by the acceptance of another user's claim            *)
(* (artist_auth_service.py:76).                                               *)
OwnerStays ==
    \A a \in Profiles :
        /\ profile[a].owner # NoUser /\ profile'[a].owner # profile[a].owner
        => \/ profile'[a].state = "gone"
           \/ \E q \in Requests : At(q, "profile") /\ request[q].profile = a
=============================================================================
