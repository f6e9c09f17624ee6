------------------------------ MODULE MCAccess -------------------------------
(***************************************************************************)
(* The services about one account that share no state with one another,     *)
(* checked in one run: a behaviour is one of a single part, while the others *)
(* rest.  The senders and verifiers of codes also stand for the requests and *)
(* the profiles of the other parts, so that one small group of permutations *)
(* serves them all.                                                         *)
(***************************************************************************)
EXTENDS OtpCodes, TLC

CONSTANTS
    AdminColumns, MaxPeriods, MaxBegun,
    Users, NoUser, NoProfile, MaxSubmissions, MaxEdits, MaxStops,
    MaxNames, MaxUploads,
    Collections, NoAlbum, MaxMoves

VARIABLES
    part,
    account, paid, ended, act, intact, begun,
    submission, inserted, profile, decide, decision, undone, excused, edits, stops,
    stored, recording, uploadState, upload, clash, stale, lapsed, leaked, uploads, mediaStops,
    exists, song, move, hollow, moves

Members == INSTANCE Accounts WITH Requests <- Senders, request <- act
Artists == INSTANCE ArtistVerification WITH Requests <- Senders, Profiles <- Verifiers, MaxRows <- MaxSubmissions, rows <- inserted,
               MaxFaults <- MaxStops, request <- decide, faults <- stops
Media == INSTANCE SongMedia WITH Songs <- Verifiers, Requests <- Senders, MaxBegun <- MaxUploads,
             song <- recording, state <- uploadState, request <- upload, begun <- uploads, stops <- mediaStops
Discs == INSTANCE Albums WITH Recordings <- Verifiers, Requests <- Senders, MaxBegun <- MaxMoves,
             request <- move, begun <- moves

CodeVars ==
    <<otp, latest, guard, recent, send, verify, accepted, is_verified>>
MemberVars ==
    <<account, paid, ended, act, intact, begun>>
ArtistVars ==
    <<submission, inserted, profile, decide, decision, undone, excused, edits, stops>>
MediaVars ==
    <<stored, recording, uploadState, upload, clash, stale, lapsed, leaked, uploads, mediaStops>>
DiscVars ==
    <<exists, song, move, hollow, moves>>
AccessVars == <<part, CodeVars, MemberVars, ArtistVars, MediaVars, DiscVars>>

Parts == {"codes", "members", "artists", "media", "albums"}

\* The part of a behaviour is in one of its initial states; the others have none.
None == "none"

CodesRest ==
    /\ otp = None /\ latest = None /\ guard = None /\ recent = None /\ send = None
    /\ verify = None /\ accepted = None /\ is_verified = None
MembersRest ==
    /\ account = None /\ paid = None /\ ended = None /\ act = None /\ intact = None
    /\ begun = None
ArtistsRest ==
    /\ submission = None /\ inserted = None /\ profile = None /\ decide = None /\ decision = None /\ undone = None
    /\ excused = None /\ edits = None /\ stops = None
MediaRest ==
    /\ stored = None /\ recording = None /\ uploadState = None /\ upload = None /\ clash = None
    /\ stale = None /\ lapsed = None /\ leaked = None /\ uploads = None /\ mediaStops = None
AlbumsRest ==
    /\ exists = None /\ song = None /\ move = None /\ hollow = None /\ moves = None

AccessInit ==
    /\ part \in Parts
    /\ IF part = "codes" THEN Init ELSE CodesRest
    /\ IF part = "members" THEN Members!Init ELSE MembersRest
    /\ IF part = "artists" THEN Artists!Init ELSE ArtistsRest
    /\ IF part = "media" THEN Media!Init ELSE MediaRest
    /\ IF part = "albums" THEN Discs!Init ELSE AlbumsRest

AccessNext ==
    \/ /\ part = "codes" /\ Next
       /\ UNCHANGED <<part, MemberVars, ArtistVars, MediaVars, DiscVars>>
    \/ /\ part = "members" /\ Members!Next
       /\ UNCHANGED <<part, CodeVars, ArtistVars, MediaVars, DiscVars>>
    \/ /\ part = "artists" /\ Artists!Next
       /\ UNCHANGED <<part, CodeVars, MemberVars, MediaVars, DiscVars>>
    \/ /\ part = "media" /\ Media!Next
       /\ UNCHANGED <<part, CodeVars, MemberVars, ArtistVars, DiscVars>>
    \/ /\ part = "albums" /\ Discs!Next
       /\ UNCHANGED <<part, CodeVars, MemberVars, ArtistVars, MediaVars>>

AccessSpec == AccessInit /\ [][AccessNext]_AccessVars

Symmetry == Permutations(Senders) \cup Permutations(Verifiers)

-----------------------------------------------------------------------------
(* Types. A code is accepted once and after few attempts; one is live at      *)
(* most; an answer that none was found is true (consume_otp,                  *)
(* create_and_send_otp, latest_valid_otp).                                    *)
CodesSound == part = "codes" => TypeOK /\ AcceptedOnce /\ AttemptsBounded /\ OneLive /\ NotFoundHonest

(* Types. Until the thirty days of the last payment are over the user is      *)
(* premium, but for a copy read before it (subscriptions.py:94).              *)
PremiumLasts == part = "members" => Members!TypeOK /\ Members!PaidPremium

(* Types. The decision about a submission stands, an accepted artist has the  *)
(* profile claimed, and no user has two (models.py:440,                       *)
(* artist_auth_service.py:57).                                                *)
DecisionsStand == part = "artists" => Artists!TypeOK /\ Artists!DecisionKept /\ Artists!AcceptedLinked /\ Artists!OneProfile

(* Types. A file that a row names is there, a file no row names is removed,   *)
(* and a repeated upload makes one song and is told the truth (views.py:501,  *)
(* 8841, 8468).                                                               *)
FilesMatch == part = "media" => Media!TypeOK /\ Media!FilesKept /\ Media!NothingLeft /\ Media!OneSong

(* Types. An album goes with its last song (views.py:9443).                   *)
AlbumsFilled == part = "albums" => Discs!TypeOK /\ Discs!EmptiedGone

(* A handler changes the columns of the user that it is about, but for a      *)
(* whole row saved from an old copy; a profile's owner loses it by an edit or *)
(* a deletion of the profile only; a song that is on an album is not put on   *)
(* another (update_fields of the saves, artist_auth_service.py:76,            *)
(* views.py:9053).                                                            *)
StepsMeant ==
    [][/\ part = "members" => Members!Meant
       /\ part = "artists" => Artists!OwnerStays
       /\ part = "albums" => Discs!NotTaken]_AccessVars
=============================================================================
