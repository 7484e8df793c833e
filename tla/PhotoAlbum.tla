----------------------------- MODULE PhotoAlbum -----------------------------
(***************************************************************************)
(* What the routes of the completion photos promise, without row locks,    *)
(* upload URLs or cleanups: an album that takes photos up to its limit     *)
(* while the job is reported complete, never gives one back, and is        *)
(* approved with a photo in it or for a stated reason.  The job is moved   *)
(* by whoever found it where such a move may begin, and where it is by     *)
(* then does not matter: a report begun before an approval opens the       *)
(* album again after it, one begun later does not.                         *)
(***************************************************************************)
CONSTANTS
    Photo,
    Fitting,      \* the sets of photos an album has room for
    Mover,        \* who moves the job
    Leads         \* Leads[to]: the phases in which a move to a phase may begin

VARIABLES
    phase,        \* of the job; photos are taken while it is "completion_reported"
    moves,        \* the moves begun, <<mover, phase to come>>
    reasoned,     \* some approval gave a reason
    reserved,     \* the photos a place is kept for
    lapsed,       \* the reservations that have run out
    accepted,     \* the photos in the album
    kept          \* those of them that have been uploaded

albumVars == <<phase, moves, reasoned, reserved, lapsed, accepted, kept>>

AlbumInit ==
    /\ phase = "before"
    /\ moves = {}
    /\ reasoned = FALSE
    /\ reserved = {} /\ lapsed = {} /\ accepted = {} /\ kept = {}

-----------------------------------------------------------------------------
(* The job around the album *)

BeginMove(r, to) ==
    /\ phase \in Leads[to]
    /\ moves' = moves \cup {<<r, to>>}
    /\ UNCHANGED <<phase, reasoned, reserved, lapsed, accepted, kept>>

DropMove(move) ==
    /\ moves' = moves \ {move}
    /\ UNCHANGED <<phase, reasoned, reserved, lapsed, accepted, kept>>

\* The phase of the beginning may be over.
LandMove(r, to) ==
    /\ to # "approved"
    /\ <<r, to>> \in moves
    /\ moves' = moves \ {<<r, to>>}
    /\ phase' = to
    /\ UNCHANGED <<reasoned, reserved, lapsed, accepted, kept>>

Approve(r, reason) ==
    /\ <<r, "approved">> \in moves
    /\ accepted # {} \/ reason
    /\ moves' = moves \ {<<r, "approved">>}
    /\ phase' = "approved"
    /\ reasoned' = (reasoned \/ reason)
    /\ UNCHANGED <<reserved, lapsed, accepted, kept>>

-----------------------------------------------------------------------------
(* The album *)

Reserve(ks) ==
    /\ phase = "completion_reported"
    /\ ks \cap (reserved \cup lapsed \cup accepted) = {}
    /\ accepted \cup reserved \cup ks \in Fitting
    /\ reserved' = reserved \cup ks
    /\ UNCHANGED <<phase, moves, reasoned, lapsed, accepted, kept>>

Lapse(k) ==
    /\ k \in reserved
    /\ reserved' = reserved \ {k}
    /\ lapsed' = lapsed \cup {k}
    /\ UNCHANGED <<phase, moves, reasoned, accepted, kept>>

\* Reservations are given up, or withdrawn because something failed; a photo
\* that has been accepted is not touched.
GiveUp(ks) ==
    /\ reserved' = reserved \ ks
    /\ lapsed' = lapsed \ ks
    /\ UNCHANGED <<phase, moves, reasoned, accepted, kept>>

\* All of a batch or none of it; a reservation that has run out is still good
\* while there is room.
AcceptBatch(ks, uploaded) ==
    /\ phase = "completion_reported"
    /\ ks \subseteq reserved \cup lapsed
    /\ accepted \cup ks \in Fitting
    /\ reserved' = reserved \ ks
    /\ lapsed' = lapsed \ ks
    /\ accepted' = accepted \cup ks
    /\ kept' = kept \cup uploaded
    /\ UNCHANGED <<phase, moves, reasoned>>

\* An upload ends after its photo was accepted.
Arrive(k) ==
    /\ k \in accepted
    /\ kept' = kept \cup {k}
    /\ UNCHANGED <<phase, moves, reasoned, reserved, lapsed, accepted>>

AlbumNext ==
    \/ \E r \in Mover :
        \/ \E to \in DOMAIN Leads : BeginMove(r, to) \/ LandMove(r, to)
        \/ \E reason \in BOOLEAN : Approve(r, reason)
    \/ \E move \in moves : DropMove(move)
    \/ \E ks \in SUBSET Photo :
        \/ Reserve(ks) \/ GiveUp(ks)
        \/ \E uploaded \in SUBSET ks : AcceptBatch(ks, uploaded)
    \/ \E k \in Photo : Lapse(k) \/ Arrive(k)

AlbumSpec == AlbumInit /\ [][AlbumNext]_albumVars
=============================================================================
