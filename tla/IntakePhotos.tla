----------------------------- MODULE IntakePhotos -----------------------------
(***************************************************************************)
(* The photos a customer adds to a booking: presign counts the rows of the *)
(* job and inserts one more, with nothing that holds the count in between; *)
(* confirm marks a row, whatever the job has become.                       *)
(***************************************************************************)
EXTENDS Naturals, FiniteSets

CONSTANTS
    Presign,     \* bound: the presign requests in progress at once
    MaxPhotos    \* MAX_PHOTOS_PER_JOB

ASSUME IntakePhotosAssumption == IsFiniteSet(Presign) /\ MaxPhotos \in Nat \ {0}

VARIABLES
    accepting,    \* jobs.status is none of TERMINAL_STATUSES
    rows,         \* the rows of uploaded_media of the job
    unconfirmed,  \* those of them without confirmed_at
    presign,      \* where each presign request is
    confirming    \* confirm requests that have found an unconfirmed row

addVars == <<accepting, rows, unconfirmed, presign, confirming>>

AddTypeOK ==
    /\ accepting \in BOOLEAN
    /\ rows \in Nat /\ unconfirmed \in Nat
    /\ presign \in [Presign -> {"idle", "count", "insert", "url"}]
    /\ confirming \in BOOLEAN

AddInit ==
    /\ accepting = TRUE
    /\ rows = 0 /\ unconfirmed = 0
    /\ presign = [p \in Presign |-> "idle"]
    /\ confirming = FALSE

PresignTo(p, step) == presign' = [presign EXCEPT ![p] = step]
Inserting == {p \in Presign : presign[p] = "insert"}

\* The token's job still takes photos.
PresignPhoto(p) ==
    /\ presign[p] = "idle"
    /\ accepting
    /\ PresignTo(p, "count")
    /\ UNCHANGED <<accepting, rows, unconfirmed, confirming>>

\* Mutant: room is seen up to the limit
CountPhotos_AtLimit(p) ==
    /\ presign[p] = "count"
    /\ PresignTo(p, IF rows > MaxPhotos THEN "idle" ELSE "insert")
    /\ UNCHANGED <<accepting, rows, unconfirmed, confirming>>

CountPhotos(p) ==
    /\ presign[p] = "count"
    /\ PresignTo(p, IF rows >= MaxPhotos THEN "idle" ELSE "insert")
    /\ UNCHANGED <<accepting, rows, unconfirmed, confirming>>

InsertPhoto(p) ==
    /\ presign[p] = "insert"
    /\ rows' = rows + 1 /\ unconfirmed' = unconfirmed + 1
    /\ PresignTo(p, "url")
    /\ UNCHANGED <<accepting, confirming>>

\* The URL is returned, or something throws; the row is not taken back.
PresignEnds(p) ==
    /\ presign[p] # "idle"
    /\ PresignTo(p, "idle")
    /\ UNCHANGED <<accepting, rows, unconfirmed, confirming>>

\* The row is there and not confirmed; of two requests for it both may go on.
ConfirmLooksUp ==
    /\ unconfirmed > 0
    /\ confirming' = TRUE
    /\ UNCHANGED <<accepting, rows, unconfirmed, presign>>

\* The UPDATE by id, for the first time or again
ConfirmPhoto ==
    /\ confirming
    /\ confirming' = FALSE
    /\ unconfirmed' \in {n \in {unconfirmed, unconfirmed - 1} : n >= 0}
    /\ UNCHANGED <<accepting, rows, presign>>

\* The status moves into TERMINAL_STATUSES, or out again, as from a reported
\* completion to a remainder that is awaited.
JobStatusChanges ==
    /\ accepting' = ~ accepting
    /\ UNCHANGED <<rows, unconfirmed, presign, confirming>>

AddNext ==
    \/ \E p \in Presign : \/ PresignPhoto(p) \/ CountPhotos(p)
                          \/ InsertPhoto(p) \/ PresignEnds(p)
    \/ ConfirmLooksUp \/ ConfirmPhoto
    \/ JobStatusChanges

AddSpec == AddInit /\ [][AddNext]_addVars

\* The limit of photos is passed by less than the number of requests that come
\* at once, although the count is not held, and however many photos there are.
PhotosNearLimit == rows < MaxPhotos + Cardinality(Presign)
=============================================================================
