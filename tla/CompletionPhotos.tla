-------------------------- MODULE CompletionPhotos --------------------------
(***************************************************************************)
(* The completion photos of one job: a contractor reserves upload slots,   *)
(* uploads to the bucket, and confirms; a failed step cleans up; an        *)
(* operator approves the completion; SMS commands, the Stripe webhook and  *)
(* cancellations move the job around them.  Every query is limited to one  *)
(* job, so jobs do not meet.                                               *)
(*                                                                         *)
(* presign and confirm run under the row lock of the job, which every      *)
(* write of its status waits for; such a write goes by id, after an        *)
(* unlocked read.  The cleanup takes no lock and deletes rows first,       *)
(* objects afterwards.                                                     *)
(***************************************************************************)
EXTENDS Naturals, FiniteSets

CONSTANTS
    Photo,          \* bound: the storage keys that may ever be generated
    Caller,        \* bound: requests in progress at once
    MaxPerJob,      \* MAX_COMPLETION_PHOTOS_PER_JOB
    MaxPerRequest   \* MAX_COMPLETION_PHOTOS_PER_REQUEST

ASSUME PhotosAssumption ==
    /\ IsFiniteSet(Photo)
    /\ MaxPerJob \in Nat
    /\ MaxPerRequest \in Nat

VARIABLES
    jobStatus,    \* jobs.status, as far as photos go: see PhotoJobStatus
    overridden,   \* history: some approval used an override reason
    used,         \* the keys of every row ever inserted into uploaded_media
    pending,      \* rows not confirmed, uploaded_at within the last 10 minutes
    stale,        \* rows not confirmed, older than that
    confirmed,    \* rows with confirmed_at
    late,         \* history: the rows confirmed when they were stale
    issued,       \* keys whose upload URL was returned to the contractor
    inBucket,       \* external: the objects in the bucket
    removing,     \* objects whose deletion has been started
    requests      \* requests in progress, each with what it has read

photoRows == <<pending, stale, confirmed, late>>
photoVars == <<jobStatus, overridden, used, photoRows, issued, inBucket, removing, requests>>

\* "before" stands for every status that precedes the report of completion,
\* "approved" for what an approval wrote (awaiting_remainder_payment or
\* closed_paid), "ended" for closed_paid as written by the webhook, and cancelled.
PhotoJobStatus == {"before", "completion_reported", "approved", "ended"}

\* A request that will write jobs.status is at the step named for what it writes.
PhotoStep == {"presign", "urls", "confirm", "cleanup"} \cup PhotoJobStatus
PhotoRequest == [handler : Caller, step : PhotoStep, keys : SUBSET Photo,
            accepted : Nat, live : Nat, override : BOOLEAN]

PhotoTypeOK ==
    /\ jobStatus \in PhotoJobStatus
    /\ overridden \in BOOLEAN
    /\ used \subseteq Photo
    /\ pending \subseteq used
    /\ stale \subseteq used
    /\ confirmed \subseteq used
    /\ late \subseteq confirmed
    /\ issued \subseteq used
    /\ inBucket \subseteq issued
    /\ removing \subseteq used
    /\ requests \subseteq PhotoRequest

PhotoInit ==
    /\ jobStatus = "before"
    /\ overridden = FALSE
    /\ used = {}
    /\ pending = {}
    /\ stale = {}
    /\ confirmed = {}
    /\ late = {}
    /\ issued = {}
    /\ inBucket = {}
    /\ removing = {}
    /\ requests = {}

-----------------------------------------------------------------------------
HandlerFree(h) == \A m \in requests : m.handler # h

\* Mutants: presign, or confirm, reads the job without FOR UPDATE
Locked_NotByPresign == \E m \in requests : m.step = "confirm"
Locked_NotByConfirm == \E m \in requests : m.step = "presign"

\* Some transaction holds the job row (SELECT ... FOR UPDATE OF j)
Locked == \E m \in requests : m.step \in {"presign", "confirm"}

\* A request h that has reached a step
PhotoAt(h, step, keys) ==
    [handler |-> h, step |-> step, keys |-> keys, accepted |-> 0, live |-> 0, override |-> FALSE]

Ends(m) == m \in requests /\ requests' = requests \ {m}
Goes(m, step, keys) ==
    /\ m \in requests
    /\ requests' = (requests \ {m}) \cup {PhotoAt(m.handler, step, keys)}

-----------------------------------------------------------------------------
(* presign *)

\* The lock, the eligibility check and the two counts
PresignBegin(h) ==
    /\ HandlerFree(h)
    /\ ~ Locked
    /\ jobStatus = "completion_reported"
    /\ requests' = requests \cup
         {[PhotoAt(h, "presign", {}) EXCEPT !.accepted = Cardinality(confirmed),
                                       !.live = Cardinality(pending)]}
    /\ UNCHANGED <<jobStatus, overridden, used, photoRows, issued, inBucket, removing>>

\* One pending row with a new key for each file, and the commit
PresignInsert(m, ks) ==
    /\ m.step = "presign"
    /\ ks # {} /\ ks \cap used = {}
    /\ Cardinality(ks) <= MaxPerRequest
    /\ m.accepted + m.live + Cardinality(ks) <= MaxPerJob
    /\ Goes(m, "urls", ks)
    /\ used' = used \cup ks
    /\ pending' = pending \cup ks
    /\ UNCHANGED <<jobStatus, overridden, stale, confirmed, late, issued, inBucket, removing>>

\* More files than a request or the remaining slots allow
PresignRefused(m) ==
    /\ m.step = "presign"
    /\ Ends(m)
    /\ UNCHANGED <<jobStatus, overridden, used, photoRows, issued, inBucket, removing>>

UrlsIssued(m) ==
    /\ m.step = "urls"
    /\ Ends(m)
    /\ issued' = issued \cup m.keys
    /\ UNCHANGED <<jobStatus, overridden, used, photoRows, inBucket, removing>>

\* generatePresignedUploadUrl throws: the reservation is cleaned up
UrlsFailed(m) ==
    /\ m.step = "urls"
    /\ Goes(m, "cleanup", m.keys)
    /\ UNCHANGED <<jobStatus, overridden, used, photoRows, issued, inBucket, removing>>

-----------------------------------------------------------------------------
(* confirm *)

ConfirmBegin(h, ks) ==
    /\ HandlerFree(h)
    /\ ~ Locked
    /\ jobStatus = "completion_reported"
    /\ ks # {}
    /\ requests' = requests \cup
         {[PhotoAt(h, "confirm", ks) EXCEPT !.accepted = Cardinality(confirmed)]}
    /\ UNCHANGED <<jobStatus, overridden, used, photoRows, issued, inBucket, removing>>

\* The batch is small enough and every row of it is there, not yet confirmed
Confirmable(m) ==
    /\ m.step = "confirm"
    /\ Cardinality(m.keys) <= MaxPerRequest
    /\ m.keys \subseteq pending \cup stale

\* Mutant: the limit is left to presign
ConfirmCommit_NoLimit(m, answered) ==
    /\ Confirmable(m)
    /\ IF answered THEN Ends(m) ELSE Goes(m, "cleanup", m.keys)
    /\ confirmed' = confirmed \cup m.keys
    /\ late' = late \cup (m.keys \cap stale)
    /\ pending' = pending \ m.keys
    /\ stale' = stale \ m.keys
    /\ UNCHANGED <<jobStatus, overridden, used, issued, inBucket, removing>>

\* All of the batch is confirmed and committed.  When the answer to COMMIT is
\* lost, or answering the contractor throws, the batch goes to the cleanup.
ConfirmCommit(m, answered) ==
    /\ Confirmable(m)
    /\ m.accepted + Cardinality(m.keys) <= MaxPerJob
    /\ IF answered THEN Ends(m) ELSE Goes(m, "cleanup", m.keys)
    /\ confirmed' = confirmed \cup m.keys
    /\ late' = late \cup (m.keys \cap stale)
    /\ pending' = pending \ m.keys
    /\ stale' = stale \ m.keys
    /\ UNCHANGED <<jobStatus, overridden, used, issued, inBucket, removing>>

\* Too many files, an unknown key, a photo already confirmed
ConfirmRefused(m) ==
    /\ m.step = "confirm"
    /\ ~ Confirmable(m)
    /\ Ends(m)
    /\ UNCHANGED <<jobStatus, overridden, used, photoRows, issued, inBucket, removing>>

\* Over the limit, or an exception that rolled the batch back
ConfirmRolledBack(m) ==
    /\ Confirmable(m)
    /\ Goes(m, "cleanup", m.keys)
    /\ UNCHANGED <<jobStatus, overridden, used, photoRows, issued, inBucket, removing>>

-----------------------------------------------------------------------------
(* cancel-reservation and cleanupPendingCompletionUploads *)

\* The owner of the token may cancel whatever the job status is.
CancelReservation(h, ks) ==
    /\ HandlerFree(h)
    /\ ks # {}
    /\ Cardinality(ks) <= MaxPerRequest
    /\ requests' = requests \cup {PhotoAt(h, "cleanup", ks)}
    /\ UNCHANGED <<jobStatus, overridden, used, photoRows, issued, inBucket, removing>>

\* Mutant: the objects of all keys go, those confirmed meanwhile too
CleanupRows_EveryObject(m) ==
    /\ m.step = "cleanup"
    /\ Ends(m)
    /\ pending' = pending \ m.keys
    /\ stale' = stale \ m.keys
    /\ removing' = removing \cup m.keys
    /\ UNCHANGED <<jobStatus, overridden, used, confirmed, late, issued, inBucket>>

\* Only rows that are still pending are deleted, and only their objects follow.
CleanupRows(m) ==
    /\ m.step = "cleanup"
    /\ Ends(m)
    /\ pending' = pending \ m.keys
    /\ stale' = stale \ m.keys
    /\ removing' = removing \cup (m.keys \cap (pending \cup stale))
    /\ UNCHANGED <<jobStatus, overridden, used, confirmed, late, issued, inBucket>>

\* deleteStorageObject, which may fail and is not repeated
RemoveObject(k, works) ==
    /\ k \in removing
    /\ removing' = removing \ {k}
    /\ inBucket' = IF works THEN inBucket \ {k} ELSE inBucket
    /\ UNCHANGED <<jobStatus, overridden, used, photoRows, issued, requests>>

-----------------------------------------------------------------------------
(* approve-completion, as far as photos go *)

ApproveRead(h, override) ==
    /\ HandlerFree(h)
    /\ jobStatus = "completion_reported"
    /\ requests' = requests \cup {[PhotoAt(h, "approved", {}) EXCEPT !.override = override]}
    /\ UNCHANGED <<jobStatus, overridden, used, photoRows, issued, inBucket, removing>>

\* Mutant: rows that are only reserved count as photos
ApproveCount_CountsPending(m) ==
    /\ m \in requests /\ m.step = "approved"
    /\ m.accepted = 0 /\ confirmed \cup pending # {}
    /\ requests' = (requests \ {m})
         \cup {[m EXCEPT !.accepted = Cardinality(confirmed \cup pending)]}
    /\ UNCHANGED <<jobStatus, overridden, used, photoRows, issued, inBucket, removing>>

\* The completion photo guard.  A request that never finds a photo is one that
\* was answered 422, if it has no reason to go by.
ApproveCount(m) ==
    /\ m \in requests /\ m.step = "approved"
    /\ m.accepted = 0 /\ confirmed # {}
    /\ requests' = (requests \ {m}) \cup {[m EXCEPT !.accepted = Cardinality(confirmed)]}
    /\ UNCHANGED <<jobStatus, overridden, used, photoRows, issued, inBucket, removing>>

\* The UPDATE goes by the job's id and waits for the lock of its row.
ApproveWrite(m) ==
    /\ m.step = "approved"
    /\ m.accepted > 0 \/ m.override
    /\ ~ Locked
    /\ Ends(m)
    /\ jobStatus' = "approved"
    /\ overridden' = (overridden \/ m.override)
    /\ UNCHANGED <<used, photoRows, issued, inBucket, removing>>

-----------------------------------------------------------------------------
(* The surroundings *)

\* Where the read of a request must find the job for it to write a status: DONE
\* and FINISH find it assigned, DECLINE, cancel-assignment, approve-dispatch and
\* dispatch before the report, a cancellation before the report, and the webhook
\* of a payment anywhere short of the end.
Leads == [before |-> {"before"},
          completion_reported |-> {"before"},
          approved |-> {"completion_reported"},
          ended |-> {"before", "completion_reported", "approved"}]

\* Mutant: the command is carried out whatever the status of the job is
StatusRead_Unchecked(h, to) ==
    /\ HandlerFree(h)
    /\ to # "approved"
    /\ requests' = requests \cup {PhotoAt(h, to, {})}
    /\ UNCHANGED <<jobStatus, overridden, used, photoRows, issued, inBucket, removing>>

\* The text or event is looked at, without a lock.
StatusRead(h, to) ==
    /\ HandlerFree(h)
    /\ to # "approved"
    /\ jobStatus \in Leads[to]
    /\ requests' = requests \cup {PhotoAt(h, to, {})}
    /\ UNCHANGED <<jobStatus, overridden, used, photoRows, issued, inBucket, removing>>

\* UPDATE jobs SET status ... WHERE id = $1, whatever the status is by now: a
\* second DONE may land after an approval, and opens the job for photos again.
StatusWrite(m) ==
    /\ m.step \in PhotoJobStatus \ {"approved"}
    /\ ~ Locked
    /\ Ends(m)
    /\ jobStatus' = m.step
    /\ UNCHANGED <<overridden, used, photoRows, issued, inBucket, removing>>

\* ACTIVE_RESERVATION_MINUTES pass
ReservationExpires(k) ==
    /\ k \in pending
    /\ pending' = pending \ {k}
    /\ stale' = stale \cup {k}
    /\ UNCHANGED <<jobStatus, overridden, used, confirmed, late, issued, inBucket, removing,
                   requests>>

\* The upload URL is good for 5 minutes, half the life of a reservation, but an
\* upload that has begun in time may end at any time.
PutObject(k) ==
    /\ k \in issued
    /\ inBucket' = inBucket \cup {k}
    /\ UNCHANGED <<jobStatus, overridden, used, photoRows, issued, removing, requests>>

\* A query fails or the process dies: open transactions roll back, and nobody
\* takes up what the request had still to do.
PhotoRequestLost(m) ==
    /\ Ends(m)
    /\ UNCHANGED <<jobStatus, overridden, used, photoRows, issued, inBucket, removing>>

PhotoNext ==
    \/ \E h \in Caller :
        \/ PresignBegin(h)
        \/ \E ks \in SUBSET issued : ConfirmBegin(h, ks) \/ CancelReservation(h, ks)
        \/ \E override \in BOOLEAN : ApproveRead(h, override)
        \/ \E to \in PhotoJobStatus : StatusRead(h, to)
    \/ \E m \in requests :
        \/ \E ks \in SUBSET Photo : PresignInsert(m, ks)
        \/ PresignRefused(m) \/ UrlsIssued(m) \/ UrlsFailed(m)
        \/ \E answered \in BOOLEAN : ConfirmCommit(m, answered)
        \/ ConfirmRefused(m) \/ ConfirmRolledBack(m)
        \/ CleanupRows(m) \/ ApproveCount(m) \/ ApproveWrite(m) \/ StatusWrite(m)
        \/ PhotoRequestLost(m)
    \/ \E k \in Photo :
        \/ \E works \in BOOLEAN : RemoveObject(k, works)
        \/ ReservationExpires(k) \/ PutObject(k)

PhotoSpec == PhotoInit /\ [][PhotoNext]_photoVars

-----------------------------------------------------------------------------
(* Properties *)

\* A job never has more accepted photos than the limit, although reservations
\* expire, are confirmed late, and are taken by several requests at once.
AcceptedWithinCap == Cardinality(confirmed) <= MaxPerJob

\* What was promised fits: live reservations and the photos confirmed in time
\* are within the limit together, so only a late confirmation can make the
\* confirmation of a live reservation fail.
ReservationsFit == Cardinality((confirmed \ late) \cup pending) <= MaxPerJob

\* Without an override an operator approves a completion only with an accepted
\* photo on file, and the photo is still there ever after.  What the webhook
\* closes is not asked for a photo.
ApprovedHasPhoto == jobStatus = "approved" => overridden \/ confirmed # {}

-----------------------------------------------------------------------------
(* The album of PhotoAlbum, read off the rows, the bucket and the job *)

Moving == {m \in requests : m.step \in PhotoJobStatus}

Fitting == {ks \in SUBSET Photo : Cardinality(ks) <= MaxPerJob}

Album == INSTANCE PhotoAlbum WITH
    Mover <- Caller, phase <- jobStatus, moves <- {<<m.handler, m.step>> : m \in Moving},
    reasoned <- overridden, reserved <- pending, lapsed <- stale,
    accepted <- confirmed, kept <- confirmed \cap inBucket

\* The routes keep an album: whatever requests, expiries, cleanups, approvals and
\* stale writes of the job's status come between the steps of one another, photos
\* are accepted whole batches at a time, within the limit, and only while the job
\* is reported complete; an accepted photo keeps its row and its object; and an
\* approved or ended job is opened again by nothing but a request that had read it
\* in time.
KeepsTheAlbum == Album!AlbumSpec
=============================================================================
