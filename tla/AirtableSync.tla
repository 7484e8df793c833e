---------------------------- MODULE AirtableSync ----------------------------
(***************************************************************************)
(* The mirror of one job in Airtable.  A handler commits a change of the   *)
(* job and then its completion photos, writes the row it is linked to, or  *)
(* creates one and stores the link, and writes the contractor link last.   *)
(* With Redis a sync is attempted up to Attempts times by a pool of        *)
(* workers, and survives a crash; without, it is tried once, at once, in   *)
(* the process.  Syncs of different jobs do not meet.                      *)
(*                                                                         *)
(* Version v of the job is what its rows hold after their v-th change.  A  *)
(* row of Airtable shows a version in each group of fields written at      *)
(* once:                                                                   *)
(*   status      Status, Backend Job Status                                *)
(*   details     Total Amount, Remaining Balance, the count of the intake  *)
(*               photos: what POST and PATCH both take from the job row    *)
(*   photos      the count of the completion photos, their flag and link   *)
(*   contractor  the link to the contractor                                *)
(* Left out are the fields that only the POST fills, with what it read     *)
(* (customer, address, prices, appointment) or with a constant (Dispatch   *)
(* Status, which the PATCH writes when there is a dispatch), and the       *)
(* attachments of the completion photos, where a photo that cannot be      *)
(* presigned is missing: of these nothing is claimed.                      *)
(***************************************************************************)
EXTENDS Naturals, FiniteSets

CONSTANTS
    MaxVersion,    \* bound: the changes of the job
    Attempts,      \* attempts of the queue
    Concurrency,   \* concurrency of its worker
    Row, NoRow,    \* bound: the rows that may ever be created; no row
    MaxCrashes     \* bound: restarts

ASSUME SyncAssumption ==
    /\ MaxVersion \in Nat \ {0}
    /\ Attempts \in Nat \ {0}
    /\ Concurrency \in Nat
    /\ NoRow \notin Row
    /\ MaxCrashes \in Nat

VARIABLES
    redisQueueActive,  \* chosen at start
    version,           \* the committed version of the job
    sync,              \* where the sync requested for a version is
    attemptsMade,      \* how often it has failed
    running,           \* the attempts in progress, with what they have read
    linked,            \* jobs.airtable_record_id
    created,           \* external: the rows that exist in Airtable
    shown,             \* external: what they show
    crashes,           \* restarts so far
    overlapped,        \* history: two attempts ran at once
    unlinked,          \* history: a row was created whose link was not stored
    unseen             \* history: the syncs that worked without the completion photos

airtableVars == <<created, shown>>
vars == <<redisQueueActive, version, sync, attemptsMade, running, linked, airtableVars,
          crashes, overlapped, unlinked, unseen>>

Version == 1 .. MaxVersion
SyncState == {"none", "owed", "waiting", "running", "done", "failed", "lost"}
Step == {"photos", "create", "link", "update", "contractor", "failing", "error", "end"}

\* photos: the version of the completion photos, or 0 when they could not be read
Attempt == [sync : Version, step : Step, seen : Version, photos : 0 .. MaxVersion,
            row : Row \cup {NoRow}]
Shown == [status : 0 .. MaxVersion, details : 0 .. MaxVersion, photos : 0 .. MaxVersion,
          contractor : 0 .. MaxVersion, error : BOOLEAN]

TypeOK ==
    /\ redisQueueActive \in BOOLEAN
    /\ version \in Version
    /\ sync \in [Version -> SyncState]
    /\ attemptsMade \in [Version -> 0 .. Attempts]
    /\ running \subseteq Attempt
    /\ linked \in created \cup {NoRow}
    /\ created \subseteq Row
    /\ shown \in [Row -> Shown]
    /\ crashes \in 0 .. MaxCrashes
    /\ overlapped \in BOOLEAN
    /\ unlinked \in BOOLEAN
    /\ unseen \subseteq Version

\* The job has just been created and its handler has still to ask for a sync.
Init ==
    /\ redisQueueActive \in BOOLEAN
    /\ version = 1
    /\ sync = [v \in Version |-> IF v = 1 THEN "owed" ELSE "none"]
    /\ attemptsMade = [v \in Version |-> 0]
    /\ running = {}
    /\ linked = NoRow
    /\ created = {}
    /\ shown = [r \in Row |-> [status |-> 0, details |-> 0, photos |-> 0, contractor |-> 0,
                               error |-> FALSE]]
    /\ crashes = 0
    /\ overlapped = FALSE
    /\ unlinked = FALSE
    /\ unseen = {}

MaxAttempts == IF redisQueueActive THEN Attempts ELSE 1

-----------------------------------------------------------------------------
(* The handlers that change the job *)

\* The change is committed, and enqueueAirtableSync comes next.
JobChanges ==
    /\ version < MaxVersion
    /\ version' = version + 1
    /\ sync' = [sync EXCEPT ![version + 1] = "owed"]
    /\ UNCHANGED <<redisQueueActive, attemptsMade, running, linked, airtableVars, crashes,
                   overlapped, unlinked, unseen>>

\* recalculate changes the amounts and asks for no sync.
JobChangesUnsynced ==
    /\ version < MaxVersion
    /\ version' = version + 1
    /\ UNCHANGED <<redisQueueActive, sync, attemptsMade, running, linked, airtableVars, crashes,
                   overlapped, unlinked, unseen>>

EnqueueAirtableSync(v) ==
    /\ sync[v] = "owed"
    /\ sync' = [sync EXCEPT ![v] = "waiting"]
    /\ UNCHANGED <<redisQueueActive, version, attemptsMade, running, linked, airtableVars,
                   crashes, overlapped, unlinked, unseen>>

\* Redis refuses the task; every caller logs the error and goes on.
EnqueueFails(v) ==
    /\ redisQueueActive
    /\ sync[v] = "owed"
    /\ sync' = [sync EXCEPT ![v] = "lost"]
    /\ UNCHANGED <<redisQueueActive, version, attemptsMade, running, linked, airtableVars,
                   crashes, overlapped, unlinked, unseen>>

-----------------------------------------------------------------------------
(* processSyncJob *)

\* Mutant: the task carries the job as it was when the sync was asked for
ProcessSyncJob_Payload(v) ==
    /\ sync[v] = "waiting"
    /\ redisQueueActive => Cardinality(running) < Concurrency
    /\ sync' = [sync EXCEPT ![v] = "running"]
    /\ running' = running \cup
         {[sync |-> v, step |-> "photos", seen |-> v, photos |-> 0, row |-> linked]}
    /\ overlapped' = (overlapped \/ running # {})
    /\ UNCHANGED <<redisQueueActive, version, attemptsMade, linked, airtableVars, crashes, unlinked, unseen>>

\* The worker takes the task up and reads the job.
ProcessSyncJob(v) ==
    /\ sync[v] = "waiting"
    /\ redisQueueActive => Cardinality(running) < Concurrency
    /\ sync' = [sync EXCEPT ![v] = "running"]
    /\ running' = running \cup
         {[sync |-> v, step |-> "photos", seen |-> version, photos |-> 0, row |-> linked]}
    /\ overlapped' = (overlapped \/ running # {})
    /\ UNCHANGED <<redisQueueActive, version, attemptsMade, linked, airtableVars, crashes, unlinked, unseen>>

\* The attempt throws, and what it has read goes out of scope.
Throws(a) == [a EXCEPT !.step = "failing", !.photos = 0]

\* One more call of the attempt works, or it throws.
GoesOn(a, works, step) ==
    running' = (running \ {a}) \cup {IF works THEN [a EXCEPT !.step = step] ELSE Throws(a)}

\* The completion photos are read by a query of their own.  When it fails, the
\* attempt goes on without them.
ReadCompletionPhotos(a, works) ==
    /\ a.step = "photos"
    /\ running' = (running \ {a}) \cup
         {[a EXCEPT !.step = IF a.row = NoRow THEN "create" ELSE "update",
                    !.photos = IF works THEN version ELSE 0]}
    /\ UNCHANGED <<redisQueueActive, version, sync, attemptsMade, linked, airtableVars, crashes,
                   overlapped, unlinked, unseen>>

\* The attempt is over; its sync goes to the state s.
Ends(a, s) ==
    /\ running' = running \ {a}
    /\ sync' = [sync EXCEPT ![a.sync] = s]

\* syncJobToAirtable: the POST creates a row, whether or not its answer arrives.
CreateRow(a, r, answered) ==
    /\ a.step = "create"
    /\ r \notin created
    /\ running' = (running \ {a}) \cup
         {IF answered THEN [a EXCEPT !.step = "link", !.row = r]
                      ELSE Throws(a)}
    /\ created' = created \cup {r}
    /\ shown' = [shown EXCEPT ![r] = [status |-> a.seen, details |-> a.seen,
                                      photos |-> a.photos, contractor |-> 0, error |-> FALSE]]
    /\ unlinked' = (unlinked \/ ~ answered)
    /\ UNCHANGED <<redisQueueActive, version, sync, attemptsMade, linked, crashes, overlapped, unseen>>

\* Mutant: the new row's id is not stored
StoreLink_Forgotten(a, works) ==
    /\ a.step = "link"
    /\ GoesOn(a, works, "contractor")
    /\ unlinked' = (unlinked \/ ~ works)
    /\ UNCHANGED <<redisQueueActive, version, sync, attemptsMade, linked, airtableVars, crashes,
                   overlapped, unseen>>

\* The link is stored whatever is stored there by now.
StoreLink(a, works) ==
    /\ a.step = "link"
    /\ GoesOn(a, works, "contractor")
    /\ linked' = IF works THEN a.row ELSE linked
    /\ unlinked' = (unlinked \/ ~ works)
    /\ UNCHANGED <<redisQueueActive, version, sync, attemptsMade, airtableVars, crashes, overlapped,
                   unseen>>

\* Mutant: a sync that worked leaves the error of an earlier attempt
UpdateAirtableStatus_KeepsError(a, applied, answered) ==
    /\ a.step = "update"
    /\ answered => applied
    /\ GoesOn(a, answered, "contractor")
    /\ shown' = IF applied
                THEN [shown EXCEPT ![a.row].status = a.seen, ![a.row].details = a.seen,
                                   ![a.row].photos = IF a.photos = 0 THEN @ ELSE a.photos]
                ELSE shown
    /\ UNCHANGED <<redisQueueActive, version, sync, attemptsMade, linked, created, crashes,
                   overlapped, unlinked, unseen>>

\* Mutant: photos that could not be read are written as none
UpdateAirtableStatus_BlanksPhotos(a, applied, answered) ==
    /\ a.step = "update"
    /\ answered => applied
    /\ GoesOn(a, answered, "contractor")
    /\ shown' = IF applied
                THEN [shown EXCEPT ![a.row].status = a.seen, ![a.row].details = a.seen,
                                   ![a.row].photos = a.photos, ![a.row].error = FALSE]
                ELSE shown
    /\ UNCHANGED <<redisQueueActive, version, sync, attemptsMade, linked, created, crashes,
                   overlapped, unlinked, unseen>>

\* updateAirtableStatus: a PATCH may be applied and its answer lost.  Without
\* completion photos it leaves their fields as they are.
UpdateAirtableStatus(a, applied, answered) ==
    /\ a.step = "update"
    /\ answered => applied
    /\ GoesOn(a, answered, "contractor")
    /\ shown' = IF applied
                THEN [shown EXCEPT ![a.row].status = a.seen, ![a.row].details = a.seen,
                                   ![a.row].photos = IF a.photos = 0 THEN @ ELSE a.photos,
                                   ![a.row].error = FALSE]
                ELSE shown
    /\ UNCHANGED <<redisQueueActive, version, sync, attemptsMade, linked, created, crashes,
                   overlapped, unlinked, unseen>>

\* Mutant: a failed PATCH of the contractor link is let pass
UpdateAirtableAssignedContractor_Ignored(a, applied, answered) ==
    /\ a.step = "contractor"
    /\ answered => applied
    /\ Ends(a, "done")
    /\ shown' = IF applied THEN [shown EXCEPT ![a.row].contractor = a.seen] ELSE shown
    /\ unseen' = IF a.photos = 0 THEN unseen \cup {a.sync} ELSE unseen
    /\ UNCHANGED <<redisQueueActive, version, attemptsMade, linked, created, crashes,
                   overlapped, unlinked>>

\* updateAirtableAssignedContractor, the last write of an attempt.  A new row
\* without a contractor is left blank, which shows the version as well.
UpdateAirtableAssignedContractor(a, applied, answered) ==
    /\ a.step = "contractor"
    /\ answered => applied
    /\ running' = (running \ {a}) \cup (IF answered THEN {} ELSE {Throws(a)})
    /\ sync' = IF answered THEN [sync EXCEPT ![a.sync] = "done"] ELSE sync
    /\ shown' = IF applied THEN [shown EXCEPT ![a.row].contractor = a.seen] ELSE shown
    /\ unseen' = IF answered /\ a.photos = 0 THEN unseen \cup {a.sync} ELSE unseen
    /\ UNCHANGED <<redisQueueActive, version, attemptsMade, linked, created, crashes,
                   overlapped, unlinked>>

\* The POST, or a query of this attempt, fails without a trace.
AttemptThrows(a) ==
    /\ a.step \in {"photos", "create", "update"}
    /\ running' = (running \ {a}) \cup {Throws(a)}
    /\ UNCHANGED <<redisQueueActive, version, sync, attemptsMade, linked, airtableVars, crashes,
                   overlapped, unlinked, unseen>>

\* The catch block reads link and status again, for the mirror of the error.
ErrorRead(a, works) ==
    /\ a.step = "failing"
    /\ running' = (running \ {a}) \cup
         {IF works /\ linked # NoRow
          THEN [a EXCEPT !.step = "error", !.seen = version, !.row = linked]
          ELSE [a EXCEPT !.step = "end"]}
    /\ UNCHANGED <<redisQueueActive, version, sync, attemptsMade, linked, airtableVars, crashes,
                   overlapped, unlinked, unseen>>

ErrorWrite(a, applied) ==
    /\ a.step = "error"
    /\ running' = (running \ {a}) \cup {[Throws(a) EXCEPT !.step = "end"]}
    /\ shown' = IF applied
                THEN [shown EXCEPT ![a.row].status = a.seen, ![a.row].error = TRUE] ELSE shown
    /\ UNCHANGED <<redisQueueActive, version, sync, attemptsMade, linked, created, crashes,
                   overlapped, unlinked, unseen>>

\* Mutant: attempts are not counted
AttemptFailed_Uncounted(a) ==
    /\ a.step = "end"
    /\ Ends(a, IF attemptsMade[a.sync] + 1 < MaxAttempts THEN "waiting" ELSE "failed")
    /\ UNCHANGED <<redisQueueActive, version, attemptsMade, linked, airtableVars, crashes,
                   overlapped, unlinked, unseen>>

\* Mutant: one attempt too many
AttemptFailed_OneMore(a) ==
    /\ a.step = "end"
    /\ attemptsMade' = [attemptsMade EXCEPT ![a.sync] = @ + 1]
    /\ Ends(a, IF attemptsMade[a.sync] < MaxAttempts THEN "waiting" ELSE "failed")
    /\ UNCHANGED <<redisQueueActive, version, linked, airtableVars, crashes, overlapped, unlinked, unseen>>

\* The error is thrown on: the queue tries again, or gives up and the owner is
\* alerted.
AttemptFailed(a) ==
    /\ a.step = "end"
    /\ attemptsMade' = [attemptsMade EXCEPT ![a.sync] = @ + 1]
    /\ Ends(a, IF attemptsMade[a.sync] + 1 < MaxAttempts THEN "waiting" ELSE "failed")
    /\ UNCHANGED <<redisQueueActive, version, linked, airtableVars, crashes, overlapped, unlinked, unseen>>

\* The process dies.  Redis keeps its tasks and starts the unfinished ones
\* again; everything else is gone.
Crash ==
    /\ crashes < MaxCrashes
    /\ crashes' = crashes + 1
    /\ running' = {}
    /\ sync' = [v \in Version |->
                  CASE sync[v] = "owed" -> "lost"
                    [] sync[v] \in {"waiting", "running"} ->
                         IF redisQueueActive THEN "waiting" ELSE "lost"
                    [] OTHER -> sync[v]]
    /\ unlinked' = (unlinked \/ \E a \in running : a.step = "link")
    /\ UNCHANGED <<redisQueueActive, version, attemptsMade, linked, airtableVars, overlapped, unseen>>

Attempting(a) ==
    \/ \E r \in Row, answered \in BOOLEAN : CreateRow(a, r, answered)
    \/ \E works \in BOOLEAN :
           ReadCompletionPhotos(a, works) \/ StoreLink(a, works) \/ ErrorRead(a, works)
    \/ \E applied, answered \in BOOLEAN :
           \/ UpdateAirtableStatus(a, applied, answered)
           \/ UpdateAirtableAssignedContractor(a, applied, answered)
    \/ \E applied \in BOOLEAN : ErrorWrite(a, applied)
    \/ AttemptThrows(a)
    \/ AttemptFailed(a)

Next ==
    \/ JobChanges \/ JobChangesUnsynced
    \/ \E v \in Version : EnqueueAirtableSync(v) \/ EnqueueFails(v) \/ ProcessSyncJob(v)
    \/ \E a \in running : Attempting(a)
    \/ Crash

Spec == Init /\ [][Next]_vars

\* The worker takes up what waits, and an attempt that has begun goes on:
\* every call it awaits answers or throws.
Fairness ==
    /\ \A v \in Version : SF_vars(ProcessSyncJob(v))
    /\ WF_vars(\E a \in running : Attempting(a))

FairSpec == Spec /\ Fairness

-----------------------------------------------------------------------------
(* Properties *)

\* A row goes back to an older version only if two attempts ran at once,
\* however often attempts fail, are repeated, are cut short or miss the photos.
NeverGoesBack ==
    [][\A r \in created : \/ overlapped
                          \/ /\ shown'[r].status >= shown[r].status
                             /\ shown'[r].details >= shown[r].details
                             /\ shown'[r].photos >= shown[r].photos
                             /\ shown'[r].contractor >= shown[r].contractor]_vars

\* Retries heal: unless two attempts ran at once, the linked row shows at least
\* the version of every finished sync in the fields every attempt that works
\* writes, and in those of the completion photos if the attempt could read them.
MirrorHeals ==
    ~ overlapped => \A v \in Version : sync[v] = "done" =>
        /\ linked # NoRow
        /\ shown[linked].status >= v
        /\ shown[linked].details >= v
        /\ shown[linked].contractor >= v
        /\ v \in unseen \/ shown[linked].photos >= v

\* An error on the linked row is the error of a sync that has not worked: one
\* that works clears what earlier attempts left.
ErrorExplained ==
    ~ overlapped /\ linked # NoRow /\ shown[linked].error =>
        \E v \in Version : sync[v] \in {"waiting", "running", "failed", "lost"}

\* A job gets a second row only if two attempts ran at once, or the link of a
\* row that was created could not be stored.
OneRowPerJob == ~ overlapped /\ ~ unlinked => Cardinality(created) <= 1

\* Every sync the queue has accepted comes to an end.
QueueDrains ==
    \A v \in Version : sync[v] = "waiting" ~> sync[v] \in {"done", "failed", "lost"}

\* airtableSync.queue.ts:559: "always included so Airtable reflects latest", of the
\* count of the intake photos, one of the details.  When every sync has worked, the
\* one row shows the change each was asked for; but two workers overtake each other,
\* and the older snapshot stays.
MirrorReflectsLatest ==
    Cardinality(created) = 1 /\ (\A v \in Version : sync[v] \in {"none", "done"}) =>
        \A v \in Version : sync[v] = "done" => shown[linked].details >= v
=============================================================================
