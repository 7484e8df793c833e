--------------------------- MODULE MissingDocuments ---------------------------
(***************************************************************************)
(* One submission of the missing-documents form: its row in                *)
(* contractor_missing_document_submissions and every delivery of it by     *)
(* Jotform, which delivers again whatever was not answered 200, or not in  *)
(* time.  A delivery files the documents in Google Drive, marks them in    *)
(* Airtable and tells the operator by e-mail; the row says how far they    *)
(* all have come.  Filing and telling are claimed for 15 minutes, the      *)
(* update of Airtable is not claimed.                                      *)
(***************************************************************************)
EXTENDS FiniteSets

CONSTANTS
    Document,     \* the documents supplied that Airtable has a receipt field for
    Handler       \* bound: the deliveries in progress at once

VARIABLES
    processing,    \* processing_status, "none" before the insert
    filesDone,     \* files_processed_at IS NOT NULL
    results,       \* document_results: the documents with status uploaded
    synced,        \* airtable_synced_at IS NOT NULL
    notification,  \* notification_status; "sent" stands for "logged" too
    fresh,         \* the claims younger than 15 minutes
    request,       \* where each delivery is, and what it works with
    drive,         \* the documents with a file in Google Drive
    received,      \* the receipt fields set in Airtable
    review,        \* Missing Docs Review Status: whose value it has
    mailed,        \* the lists of documents the operator was sent
    lapsed,        \* history: claims that grew old under a delivery
    caught         \* history: deliveries between GET and PATCH when the
                   \* operator decided

rowVars == <<processing, filesDone, results, synced, notification, fresh>>
outerVars == <<drive, received, review, mailed>>
docVars == <<rowVars, request, outerVars, lapsed, caught>>

Processing == {"pending", "processing_files", "files_failed", "files_processed",
               "airtable_synced", "completed"}
Claim == {"files", "mail"}

\* The awaits a delivery can be at
Step == {"idle", "claimFiles", "reread", "upload", "filesFailed", "status", "patch",
         "patched", "claimMail", "mail", "mailed", "mailFailed"}

\* A delivery and its own copies: "tried" and "up" are the upload results (up
\* later those of the row it has read), "seen" the review status it has read
Request == [at : Step, tried : SUBSET Document, up : SUBSET Document,
            seen : {"ours", "decided"}]

Idle == [at |-> "idle", tried |-> {}, up |-> {}, seen |-> "ours"]

DocTypeOK ==
    /\ processing \in Processing \cup {"none"}
    /\ filesDone \in BOOLEAN /\ synced \in BOOLEAN
    /\ results \subseteq Document /\ drive \subseteq Document /\ received \subseteq Document
    /\ notification \in {"pending", "sending", "sent", "failed"}
    /\ fresh \subseteq Claim /\ lapsed \subseteq Claim
    /\ request \in [Handler -> Request]
    /\ review \in {"ours", "decided"}
    /\ mailed \subseteq SUBSET Document
    /\ caught \subseteq Handler

DocInit ==
    /\ processing = "none" /\ filesDone = FALSE /\ results = {} /\ synced = FALSE
    /\ notification = "pending" /\ fresh = {}
    /\ request = [h \in Handler |-> Idle]
    /\ drive = {} /\ received = {} /\ review = "ours" /\ mailed = {}
    /\ lapsed = {} /\ caught = {}

At(h, step) == request[h].at = step
FileWorkers == {h \in Handler : request[h].at \in {"upload", "filesFailed"}}
Mailers == {h \in Handler : request[h].at \in {"mail", "mailed", "mailFailed"}}

GoesTo(h, step) == request' = [request EXCEPT ![h].at = step]
Answers(h) == request' = [request EXCEPT ![h] = Idle]

-----------------------------------------------------------------------------
(* processMissingDocumentsSubmission: what is left to do by a row that says  *)
(* whether it is synced and notified; docs are its document_results          *)

LeftAfterAirtable(notified, docs) ==
    IF notified = "sent" THEN Idle ELSE [Idle EXCEPT !.at = "claimMail", !.up = docs]

LeftAfterFiles(isSynced, notified, docs) ==
    IF isSynced THEN LeftAfterAirtable(notified, docs)
    ELSE [Idle EXCEPT !.at = "status", !.up = docs]

\* Inserted, or reloaded on conflict.  A completed submission is answered as a
\* duplicate.
ReserveSubmission(h) ==
    /\ At(h, "idle")
    /\ processing' = IF processing = "none" THEN "pending" ELSE processing
    /\ request' = [request EXCEPT ![h] =
                      IF processing = "completed" THEN Idle
                      ELSE IF filesDone THEN LeftAfterFiles(synced, notification, results)
                      ELSE [Idle EXCEPT !.at = "claimFiles"]]
    /\ UNCHANGED <<filesDone, results, synced, notification, fresh, outerVars, lapsed, caught>>

\* Mutant: a claim being processed can be taken over at any age
FilesClaimable_AtAnyAge ==
    /\ ~ filesDone
    /\ processing \in {"pending", "files_failed", "processing_files"}

FilesClaimable ==
    /\ ~ filesDone
    /\ \/ processing \in {"pending", "files_failed"}
       \/ processing = "processing_files" /\ "files" \notin fresh

ClaimFileProcessing(h) ==
    /\ At(h, "claimFiles")
    /\ FilesClaimable
    /\ processing' = "processing_files"
    /\ fresh' = fresh \cup {"files"}
    /\ GoesTo(h, "upload")
    /\ UNCHANGED <<filesDone, results, synced, notification, outerVars, lapsed, caught>>

ClaimFileProcessingRefused(h) ==
    /\ At(h, "claimFiles")
    /\ ~ FilesClaimable
    /\ GoesTo(h, "reread")
    /\ UNCHANGED <<rowVars, outerVars, lapsed, caught>>

\* Whoever did not get the claim goes on if the files are there by now, and
\* answers as a duplicate if not.
RereadSubmission(h) ==
    /\ At(h, "reread")
    /\ request' = [request EXCEPT ![h] =
                      IF filesDone THEN LeftAfterFiles(synced, notification, results) ELSE Idle]
    /\ UNCHANGED <<rowVars, outerVars, lapsed, caught>>

-----------------------------------------------------------------------------
(* processFiles *)

\* downloadAndUploadFile: the file is stored, or stored with its answer lost,
\* or rejected; an error is the document's result and not tried again.
UploadDocument(h, d) ==
    /\ At(h, "upload")
    /\ d \notin request[h].tried
    /\ \E stored, uploaded \in BOOLEAN :
          /\ uploaded => stored
          /\ drive' = IF stored THEN drive \cup {d} ELSE drive
          /\ request' = [request EXCEPT ![h].tried = @ \cup {d},
                                        ![h].up = IF uploaded THEN @ \cup {d} ELSE @]
    /\ UNCHANGED <<rowVars, received, review, mailed, lapsed, caught>>

\* Mutant: the results are every document that was tried
MarkFilesProcessed_Rejected(h) ==
    /\ At(h, "upload")
    /\ request[h].tried = Document
    /\ processing' = "files_processed"
    /\ filesDone' = TRUE
    /\ results' = request[h].tried
    /\ request' = [request EXCEPT ![h] = LeftAfterFiles(synced, notification, results')]
    /\ UNCHANGED <<synced, notification, fresh, outerVars, lapsed, caught>>

\* Written by id: a claim that has lapsed is not noticed.
MarkFilesProcessed(h) ==
    /\ At(h, "upload")
    /\ request[h].tried = Document
    /\ processing' = "files_processed"
    /\ filesDone' = TRUE
    /\ results' = request[h].up
    /\ request' = [request EXCEPT ![h] = LeftAfterFiles(synced, notification, results')]
    /\ UNCHANGED <<synced, notification, fresh, outerVars, lapsed, caught>>

\* Finding the folder, or storing the results, throws.
FilesFail(h) ==
    /\ At(h, "upload")
    /\ request[h].tried \in {{}, Document}
    /\ GoesTo(h, "filesFailed")
    /\ UNCHANGED <<rowVars, outerVars, lapsed, caught>>

\* Mutant: a status the schema does not have
MarkFilesFailed_UnknownStatus(h) ==
    /\ At(h, "filesFailed")
    /\ processing' = "failed"
    /\ Answers(h)
    /\ UNCHANGED <<filesDone, results, synced, notification, fresh, outerVars, lapsed, caught>>

MarkFilesFailed(h) ==
    /\ At(h, "filesFailed")
    /\ processing' = "files_failed"
    /\ Answers(h)
    /\ UNCHANGED <<filesDone, results, synced, notification, fresh, outerVars, lapsed, caught>>

-----------------------------------------------------------------------------
(* The update of Airtable *)

\* Mutant: the review status is taken to be ours without reading it
ReadStatuses_NotRead(h) ==
    /\ At(h, "status")
    /\ request' = [request EXCEPT ![h].at = "patch", ![h].seen = "ours"]
    /\ UNCHANGED <<rowVars, outerVars, lapsed, caught>>

\* getContractorMissingDocumentsStatuses, before every PATCH
ReadStatuses(h) ==
    /\ At(h, "status")
    /\ request' = [request EXCEPT ![h].at = "patch", ![h].seen = review]
    /\ UNCHANGED <<rowVars, outerVars, lapsed, caught>>

\* buildAirtableFields and the PATCH: a receipt per uploaded document, and our
\* review status unless the operator has decided.
PatchContractor(h) ==
    /\ At(h, "patch")
    /\ received' = received \cup request[h].up
    /\ review' = IF request[h].seen = "decided" THEN review ELSE "ours"
    /\ caught' = caught \ {h}
    /\ GoesTo(h, "patched")
    /\ UNCHANGED <<rowVars, drive, mailed, lapsed>>

\* Mutant: marked before the PATCH is sent
MarkAirtableSynced_BeforePatch(h) ==
    /\ request[h].at \in {"patch", "patched"}
    /\ processing' = "airtable_synced"
    /\ synced' = TRUE
    /\ request' = [request EXCEPT ![h] = LeftAfterAirtable(notification, results)]
    /\ UNCHANGED <<filesDone, results, notification, fresh, outerVars, lapsed, caught>>

MarkAirtableSynced(h) ==
    /\ At(h, "patched")
    /\ processing' = "airtable_synced"
    /\ synced' = TRUE
    /\ request' = [request EXCEPT ![h] = LeftAfterAirtable(notification, results)]
    /\ UNCHANGED <<filesDone, results, notification, fresh, outerVars, lapsed, caught>>

\* GET, PATCH or the mark throws: counted in the row and answered 503.
AirtableFails(h) ==
    /\ request[h].at \in {"status", "patch", "patched"}
    /\ Answers(h)
    /\ caught' = caught \ {h}
    /\ UNCHANGED <<rowVars, outerVars, lapsed>>

-----------------------------------------------------------------------------
(* The e-mail to the operator *)

\* Mutant: a message being sent can be taken over at any age
MailClaimable_AtAnyAge ==
    /\ synced
    /\ notification \in {"pending", "failed", "sending"}

MailClaimable ==
    /\ synced
    /\ \/ notification \in {"pending", "failed"}
       \/ notification = "sending" /\ "mail" \notin fresh

\* Refused, the delivery is answered as a duplicate.
ClaimNotification(h) ==
    /\ At(h, "claimMail")
    /\ \/ /\ MailClaimable
          /\ notification' = "sending"
          /\ fresh' = fresh \cup {"mail"}
          /\ request' = [request EXCEPT ![h].at = "mail", ![h].up = results]
       \/ /\ ~ MailClaimable
          /\ Answers(h)
          /\ UNCHANGED <<notification, fresh>>
    /\ UNCHANGED <<processing, filesDone, results, synced, outerVars, lapsed, caught>>

\* The mail provider sends a message once per idempotency key, and the key is
\* the submission's.
SendNotification(h) ==
    /\ At(h, "mail")
    /\ mailed' = IF mailed = {} THEN {request[h].up} ELSE mailed
    /\ GoesTo(h, "mailed")
    /\ UNCHANGED <<rowVars, drive, received, review, lapsed, caught>>

\* Mutant: the row is completed before the message is sent
CompleteNotification_BeforeSend(h) ==
    /\ request[h].at \in {"mail", "mailed"}
    /\ notification' = "sent"
    /\ processing' = "completed"
    /\ Answers(h)
    /\ UNCHANGED <<filesDone, results, synced, fresh, outerVars, lapsed, caught>>

CompleteNotification(h) ==
    /\ At(h, "mailed")
    /\ notification' = "sent"
    /\ processing' = "completed"
    /\ Answers(h)
    /\ UNCHANGED <<filesDone, results, synced, fresh, outerVars, lapsed, caught>>

\* The send throws, or works and loses its answer, or completion is not stored.
NotificationFails(h) ==
    /\ request[h].at \in {"mail", "mailed"}
    /\ GoesTo(h, "mailFailed")
    /\ UNCHANGED <<rowVars, outerVars, lapsed, caught>>

MarkNotificationFailed(h) ==
    /\ At(h, "mailFailed")
    /\ notification' = "failed"
    /\ Answers(h)
    /\ UNCHANGED <<processing, filesDone, results, synced, fresh, outerVars, lapsed, caught>>

-----------------------------------------------------------------------------
(* Around the deliveries *)

\* A query outside of any try block, or in a catch block, throws.
RequestLost(h) ==
    /\ request[h].at \in {"claimFiles", "reread", "filesFailed", "claimMail", "mailFailed"}
    /\ Answers(h)
    /\ UNCHANGED <<rowVars, outerVars, lapsed, caught>>

\* 15 minutes go by.
ClaimLapses(c) ==
    /\ c \in fresh
    /\ fresh' = fresh \ {c}
    /\ lapsed' = IF \/ c = "files" /\ FileWorkers # {}
                    \/ c = "mail" /\ Mailers # {}
                 THEN lapsed \cup {c} ELSE lapsed
    /\ UNCHANGED <<processing, filesDone, results, synced, notification, request,
                   outerVars, caught>>

\* The operator accepts the documents or asks for more.
OperatorDecides ==
    /\ review = "ours"
    /\ review' = "decided"
    /\ caught' = {h \in Handler : At(h, "patch")}
    /\ UNCHANGED <<rowVars, request, drive, received, mailed, lapsed>>

\* The process dies, and what was in progress with it.
DocCrash ==
    /\ request' = [h \in Handler |-> Idle]
    /\ caught' = {}
    /\ UNCHANGED <<rowVars, outerVars, lapsed>>

DocNext ==
    \/ \E h \in Handler :
        \/ ReserveSubmission(h)
        \/ ClaimFileProcessing(h) \/ ClaimFileProcessingRefused(h) \/ RereadSubmission(h)
        \/ \E d \in Document : UploadDocument(h, d)
        \/ MarkFilesProcessed(h) \/ FilesFail(h) \/ MarkFilesFailed(h)
        \/ ReadStatuses(h) \/ PatchContractor(h) \/ MarkAirtableSynced(h) \/ AirtableFails(h)
        \/ ClaimNotification(h) \/ SendNotification(h) \/ CompleteNotification(h)
        \/ NotificationFails(h) \/ MarkNotificationFailed(h)
        \/ RequestLost(h)
    \/ \E c \in Claim : ClaimLapses(c)
    \/ OperatorDecides
    \/ DocCrash

DocSpec == DocInit /\ [][DocNext]_docVars

-----------------------------------------------------------------------------
(* Properties *)

\* Documents are filed by one delivery at a time, and by none once the row says
\* they are filed ("without re-uploading files"), unless a claim grew old while
\* its delivery was still at work.
FiledOnce ==
    "files" \notin lapsed =>
        /\ \A g, h \in FileWorkers : g = h
        /\ filesDone => FileWorkers = {}

\* The same for telling the operator: a delivery that comes in while another is
\* sending, or after it has sent, does not send.
ToldByOne ==
    "mail" \notin lapsed =>
        /\ \A g, h \in Mailers : g = h
        /\ notification = "sent" => Mailers = {}

\* Whatever Airtable marks received, the row calls uploaded or the mail lists
\* is in Drive, with or without lapsed claims.
ReceivedIsFiled ==
    /\ received \subseteq drive
    /\ results \subseteq drive
    /\ \A docs \in mailed : docs \subseteq drive

\* What the operator is told is what the row holds and Airtable shows already,
\* over failures, retries and repeated deliveries.
ToldWhatAirtableShows ==
    "files" \notin lapsed => \A docs \in mailed : docs = results /\ docs \subseteq received

\* The status of the row and its time stamps tell one story: a phase that is
\* over is never shown as open again, and completed means that all three are.
StatusMatchesRow ==
    /\ "files" \notin lapsed =>
          /\ filesDone <=> processing \in {"files_processed", "airtable_synced", "completed"}
          /\ synced <=> processing \in {"airtable_synced", "completed"}
    /\ "mail" \notin lapsed /\ processing = "completed" => notification = "sent"
    /\ notification = "sent" => mailed # {}
    /\ synced => filesDone

\* docs/contractor-missing-documents-backend.md: an operator's decision can be
\* overwritten by a delivery that had read the status before, and by no other,
\* however often the update is tried again.
DecisionKept ==
    [][review = "decided" /\ review' # "decided" => caught # {}]_docVars
=============================================================================
