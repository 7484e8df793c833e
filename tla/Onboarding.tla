------------------------------ MODULE Onboarding ------------------------------
(***************************************************************************)
(* The onboarding forms of one contractor.  Jotform delivers a submission, *)
(* perhaps several times; a delivery files the documents in Google Drive,  *)
(* adds the receipts of all earlier rows to its own, stores them as a row  *)
(* of contractor_onboarding_documents, writes the whole checklist to       *)
(* Airtable, and deletes the e-mail event that keeps the operator from     *)
(* sending a second missing-documents follow-up.  Nothing locks the        *)
(* contractor between these awaits.  The contractor's Airtable record id   *)
(* is the same in all forms and left out.                                  *)
(***************************************************************************)
EXTENDS Naturals

CONSTANTS
    Item,         \* the receipts of the checklist
    Submission,   \* the submissions of the form
    ByFile,       \* the items each submission attaches a file for
    ByAnswer,     \* the items each submission's answers satisfy
    OtherForm,    \* the items the missing-documents form has a field for
    Delivery,     \* bound: the deliveries in progress at once
    NoForm        \* what an idle delivery works with

ASSUME FormsAssumption ==
    /\ ByFile \in [Submission -> SUBSET Item]
    /\ ByAnswer \in [Submission -> SUBSET Item]
    /\ OtherForm \subseteq Item
    /\ NoForm \notin Submission

VARIABLES
    stored,        \* the submissions with a row
    checklist,     \* the receipts of each row
    folders,       \* how many folders of the contractor Drive has
    filed,         \* the items with a file in Drive
    shown,         \* the receipts set in Airtable
    docsComplete,  \* Onboarding Document Status: "Submitted - Docs Complete"
    followUpLock,  \* there is a contractor_missing_docs e-mail event
    delivery,      \* where each delivery is, and what it works with
    elsewhere,     \* history: receipts the missing-documents form has set
    overlapping    \* history: deliveries that shared their time with another

fileVars == <<folders, filed>>
airtableVars == <<shown, docsComplete>>
onbVars == <<stored, checklist, fileVars, airtableVars, followUpLock, delivery,
             elsewhere, overlapping>>

\* The awaits a delivery can be at
OnbStep == {"idle", "folder", "create", "prior", "upload", "patch", "clear"}

\* A delivery: its submission, the receipts of the earlier rows as it has read
\* them, the files it has tried to upload and those it has uploaded
DeliveryState == [at : OnbStep, submission : Submission \cup {NoForm},
                  prior : SUBSET Item, tried : SUBSET Item, up : SUBSET Item]

Waiting == [at |-> "idle", submission |-> NoForm, prior |-> {}, tried |-> {}, up |-> {}]

OnbTypeOK ==
    /\ stored \subseteq Submission
    /\ checklist \in [Submission -> SUBSET Item]
    /\ folders \in Nat /\ filed \subseteq Item
    /\ shown \subseteq Item /\ docsComplete \in BOOLEAN
    /\ followUpLock \in BOOLEAN
    /\ delivery \in [Delivery -> DeliveryState]
    /\ elsewhere \subseteq Item /\ overlapping \subseteq Delivery

OnbInit ==
    /\ stored = {} /\ checklist = [s \in Submission |-> {}]
    /\ folders = 0 /\ filed = {}
    /\ shown = {} /\ docsComplete = FALSE
    /\ followUpLock = FALSE
    /\ delivery = [d \in Delivery |-> Waiting]
    /\ elsewhere = {} /\ overlapping = {}

OnbAt(d, step) == delivery[d].at = step
Form(d) == delivery[d].submission
Advance(d, step) == delivery' = [delivery EXCEPT ![d].at = step]
Respond(d) == /\ delivery' = [delivery EXCEPT ![d] = Waiting]
              /\ overlapping' = overlapping \ {d}

\* Every receipt some row holds
AllReceipts == UNION {checklist[s] : s \in stored}

\* The deliveries that have read the earlier rows and not answered
Working == {d \in Delivery : delivery[d].at \in {"upload", "patch", "clear"}}

-----------------------------------------------------------------------------
(* processOnboardingSubmission, await by await *)

\* The ids are checked, and a submission that has a row is answered as a
\* duplicate, which changes nothing.
ReceiveSubmission(d, s) ==
    /\ OnbAt(d, "idle")
    /\ s \notin stored
    /\ delivery' = [delivery EXCEPT ![d].at = "folder", ![d].submission = s]
    /\ UNCHANGED <<stored, checklist, fileVars, airtableVars, followUpLock, elsewhere,
                   overlapping>>

\* resolveContractorFolder: from Postgres, from Airtable, by its name in Drive,
\* or else a new one.
FolderKnown == folders > 0

ResolveFolder(d) ==
    /\ OnbAt(d, "folder")
    /\ Advance(d, IF FolderKnown THEN "prior" ELSE "create")
    /\ UNCHANGED <<stored, checklist, fileVars, airtableVars, followUpLock, elsewhere,
                   overlapping>>

CreateFolder(d) ==
    /\ OnbAt(d, "create")
    /\ folders' = folders + 1
    /\ Advance(d, "prior")
    /\ UNCHANGED <<stored, checklist, filed, airtableVars, followUpLock, elsewhere, overlapping>>

\* Mutant: only the latest form counts
ReadPrior_OwnOnly(d) ==
    /\ OnbAt(d, "prior")
    /\ Advance(d, "upload")
    /\ overlapping' = IF Working = {} THEN overlapping ELSE overlapping \cup Working \cup {d}
    /\ UNCHANGED <<stored, checklist, fileVars, airtableVars, followUpLock, elsewhere>>

\* BOOL_OR over the contractor's rows
ReadPrior(d) ==
    /\ OnbAt(d, "prior")
    /\ delivery' = [delivery EXCEPT ![d].at = "upload", ![d].prior = AllReceipts]
    /\ overlapping' = IF Working = {} THEN overlapping ELSE overlapping \cup Working \cup {d}
    /\ UNCHANGED <<stored, checklist, fileVars, airtableVars, followUpLock, elsewhere>>

\* downloadAndUploadFile: stored, stored with its answer lost, or rejected
DownloadAndUpload(i, answered) ==
    \E inDrive \in BOOLEAN :
        /\ answered => inDrive
        /\ filed' = IF inDrive THEN filed \cup {i} ELSE filed

\* An error is kept for the summary and the processing goes on.
UploadFile(d, i) ==
    /\ OnbAt(d, "upload")
    /\ i \in ByFile[Form(d)] \ delivery[d].tried
    /\ \E answered \in BOOLEAN :
          /\ DownloadAndUpload(i, answered)
          /\ delivery' = [delivery EXCEPT ![d].tried = @ \cup {i},
                                          ![d].up = IF answered THEN @ \cup {i} ELSE @]
    /\ UNCHANGED <<stored, checklist, folders, airtableVars, followUpLock, elsewhere,
                   overlapping>>

\* Receipts for what is uploaded, and for what is signed, checked or entered
ComputeChecklist(d) == delivery[d].up \cup ByAnswer[Form(d)]

\* Mutant: a receipt for every file the form has, uploaded or not
MergedChecklist_Attached(d) ==
    delivery[d].tried \cup ByAnswer[Form(d)] \cup delivery[d].prior

\* computeChecklist, merged with the earlier rows
MergedChecklist(d) == ComputeChecklist(d) \cup delivery[d].prior

\* The summary is uploaded, or not, and the row inserted.  jotform_submission_id
\* is unique: of two deliveries of one submission the second one's INSERT throws.
StoreRow(d) ==
    /\ OnbAt(d, "upload")
    /\ delivery[d].tried = ByFile[Form(d)]
    /\ \/ /\ Form(d) \notin stored
          /\ stored' = stored \cup {Form(d)}
          /\ checklist' = [checklist EXCEPT ![Form(d)] = MergedChecklist(d)]
          /\ Advance(d, "patch")
          /\ UNCHANGED overlapping
       \/ /\ Form(d) \in stored
          /\ Respond(d)
          /\ UNCHANGED <<stored, checklist>>
    /\ UNCHANGED <<fileVars, airtableVars, followUpLock, elsewhere>>

\* The PATCH writes all receipts, the false ones too, and the status.
MirrorChecklist(d) ==
    /\ OnbAt(d, "patch")
    /\ shown' = MergedChecklist(d)
    /\ docsComplete' = (MergedChecklist(d) = Item)
    /\ Advance(d, "clear")
    /\ UNCHANGED <<stored, checklist, fileVars, followUpLock, elsewhere, overlapping>>

\* Mutant: unlocked although the PATCH has failed
ClearMissingDocsEvent_Always(d) ==
    /\ delivery[d].at \in {"patch", "clear"}
    /\ followUpLock' = FALSE
    /\ Respond(d)
    /\ UNCHANGED <<stored, checklist, fileVars, airtableVars, elsewhere>>

\* clearContractorMissingDocsEvent, only after a PATCH that worked
ClearMissingDocsEvent(d) ==
    /\ OnbAt(d, "clear")
    /\ followUpLock' = FALSE
    /\ Respond(d)
    /\ UNCHANGED <<stored, checklist, fileVars, airtableVars, elsewhere>>

\* An await throws and the request ends with an error, or with an answer that
\* lists it (the PATCH, the delete), or the process dies.
DeliveryEnds(d) ==
    /\ delivery[d].at # "idle"
    /\ Respond(d)
    /\ UNCHANGED <<stored, checklist, fileVars, airtableVars, followUpLock, elsewhere>>

-----------------------------------------------------------------------------
(* Around the deliveries *)

\* The operator sends a missing-documents follow-up without forceResend.
SendFollowUp ==
    /\ ~ followUpLock
    /\ followUpLock' = TRUE
    /\ UNCHANGED <<stored, checklist, fileVars, airtableVars, delivery, elsewhere, overlapping>>

\* The missing-documents form files an item, adds its receipt in Airtable and
\* puts its own status there, and keeps it in a table of its own
\* (MissingDocuments).  The statuses it spares are not "Docs Complete".
ReceiveElsewhere(i) ==
    /\ i \notin elsewhere
    /\ elsewhere' = elsewhere \cup {i}
    /\ filed' = filed \cup {i}
    /\ shown' = shown \cup {i}
    /\ docsComplete' = FALSE
    /\ UNCHANGED <<stored, checklist, folders, followUpLock, delivery, overlapping>>

OnbNext ==
    \/ \E d \in Delivery :
        \/ \E s \in Submission : ReceiveSubmission(d, s)
        \/ ResolveFolder(d) \/ CreateFolder(d) \/ ReadPrior(d)
        \/ \E i \in Item : UploadFile(d, i)
        \/ StoreRow(d) \/ MirrorChecklist(d) \/ ClearMissingDocsEvent(d)
        \/ DeliveryEnds(d)
    \/ SendFollowUp
    \/ \E i \in OtherForm : ReceiveElsewhere(i)

OnbSpec == OnbInit /\ [][OnbNext]_onbVars

-----------------------------------------------------------------------------
(* Properties *)

\* What a row or Airtable calls received is there, whichever uploads failed and
\* however deliveries are repeated and overlap: a file in Drive, or a stored
\* form whose answers satisfy it.  And "Docs Complete" is shown only with every
\* receipt beside it.
ReceiptsBacked ==
    /\ \A i \in shown \cup AllReceipts :
           i \in filed \/ \E s \in stored : i \in ByAnswer[s]
    /\ docsComplete => shown = Item

\* A receipt that Airtable shows is taken back only by a delivery that was not
\* alone, or if it came by the missing-documents form, which the merge of the
\* rows does not know.
ReceiptsKept ==
    [][\A i \in shown \ shown' :
          \/ i \in elsewhere
          \/ \E d \in overlapping : OnbAt(d, "patch")]_onbVars

\* onboarding.service.ts:1119: the operator can send another follow-up only
\* when Airtable shows every receipt the rows hold, over failed updates and
\* crashes, unless two deliveries were at work together.
UnlockedWhenShown ==
    [][followUpLock /\ ~ followUpLock' =>
          \/ AllReceipts \subseteq shown
          \/ \E d \in overlapping : OnbAt(d, "clear")]_onbVars

\* onboarding.service.ts:18: a receipt "that was true in any prior submission can
\* never revert to false on a later submission".  Of two submissions under way at
\* once the later row lacks what the earlier one received.
ReceiptsCumulative ==
    [][\A s \in stored' \ stored : AllReceipts \subseteq checklist'[s]]_onbVars
=============================================================================
