------------------------ MODULE MissingDocumentsProofs ------------------------
(***************************************************************************)
(* Proofs about MissingDocuments, for every set of documents and any       *)
(* number of deliveries at once.                                           *)
(***************************************************************************)
EXTENDS MissingDocuments, TLAPS

LEMMA LeftAirtable ==
  ASSUME NEW n, NEW docs \in SUBSET Document
  PROVE  /\ LeftAfterAirtable(n, docs) \in Request
         /\ LeftAfterAirtable(n, docs).at \in {"idle", "claimMail"}
         /\ LeftAfterAirtable(n, docs).up \in {{}, docs}
         /\ LeftAfterAirtable(n, docs).at # "idle" => LeftAfterAirtable(n, docs).up = docs
  BY DEF LeftAfterAirtable, Idle, Request, Step

LEMMA LeftFiles ==
  ASSUME NEW s, NEW n, NEW docs \in SUBSET Document
  PROVE  /\ LeftAfterFiles(s, n, docs) \in Request
         /\ LeftAfterFiles(s, n, docs).at \in {"idle", "status", "claimMail"}
         /\ LeftAfterFiles(s, n, docs).up \in {{}, docs}
         /\ LeftAfterFiles(s, n, docs).at # "idle" => LeftAfterFiles(s, n, docs).up = docs
         /\ LeftAfterFiles(s, n, docs).at = "claimMail" => s
  BY DEF LeftAfterFiles, LeftAfterAirtable, Idle, Request, Step

-----------------------------------------------------------------------------
(* Type correctness *)

LEMMA DocInitType == DocInit => DocTypeOK
  <1>1. Idle \in Request
    BY DEF Idle, Request, Step
  <1> QED BY <1>1 DEF DocInit, DocTypeOK, Processing, Claim

LEMMA DocNextType == DocTypeOK /\ [DocNext]_docVars => DocTypeOK'
  <1> SUFFICES ASSUME DocTypeOK, [DocNext]_docVars PROVE DocTypeOK'
    OBVIOUS
  <1> USE DEF DocTypeOK, Processing, Claim, rowVars, outerVars, At, GoesTo, Answers
  <1>0. Idle \in Request
    BY DEF Idle, Request, Step
  <1>1. ASSUME NEW h \in Handler, ReserveSubmission(h)
        PROVE  DocTypeOK'
    <2>1. [Idle EXCEPT !.at = "claimFiles"] \in Request
      BY DEF Idle, Request, Step
    <2> QED BY <1>0, <1>1, <2>1, LeftFiles DEF ReserveSubmission
  <1>2. ASSUME NEW h \in Handler,
               \/ ClaimFileProcessing(h) \/ ClaimFileProcessingRefused(h) \/ FilesFail(h)
               \/ ReadStatuses(h) \/ PatchContractor(h) \/ SendNotification(h)
               \/ NotificationFails(h)
        PROVE  DocTypeOK'
    BY <1>2 DEF Request, Step, ClaimFileProcessing, ClaimFileProcessingRefused, FilesFail,
                ReadStatuses, PatchContractor, SendNotification, NotificationFails
  <1>3. ASSUME NEW h \in Handler, RereadSubmission(h)
        PROVE  DocTypeOK'
    BY <1>0, <1>3, LeftFiles DEF RereadSubmission
  <1>4. ASSUME NEW h \in Handler, NEW d \in Document, UploadDocument(h, d)
        PROVE  DocTypeOK'
    <2>1. PICK stored \in BOOLEAN, uploaded \in BOOLEAN :
             /\ drive' = IF stored THEN drive \cup {d} ELSE drive
             /\ request' = [request EXCEPT ![h].tried = @ \cup {d},
                                           ![h].up = IF uploaded THEN @ \cup {d} ELSE @]
      BY <1>4 DEF UploadDocument
    <2>2. request' \in [Handler -> Request]
      <3>1. request[h] \in Request
        OBVIOUS
      <3>2. \A t, u \in SUBSET Document :
               [request[h] EXCEPT !.tried = t, !.up = u] \in Request
        BY <3>1 DEF Request
      <3>3. /\ request[h].tried \cup {d} \in SUBSET Document
            /\ (IF uploaded THEN request[h].up \cup {d} ELSE request[h].up) \in SUBSET Document
        BY <3>1 DEF Request
      <3>4. request' = [request EXCEPT ![h] =
               [request[h] EXCEPT !.tried = request[h].tried \cup {d},
                                  !.up = IF uploaded THEN request[h].up \cup {d}
                                         ELSE request[h].up]]
        BY <2>1
      <3> QED BY <3>2, <3>3, <3>4
    <2>3. drive' \subseteq Document
      BY <2>1
    <2> QED BY <1>4, <2>2, <2>3 DEF UploadDocument
  <1>5. ASSUME NEW h \in Handler, MarkFilesProcessed(h)
        PROVE  DocTypeOK'
    <2>1. request[h].up \in SUBSET Document
      BY DEF Request
    <2> QED BY <1>5, <2>1, LeftFiles DEF MarkFilesProcessed
  <1>6. ASSUME NEW h \in Handler, MarkAirtableSynced(h)
        PROVE  DocTypeOK'
    BY <1>6, LeftAirtable DEF MarkAirtableSynced
  <1>7. ASSUME NEW h \in Handler, ClaimNotification(h)
        PROVE  DocTypeOK'
    BY <1>0, <1>7 DEF ClaimNotification, Request, Step
  <1>8. ASSUME NEW h \in Handler,
               \/ MarkFilesFailed(h) \/ AirtableFails(h) \/ CompleteNotification(h)
               \/ MarkNotificationFailed(h) \/ RequestLost(h)
        PROVE  DocTypeOK'
    BY <1>0, <1>8 DEF MarkFilesFailed, AirtableFails, CompleteNotification,
                      MarkNotificationFailed, RequestLost
  <1>9. ASSUME NEW c \in Claim, ClaimLapses(c)
        PROVE  DocTypeOK'
    BY <1>9 DEF ClaimLapses
  <1>10. CASE OperatorDecides \/ DocCrash
    BY <1>0, <1>10 DEF OperatorDecides, DocCrash
  <1>11. CASE UNCHANGED docVars
    BY <1>11 DEF docVars
  <1> QED BY <1>1, <1>2, <1>3, <1>4, <1>5, <1>6, <1>7, <1>8, <1>9, <1>10, <1>11 DEF DocNext

\* No delivery stores a status, claim or document outside its declared set.
THEOREM DocTypeCorrect == DocSpec => []DocTypeOK
  BY DocInitType, DocNextType, PTL DEF DocSpec

-----------------------------------------------------------------------------
(* Claims.  A claim that has not lapsed keeps every other delivery out, and  *)
(* a delivery only gets as far as the row lets it.                           *)

AfterFiles == {"status", "patch", "patched", "claimMail", "mail", "mailed", "mailFailed"}
AfterAirtable == {"claimMail", "mail", "mailed", "mailFailed"}

OrderInv ==
    /\ synced => filesDone
    /\ \A h \in Handler : /\ request[h].at \in AfterFiles => filesDone
                          /\ request[h].at \in AfterAirtable => synced

FilesInv ==
    "files" \notin lapsed =>
        /\ \A g, h \in FileWorkers : g = h
        /\ FileWorkers # {} => /\ processing = "processing_files" /\ ~ filesDone
                               /\ "files" \in fresh

MailedInv ==
    "mail" \notin lapsed =>
        /\ \A g, h \in Mailers : g = h
        /\ Mailers # {} => notification = "sending" /\ "mail" \in fresh

ClaimsInv == DocTypeOK /\ OrderInv /\ FilesInv /\ MailedInv

LEMMA OrderStep == DocTypeOK /\ OrderInv /\ [DocNext]_docVars => OrderInv'
  <1> SUFFICES ASSUME DocTypeOK, OrderInv, [DocNext]_docVars PROVE OrderInv'
    OBVIOUS
  <1> USE DEF DocTypeOK, OrderInv, AfterFiles, AfterAirtable, rowVars, outerVars, At, GoesTo,
              Answers
  <1>0. Idle.at = "idle"
    BY DEF Idle
  <1>1. ASSUME NEW h \in Handler, ReserveSubmission(h)
        PROVE  OrderInv'
    <2>1. [Idle EXCEPT !.at = "claimFiles"].at = "claimFiles"
      BY DEF Idle
    <2> QED BY <1>0, <1>1, <2>1, LeftFiles DEF ReserveSubmission
  <1>2. ASSUME NEW h \in Handler,
               \/ ClaimFileProcessing(h) \/ ClaimFileProcessingRefused(h) \/ FilesFail(h)
               \/ ReadStatuses(h) \/ PatchContractor(h) \/ SendNotification(h)
               \/ NotificationFails(h)
        PROVE  OrderInv'
    BY <1>2 DEF Request, ClaimFileProcessing, ClaimFileProcessingRefused, FilesFail,
                ReadStatuses, PatchContractor, SendNotification, NotificationFails
  <1>3. ASSUME NEW h \in Handler, RereadSubmission(h)
        PROVE  OrderInv'
    BY <1>0, <1>3, LeftFiles DEF RereadSubmission
  <1>4. ASSUME NEW h \in Handler, NEW d \in Document, UploadDocument(h, d)
        PROVE  OrderInv'
    BY <1>4 DEF UploadDocument, Request
  <1>5. ASSUME NEW h \in Handler, MarkFilesProcessed(h)
        PROVE  OrderInv'
    <2>1. request[h].up \in SUBSET Document
      BY DEF Request
    <2> QED BY <1>5, <2>1, LeftFiles DEF MarkFilesProcessed
  <1>6. ASSUME NEW h \in Handler, MarkAirtableSynced(h)
        PROVE  OrderInv'
    BY <1>6, LeftAirtable DEF MarkAirtableSynced
  <1>7. ASSUME NEW h \in Handler, ClaimNotification(h)
        PROVE  OrderInv'
    BY <1>0, <1>7 DEF ClaimNotification, MailClaimable, Request
  <1>8. ASSUME NEW h \in Handler,
               \/ MarkFilesFailed(h) \/ AirtableFails(h) \/ CompleteNotification(h)
               \/ MarkNotificationFailed(h) \/ RequestLost(h)
        PROVE  OrderInv'
    BY <1>0, <1>8 DEF MarkFilesFailed, AirtableFails, CompleteNotification,
                      MarkNotificationFailed, RequestLost
  <1>9. CASE DocCrash
    BY <1>0, <1>9 DEF DocCrash
  <1>10. CASE UNCHANGED <<synced, filesDone, request>>
    BY <1>10
  <1> QED BY <1>1, <1>2, <1>3, <1>4, <1>5, <1>6, <1>7, <1>8, <1>9, <1>10
          DEF DocNext, docVars, ClaimLapses, OperatorDecides

LEMMA FilesStep == DocTypeOK /\ OrderInv /\ FilesInv /\ [DocNext]_docVars => FilesInv'
  <1> SUFFICES ASSUME DocTypeOK, OrderInv, FilesInv, [DocNext]_docVars, "files" \notin lapsed'
               PROVE  FilesInv'
    BY DEF FilesInv
  <1> USE DEF DocTypeOK, FilesInv, FileWorkers, rowVars, outerVars, At, GoesTo, Answers
  <1>0. Idle.at = "idle"
    BY DEF Idle
  <1>1. ASSUME NEW h \in Handler, ReserveSubmission(h)
        PROVE  FilesInv'
    <2>1. [Idle EXCEPT !.at = "claimFiles"].at = "claimFiles"
      BY DEF Idle
    <2>2. request'[h].at \in {"idle", "claimFiles", "status", "claimMail"}
      BY <1>0, <1>1, <2>1, LeftFiles DEF ReserveSubmission
    <2>3. \A k \in Handler \ {h} : request'[k] = request[k]
      BY <1>1 DEF ReserveSubmission
    <2>4. \A k \in Handler : k \in FileWorkers' => k \in FileWorkers
      BY <2>2, <2>3
    <2> QED BY <1>1, <2>4 DEF ReserveSubmission
  <1>2. ASSUME NEW h \in Handler, ClaimFileProcessing(h)
        PROVE  FilesInv'
    BY <1>2 DEF ClaimFileProcessing, FilesClaimable, Request
  <1>3. ASSUME NEW h \in Handler,
               \/ ClaimFileProcessingRefused(h) \/ FilesFail(h)
               \/ ReadStatuses(h) \/ PatchContractor(h) \/ SendNotification(h)
               \/ NotificationFails(h) \/ ClaimNotification(h)
        PROVE  FilesInv'
    BY <1>0, <1>3 DEF Request, ClaimFileProcessingRefused, FilesFail, ClaimNotification,
                ReadStatuses, PatchContractor, SendNotification, NotificationFails
  <1>4. ASSUME NEW h \in Handler, RereadSubmission(h)
        PROVE  FilesInv'
    BY <1>0, <1>4, LeftFiles DEF RereadSubmission
  <1>5. ASSUME NEW h \in Handler, NEW d \in Document, UploadDocument(h, d)
        PROVE  FilesInv'
    BY <1>5 DEF UploadDocument, Request
  <1>6. ASSUME NEW h \in Handler, MarkFilesProcessed(h)
        PROVE  FilesInv'
    <2>1. request[h].up \in SUBSET Document
      BY DEF Request
    <2> QED BY <1>6, <2>1, LeftFiles DEF MarkFilesProcessed
  <1>7. ASSUME NEW h \in Handler, MarkAirtableSynced(h)
        PROVE  FilesInv'
    <2>1. filesDone
      BY <1>7 DEF MarkAirtableSynced, OrderInv, AfterFiles
    <2>6. "files" \notin lapsed
      BY <1>7 DEF MarkAirtableSynced
    <2>2. FileWorkers = {}
      BY <2>1, <2>6
    <2>7. LeftAfterAirtable(notification, results).at \in {"idle", "claimMail"}
      BY LeftAirtable
    <2>3. request'[h].at \in {"idle", "claimMail"}
      BY <1>7, <2>7 DEF MarkAirtableSynced
    <2>4. \A k \in Handler \ {h} : request'[k] = request[k]
      BY <1>7 DEF MarkAirtableSynced
    <2>5. FileWorkers' = {}
      BY <2>2, <2>3, <2>4
    <2> QED BY <2>5
  <1>8. ASSUME NEW h \in Handler, CompleteNotification(h)
        PROVE  FilesInv'
    <2>1. filesDone
      BY <1>8 DEF CompleteNotification, OrderInv, AfterFiles
    <2> QED BY <1>0, <1>8, <2>1 DEF CompleteNotification
  <1>9. ASSUME NEW h \in Handler,
               \/ MarkFilesFailed(h) \/ AirtableFails(h) \/ MarkNotificationFailed(h)
               \/ RequestLost(h)
        PROVE  FilesInv'
    BY <1>0, <1>9 DEF MarkFilesFailed, AirtableFails, MarkNotificationFailed, RequestLost
  <1>10. ASSUME NEW c \in Claim, ClaimLapses(c)
        PROVE  FilesInv'
    BY <1>10 DEF ClaimLapses, Claim
  <1>11. CASE DocCrash
    BY <1>0, <1>11 DEF DocCrash
  <1>12. CASE OperatorDecides \/ UNCHANGED docVars
    BY <1>12 DEF OperatorDecides, docVars
  <1> QED BY <1>1, <1>2, <1>3, <1>4, <1>5, <1>6, <1>7, <1>8, <1>9, <1>10, <1>11, <1>12
          DEF DocNext

LEMMA MailedStep == DocTypeOK /\ MailedInv /\ [DocNext]_docVars => MailedInv'
  <1> SUFFICES ASSUME DocTypeOK, MailedInv, [DocNext]_docVars, "mail" \notin lapsed'
               PROVE  MailedInv'
    BY DEF MailedInv
  <1> USE DEF DocTypeOK, MailedInv, Mailers, rowVars, outerVars, At, GoesTo, Answers
  <1>0. Idle.at = "idle"
    BY DEF Idle
  <1>1. ASSUME NEW h \in Handler, ReserveSubmission(h)
        PROVE  MailedInv'
    <2>1. [Idle EXCEPT !.at = "claimFiles"].at = "claimFiles"
      BY DEF Idle
    <2> QED BY <1>0, <1>1, <2>1, LeftFiles DEF ReserveSubmission
  <1>2. ASSUME NEW h \in Handler, ClaimNotification(h)
        PROVE  MailedInv'
    BY <1>0, <1>2 DEF ClaimNotification, MailClaimable, Request
  <1>3. ASSUME NEW h \in Handler,
               \/ ClaimFileProcessing(h) \/ ClaimFileProcessingRefused(h) \/ FilesFail(h)
               \/ ReadStatuses(h) \/ PatchContractor(h) \/ SendNotification(h)
               \/ NotificationFails(h)
        PROVE  MailedInv'
    BY <1>3 DEF Request, ClaimFileProcessing, ClaimFileProcessingRefused, FilesFail,
                ReadStatuses, PatchContractor, SendNotification, NotificationFails
  <1>4. ASSUME NEW h \in Handler, RereadSubmission(h)
        PROVE  MailedInv'
    BY <1>0, <1>4, LeftFiles DEF RereadSubmission
  <1>5. ASSUME NEW h \in Handler, NEW d \in Document, UploadDocument(h, d)
        PROVE  MailedInv'
    BY <1>5 DEF UploadDocument, Request
  <1>6. ASSUME NEW h \in Handler, MarkFilesProcessed(h)
        PROVE  MailedInv'
    <2>1. request[h].up \in SUBSET Document
      BY DEF Request
    <2> QED BY <1>6, <2>1, LeftFiles DEF MarkFilesProcessed
  <1>7. ASSUME NEW h \in Handler, MarkAirtableSynced(h)
        PROVE  MailedInv'
    <2>1. request'[h].at \in {"idle", "claimMail"}
      BY <1>7, LeftAirtable DEF MarkAirtableSynced
    <2>2. \A k \in Handler \ {h} : request'[k] = request[k]
      BY <1>7 DEF MarkAirtableSynced
    <2>3. \A k \in Handler : k \in Mailers' => k \in Mailers
      BY <2>1, <2>2
    <2> QED BY <1>7, <2>3 DEF MarkAirtableSynced
  <1>8. ASSUME NEW h \in Handler,
               \/ MarkFilesFailed(h) \/ AirtableFails(h) \/ CompleteNotification(h)
               \/ MarkNotificationFailed(h) \/ RequestLost(h)
        PROVE  MailedInv'
    BY <1>0, <1>8 DEF MarkFilesFailed, AirtableFails, CompleteNotification,
                      MarkNotificationFailed, RequestLost
  <1>9. ASSUME NEW c \in Claim, ClaimLapses(c)
        PROVE  MailedInv'
    BY <1>9 DEF ClaimLapses, Claim
  <1>10. CASE DocCrash
    BY <1>0, <1>10 DEF DocCrash
  <1>11. CASE OperatorDecides \/ UNCHANGED docVars
    BY <1>11 DEF OperatorDecides, docVars
  <1> QED BY <1>1, <1>2, <1>3, <1>4, <1>5, <1>6, <1>7, <1>8, <1>9, <1>10, <1>11 DEF DocNext

THEOREM AlwaysClaimsInv == DocSpec => []ClaimsInv
  <1>1. DocInit => OrderInv /\ FilesInv /\ MailedInv
    BY DEF DocInit, OrderInv, FilesInv, MailedInv, FileWorkers, Mailers, Idle, AfterFiles,
           AfterAirtable
  <1> QED BY <1>1, DocTypeCorrect, OrderStep, FilesStep, MailedStep, PTL DEF DocSpec, ClaimsInv

\* "Without re-uploading files", for any number of deliveries: as long as no
\* claim grew old under its delivery, one delivery files the documents, once.
THEOREM FiledOnceAlways == DocSpec => []FiledOnce
  <1>1. ClaimsInv => FiledOnce
    BY DEF ClaimsInv, FilesInv, FiledOnce
  <1> QED BY <1>1, AlwaysClaimsInv, PTL

\* Likewise one delivery tells the operator, and none after it has.
THEOREM ToldByOneAlways == DocSpec => []ToldByOne
  <1>1. ClaimsInv => ToldByOne
    BY DEF ClaimsInv, MailedInv, ToldByOne
  <1> QED BY <1>1, AlwaysClaimsInv, PTL

-----------------------------------------------------------------------------
(* What is filed, shown and told *)

\* What a delivery works with is in Drive, whoever put it there.
FiledInv ==
    ReceivedIsFiled /\ \A h \in Handler : request[h].up \subseteq drive

LEMMA FiledStep == DocTypeOK /\ FiledInv /\ [DocNext]_docVars => FiledInv'
  <1> SUFFICES ASSUME DocTypeOK, FiledInv, [DocNext]_docVars PROVE FiledInv'
    OBVIOUS
  <1> USE DEF DocTypeOK, FiledInv, ReceivedIsFiled, rowVars, outerVars, At, GoesTo, Answers
  <1>0. Idle.up = {}
    BY DEF Idle
  <1>1. ASSUME NEW h \in Handler, ReserveSubmission(h)
        PROVE  FiledInv'
    <2>1. [Idle EXCEPT !.at = "claimFiles"].up = {}
      BY DEF Idle
    <2>2. LeftAfterFiles(synced, notification, results).up \in {{}, results}
      BY LeftFiles
    <2>3. request'[h].up \in {{}, results}
      BY <1>0, <1>1, <2>1, <2>2 DEF ReserveSubmission
    <2> QED BY <1>1, <2>3 DEF ReserveSubmission
  <1>2. ASSUME NEW h \in Handler,
               \/ ClaimFileProcessing(h) \/ ClaimFileProcessingRefused(h) \/ FilesFail(h)
               \/ ReadStatuses(h) \/ PatchContractor(h) \/ SendNotification(h)
               \/ NotificationFails(h)
        PROVE  FiledInv'
    BY <1>2 DEF Request, ClaimFileProcessing, ClaimFileProcessingRefused, FilesFail,
                ReadStatuses, PatchContractor, SendNotification, NotificationFails
  <1>3. ASSUME NEW h \in Handler, RereadSubmission(h)
        PROVE  FiledInv'
    <2>1. LeftAfterFiles(synced, notification, results).up \in {{}, results}
      BY LeftFiles
    <2>2. request'[h].up \in {{}, results}
      BY <1>0, <1>3, <2>1 DEF RereadSubmission
    <2> QED BY <1>3, <2>2 DEF RereadSubmission
  <1>4. ASSUME NEW h \in Handler, NEW d \in Document, UploadDocument(h, d)
        PROVE  FiledInv'
    <2>1. PICK stored \in BOOLEAN, uploaded \in BOOLEAN :
             /\ uploaded => stored
             /\ drive' = IF stored THEN drive \cup {d} ELSE drive
             /\ request' = [request EXCEPT ![h].tried = @ \cup {d},
                                           ![h].up = IF uploaded THEN @ \cup {d} ELSE @]
      BY <1>4 DEF UploadDocument
    <2>2. drive \subseteq drive'
      BY <2>1
    <2>3. request'[h].up = IF uploaded THEN request[h].up \cup {d} ELSE request[h].up
      BY <2>1 DEF Request
    <2>4. request'[h].up \subseteq drive'
      BY <2>1, <2>2, <2>3
    <2>5. \A k \in Handler \ {h} : request'[k] = request[k]
      BY <2>1
    <2>6. \A k \in Handler : request'[k].up \subseteq drive'
      BY <2>2, <2>4, <2>5
    <2> QED BY <1>4, <2>2, <2>6 DEF UploadDocument
  <1>5. ASSUME NEW h \in Handler, MarkFilesProcessed(h)
        PROVE  FiledInv'
    <2>1. request[h].up \in SUBSET Document /\ results' = request[h].up
      BY <1>5 DEF Request, MarkFilesProcessed
    <2>2. LeftAfterFiles(synced, notification, results').up \in {{}, results'}
      BY <2>1, LeftFiles
    <2>3. request'[h].up \in {{}, results'}
      BY <1>5, <2>2 DEF MarkFilesProcessed
    <2> QED BY <1>5, <2>1, <2>3 DEF MarkFilesProcessed
  <1>6. ASSUME NEW h \in Handler, MarkAirtableSynced(h)
        PROVE  FiledInv'
    <2>1. LeftAfterAirtable(notification, results).up \in {{}, results}
      BY LeftAirtable
    <2>2. request'[h].up \in {{}, results}
      BY <1>6, <2>1 DEF MarkAirtableSynced
    <2> QED BY <1>6, <2>2 DEF MarkAirtableSynced
  <1>7. ASSUME NEW h \in Handler, ClaimNotification(h)
        PROVE  FiledInv'
    <2>1. request'[h].up \in {{}, results}
      BY <1>0, <1>7 DEF ClaimNotification, Request
    <2> QED BY <1>7, <2>1 DEF ClaimNotification
  <1>8. ASSUME NEW h \in Handler,
               \/ MarkFilesFailed(h) \/ AirtableFails(h) \/ CompleteNotification(h)
               \/ MarkNotificationFailed(h) \/ RequestLost(h)
        PROVE  FiledInv'
    BY <1>0, <1>8 DEF MarkFilesFailed, AirtableFails, CompleteNotification,
                      MarkNotificationFailed, RequestLost
  <1>9. CASE DocCrash
    BY <1>0, <1>9 DEF DocCrash
  <1>10. CASE UNCHANGED <<results, request, drive, received, mailed>>
    BY <1>10
  <1> QED BY <1>1, <1>2, <1>3, <1>4, <1>5, <1>6, <1>7, <1>8, <1>9, <1>10
          DEF DocNext, docVars, ClaimLapses, OperatorDecides

\* Nothing is marked received, stored as uploaded or reported that is not in
\* Google Drive, whatever lapses, fails or is delivered twice.
THEOREM ReceivedIsFiledAlways == DocSpec => []ReceivedIsFiled
  <1>1. DocInit => FiledInv
    BY DEF DocInit, FiledInv, ReceivedIsFiled, Idle
  <1>2. FiledInv => ReceivedIsFiled
    BY DEF FiledInv
  <1> QED BY <1>1, <1>2, FiledStep, DocTypeCorrect, PTL DEF DocSpec

\* Once they are filed the results stay what they are, deliveries work with
\* just them, and Airtable shows them before the row says so.
ToldInv ==
    /\ mailed # {} => synced
    /\ "files" \notin lapsed =>
          /\ \A h \in Handler : /\ request[h].at \in AfterFiles => request[h].up = results
                                /\ request[h].at = "patched" => results \subseteq received
          /\ synced => results \subseteq received
          /\ \A docs \in mailed : docs = results

LEMMA ToldStep == ClaimsInv /\ ToldInv /\ [DocNext]_docVars => ToldInv'
  <1> SUFFICES ASSUME DocTypeOK, OrderInv, FilesInv, ToldInv, [DocNext]_docVars
               PROVE  ToldInv'
    BY DEF ClaimsInv
  <1> USE DEF DocTypeOK, ToldInv, AfterFiles, rowVars, outerVars, At, GoesTo, Answers
  <1>0. Idle.at = "idle"
    BY DEF Idle
  <1>1. ASSUME NEW h \in Handler, ReserveSubmission(h)
        PROVE  ToldInv'
    <2>1. [Idle EXCEPT !.at = "claimFiles"].at = "claimFiles"
      BY DEF Idle
    <2>2. LET l == LeftAfterFiles(synced, notification, results)
          IN  l.at \in {"idle", "status", "claimMail"} /\ (l.at # "idle" => l.up = results)
      BY LeftFiles
    <2>3. /\ request'[h].at \in {"idle", "claimFiles", "status", "claimMail"}
          /\ request'[h].at \in {"status", "claimMail"} => request'[h].up = results
      BY <1>0, <1>1, <2>1, <2>2 DEF ReserveSubmission
    <2>4. \A k \in Handler \ {h} : request'[k] = request[k]
      BY <1>1 DEF ReserveSubmission
    <2> QED BY <1>1, <2>3, <2>4 DEF ReserveSubmission
  <1>2. ASSUME NEW h \in Handler,
               \/ ClaimFileProcessing(h) \/ ClaimFileProcessingRefused(h) \/ FilesFail(h)
               \/ ReadStatuses(h) \/ NotificationFails(h)
        PROVE  ToldInv'
    BY <1>2 DEF Request, ClaimFileProcessing, ClaimFileProcessingRefused, FilesFail,
                ReadStatuses, NotificationFails
  <1>3. ASSUME NEW h \in Handler, RereadSubmission(h)
        PROVE  ToldInv'
    <2>1. LET l == LeftAfterFiles(synced, notification, results)
          IN  l.at \in {"idle", "status", "claimMail"} /\ (l.at # "idle" => l.up = results)
      BY LeftFiles
    <2>2. /\ request'[h].at \in {"idle", "status", "claimMail"}
          /\ request'[h].at # "idle" => request'[h].up = results
      BY <1>0, <1>3, <2>1 DEF RereadSubmission
    <2>3. \A k \in Handler \ {h} : request'[k] = request[k]
      BY <1>3 DEF RereadSubmission
    <2> QED BY <1>3, <2>2, <2>3 DEF RereadSubmission
  <1>4. ASSUME NEW h \in Handler, NEW d \in Document, UploadDocument(h, d)
        PROVE  ToldInv'
    BY <1>4 DEF UploadDocument, Request
  <1>5. ASSUME NEW h \in Handler, MarkFilesProcessed(h)
        PROVE  ToldInv'
    <2>1. request[h].up \in SUBSET Document /\ results' = request[h].up
      BY <1>5 DEF Request, MarkFilesProcessed
    <2>2. LET l == LeftAfterFiles(synced, notification, results')
          IN  l.at \in {"idle", "status", "claimMail"} /\ (l.at # "idle" => l.up = results')
      BY <2>1, LeftFiles
    <2>3. /\ request'[h].at \in {"idle", "status", "claimMail"}
          /\ request'[h].at # "idle" => request'[h].up = results'
      BY <1>5, <2>2 DEF MarkFilesProcessed
    <2>4. \A k \in Handler \ {h} : request'[k] = request[k]
      BY <1>5 DEF MarkFilesProcessed
    <2>5. "files" \notin lapsed =>
             /\ ~ filesDone /\ ~ synced
             /\ \A k \in Handler : request[k].at \notin AfterFiles
      BY <1>5 DEF MarkFilesProcessed, FilesInv, FileWorkers, OrderInv
    <2>6. "files" \notin lapsed => mailed = {}
      BY <2>5
    <2> QED BY <1>5, <2>3, <2>4, <2>5, <2>6 DEF MarkFilesProcessed
  <1>6. ASSUME NEW h \in Handler, PatchContractor(h)
        PROVE  ToldInv'
    <2>1. /\ request'[h].at = "patched" /\ request'[h].up = request[h].up
          /\ \A k \in Handler \ {h} : request'[k] = request[k]
          /\ request[h].at = "patch"
      BY <1>6 DEF PatchContractor, Request
    <2>2. received' = received \cup request[h].up
      BY <1>6 DEF PatchContractor
    <2> QED BY <1>6, <2>1, <2>2 DEF PatchContractor
  <1>7. ASSUME NEW h \in Handler, MarkAirtableSynced(h)
        PROVE  ToldInv'
    <2>1. LET l == LeftAfterAirtable(notification, results)
          IN  l.at \in {"idle", "claimMail"} /\ (l.at # "idle" => l.up = results)
      BY LeftAirtable
    <2>4. request'[h] = LeftAfterAirtable(notification, results)
      BY <1>7 DEF MarkAirtableSynced
    <2>2. /\ request'[h].at \in {"idle", "claimMail"}
          /\ request'[h].at # "idle" => request'[h].up = results
      BY <2>1, <2>4
    <2>3. /\ \A k \in Handler \ {h} : request'[k] = request[k]
          /\ request[h].at = "patched"
      BY <1>7 DEF MarkAirtableSynced
    <2> QED BY <1>7, <2>2, <2>3 DEF MarkAirtableSynced
  <1>8. ASSUME NEW h \in Handler, ClaimNotification(h)
        PROVE  ToldInv'
    <2>1. /\ request'[h].at \in {"idle", "mail"}
          /\ request'[h].at # "idle" => request'[h].up = results
          /\ \A k \in Handler \ {h} : request'[k] = request[k]
      BY <1>0, <1>8 DEF ClaimNotification, Request
    <2> QED BY <1>8, <2>1 DEF ClaimNotification
  <1>9. ASSUME NEW h \in Handler, SendNotification(h)
        PROVE  ToldInv'
    <2>1. /\ request'[h].at = "mailed" /\ request'[h].up = request[h].up
          /\ \A k \in Handler \ {h} : request'[k] = request[k]
          /\ request[h].at = "mail"
      BY <1>9 DEF SendNotification, Request
    <2>2. synced
      BY <2>1 DEF OrderInv, AfterAirtable
    <2> QED BY <1>9, <2>1, <2>2 DEF SendNotification
  <1>10. ASSUME NEW h \in Handler,
               \/ MarkFilesFailed(h) \/ AirtableFails(h) \/ CompleteNotification(h)
               \/ MarkNotificationFailed(h) \/ RequestLost(h)
        PROVE  ToldInv'
    BY <1>0, <1>10 DEF MarkFilesFailed, AirtableFails, CompleteNotification,
                      MarkNotificationFailed, RequestLost
  <1>11. ASSUME NEW c \in Claim, ClaimLapses(c)
        PROVE  ToldInv'
    BY <1>11 DEF ClaimLapses
  <1>12. CASE DocCrash
    BY <1>0, <1>12 DEF DocCrash
  <1>13. CASE OperatorDecides \/ UNCHANGED docVars
    BY <1>13 DEF OperatorDecides, docVars
  <1> QED BY <1>1, <1>2, <1>3, <1>4, <1>5, <1>6, <1>7, <1>8, <1>9, <1>10, <1>11, <1>12, <1>13
          DEF DocNext

\* The e-mail lists what the row holds, and Airtable shows it already: over any
\* number of failed, repeated and concurrent deliveries.
THEOREM ToldWhatAirtableShowsAlways == DocSpec => []ToldWhatAirtableShows
  <1>1. DocInit => ToldInv
    BY DEF DocInit, ToldInv, Idle, AfterFiles
  <1>2. ToldInv => ToldWhatAirtableShows
    BY DEF ToldInv, ToldWhatAirtableShows
  <1> QED BY <1>1, <1>2, ToldStep, AlwaysClaimsInv, PTL DEF DocSpec

-----------------------------------------------------------------------------
(* The status of the row *)

StatusInv ==
    /\ StatusMatchesRow
    /\ \A h \in Handler : request[h].at = "mailed" => mailed # {}

LEMMA StatusStep == ClaimsInv /\ StatusInv /\ [DocNext]_docVars => StatusInv'
  <1> SUFFICES ASSUME DocTypeOK, OrderInv, FilesInv, MailedInv, StatusInv, [DocNext]_docVars
               PROVE  StatusInv'
    BY DEF ClaimsInv
  <1> USE DEF DocTypeOK, StatusInv, StatusMatchesRow, rowVars, outerVars, At, GoesTo, Answers
  <1>0. Idle.at = "idle"
    BY DEF Idle
  <1>1. ASSUME NEW h \in Handler, ReserveSubmission(h)
        PROVE  StatusInv'
    <2>1. [Idle EXCEPT !.at = "claimFiles"].at = "claimFiles"
      BY DEF Idle
    <2>2. request'[h].at # "mailed"
      BY <1>0, <1>1, <2>1, LeftFiles DEF ReserveSubmission
    <2>3. \A k \in Handler \ {h} : request'[k] = request[k]
      BY <1>1 DEF ReserveSubmission
    <2> QED BY <1>1, <2>2, <2>3 DEF ReserveSubmission
  <1>2. ASSUME NEW h \in Handler, ClaimFileProcessing(h)
        PROVE  StatusInv'
    BY <1>2 DEF ClaimFileProcessing, FilesClaimable, Request
  <1>3. ASSUME NEW h \in Handler,
               \/ ClaimFileProcessingRefused(h) \/ FilesFail(h) \/ ReadStatuses(h)
               \/ PatchContractor(h) \/ SendNotification(h) \/ NotificationFails(h)
        PROVE  StatusInv'
    BY <1>3 DEF Request, ClaimFileProcessingRefused, FilesFail, ReadStatuses,
                PatchContractor, SendNotification, NotificationFails
  <1>4. ASSUME NEW h \in Handler, RereadSubmission(h)
        PROVE  StatusInv'
    BY <1>0, <1>4, LeftFiles DEF RereadSubmission
  <1>5. ASSUME NEW h \in Handler, NEW d \in Document, UploadDocument(h, d)
        PROVE  StatusInv'
    BY <1>5 DEF UploadDocument, Request
  <1>6. ASSUME NEW h \in Handler, MarkFilesProcessed(h)
        PROVE  StatusInv'
    <2>1. request[h].up \in SUBSET Document
      BY DEF Request
    <2>2. request'[h].at # "mailed"
      BY <1>6, <2>1, LeftFiles DEF MarkFilesProcessed
    <2>3. \A k \in Handler \ {h} : request'[k] = request[k]
      BY <1>6 DEF MarkFilesProcessed
    <2>4. "files" \notin lapsed => ~ synced
      BY <1>6 DEF MarkFilesProcessed, FilesInv, FileWorkers, OrderInv
    <2> QED BY <1>6, <2>2, <2>3, <2>4 DEF MarkFilesProcessed
  <1>7. ASSUME NEW h \in Handler, MarkAirtableSynced(h)
        PROVE  StatusInv'
    <2>1. filesDone
      BY <1>7 DEF MarkAirtableSynced, OrderInv, AfterFiles
    <2>2. request'[h].at # "mailed"
      BY <1>7, LeftAirtable DEF MarkAirtableSynced
    <2>3. \A k \in Handler \ {h} : request'[k] = request[k]
      BY <1>7 DEF MarkAirtableSynced
    <2> QED BY <1>7, <2>1, <2>2, <2>3 DEF MarkAirtableSynced
  <1>8. ASSUME NEW h \in Handler, ClaimNotification(h)
        PROVE  StatusInv'
    BY <1>0, <1>8 DEF ClaimNotification, MailClaimable, Request
  <1>9. ASSUME NEW h \in Handler, CompleteNotification(h)
        PROVE  StatusInv'
    <2>1. filesDone /\ synced
      BY <1>9 DEF CompleteNotification, OrderInv, AfterFiles, AfterAirtable
    <2> QED BY <1>0, <1>9, <2>1 DEF CompleteNotification
  <1>10. ASSUME NEW h \in Handler, MarkNotificationFailed(h)
        PROVE  StatusInv'
    <2>1. "mail" \notin lapsed => notification = "sending"
      BY <1>10 DEF MarkNotificationFailed, MailedInv, Mailers
    <2> QED BY <1>0, <1>10, <2>1 DEF MarkNotificationFailed
  <1>11. ASSUME NEW h \in Handler, MarkFilesFailed(h)
        PROVE  StatusInv'
    <2>1. "files" \notin lapsed => ~ filesDone /\ ~ synced
      BY <1>11 DEF MarkFilesFailed, FilesInv, FileWorkers, OrderInv
    <2> QED BY <1>0, <1>11, <2>1 DEF MarkFilesFailed
  <1>12. ASSUME NEW h \in Handler, AirtableFails(h) \/ RequestLost(h)
        PROVE  StatusInv'
    BY <1>0, <1>12 DEF AirtableFails, RequestLost
  <1>13. ASSUME NEW c \in Claim, ClaimLapses(c)
        PROVE  StatusInv'
    BY <1>13 DEF ClaimLapses
  <1>14. CASE DocCrash
    BY <1>0, <1>14 DEF DocCrash
  <1>15. CASE OperatorDecides \/ UNCHANGED docVars
    BY <1>15 DEF OperatorDecides, docVars
  <1> QED BY <1>1, <1>2, <1>3, <1>4, <1>5, <1>6, <1>7, <1>8, <1>9, <1>10, <1>11, <1>12, <1>13,
             <1>14, <1>15 DEF DocNext

\* The status of a row agrees with its time stamps, and a completed submission
\* is filed, shown and told.
THEOREM StatusMatchesRowAlways == DocSpec => []StatusMatchesRow
  <1>1. DocInit => StatusInv
    BY DEF DocInit, StatusInv, StatusMatchesRow, Idle
  <1>2. StatusInv => StatusMatchesRow
    BY DEF StatusInv
  <1> QED BY <1>1, <1>2, StatusStep, AlwaysClaimsInv, PTL DEF DocSpec

-----------------------------------------------------------------------------
(* The operator's decision *)

\* Only a delivery that was between GET and PATCH does not know of it.
CaughtInv ==
    review = "decided" =>
        \A h \in Handler : request[h].at = "patch" => request[h].seen = "decided" \/ h \in caught

LEMMA CaughtStep == DocTypeOK /\ CaughtInv /\ [DocNext]_docVars => CaughtInv'
  <1> SUFFICES ASSUME DocTypeOK, CaughtInv, [DocNext]_docVars PROVE CaughtInv'
    OBVIOUS
  <1> USE DEF DocTypeOK, CaughtInv, rowVars, outerVars, At, GoesTo, Answers
  <1>0. Idle.at = "idle"
    BY DEF Idle
  <1>1. ASSUME NEW h \in Handler, request'[h].at # "patch", review' = review, caught' = caught,
               \A k \in Handler \ {h} : request'[k] = request[k]
        PROVE  CaughtInv'
    BY <1>1
  <1>2. ASSUME NEW h \in Handler, ReserveSubmission(h)
        PROVE  CaughtInv'
    <2>1. [Idle EXCEPT !.at = "claimFiles"].at = "claimFiles"
      BY DEF Idle
    <2>2. request'[h].at # "patch"
      BY <1>0, <1>2, <2>1, LeftFiles DEF ReserveSubmission
    <2> QED BY <1>1, <1>2, <2>2 DEF ReserveSubmission
  <1>3. ASSUME NEW h \in Handler,
               \/ ClaimFileProcessing(h) \/ ClaimFileProcessingRefused(h) \/ FilesFail(h)
               \/ SendNotification(h) \/ NotificationFails(h)
        PROVE  CaughtInv'
    BY <1>3 DEF Request, ClaimFileProcessing, ClaimFileProcessingRefused, FilesFail,
                SendNotification, NotificationFails
  <1>4. ASSUME NEW h \in Handler, RereadSubmission(h)
        PROVE  CaughtInv'
    <2>1. request'[h].at # "patch"
      BY <1>0, <1>4, LeftFiles DEF RereadSubmission
    <2> QED BY <1>1, <1>4, <2>1 DEF RereadSubmission
  <1>5. ASSUME NEW h \in Handler, NEW d \in Document, UploadDocument(h, d)
        PROVE  CaughtInv'
    BY <1>5 DEF UploadDocument, Request
  <1>6. ASSUME NEW h \in Handler, MarkFilesProcessed(h)
        PROVE  CaughtInv'
    <2>1. request[h].up \in SUBSET Document
      BY DEF Request
    <2>2. request'[h].at # "patch"
      BY <1>6, <2>1, LeftFiles DEF MarkFilesProcessed
    <2> QED BY <1>1, <1>6, <2>2 DEF MarkFilesProcessed
  <1>7. ASSUME NEW h \in Handler, MarkAirtableSynced(h)
        PROVE  CaughtInv'
    <2>1. request'[h].at # "patch"
      BY <1>7, LeftAirtable DEF MarkAirtableSynced
    <2> QED BY <1>1, <1>7, <2>1 DEF MarkAirtableSynced
  <1>8. ASSUME NEW h \in Handler, ReadStatuses(h) \/ PatchContractor(h)
        PROVE  CaughtInv'
    BY <1>8 DEF Request, ReadStatuses, PatchContractor
  <1>9. ASSUME NEW h \in Handler,
               \/ MarkFilesFailed(h) \/ AirtableFails(h) \/ CompleteNotification(h)
               \/ MarkNotificationFailed(h) \/ RequestLost(h)
        PROVE  CaughtInv'
    BY <1>0, <1>9 DEF MarkFilesFailed, AirtableFails, CompleteNotification,
                      MarkNotificationFailed, RequestLost
  <1>10. ASSUME NEW h \in Handler, ClaimNotification(h)
        PROVE  CaughtInv'
    BY <1>0, <1>10 DEF ClaimNotification, Request
  <1>11. CASE OperatorDecides \/ DocCrash
    BY <1>0, <1>11 DEF OperatorDecides, DocCrash
  <1>12. CASE UNCHANGED <<request, review, caught>>
    BY <1>12
  <1> QED BY <1>2, <1>3, <1>4, <1>5, <1>6, <1>7, <1>8, <1>9, <1>10, <1>11, <1>12
          DEF DocNext, docVars, ClaimLapses

\* A decision is overwritten by a delivery that had read the status before it,
\* and by no other: retries do not undo what the operator decided.
THEOREM DecisionKeptAlways == DocSpec => DecisionKept
  <1>1. DocInit => CaughtInv
    BY DEF DocInit, CaughtInv
  <1>2. DocTypeOK /\ CaughtInv /\ [DocNext]_docVars
        => [review = "decided" /\ review' # "decided" => caught # {}]_docVars
    BY DEF DocTypeOK, CaughtInv, docVars, rowVars, outerVars, At, DocNext, ReserveSubmission,
           ClaimFileProcessing, ClaimFileProcessingRefused, RereadSubmission, UploadDocument,
           MarkFilesProcessed, FilesFail, MarkFilesFailed, ReadStatuses, PatchContractor,
           MarkAirtableSynced, AirtableFails, ClaimNotification, SendNotification,
           CompleteNotification, NotificationFails, MarkNotificationFailed, RequestLost,
           ClaimLapses, OperatorDecides, DocCrash
  <1> QED BY <1>1, <1>2, CaughtStep, DocTypeCorrect, PTL DEF DocSpec, DecisionKept
=============================================================================
