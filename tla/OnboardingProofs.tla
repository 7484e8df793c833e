--------------------------- MODULE OnboardingProofs ---------------------------
(***************************************************************************)
(* Proofs about Onboarding and EmailEvents, for every set of submissions,  *)
(* receipts and requests.                                                  *)
(***************************************************************************)
EXTENDS Onboarding, EmailEvents, TLAPS

(* Onboarding: types, and what the actions do to one delivery *)

LEMMA AdvanceShape ==
  ASSUME delivery \in [Delivery -> DeliveryState], NEW d \in Delivery, NEW step \in OnbStep,
         Advance(d, step)
  PROVE  /\ delivery' \in [Delivery -> DeliveryState]
         /\ delivery'[d].at = step
         /\ delivery'[d].submission = delivery[d].submission
         /\ delivery'[d].prior = delivery[d].prior
         /\ delivery'[d].tried = delivery[d].tried
         /\ delivery'[d].up = delivery[d].up
         /\ \A e \in Delivery : e # d => delivery'[e] = delivery[e]
  BY DEF Advance, DeliveryState

LEMMA RespondShape ==
  ASSUME delivery \in [Delivery -> DeliveryState], NEW d \in Delivery, Respond(d)
  PROVE  /\ delivery' \in [Delivery -> DeliveryState]
         /\ delivery'[d] = Waiting /\ delivery'[d].at = "idle"
         /\ \A e \in Delivery : e # d => delivery'[e] = delivery[e]
         /\ overlapping' = overlapping \ {d}
  <1>1. Waiting \in DeliveryState /\ Waiting.at = "idle"
    BY DEF Waiting, DeliveryState, OnbStep
  <1> QED BY <1>1 DEF Respond

LEMMA ReceiveShape ==
  ASSUME delivery \in [Delivery -> DeliveryState], NEW d \in Delivery, NEW s \in Submission,
         ReceiveSubmission(d, s)
  PROVE  /\ delivery' \in [Delivery -> DeliveryState]
         /\ delivery'[d].at = "folder" /\ delivery'[d].submission = s
         /\ delivery'[d].prior = delivery[d].prior
         /\ delivery'[d].tried = delivery[d].tried
         /\ delivery'[d].up = delivery[d].up
         /\ \A e \in Delivery : e # d => delivery'[e] = delivery[e]
  BY DEF ReceiveSubmission, DeliveryState, OnbStep

LEMMA ReadShape ==
  ASSUME delivery \in [Delivery -> DeliveryState], AllReceipts \subseteq Item, NEW d \in Delivery,
         ReadPrior(d)
  PROVE  /\ delivery' \in [Delivery -> DeliveryState]
         /\ delivery'[d].at = "upload" /\ delivery'[d].prior = AllReceipts
         /\ delivery'[d].submission = delivery[d].submission
         /\ delivery'[d].tried = delivery[d].tried
         /\ delivery'[d].up = delivery[d].up
         /\ \A e \in Delivery : e # d => delivery'[e] = delivery[e]
  <1> DEFINE new == [delivery[d] EXCEPT !.at = "upload", !.prior = AllReceipts]
  <1>1. new \in DeliveryState
    BY DEF DeliveryState, OnbStep
  <1>2. delivery' = [delivery EXCEPT ![d] = new]
    BY DEF ReadPrior
  <1> QED BY <1>1, <1>2 DEF DeliveryState

\* An upload adds to what a delivery has tried and uploaded, and what it has
\* uploaded is in Drive.
LEMMA UploadShape ==
  ASSUME delivery \in [Delivery -> DeliveryState], filed \subseteq Item, NEW d \in Delivery,
         NEW i \in Item, UploadFile(d, i)
  PROVE  /\ delivery' \in [Delivery -> DeliveryState]
         /\ filed' \subseteq Item /\ filed \subseteq filed'
         /\ delivery'[d].at = "upload" /\ delivery'[d].prior = delivery[d].prior
         /\ delivery'[d].submission = delivery[d].submission
         /\ delivery[d].up \subseteq delivery'[d].up
         /\ delivery'[d].up \ delivery[d].up \subseteq filed'
         /\ \A e \in Delivery : e # d => delivery'[e] = delivery[e]
  <1>1. PICK answered \in BOOLEAN :
           /\ DownloadAndUpload(i, answered)
           /\ delivery' = [delivery EXCEPT ![d].tried = @ \cup {i},
                                           ![d].up = IF answered THEN @ \cup {i} ELSE @]
    BY DEF UploadFile
  <1> DEFINE up == IF answered THEN delivery[d].up \cup {i} ELSE delivery[d].up
             new == [delivery[d] EXCEPT !.tried = delivery[d].tried \cup {i}, !.up = up]
  <1>2. delivery[d].tried \cup {i} \in SUBSET Item /\ up \in SUBSET Item
    BY DEF DeliveryState
  <1>3. filed' \subseteq Item /\ filed \subseteq filed' /\ (answered => i \in filed')
    BY <1>1 DEF DownloadAndUpload
  <1>4. delivery[d].up \subseteq up /\ up \ delivery[d].up \subseteq filed'
    BY <1>3
  <1> HIDE DEF up
  <1>5. /\ new \in DeliveryState /\ new.at = delivery[d].at /\ new.prior = delivery[d].prior
        /\ new.submission = delivery[d].submission /\ new.up = up
    BY <1>2 DEF DeliveryState
  <1>6. delivery' = [delivery EXCEPT ![d] = new]
    BY <1>1 DEF up
  <1>7. delivery[d].at = "upload"
    BY DEF UploadFile, OnbAt
  <1> HIDE DEF new
  <1> QED BY <1>3, <1>4, <1>5, <1>6, <1>7

\* A delivery that is at work has a submission.
AtWork == \A d \in Delivery : delivery[d].at # "idle" => delivery[d].submission \in Submission

OType == OnbTypeOK /\ AtWork

LEMMA Receipts ==
  ASSUME OType, NEW d \in Delivery
  PROVE  /\ AllReceipts \subseteq Item
         /\ delivery[d].up \subseteq Item /\ delivery[d].prior \subseteq Item
         /\ delivery[d].at # "idle" => MergedChecklist(d) \subseteq Item
  <1>1. AllReceipts \subseteq Item
    BY DEF OType, OnbTypeOK, AllReceipts
  <1>2. delivery[d].up \subseteq Item /\ delivery[d].prior \subseteq Item
    BY DEF OType, OnbTypeOK, DeliveryState
  <1>3. delivery[d].at # "idle" => ByAnswer[delivery[d].submission] \subseteq Item
    BY FormsAssumption DEF OType, AtWork
  <1> QED BY <1>1, <1>2, <1>3 DEF MergedChecklist, ComputeChecklist, Form

LEMMA OnbInitType == OnbInit => OType
  <1>1. Waiting \in DeliveryState /\ Waiting.at = "idle"
    BY DEF Waiting, DeliveryState, OnbStep
  <1> SUFFICES ASSUME OnbInit PROVE OnbTypeOK /\ AtWork
    BY DEF OType
  <1>2. \A d \in Delivery : delivery[d] = Waiting
    BY DEF OnbInit
  <1>3. AtWork
    BY <1>1, <1>2 DEF AtWork
  <1>4. checklist \in [Submission -> SUBSET Item] /\ delivery \in [Delivery -> DeliveryState]
    BY <1>1 DEF OnbInit
  <1> QED BY <1>3, <1>4 DEF OnbInit, OnbTypeOK

LEMMA OnbStepType == OType /\ [OnbNext]_onbVars => OType'
  <1> SUFFICES ASSUME OType, [OnbNext]_onbVars PROVE OType'
    OBVIOUS
  <1>0. OnbTypeOK /\ AtWork /\ delivery \in [Delivery -> DeliveryState] /\ filed \subseteq Item
    BY DEF OType, OnbTypeOK
  <1>1. {"folder", "create", "prior", "upload", "patch", "clear"} \subseteq OnbStep
    BY DEF OnbStep
  <1> USE DEF OnbTypeOK, AtWork, OnbAt, fileVars, airtableVars
  <1>2. ASSUME NEW d \in Delivery, NEW s \in Submission, ReceiveSubmission(d, s)
        PROVE  OType'
    <2>1. UNCHANGED <<stored, checklist, folders, filed, shown, docsComplete, followUpLock,
                      elsewhere, overlapping>>
      BY <1>2 DEF ReceiveSubmission
    <2>2. /\ delivery' \in [Delivery -> DeliveryState] /\ delivery'[d].submission = s
          /\ \A e \in Delivery : e # d => delivery'[e] = delivery[e]
      BY <1>0, <1>2, ReceiveShape
    <2>3. OnbTypeOK'
      BY <1>0, <2>1, <2>2
    <2>4. AtWork'
      BY <1>0, <2>2
    <2> QED BY <2>3, <2>4 DEF OType
  <1>3. ASSUME NEW d \in Delivery, ResolveFolder(d)
        PROVE  OType'
    <2> DEFINE step == IF FolderKnown THEN "prior" ELSE "create"
    <2>1. step \in OnbStep
      BY <1>1
    <2>2. Advance(d, step)
      BY <1>3 DEF ResolveFolder
    <2> HIDE DEF step
    <2> QED BY <1>0, <1>3, <2>1, <2>2, AdvanceShape DEF ResolveFolder, OType
  <1>4. ASSUME NEW d \in Delivery, CreateFolder(d)
        PROVE  OType'
    BY <1>0, <1>1, <1>4, AdvanceShape DEF CreateFolder, OType
  <1>5. ASSUME NEW d \in Delivery, ReadPrior(d)
        PROVE  OType'
    <2>1. overlapping' \subseteq Delivery
      BY <1>0, <1>5 DEF ReadPrior, Working
    <2>2. UNCHANGED <<stored, checklist, folders, filed, shown, docsComplete, followUpLock,
                      elsewhere>> /\ delivery[d].at = "prior"
      BY <1>5 DEF ReadPrior
    <2>3. /\ delivery' \in [Delivery -> DeliveryState]
          /\ delivery'[d].submission = delivery[d].submission
          /\ \A e \in Delivery : e # d => delivery'[e] = delivery[e]
      BY <1>0, <1>5, ReadShape, Receipts
    <2>4. OnbTypeOK'
      BY <1>0, <2>1, <2>2, <2>3
    <2>5. AtWork'
      BY <1>0, <2>2, <2>3
    <2> QED BY <2>4, <2>5 DEF OType
  <1>6. ASSUME NEW d \in Delivery, NEW i \in Item, UploadFile(d, i)
        PROVE  OType'
    BY <1>0, <1>6, UploadShape DEF UploadFile, OType
  <1>7. ASSUME NEW d \in Delivery, StoreRow(d)
        PROVE  OType'
    <2>1. MergedChecklist(d) \subseteq Item /\ Form(d) \in Submission
      BY <1>0, <1>7, Receipts DEF StoreRow, Form
    <2>2. CASE Advance(d, "patch")
      <3>1. stored' \subseteq Submission /\ checklist' \in [Submission -> SUBSET Item]
        BY <1>0, <1>7, <2>1 DEF StoreRow
      <3>2. overlapping' \subseteq Delivery
        BY <1>0, <1>7 DEF StoreRow, Respond
      <3> QED BY <1>0, <1>1, <1>7, <2>2, <3>1, <3>2, AdvanceShape DEF StoreRow, OType
    <2>3. CASE Respond(d) /\ UNCHANGED <<stored, checklist>>
      BY <1>0, <1>7, <2>3, RespondShape DEF StoreRow, OType
    <2> QED BY <1>7, <2>2, <2>3 DEF StoreRow
  <1>8. ASSUME NEW d \in Delivery, MirrorChecklist(d)
        PROVE  OType'
    <2>1. shown' \subseteq Item /\ docsComplete' \in BOOLEAN
      BY <1>0, <1>8, Receipts DEF MirrorChecklist
    <2> QED BY <1>0, <1>1, <1>8, <2>1, AdvanceShape DEF MirrorChecklist, OType
  <1>9. ASSUME NEW d \in Delivery, ClearMissingDocsEvent(d) \/ DeliveryEnds(d)
        PROVE  OType'
    BY <1>0, <1>9, RespondShape DEF ClearMissingDocsEvent, DeliveryEnds, OType
  <1>10. CASE SendFollowUp
    BY <1>0, <1>10 DEF SendFollowUp, OType
  <1>11. ASSUME NEW i \in OtherForm, ReceiveElsewhere(i)
         PROVE  OType'
    BY <1>0, <1>11, FormsAssumption DEF ReceiveElsewhere, OType
  <1>12. CASE UNCHANGED onbVars
    BY <1>0, <1>12 DEF onbVars, OType
  <1> QED BY <1>2, <1>3, <1>4, <1>5, <1>6, <1>7, <1>8, <1>9, <1>10, <1>11, <1>12 DEF OnbNext

\* Deliveries, rows and receipts stay in their declared sets.
THEOREM OnbTypeCorrect == OnbSpec => []OnbTypeOK
  <1>1. OType => OnbTypeOK
    BY DEF OType
  <1> QED BY <1>1, OnbInitType, OnbStepType, PTL DEF OnbSpec

-----------------------------------------------------------------------------
(* Onboarding: a receipt has a file in Drive or an answer in a stored form.  *)

Backed(i) == i \in filed \/ \E s \in stored : i \in ByAnswer[s]

BackInv ==
    /\ \A i \in shown : Backed(i)
    /\ \A s \in stored : \A i \in checklist[s] : Backed(i)
    /\ docsComplete => shown = Item
    /\ \A d \in Delivery :
          /\ delivery[d].up \subseteq filed
          /\ \A i \in delivery[d].prior : Backed(i)
          /\ delivery[d].at \in {"patch", "clear"} => delivery[d].submission \in stored

LEMMA BackInit == OnbInit => BackInv
  BY DEF OnbInit, BackInv, Waiting

\* A step of one delivery that changes neither rows nor Airtable
LEMMA BackKept ==
  ASSUME OType, BackInv, NEW d \in Delivery, filed \subseteq filed', stored' = stored,
         checklist' = checklist, shown' = shown, docsComplete' = docsComplete,
         \A e \in Delivery : e # d => delivery'[e] = delivery[e],
         delivery'[d].up \subseteq filed',
         \A i \in delivery'[d].prior : i \in delivery[d].prior \/ i \in AllReceipts,
         delivery'[d].at \in {"patch", "clear"} => delivery'[d].submission \in stored
  PROVE  BackInv'
  <1>1. \A i : Backed(i) => Backed(i)'
    BY DEF Backed
  <1>2. \A i \in AllReceipts : Backed(i)
    BY DEF BackInv, AllReceipts
  <1>3. \A i \in delivery'[d].prior : Backed(i)'
    BY <1>1, <1>2 DEF BackInv
  <1> QED BY <1>1, <1>3 DEF BackInv

LEMMA BackStep == OType /\ BackInv /\ [OnbNext]_onbVars => BackInv'
  <1> SUFFICES ASSUME OType, BackInv, [OnbNext]_onbVars PROVE BackInv'
    OBVIOUS
  <1>0. OnbTypeOK /\ AtWork /\ delivery \in [Delivery -> DeliveryState] /\ filed \subseteq Item
    BY DEF OType, OnbTypeOK
  <1>1. {"folder", "create", "prior", "upload", "patch", "clear"} \subseteq OnbStep
    BY DEF OnbStep
  <1>2. \A d \in Delivery : delivery[d].up \subseteq filed
    BY DEF BackInv
  <1> USE DEF OnbAt, fileVars, airtableVars
  <1>3. ASSUME NEW d \in Delivery, NEW s \in Submission, ReceiveSubmission(d, s)
        PROVE  BackInv'
    BY <1>0, <1>2, <1>3, ReceiveShape, BackKept DEF ReceiveSubmission
  <1>4. ASSUME NEW d \in Delivery, NEW step \in OnbStep, Advance(d, step),
               step \notin {"patch", "clear"}, filed' = filed, stored' = stored,
               checklist' = checklist, shown' = shown, docsComplete' = docsComplete
        PROVE  BackInv'
    BY <1>0, <1>2, <1>4, AdvanceShape, BackKept
  <1>5. ASSUME NEW d \in Delivery, ResolveFolder(d)
        PROVE  BackInv'
    <2>1. Advance(d, "prior") \/ Advance(d, "create")
      BY <1>5 DEF ResolveFolder
    <2> QED BY <1>1, <1>4, <1>5, <2>1 DEF ResolveFolder
  <1>6. ASSUME NEW d \in Delivery, CreateFolder(d)
        PROVE  BackInv'
    BY <1>1, <1>4, <1>6 DEF CreateFolder
  <1>7. ASSUME NEW d \in Delivery, ReadPrior(d)
        PROVE  BackInv'
    BY <1>0, <1>2, <1>7, ReadShape, Receipts, BackKept DEF ReadPrior
  <1>8. ASSUME NEW d \in Delivery, NEW i \in Item, UploadFile(d, i)
        PROVE  BackInv'
    <2>1. delivery'[d].up \subseteq filed'
      BY <1>0, <1>2, <1>8, UploadShape
    <2> QED BY <1>0, <1>8, <2>1, UploadShape, BackKept DEF UploadFile
  <1>9. ASSUME NEW d \in Delivery, StoreRow(d), Form(d) \notin stored
        PROVE  BackInv'
    <2>1. /\ stored' = stored \cup {Form(d)} /\ Advance(d, "patch")
          /\ checklist' = [checklist EXCEPT ![Form(d)] = MergedChecklist(d)]
          /\ UNCHANGED <<filed, shown, docsComplete>>
          /\ Form(d) \in Submission
      BY <1>0, <1>9 DEF StoreRow, AtWork, Form
    <2>2. \A i : Backed(i) => Backed(i)'
      BY <2>1 DEF Backed
    <2>3. \A i \in MergedChecklist(d) : Backed(i)'
      <3>1. \A i \in ByAnswer[Form(d)] : Backed(i)'
        BY <2>1 DEF Backed
      <3>2. \A i \in delivery[d].up : Backed(i)'
        BY <1>2, <2>1 DEF Backed
      <3> QED BY <2>2, <3>1, <3>2 DEF MergedChecklist, ComputeChecklist, BackInv
    <2>4. \A s \in stored' : \A i \in checklist'[s] : Backed(i)'
      BY <1>0, <2>1, <2>2, <2>3 DEF BackInv, OnbTypeOK
    <2> QED BY <1>0, <1>1, <2>1, <2>2, <2>4, AdvanceShape DEF BackInv, Form
  <1>10. ASSUME NEW d \in Delivery, Respond(d), filed' = filed, stored' = stored,
                checklist' = checklist, shown' = shown, docsComplete' = docsComplete
         PROVE  BackInv'
    BY <1>0, <1>10, RespondShape, BackKept DEF Waiting
  <1>11. ASSUME NEW d \in Delivery, StoreRow(d), Form(d) \in stored
         PROVE  BackInv'
    BY <1>10, <1>11 DEF StoreRow
  <1>12. ASSUME NEW d \in Delivery, MirrorChecklist(d)
         PROVE  BackInv'
    <2>1. /\ Form(d) \in stored /\ shown' = MergedChecklist(d)
          /\ docsComplete' = (MergedChecklist(d) = Item)
          /\ Advance(d, "clear") /\ UNCHANGED <<stored, checklist, filed>>
      BY <1>12 DEF MirrorChecklist, BackInv, Form
    <2>2. \A i : Backed(i)' <=> Backed(i)
      BY <2>1 DEF Backed
    <2>3. \A i \in MergedChecklist(d) : Backed(i)
      BY <2>1 DEF MergedChecklist, ComputeChecklist, BackInv, Backed
    <2>4. /\ delivery'[d].at = "clear" /\ delivery'[d].submission = delivery[d].submission
          /\ delivery'[d].prior = delivery[d].prior /\ delivery'[d].up = delivery[d].up
          /\ \A e \in Delivery : e # d => delivery'[e] = delivery[e]
      BY <1>0, <1>1, <2>1, AdvanceShape
    <2>5. \A i \in shown' : Backed(i)'
      BY <2>1, <2>2, <2>3
    <2>6. docsComplete' => shown' = Item
      BY <2>1
    <2> QED BY <1>0, <2>1, <2>2, <2>4, <2>5, <2>6 DEF BackInv, Form
  <1>13. ASSUME NEW d \in Delivery, ClearMissingDocsEvent(d) \/ DeliveryEnds(d)
         PROVE  BackInv'
    BY <1>10, <1>13 DEF ClearMissingDocsEvent, DeliveryEnds
  <1>14. CASE SendFollowUp \/ UNCHANGED onbVars
    BY <1>14 DEF SendFollowUp, onbVars, BackInv, Backed
  <1>15. ASSUME NEW i \in OtherForm, ReceiveElsewhere(i)
         PROVE  BackInv'
    <2>1. i \in Item
      BY FormsAssumption
    <2> QED BY <1>0, <1>15, <2>1 DEF ReceiveElsewhere, BackInv, Backed, OnbTypeOK
  <1> QED BY <1>3, <1>5, <1>6, <1>7, <1>8, <1>9, <1>11, <1>12, <1>13, <1>14, <1>15 DEF OnbNext

\* A receipt in a row or in Airtable stands for a file in Drive or an answer of a
\* stored form, and "Docs Complete" for all of them (onboarding.service.ts:1095).
THEOREM ReceiptsBackedAlways == OnbSpec => []ReceiptsBacked
  <1>1. BackInv => ReceiptsBacked
    BY DEF BackInv, ReceiptsBacked, AllReceipts, Backed
  <1> QED BY <1>1, OnbInitType, OnbStepType, BackInit, BackStep, PTL DEF OnbSpec

-----------------------------------------------------------------------------
(* Onboarding: a delivery that is alone from its look at the earlier rows to  *)
(* its answer knows every row there is.                                      *)

AloneInv ==
    /\ shown \subseteq elsewhere \cup AllReceipts
    /\ \A d \in Delivery : delivery[d].at \in {"patch", "clear"} =>
          delivery[d].submission \in stored
              /\ checklist[delivery[d].submission] = MergedChecklist(d)
    /\ \A d, e \in Working : d # e => d \in overlapping
    /\ \A d \in Delivery \ overlapping :
          /\ delivery[d].at = "upload" => AllReceipts \subseteq delivery[d].prior
          /\ delivery[d].at \in {"patch", "clear"} => AllReceipts \subseteq MergedChecklist(d)
          /\ delivery[d].at = "clear" => AllReceipts \subseteq shown

LEMMA AloneInit == OnbInit => AloneInv
  BY DEF OnbInit, AloneInv, Waiting, Working

\* What a delivery will store is in its own state.
LEMMA SameMerged ==
  ASSUME NEW d \in Delivery, delivery'[d].submission = delivery[d].submission,
         delivery'[d].prior = delivery[d].prior, delivery'[d].up = delivery[d].up
  PROVE  MergedChecklist(d)' = MergedChecklist(d)
  BY DEF MergedChecklist, ComputeChecklist, Form

\* A step of a delivery before it stores its row, or to its end
LEMMA AloneKept ==
  ASSUME OType, AloneInv, NEW d \in Delivery, stored' = stored, checklist' = checklist,
         shown' = shown, elsewhere' = elsewhere, overlapping \ {d} \subseteq overlapping',
         \A e \in Delivery : e # d => delivery'[e] = delivery[e],
         delivery'[d].at \notin {"upload", "patch", "clear"}
  PROVE  AloneInv'
  <1>1. AllReceipts' = AllReceipts
    BY DEF AllReceipts
  <1>2. \A e \in Delivery : e # d => MergedChecklist(e)' = MergedChecklist(e)
    BY SameMerged
  <1>3. Working' = Working \ {d}
    BY DEF Working
  <1> QED BY <1>1, <1>2, <1>3 DEF AloneInv

LEMMA AloneStep == OType /\ AloneInv /\ [OnbNext]_onbVars => AloneInv'
  <1> SUFFICES ASSUME OType, AloneInv, [OnbNext]_onbVars PROVE AloneInv'
    OBVIOUS
  <1>0. OnbTypeOK /\ AtWork /\ delivery \in [Delivery -> DeliveryState] /\ filed \subseteq Item
    BY DEF OType, OnbTypeOK
  <1>1. {"folder", "create", "prior", "upload", "patch", "clear"} \subseteq OnbStep
    BY DEF OnbStep
  <1> USE DEF OnbAt, fileVars, airtableVars
  <1>2. ASSUME NEW d \in Delivery, NEW s \in Submission, ReceiveSubmission(d, s)
        PROVE  AloneInv'
    BY <1>0, <1>2, ReceiveShape, AloneKept DEF ReceiveSubmission
  <1>3. ASSUME NEW d \in Delivery, ResolveFolder(d)
        PROVE  AloneInv'
    <2>1. Advance(d, "prior") \/ Advance(d, "create")
      BY <1>3 DEF ResolveFolder
    <2> QED BY <1>0, <1>1, <1>3, <2>1, AdvanceShape, AloneKept DEF ResolveFolder
  <1>4. ASSUME NEW d \in Delivery, CreateFolder(d)
        PROVE  AloneInv'
    BY <1>0, <1>1, <1>4, AdvanceShape, AloneKept DEF CreateFolder
  <1>5. ASSUME NEW d \in Delivery, ReadPrior(d)
        PROVE  AloneInv'
    <2>1. /\ stored' = stored /\ checklist' = checklist /\ shown' = shown
          /\ elsewhere' = elsewhere /\ delivery[d].at = "prior"
          /\ overlapping' = IF Working = {} THEN overlapping ELSE overlapping \cup Working \cup {d}
      BY <1>5 DEF ReadPrior
    <2>2. AllReceipts' = AllReceipts /\ AllReceipts \subseteq Item
      BY <2>1, Receipts DEF AllReceipts
    <2>3. /\ delivery'[d].at = "upload" /\ delivery'[d].prior = AllReceipts
          /\ \A e \in Delivery : e # d => delivery'[e] = delivery[e]
      BY <1>0, <1>5, <2>2, ReadShape
    <2>4. \A e \in Delivery : e # d => MergedChecklist(e)' = MergedChecklist(e)
      BY <2>3, SameMerged
    <2>5. Working' = Working \cup {d}
      BY <2>3 DEF Working
    <2>6. \A e, f \in Working' : e # f => e \in overlapping'
      BY <2>1, <2>5 DEF AloneInv
    <2> QED BY <2>1, <2>2, <2>3, <2>4, <2>6 DEF AloneInv
  <1>6. ASSUME NEW d \in Delivery, NEW i \in Item, UploadFile(d, i)
        PROVE  AloneInv'
    <2>1. /\ stored' = stored /\ checklist' = checklist /\ shown' = shown
          /\ elsewhere' = elsewhere /\ delivery[d].at = "upload" /\ overlapping' = overlapping
      BY <1>6 DEF UploadFile
    <2>2. AllReceipts' = AllReceipts
      BY <2>1 DEF AllReceipts
    <2>3. /\ delivery'[d].at = "upload" /\ delivery'[d].prior = delivery[d].prior
          /\ \A e \in Delivery : e # d => delivery'[e] = delivery[e]
      BY <1>0, <1>6, UploadShape
    <2>4. \A e \in Delivery : e # d => MergedChecklist(e)' = MergedChecklist(e)
      BY <2>3, SameMerged
    <2>5. Working' = Working
      BY <2>1, <2>3 DEF Working
    <2> QED BY <2>1, <2>2, <2>3, <2>4, <2>5 DEF AloneInv
  <1>7. ASSUME NEW d \in Delivery, StoreRow(d), Form(d) \notin stored
        PROVE  AloneInv'
    <2>1. /\ stored' = stored \cup {Form(d)} /\ Advance(d, "patch")
          /\ checklist' = [checklist EXCEPT ![Form(d)] = MergedChecklist(d)]
          /\ UNCHANGED <<shown, elsewhere, overlapping>>
          /\ Form(d) \in Submission /\ delivery[d].at = "upload"
      BY <1>0, <1>7 DEF StoreRow, AtWork, Form
    <2>2. AllReceipts' = AllReceipts \cup MergedChecklist(d)
      BY <1>0, <1>7, <2>1 DEF AllReceipts, OnbTypeOK
    <2>3. /\ delivery'[d].at = "patch" /\ delivery'[d].submission = Form(d)
          /\ delivery'[d].prior = delivery[d].prior /\ delivery'[d].up = delivery[d].up
          /\ \A e \in Delivery : e # d => delivery'[e] = delivery[e]
      BY <1>0, <1>1, <2>1, AdvanceShape DEF Form
    <2>4. \A e \in Delivery : MergedChecklist(e)' = MergedChecklist(e)
      BY <2>3, SameMerged DEF Form
    <2>5. Working' = Working /\ d \in Working
      BY <2>1, <2>3 DEF Working
    <2>6. \A s \in stored : checklist'[s] = checklist[s]
      BY <1>0, <1>7, <2>1 DEF OnbTypeOK
    <2>7. checklist'[Form(d)] = MergedChecklist(d)
      BY <1>0, <2>1 DEF OnbTypeOK
    <2>8. \A e \in Delivery : delivery'[e].at \in {"patch", "clear"} =>
             /\ delivery'[e].submission \in stored'
             /\ checklist'[delivery'[e].submission] = MergedChecklist(e)'
      BY <2>1, <2>3, <2>4, <2>6, <2>7 DEF AloneInv
    <2>9. \A e \in Working : e # d => e \in overlapping
      BY <2>5 DEF AloneInv
    <2>10. d \notin overlapping => AllReceipts' \subseteq MergedChecklist(d)'
      BY <2>1, <2>2, <2>4 DEF AloneInv, MergedChecklist
    <2>11. \A e \in Delivery \ overlapping' : e # d => delivery'[e].at \notin {"upload", "patch", "clear"}
      BY <2>1, <2>3, <2>9 DEF Working
    <2> QED BY <2>1, <2>2, <2>3, <2>5, <2>8, <2>10, <2>11 DEF AloneInv
  <1>8. ASSUME NEW d \in Delivery, Respond(d), stored' = stored, checklist' = checklist,
               shown' = shown, elsewhere' = elsewhere
        PROVE  AloneInv'
    BY <1>0, <1>8, RespondShape, AloneKept
  <1>9. ASSUME NEW d \in Delivery, StoreRow(d), Form(d) \in stored
        PROVE  AloneInv'
    BY <1>8, <1>9 DEF StoreRow
  <1>10. ASSUME NEW d \in Delivery, MirrorChecklist(d)
         PROVE  AloneInv'
    <2>1. /\ shown' = MergedChecklist(d) /\ Advance(d, "clear") /\ delivery[d].at = "patch"
          /\ UNCHANGED <<stored, checklist, elsewhere, overlapping>>
      BY <1>10 DEF MirrorChecklist
    <2>2. /\ delivery'[d].at = "clear" /\ delivery'[d].submission = delivery[d].submission
          /\ delivery'[d].prior = delivery[d].prior /\ delivery'[d].up = delivery[d].up
          /\ \A e \in Delivery : e # d => delivery'[e] = delivery[e]
      BY <1>0, <1>1, <2>1, AdvanceShape
    <2>3. \A e \in Delivery : MergedChecklist(e)' = MergedChecklist(e)
      BY <2>2, SameMerged
    <2>4. Working' = Working /\ AllReceipts' = AllReceipts /\ d \in Working
      BY <2>1, <2>2 DEF Working, AllReceipts
    <2>5. MergedChecklist(d) \subseteq AllReceipts
      BY <2>1 DEF AloneInv, AllReceipts
    <2>6. \A e \in Working : e # d => e \in overlapping
      BY <2>4 DEF AloneInv
    <2>7. \A e \in Delivery \ overlapping' : e # d => delivery'[e].at # "clear"
      BY <2>1, <2>2, <2>6 DEF Working
    <2> QED BY <2>1, <2>2, <2>3, <2>4, <2>5, <2>7 DEF AloneInv
  <1>11. ASSUME NEW d \in Delivery, ClearMissingDocsEvent(d) \/ DeliveryEnds(d)
         PROVE  AloneInv'
    BY <1>8, <1>11 DEF ClearMissingDocsEvent, DeliveryEnds
  <1>12. ASSUME stored' = stored, checklist' = checklist, delivery' = delivery,
                overlapping' = overlapping, shown \subseteq shown', elsewhere \subseteq elsewhere',
                shown' \ shown \subseteq elsewhere'
         PROVE  AloneInv'
    <2>1. Working' = Working /\ AllReceipts' = AllReceipts
      BY <1>12 DEF Working, AllReceipts
    <2>2. \A e \in Delivery : MergedChecklist(e)' = MergedChecklist(e)
      BY <1>12, SameMerged
    <2> QED BY <1>12, <2>1, <2>2 DEF AloneInv
  <1>13. CASE SendFollowUp \/ UNCHANGED onbVars
    BY <1>12, <1>13 DEF SendFollowUp, onbVars
  <1>14. ASSUME NEW i \in OtherForm, ReceiveElsewhere(i)
         PROVE  AloneInv'
    BY <1>12, <1>14 DEF ReceiveElsewhere
  <1> QED BY <1>2, <1>3, <1>4, <1>5, <1>6, <1>7, <1>9, <1>10, <1>11, <1>13, <1>14 DEF OnbNext

\* Only the PATCH takes receipts back.
LEMMA KeptStep ==
  ASSUME AloneInv, OnbNext, NEW i \in shown \ shown'
  PROVE  i \in elsewhere \/ \E d \in overlapping : OnbAt(d, "patch")
  <1>1. PICK d \in Delivery : MirrorChecklist(d)
    BY DEF OnbNext, ReceiveSubmission, ResolveFolder, CreateFolder, ReadPrior, UploadFile, StoreRow,
           ClearMissingDocsEvent, DeliveryEnds, SendFollowUp, ReceiveElsewhere, airtableVars
  <1>2. delivery[d].at = "patch" /\ i \notin MergedChecklist(d)
    BY <1>1 DEF MirrorChecklist, OnbAt
  <1>3. CASE d \in overlapping
    BY <1>2, <1>3 DEF OnbAt
  <1>4. CASE d \notin overlapping
    BY <1>2, <1>4 DEF AloneInv
  <1> QED BY <1>3, <1>4

\* Only the delete at a delivery's end unlocks the follow-up.
LEMMA UnlockStep ==
  ASSUME AloneInv, OnbNext, followUpLock, ~ followUpLock'
  PROVE  AllReceipts \subseteq shown \/ \E d \in overlapping : OnbAt(d, "clear")
  <1>1. PICK d \in Delivery : ClearMissingDocsEvent(d)
    BY DEF OnbNext, ReceiveSubmission, ResolveFolder, CreateFolder, ReadPrior, UploadFile, StoreRow,
           MirrorChecklist, DeliveryEnds, SendFollowUp, ReceiveElsewhere
  <1>2. delivery[d].at = "clear"
    BY <1>1 DEF ClearMissingDocsEvent, OnbAt
  <1> QED BY <1>2 DEF AloneInv, OnbAt

\* Airtable loses a receipt only to overlapping deliveries or if it came by the
\* other form (onboarding.service.ts:1095), for any number of deliveries.
THEOREM ReceiptsKeptAlways == OnbSpec => ReceiptsKept
  <1>1. AloneInv /\ [OnbNext]_onbVars =>
           [\A i \in shown \ shown' :
               \/ i \in elsewhere
               \/ \E d \in overlapping : OnbAt(d, "patch")]_onbVars
    BY KeptStep
  <1> QED BY <1>1, OnbInitType, OnbStepType, AloneInit, AloneStep, PTL DEF OnbSpec, ReceiptsKept

\* The follow-up is unlocked only when Airtable shows all receipts of the rows
\* (onboarding.service.ts:1119), unless deliveries overlapped.
THEOREM UnlockedWhenShownAlways == OnbSpec => UnlockedWhenShown
  <1>1. AloneInv /\ [OnbNext]_onbVars =>
           [followUpLock /\ ~ followUpLock' =>
               AllReceipts \subseteq shown \/ \E d \in overlapping : OnbAt(d, "clear")]_onbVars
    BY UnlockStep
  <1> QED BY <1>1, OnbInitType, OnbStepType, AloneInit, AloneStep, PTL
          DEF OnbSpec, UnlockedWhenShown

\* The claim ReceiptsCumulative, as far as it goes: the row a delivery stores has
\* every receipt of the earlier rows, unless another delivery was at work with it.
\* The run onboarding_receipts shows what it lacks if one was.
CumulativeUnlessOverlapping ==
    [][\A s \in stored' \ stored :
          \/ AllReceipts \subseteq checklist'[s]
          \/ \E d \in overlapping : Form(d) = s /\ OnbAt(d, "upload")]_onbVars

\* What a delivery reads before its uploads (onboarding.service.ts:711) is still
\* all there is when it stores its row, if it was alone.
THEOREM CumulativeUnlessOverlappingAlways == OnbSpec => CumulativeUnlessOverlapping
  <1>1. ASSUME OType, AloneInv, OnbNext, NEW s \in stored' \ stored
        PROVE  \/ AllReceipts \subseteq checklist'[s]
               \/ \E d \in overlapping : Form(d) = s /\ OnbAt(d, "upload")
    <2>1. PICK d \in Delivery : StoreRow(d) /\ Form(d) \notin stored
      BY <1>1 DEF OnbNext, ReceiveSubmission, ResolveFolder, CreateFolder, ReadPrior, UploadFile,
                  StoreRow, MirrorChecklist, ClearMissingDocsEvent, DeliveryEnds, SendFollowUp,
                  ReceiveElsewhere, Respond
    <2>2. /\ stored' = stored \cup {Form(d)} /\ OnbAt(d, "upload") /\ delivery[d].at = "upload"
          /\ checklist' = [checklist EXCEPT ![Form(d)] = MergedChecklist(d)]
      BY <2>1 DEF StoreRow, OnbAt
    <2>3. s = Form(d) /\ Form(d) \in Submission
      BY <1>1, <2>2 DEF OType, AtWork, Form
    <2>4. checklist'[s] = MergedChecklist(d)
      BY <1>1, <2>2, <2>3 DEF OType, OnbTypeOK
    <2>5. d \notin overlapping => AllReceipts \subseteq MergedChecklist(d)
      BY <1>1, <2>2 DEF AloneInv, MergedChecklist
    <2> QED BY <2>2, <2>3, <2>4, <2>5
  <1>2. OType /\ AloneInv /\ [OnbNext]_onbVars =>
           [\A s \in stored' \ stored :
               \/ AllReceipts \subseteq checklist'[s]
               \/ \E d \in overlapping : Form(d) = s /\ OnbAt(d, "upload")]_onbVars
    BY <1>1
  <1> QED BY <1>2, OnbInitType, OnbStepType, AloneInit, AloneStep, PTL
          DEF OnbSpec, CumulativeUnlessOverlapping

-----------------------------------------------------------------------------
(* EmailEvents: types, and what the actions do to one sender *)

MailPlace == {"idle", "record", "reserve", "dispatch", "accepted", "failing"}

LEMMA MailStepShape ==
  ASSUME sender \in [Sender -> SenderState], NEW m \in Sender, NEW step \in MailPlace,
         MailStep(m, step)
  PROVE  /\ sender' \in [Sender -> SenderState]
         /\ sender'[m].at = step /\ sender'[m].live = sender[m].live
         /\ sender'[m].forced = sender[m].forced
         /\ \A n \in Sender : n # m => sender'[n] = sender[n]
  BY DEF MailStep, SenderState, MailPlace

LEMMA MailEndsShape ==
  ASSUME sender \in [Sender -> SenderState], NEW m \in Sender, MailEnds(m)
  PROVE  /\ sender' \in [Sender -> SenderState]
         /\ sender'[m].at = "idle" /\ ~ sender'[m].live
         /\ \A n \in Sender : n # m => sender'[n] = sender[n]
  BY DEF MailEnds, NotSending, SenderState

LEMMA ReservesShape ==
  ASSUME sender \in [Sender -> SenderState], NEW m \in Sender,
         sender' = [sender EXCEPT ![m].at = "dispatch", ![m].live = TRUE]
  PROVE  /\ sender' \in [Sender -> SenderState]
         /\ sender'[m].at = "dispatch" /\ sender'[m].live
         /\ sender'[m].forced = sender[m].forced
         /\ \A n \in Sender : n # m => sender'[n] = sender[n]
  BY DEF SenderState

LEMMA AsksShape ==
  ASSUME sender \in [Sender -> SenderState], NEW m \in Sender, NEW force \in BOOLEAN,
         NEW step \in {"record", "reserve"},
         sender' = [sender EXCEPT ![m].at = step, ![m].forced = force]
  PROVE  /\ sender' \in [Sender -> SenderState]
         /\ sender'[m].at = step /\ sender'[m].live = sender[m].live
         /\ \A n \in Sender : n # m => sender'[n] = sender[n]
  BY DEF SenderState

LEMMA ClearShape ==
  ASSUME sender \in [Sender -> SenderState],
         sender' = [m \in Sender |-> [sender[m] EXCEPT !.live = FALSE]]
  PROVE  /\ sender' \in [Sender -> SenderState]
         /\ \A m \in Sender : sender'[m].at = sender[m].at /\ ~ sender'[m].live
  BY DEF SenderState

\* Who has reserved the row that is there: nobody without a row; a sender without
\* forceResend is the one who inserted it; and while nothing is muddled there is
\* one sender, whose message the row waits for.
MailInv ==
    /\ MailTypeOK
    /\ \A m \in Sender : sender[m].live =>
          sender[m].at \in {"dispatch", "accepted", "failing"} /\ eventStatus # "none"
    /\ \A m, n \in Sender :
          sender[m].live /\ sender[n].live /\ ~ sender[m].forced /\ ~ sender[n].forced => m = n
    /\ \A m \in Sender : unasked /\ sender[m].live /\ ~ sender[m].forced => sender[m].at # "dispatch"
    /\ ~ muddled =>
          /\ eventStatus = "sent" => told
          /\ told => eventStatus = "sent" \/ \E m \in Sender : sender[m].live
          /\ \A m, n \in Sender : sender[m].live /\ sender[n].live => m = n
          /\ \A m \in Sender : sender[m].live =>
                eventStatus = "pending" /\ (told <=> sender[m].at = "accepted")

LEMMA MailInitInv == MailInit => MailInv
  <1> SUFFICES ASSUME MailInit PROVE MailInv
    OBVIOUS
  <1>1. NotSending \in SenderState /\ NotSending.at = "idle" /\ ~ NotSending.live
    BY DEF NotSending, SenderState
  <1>2. MailTypeOK /\ \A m \in Sender : ~ sender[m].live
    BY <1>1 DEF MailInit, MailTypeOK
  <1> QED BY <1>2 DEF MailInit, MailInv

\* A step that leaves the row alone, of a sender that has not reserved it
LEMMA MailAside ==
  ASSUME MailInv, MailTypeOK', NEW m \in Sender, ~ sender[m].live, ~ sender'[m].live,
         \A n \in Sender : n # m => sender'[n] = sender[n],
         UNCHANGED <<eventStatus, told, unasked, muddled>>
  PROVE  MailInv'
  BY DEF MailInv

\* A row that is inserted: nobody else has it.
LEMMA MailInserted ==
  ASSUME MailInv, NEW m \in Sender, eventStatus = "none", InsertEvent(m),
         UNCHANGED <<kind, isActive, hasRecord>>
  PROVE  MailInv'
  <1>1. MailTypeOK /\ sender \in [Sender -> SenderState] /\ \A n \in Sender : ~ sender[n].live
    BY DEF MailInv, MailTypeOK
  <1>2. /\ eventStatus' = "pending" /\ told' = FALSE /\ unasked' = FALSE /\ muddled' = FALSE
        /\ sender' \in [Sender -> SenderState]
        /\ sender'[m].at = "dispatch" /\ sender'[m].live
        /\ \A n \in Sender : n # m => ~ sender'[n].live
    BY <1>1, ReservesShape DEF InsertEvent
  <1>3. MailTypeOK'
    BY <1>1, <1>2 DEF MailTypeOK
  <1> QED BY <1>2, <1>3 DEF MailInv

LEMMA MailStepInv == MailInv /\ [MailNext]_mailVars => MailInv'
  <1> SUFFICES ASSUME MailInv, [MailNext]_mailVars PROVE MailInv'
    OBVIOUS
  <1>0. MailTypeOK /\ sender \in [Sender -> SenderState]
    BY DEF MailInv, MailTypeOK
  <1>1. \A m \in Sender : sender[m].at \notin {"dispatch", "accepted", "failing"} => ~ sender[m].live
    BY DEF MailInv
  <1>2. {"idle", "record", "reserve", "dispatch", "accepted", "failing"} \subseteq MailPlace
    BY DEF MailPlace
  <1>3. ASSUME NEW m \in Sender, NEW force \in BOOLEAN, NEW step \in {"record", "reserve"},
               sender[m].at = "idle",
               sender' = [sender EXCEPT ![m].at = step, ![m].forced = force],
               UNCHANGED <<kind, eventStatus, isActive, hasRecord, told, unasked, muddled>>
        PROVE  MailInv'
    <2>1. MailTypeOK'
      BY <1>0, <1>3, AsksShape DEF MailTypeOK
    <2> QED BY <1>0, <1>1, <1>3, <2>1, AsksShape, MailAside
  <1>4. ASSUME NEW m \in Sender, NEW force \in BOOLEAN,
               \/ \E brings \in BOOLEAN : SendOnboardingEmail(m, force, brings)
               \/ SendMissingDocsEmail(m, force) \/ SendAcceptedEmail(m, force)
               \/ SendActivatedEmail(m, force)
        PROVE  MailInv'
    BY <1>3, <1>4 DEF SendOnboardingEmail, SendMissingDocsEmail, SendAcceptedEmail,
                      SendActivatedEmail, Requests
  <1>5. ASSUME NEW m \in Sender, SendJobComplete(m)
        PROVE  MailInv'
    BY <1>3, <1>5 DEF SendJobComplete, Requests
  <1>6. ASSUME NEW m \in Sender, PersistRecord(m)
        PROVE  MailInv'
    <2>1. MailTypeOK'
      BY <1>0, <1>2, <1>6, MailStepShape DEF MailTypeOK, PersistRecord
    <2> QED BY <1>0, <1>1, <1>2, <1>6, <2>1, MailStepShape, MailAside DEF PersistRecord
  <1>7. ASSUME NEW m \in Sender, sender[m].at = "reserve", AlreadySent(m),
               UNCHANGED <<kind, isActive, hasRecord>>
        PROVE  MailInv'
    <2>1. MailTypeOK'
      BY <1>0, <1>7, MailEndsShape DEF MailTypeOK, AlreadySent
    <2> QED BY <1>0, <1>1, <1>7, <2>1, MailEndsShape, MailAside DEF AlreadySent
  <1>8. ASSUME NEW m \in Sender, ReserveEmailEvent(m)
        PROVE  MailInv'
    BY <1>7, <1>8, MailInserted DEF ReserveEmailEvent
  <1>9. ASSUME NEW m \in Sender, ReserveForResend(m), ResetEvent(m)
        PROVE  MailInv'
    <2>1. /\ sender[m].forced /\ ~ sender[m].live /\ eventStatus # "none"
          /\ eventStatus' = "pending" /\ told' = FALSE /\ unasked' = unasked
          /\ muddled' = \E n \in Sender : InFlight(n)
          /\ UNCHANGED <<kind, isActive, hasRecord>>
      BY <1>1, <1>9 DEF ReserveForResend, ResetEvent
    <2>2. /\ sender' \in [Sender -> SenderState]
          /\ sender'[m].at = "dispatch" /\ sender'[m].live /\ sender'[m].forced
          /\ \A n \in Sender : n # m => sender'[n] = sender[n]
      BY <1>0, <1>9, <2>1, ReservesShape DEF ResetEvent
    <2>3. MailTypeOK'
      BY <1>0, <2>1, <2>2 DEF MailTypeOK
    <2>4. ~ muddled' => \A n \in Sender : ~ sender[n].live
      BY <2>1 DEF InFlight, MailInv
    <2> QED BY <2>1, <2>2, <2>3, <2>4 DEF MailInv
  <1>10. ASSUME NEW m \in Sender, ReserveForResend(m)
         PROVE  MailInv'
    BY <1>9, <1>10, MailInserted DEF ReserveForResend
  <1>11. ASSUME NEW m \in Sender, SendViaResend(m)
         PROVE  MailInv'
    <2>1. /\ sender[m].at = "dispatch" /\ told' = (told \/ sender[m].live)
          /\ unasked' = (unasked \/ (sender[m].live /\ ~ sender[m].forced))
          /\ UNCHANGED <<kind, eventStatus, isActive, hasRecord, muddled>>
      BY <1>11 DEF SendViaResend
    <2>2. /\ sender' \in [Sender -> SenderState]
          /\ sender'[m].at = "accepted" /\ sender'[m].live = sender[m].live
          /\ sender'[m].forced = sender[m].forced
          /\ \A n \in Sender : n # m => sender'[n] = sender[n]
      BY <1>0, <1>2, <1>11, MailStepShape DEF SendViaResend
    <2>3. MailTypeOK'
      BY <1>0, <2>1, <2>2 DEF MailTypeOK
    <2>4. \A n \in Sender : sender'[n].live = sender[n].live /\ sender'[n].forced = sender[n].forced
      BY <2>2
    <2>5. \A n \in Sender : sender'[n].live =>
             sender'[n].at \in {"dispatch", "accepted", "failing"} /\ eventStatus' # "none"
      BY <2>1, <2>2 DEF MailInv
    <2>6. \A n, o \in Sender :
             sender'[n].live /\ sender'[o].live /\ ~ sender'[n].forced /\ ~ sender'[o].forced
                => n = o
      BY <2>4 DEF MailInv
    <2>7. \A n \in Sender : unasked' /\ sender'[n].live /\ ~ sender'[n].forced
                                => sender'[n].at # "dispatch"
      <3> SUFFICES ASSUME NEW n \in Sender, unasked', sender'[n].live, ~ sender'[n].forced
                   PROVE  sender'[n].at # "dispatch"
        OBVIOUS
      <3>1. CASE n = m
        BY <2>2, <3>1
      <3>2. CASE n # m /\ unasked
        BY <2>2, <3>2 DEF MailInv
      <3>3. CASE n # m /\ ~ unasked
        BY <2>1, <2>2, <3>3 DEF MailInv
      <3> QED BY <3>1, <3>2, <3>3
    <2>8. ~ muddled' =>
            /\ eventStatus' = "sent" => told'
            /\ told' => eventStatus' = "sent" \/ \E n \in Sender : sender'[n].live
            /\ \A n, o \in Sender : sender'[n].live /\ sender'[o].live => n = o
            /\ \A n \in Sender : sender'[n].live =>
                  eventStatus' = "pending" /\ (told' <=> sender'[n].at = "accepted")
      <3>1. ~ muddled' /\ eventStatus' = "sent" => told'
        BY <2>1 DEF MailInv
      <3>2. ~ muddled' /\ told' => eventStatus' = "sent" \/ \E n \in Sender : sender'[n].live
        BY <2>1, <2>4 DEF MailInv
      <3>3. ~ muddled' => \A n, o \in Sender : sender'[n].live /\ sender'[o].live => n = o
        BY <2>1, <2>4 DEF MailInv
      <3>4. ASSUME ~ muddled', NEW n \in Sender, sender'[n].live
            PROVE  eventStatus' = "pending" /\ (told' <=> sender'[n].at = "accepted")
        <4>1. CASE n = m
          BY <2>1, <2>2, <3>4, <4>1 DEF MailInv
        <4>2. CASE n # m
          BY <2>1, <2>2, <3>3, <3>4, <4>2 DEF MailInv
        <4> QED BY <4>1, <4>2
      <3> QED BY <3>1, <3>2, <3>3, <3>4
    <2> QED BY <2>3, <2>5, <2>6, <2>7, <2>8 DEF MailInv
  <1>12. ASSUME NEW m \in Sender, SendFails(m)
         PROVE  MailInv'
    <2>1. /\ sender[m].at = "dispatch"
          /\ UNCHANGED <<kind, eventStatus, isActive, hasRecord>>
      BY <1>12 DEF SendFails
    <2>2. /\ sender' \in [Sender -> SenderState]
          /\ sender'[m].at = "failing" /\ sender'[m].live = sender[m].live
          /\ sender'[m].forced = sender[m].forced
          /\ \A n \in Sender : n # m => sender'[n] = sender[n]
      BY <1>0, <1>2, <1>12, MailStepShape DEF SendFails
    <2>3. CASE UNCHANGED <<told, unasked, muddled>>
      <3>1. MailTypeOK'
        BY <1>0, <2>1, <2>2, <2>3 DEF MailTypeOK
      <3> QED BY <1>0, <2>1, <2>2, <2>3, <3>1 DEF MailInv, MailTypeOK
    <2>4. CASE /\ told' = (told \/ sender[m].live)
               /\ unasked' = (unasked \/ (sender[m].live /\ ~ sender[m].forced))
               /\ muddled' = (muddled \/ sender[m].live)
      <3>1. MailTypeOK'
        BY <1>0, <2>1, <2>2, <2>4 DEF MailTypeOK
      <3> QED BY <1>0, <2>1, <2>2, <2>4, <3>1 DEF MailInv, MailTypeOK
    <2> QED BY <1>12, <2>3, <2>4 DEF SendFails
  <1>13. ASSUME NEW m \in Sender, MarkEmailEventSent(m) \/ MarkEmailEventFailed(m)
         PROVE  MailInv'
    <2>1. /\ UNCHANGED <<kind, isActive, hasRecord, told, unasked, muddled>>
          /\ MailEnds(m)
          /\ \/ sender[m].at = "accepted" /\ eventStatus' = IF sender[m].live THEN "sent" ELSE eventStatus
             \/ sender[m].at = "failing" /\ eventStatus' = IF sender[m].live THEN "failed" ELSE eventStatus
      BY <1>13 DEF MarkEmailEventSent, MarkEmailEventFailed
    <2>2. /\ sender' \in [Sender -> SenderState] /\ sender'[m].at = "idle" /\ ~ sender'[m].live
          /\ \A n \in Sender : n # m => sender'[n] = sender[n]
      BY <1>0, <2>1, MailEndsShape
    <2>3. MailTypeOK'
      BY <1>0, <2>1, <2>2 DEF MailTypeOK
    <2> QED BY <1>0, <2>1, <2>2, <2>3 DEF MailInv, MailTypeOK
  <1>14. ASSUME NEW m \in Sender, MarkSentFails(m)
         PROVE  MailInv'
    <2>1. /\ sender[m].at = "accepted" /\ muddled' = (muddled \/ sender[m].live)
          /\ UNCHANGED <<kind, eventStatus, isActive, hasRecord, told, unasked>>
      BY <1>14 DEF MarkSentFails
    <2>2. /\ sender' \in [Sender -> SenderState]
          /\ sender'[m].at = "failing" /\ sender'[m].live = sender[m].live
          /\ sender'[m].forced = sender[m].forced
          /\ \A n \in Sender : n # m => sender'[n] = sender[n]
      BY <1>0, <1>2, <1>14, MailStepShape DEF MarkSentFails
    <2>3. MailTypeOK'
      BY <1>0, <2>1, <2>2 DEF MailTypeOK
    <2> QED BY <1>0, <2>1, <2>2, <2>3 DEF MailInv, MailTypeOK
  <1>15. ASSUME NEW m \in Sender, EmailAbandoned(m)
         PROVE  MailInv'
    <2>1. /\ muddled' = (muddled \/ (sender[m].live /\ sender[m].at \in {"accepted", "failing"}))
          /\ UNCHANGED <<kind, eventStatus, isActive, hasRecord, told, unasked>>
      BY <1>15 DEF EmailAbandoned
    <2>2. /\ sender' \in [Sender -> SenderState] /\ sender'[m].at = "idle" /\ ~ sender'[m].live
          /\ \A n \in Sender : n # m => sender'[n] = sender[n]
      BY <1>0, <1>15, MailEndsShape DEF EmailAbandoned
    <2>3. MailTypeOK'
      BY <1>0, <2>1, <2>2 DEF MailTypeOK
    <2> QED BY <1>0, <2>1, <2>2, <2>3 DEF MailInv, MailTypeOK
  <1>16. CASE ClearEvent
    <2>1. MailTypeOK'
      BY <1>0, <1>16, ClearShape DEF ClearEvent, MailTypeOK
    <2>2. \A m \in Sender : ~ sender'[m].live
      BY <1>0, <1>16, ClearShape DEF ClearEvent
    <2> QED BY <1>16, <2>1, <2>2 DEF ClearEvent, MailInv
  <1>17. CASE ContractorActivation \/ UNCHANGED mailVars
    <2>1. MailTypeOK'
      BY <1>0, <1>17 DEF ContractorActivation, mailVars, MailTypeOK
    <2> QED BY <1>17, <2>1 DEF ContractorActivation, mailVars, MailInv
  <1> QED BY <1>4, <1>5, <1>6, <1>8, <1>10, <1>11, <1>12, <1>13, <1>14, <1>15, <1>16, <1>17
          DEF MailNext

LEMMA MailInvAlways == MailSpec => []MailInv
  BY MailInitInv, MailStepInv, PTL DEF MailSpec

\* The rows of email_events and their senders stay in their declared sets.
THEOREM MailTypeCorrect == MailSpec => []MailTypeOK
  <1>1. MailInv => MailTypeOK
    BY DEF MailInv
  <1> QED BY <1>1, MailInvAlways, PTL

\* The status of a row says whether its message went out (email.service.ts), unless
\* the row was reset under a sender or news of the message got lost.
THEOREM StatusTellsTruthAlways == MailSpec => []StatusTellsTruth
  <1>1. MailInv => StatusTellsTruth
    BY DEF MailInv, StatusTellsTruth, InFlight
  <1> QED BY <1>1, MailInvAlways, PTL

\* A row gives one message without forceResend (email_events.repository.ts:64), for
\* any number of requests, failures, resends and deletes.
THEOREM UnaskedOnceAlways == MailSpec => []UnaskedOnce
  <1>1. MailInv => UnaskedOnce
    BY DEF MailInv, UnaskedOnce, InFlight
  <1> QED BY <1>1, MailInvAlways, PTL
=============================================================================
