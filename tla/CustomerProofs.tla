---------------------------- MODULE CustomerProofs ----------------------------
(***************************************************************************)
(* Proofs about the components a customer meets: Booking, IntakePhotos,    *)
(* CustomerTexts and Pricing, for every number of requests and submissions *)
(* and every capacity, limit and price.                                    *)
(***************************************************************************)
EXTENDS Booking, IntakePhotos, CustomerTexts, Pricing, FiniteSetTheorems, TLAPS

(* CustomerTexts.  A text that is not doubtful has one sender at a time, and *)
(* the row learns of it before the next one looks.                           *)

TextInv ==
    /\ TextTypeOK
    /\ \A t \in Texter : texter[t].at = "write" /\ texter[t].outcome = "sent" => texts >= 1
    /\ textStatus = "sent" => texts >= 1
    /\ textKind = "link" \/ ~ doubtful =>
          /\ texts <= 1
          /\ \A t, u \in Texter : Texting(t) /\ Texting(u) => t = u
          /\ \A t \in Texter : texter[t].at = "send" => texts = 0
    /\ textKind = "link" =>
          /\ \A t \in Texter : texter[t].at \notin {"check", "skip"}
          /\ \A t \in Texter : Texting(t) => sentAt
          /\ texts > 0 => sentAt
    /\ textKind # "link" /\ ~ doubtful =>
          /\ \A t \in Texter : Texting(t) => ~ sentAt
          /\ texts > 0 =>
                \/ sentAt
                \/ \E t \in Texter : texter[t].at = "write" /\ texter[t].outcome = "sent"

LEMMA TextInitInv == TextInit => TextInv
  <1> SUFFICES ASSUME TextInit PROVE TextInv
    OBVIOUS
  <1>1. NotTexting \in TexterState /\ NotTexting.at = "idle"
    BY DEF NotTexting, TexterState, Outcome
  <1>2. \A t \in Texter : texter[t].at = "idle"
    BY <1>1 DEF TextInit
  <1>3. TextTypeOK
    BY <1>1 DEF TextInit, TextTypeOK
  <1> QED BY <1>2, <1>3 DEF TextInit, TextInv, Texting

LEMMA TextStepType == TextTypeOK /\ [TextNext]_textVars => TextTypeOK'
  <1> SUFFICES ASSUME TextTypeOK, [TextNext]_textVars PROVE TextTypeOK'
    OBVIOUS
  <1> USE DEF TextTypeOK
  <1>1. ASSUME NEW t \in Texter, NEW step \in {"idle", "check", "skip", "send", "write"},
               TexterTo(t, step)
        PROVE  texter' \in [Texter -> TexterState]
    BY <1>1 DEF TexterTo, TexterState
  <1>2. ASSUME NEW t \in Texter, TexterEnds(t)
        PROVE  texter' \in [Texter -> TexterState]
    BY <1>2 DEF TexterEnds, NotTexting, TexterState, Outcome
  <1>3. ASSUME NEW t \in Texter, ClaimPaymentLink(t) \/ CommandRouted(t)
        PROVE  TextTypeOK'
    BY <1>1, <1>3 DEF ClaimPaymentLink, CommandRouted
  <1>4. ASSUME NEW t \in Texter, CheckSentAt(t)
        PROVE  TextTypeOK'
    <2>1. texter' \in [Texter -> TexterState]
      <3>1. (IF hasPhone THEN "send" ELSE "skip") \in {"idle", "check", "skip", "send", "write"}
        OBVIOUS
      <3> QED BY <1>1, <1>2, <1>4, <3>1 DEF CheckSentAt
    <2>2. doubtful' \in BOOLEAN
      BY <1>4 DEF CheckSentAt
    <2> QED BY <1>4, <2>1, <2>2 DEF CheckSentAt
  <1>5. ASSUME NEW t \in Texter, NEW taken \in BOOLEAN, NEW outcome \in Outcome,
               SendSms(t, taken, outcome)
        PROVE  TextTypeOK'
    <2>1. texter' = [texter EXCEPT ![t] = [@ EXCEPT !.at = "write", !.outcome = outcome]]
      BY <1>5 DEF SendSms
    <2>2. texter' \in [Texter -> TexterState]
      <3>1. [texter[t] EXCEPT !.at = "write", !.outcome = outcome] \in TexterState
        BY DEF TexterState
      <3> QED BY <2>1, <3>1
    <2>3. doubtful' \in BOOLEAN /\ texts' \in Nat
      BY <1>5 DEF SendSms
    <2> QED BY <1>5, <2>2, <2>3 DEF SendSms
  <1>6. ASSUME NEW t \in Texter,
               SkipText(t) \/ WriteLinkStatus(t) \/ WriteNewsStatus(t) \/ TexterLost(t)
        PROVE  TextTypeOK'
    <2>1. texter[t].outcome \in Outcome
      BY DEF TexterState
    <2>2. texter' \in [Texter -> TexterState]
      BY <1>2, <1>6 DEF SkipText, WriteLinkStatus, WriteNewsStatus, TexterLost
    <2>3. CASE SkipText(t)
      BY <2>2, <2>3 DEF SkipText, Outcome
    <2>4. CASE WriteLinkStatus(t)
      BY <2>2, <2>4 DEF WriteLinkStatus, Outcome
    <2>5. CASE WriteNewsStatus(t)
      BY <2>1, <2>2, <2>5 DEF WriteNewsStatus
    <2>6. CASE TexterLost(t)
      BY <2>2, <2>6 DEF TexterLost
    <2> QED BY <1>6, <2>3, <2>4, <2>5, <2>6
  <1>7. CASE UNCHANGED textVars
    BY <1>7 DEF textVars
  <1> QED BY <1>3, <1>4, <1>5, <1>6, <1>7 DEF TextNext

LEMMA TextStepInv == TextInv /\ [TextNext]_textVars => TextInv'
  <1> SUFFICES ASSUME TextInv, [TextNext]_textVars PROVE TextInv'
    OBVIOUS
  <1>0. TextTypeOK /\ TextTypeOK'
    BY TextStepType DEF TextInv
  <1> USE DEF TextInv, Texting
  <1> DEFINE Others(t) == \A u \in Texter : u # t => texter'[u] = texter[u]
  <1>1. ASSUME NEW t \in Texter, NEW step, TexterTo(t, step)
        PROVE  Others(t) /\ texter'[t].at = step /\ texter'[t].outcome = texter[t].outcome
    BY <1>0, <1>1 DEF TexterTo, TextTypeOK, TexterState
  <1>2. ASSUME NEW t \in Texter, TexterEnds(t)
        PROVE  Others(t) /\ texter'[t].at = "idle"
    BY <1>0, <1>2 DEF TexterEnds, TextTypeOK, NotTexting
  <1>3. ASSUME NEW t \in Texter, ClaimPaymentLink(t)
        PROVE  TextInv'
    <2>1. Others(t) /\ texter'[t].at = "send"
      BY <1>1, <1>3 DEF ClaimPaymentLink
    <2> QED BY <1>0, <1>3, <2>1 DEF ClaimPaymentLink, TextTypeOK
  <1>4. ASSUME NEW t \in Texter, CommandRouted(t)
        PROVE  TextInv'
    <2>1. Others(t) /\ texter'[t].at = "check"
      BY <1>1, <1>4 DEF CommandRouted
    <2> QED BY <1>0, <1>4, <2>1 DEF CommandRouted
  <1>5. ASSUME NEW t \in Texter, CheckSentAt(t)
        PROVE  TextInv'
    <2>1. CASE sentAt
      <3>1. Others(t) /\ texter'[t].at = "idle"
        BY <1>2, <1>5, <2>1 DEF CheckSentAt
      <3> QED BY <1>0, <1>5, <2>1, <3>1 DEF CheckSentAt
    <2>2. CASE ~ sentAt
      <3>1. /\ TexterTo(t, IF hasPhone THEN "send" ELSE "skip")
            /\ doubtful' = (doubtful \/ \E u \in Texter : Texting(u))
            /\ UNCHANGED <<textKind, sentAt, textStatus, texts>>
            /\ texter[t].at = "check" /\ textKind # "link"
        BY <1>5, <2>2 DEF CheckSentAt
      <3>2. Others(t) /\ texter'[t].at = IF hasPhone THEN "send" ELSE "skip"
        BY <1>1, <3>1
      <3>3. texter'[t].at \in {"send", "skip"}
        BY <3>2
      <3>4. CASE doubtful \/ \E u \in Texter : Texting(u)
        BY <1>0, <3>1, <3>2, <3>3, <3>4
      <3>5. CASE ~ doubtful /\ \A u \in Texter : ~ Texting(u)
        <4>1. texts = 0
          BY <1>0, <2>2, <3>1, <3>5 DEF TextTypeOK
        <4>2. \A u \in Texter : Texting(u)' => u = t
          BY <3>2, <3>5
        <4> QED BY <1>0, <2>2, <3>1, <3>2, <3>3, <3>5, <4>1, <4>2
      <3> QED BY <3>4, <3>5
    <2> QED BY <2>1, <2>2
  <1>6. ASSUME NEW t \in Texter, SkipText(t)
        PROVE  TextInv'
    <2>1. Others(t) /\ texter'[t].at = "idle"
      BY <1>2, <1>6 DEF SkipText
    <2> QED BY <1>0, <1>6, <2>1 DEF SkipText
  <1>7. ASSUME NEW t \in Texter, NEW taken \in BOOLEAN, NEW outcome \in Outcome,
               SendSms(t, taken, outcome)
        PROVE  TextInv'
    <2>1. Others(t) /\ texter'[t].at = "write" /\ texter'[t].outcome = outcome
      BY <1>0, <1>7 DEF SendSms, TextTypeOK, TexterState
    <2>2. CASE taken
      <3>1. texts' = texts + 1 /\ doubtful' = (doubtful \/ outcome # "sent")
        BY <1>7, <2>2 DEF SendSms
      <3> QED BY <1>0, <1>7, <2>1, <3>1 DEF SendSms, TextTypeOK
    <2>3. CASE ~ taken
      <3>1. texts' = texts /\ doubtful' = doubtful /\ outcome # "sent"
        BY <1>0, <1>7, <2>3 DEF SendSms, TextTypeOK
      <3> QED BY <1>0, <1>7, <2>1, <3>1 DEF SendSms, TextTypeOK
    <2> QED BY <2>2, <2>3
  <1>8. ASSUME NEW t \in Texter, WriteLinkStatus(t)
        PROVE  TextInv'
    <2>1. Others(t) /\ texter'[t].at = "idle"
      BY <1>2, <1>8 DEF WriteLinkStatus
    <2> QED BY <1>0, <1>8, <2>1 DEF WriteLinkStatus
  <1>9. ASSUME NEW t \in Texter, WriteNewsStatus(t)
        PROVE  TextInv'
    <2>1. Others(t) /\ texter'[t].at = "idle"
      BY <1>2, <1>9 DEF WriteNewsStatus
    <2> QED BY <1>0, <1>9, <2>1 DEF WriteNewsStatus, TextTypeOK
  <1>10. ASSUME NEW t \in Texter, TexterLost(t)
         PROVE  TextInv'
    <2>1. Others(t) /\ texter'[t].at = "idle"
      BY <1>2, <1>10 DEF TexterLost
    <2> QED BY <1>0, <1>10, <2>1 DEF TexterLost
  <1>11. CASE UNCHANGED textVars
    BY <1>11 DEF textVars, TextTypeOK
  <1> QED BY <1>3, <1>4, <1>5, <1>6, <1>7, <1>8, <1>9, <1>10, <1>11 DEF TextNext

LEMMA TextInvAlways == TextSpec => []TextInv
  BY TextInitInv, TextStepInv, PTL DEF TextSpec

\* The texts' state stays in its declared sets.
THEOREM TextTypeCorrect == TextSpec => []TextTypeOK
  <1>1. TextInv => TextTypeOK
    BY DEF TextInv
  <1> QED BY <1>1, TextInvAlways, PTL

\* The customer gets the payment link once at most, whatever fails and however
\* many requests send it, and the other texts once unless two commands are at it
\* together or the row does not learn of a text (sms.service.ts, paymentLink.sms.ts).
THEOREM TextedOnceAlways == TextSpec => []TextedOnce
  <1>1. TextInv => TextedOnce
    BY DEF TextInv, TextedOnce
  <1> QED BY <1>1, TextInvAlways, PTL

-----------------------------------------------------------------------------
(* IntakePhotos.  Every request between its count and its insert has seen    *)
(* room, so the last of them has at most the others before it.               *)

AddInv ==
    /\ AddTypeOK
    /\ rows + Cardinality(Inserting) < MaxPhotos + Cardinality(Presign)

LEMMA InsertingCounts ==
  /\ IsFiniteSet(Inserting) /\ Cardinality(Inserting) \in Nat
  /\ Cardinality(Presign) \in Nat /\ Cardinality(Inserting) <= Cardinality(Presign)
  <1>1. Inserting \subseteq Presign
    BY DEF Inserting
  <1> QED BY <1>1, IntakePhotosAssumption, FS_Subset, FS_CardinalityType

\* A step whose inserting requests are no more, while no row is added
LEMMA AddFewer ==
  ASSUME AddInv, AddTypeOK', rows' = rows, Inserting' \subseteq Inserting
  PROVE  AddInv'
  <1>1. Cardinality(Inserting') \in Nat /\ Cardinality(Inserting') <= Cardinality(Inserting)
    BY InsertingCounts, FS_Subset, FS_CardinalityType
  <1> QED BY <1>1, InsertingCounts, IntakePhotosAssumption DEF AddInv, AddTypeOK

LEMMA AddInitInv == AddInit => AddInv
  <1> SUFFICES ASSUME AddInit PROVE AddInv
    OBVIOUS
  <1>1. Inserting = {}
    BY DEF AddInit, Inserting
  <1>2. Cardinality(Inserting) = 0
    BY <1>1, FS_EmptySet
  <1>3. AddTypeOK /\ rows = 0
    BY DEF AddInit, AddTypeOK
  <1>4. 0 + 0 < MaxPhotos + Cardinality(Presign)
    BY InsertingCounts, IntakePhotosAssumption
  <1> QED BY <1>2, <1>3, <1>4 DEF AddInv

LEMMA AddStepInv == AddInv /\ [AddNext]_addVars => AddInv'
  <1> SUFFICES ASSUME AddInv, [AddNext]_addVars PROVE AddInv'
    OBVIOUS
  <1> USE DEF AddTypeOK, PresignTo
  <1>0. AddTypeOK
    BY DEF AddInv
  <1>1. ASSUME NEW p \in Presign, PresignPhoto(p)
        PROVE  AddInv'
    BY <1>0, <1>1, AddFewer DEF PresignPhoto, Inserting
  <1>2. ASSUME NEW p \in Presign, CountPhotos(p)
        PROVE  AddInv'
    <2>1. CASE rows >= MaxPhotos
      BY <1>0, <1>2, <2>1, AddFewer DEF CountPhotos, Inserting
    <2>2. CASE ~ rows >= MaxPhotos
      <3>1. Inserting' \subseteq Presign
        BY DEF Inserting
      <3>2. Cardinality(Inserting') \in Nat /\ Cardinality(Inserting') <= Cardinality(Presign)
        BY <3>1, IntakePhotosAssumption, FS_Subset, FS_CardinalityType
      <3>3. AddTypeOK' /\ rows' = rows
        BY <1>0, <1>2 DEF CountPhotos
      <3> QED BY <1>0, <2>2, <3>2, <3>3, InsertingCounts, IntakePhotosAssumption DEF AddInv
    <2> QED BY <2>1, <2>2
  <1>3. ASSUME NEW p \in Presign, InsertPhoto(p)
        PROVE  AddInv'
    <2>1. AddTypeOK' /\ rows' = rows + 1
      BY <1>0, <1>3 DEF InsertPhoto
    <2>2. Inserting' = Inserting \ {p} /\ p \in Inserting
      BY <1>0, <1>3 DEF InsertPhoto, Inserting
    <2>3. Cardinality(Inserting') = Cardinality(Inserting) - 1
      BY <2>2, InsertingCounts, FS_RemoveElement
    <2> QED BY <1>0, <2>1, <2>3, InsertingCounts, IntakePhotosAssumption DEF AddInv
  <1>4. ASSUME NEW p \in Presign, PresignEnds(p)
        PROVE  AddInv'
    BY <1>0, <1>4, AddFewer DEF PresignEnds, Inserting
  <1>5. CASE ConfirmLooksUp \/ ConfirmPhoto \/ JobStatusChanges
    <2>1. unconfirmed' \in Nat
      BY <1>0, <1>5 DEF ConfirmLooksUp, ConfirmPhoto, JobStatusChanges
    <2>2. AddTypeOK' /\ rows' = rows /\ presign' = presign
      BY <1>0, <1>5, <2>1 DEF ConfirmLooksUp, ConfirmPhoto, JobStatusChanges
    <2>3. Inserting' \subseteq Inserting
      BY <2>2 DEF Inserting
    <2> QED BY <2>2, <2>3, AddFewer
  <1>6. CASE UNCHANGED addVars
    BY <1>0, <1>6, AddFewer DEF addVars, Inserting
  <1> QED BY <1>1, <1>2, <1>3, <1>4, <1>5, <1>6 DEF AddNext

LEMMA AddInvAlways == AddSpec => []AddInv
  BY AddInitInv, AddStepInv, PTL DEF AddSpec

\* The customer's photos stay in their declared sets.
THEOREM AddTypeCorrect == AddSpec => []AddTypeOK
  <1>1. AddInv => AddTypeOK
    BY DEF AddInv
  <1> QED BY <1>1, AddInvAlways, PTL

\* The photo limit of a booking (photos.routes.ts:276) is passed by less than the
\* number of presign requests at once, for any limit and any number of them.
THEOREM PhotosNearLimitAlways == AddSpec => []PhotosNearLimit
  <1>1. AddInv => PhotosNearLimit
    BY InsertingCounts, IntakePhotosAssumption DEF AddInv, AddTypeOK, PhotosNearLimit
  <1> QED BY <1>1, AddInvAlways, PTL

-----------------------------------------------------------------------------
(* Booking: types.  A request works with a submission from its first await   *)
(* to its last, and one on the website is the only one that does.            *)

VisitPlace == {"idle", "slot", "store", "again", "mark", "assess", "create", "made", "failing"}

LEMMA VisitToType ==
  ASSUME BookTypeOK, NEW v \in Visit, NEW step \in VisitPlace, VisitTo(v, step)
  PROVE  /\ visit' \in [Visit -> VisitState]
         /\ visit'[v].at = step /\ visit'[v].form = visit[v].form
         /\ visit'[v].review = visit[v].review
         /\ \A w \in Visit : w # v => visit'[w] = visit[w]
  <1>1. [visit[v] EXCEPT !.at = step, !.place = "none"] \in VisitState
    BY DEF BookTypeOK, VisitState, JobPlace, VisitPlace
  <1>2. visit' = [visit EXCEPT ![v] = [visit[v] EXCEPT !.at = step, !.place = "none"]]
    BY DEF VisitTo
  <1> QED BY <1>1, <1>2 DEF BookTypeOK, VisitState

LEMMA VisitEndsType ==
  ASSUME BookTypeOK, NEW v \in Visit, VisitEnds(v)
  PROVE  /\ visit' \in [Visit -> VisitState] /\ crowded' \subseteq crowded
         /\ crowded' = crowded \ {v} /\ visit'[v] = NoVisit
         /\ \A w \in Visit : w # v => visit'[w] = visit[w]
  <1>1. NoVisit \in VisitState
    BY DEF NoVisit, VisitState, JobPlace
  <1> QED BY <1>1 DEF BookTypeOK, VisitEnds

LEMMA BeginsType ==
  ASSUME BookTypeOK, NEW v \in Visit, NEW s \in IntakeSubmission, NEW review \in BOOLEAN,
         NEW step \in VisitPlace, Begins(v, s, review, step)
  PROVE  /\ visit' \in [Visit -> VisitState]
         /\ visit'[v].at = step /\ visit'[v].form = s /\ visit'[v].review = review
         /\ \A w \in Visit : w # v => visit'[w] = visit[w]
  <1> DEFINE new == [NoVisit EXCEPT !.at = step, !.form = s, !.review = review]
  <1>1. new \in VisitState /\ new.at = step /\ new.form = s /\ new.review = review
    BY DEF NoVisit, VisitState, VisitPlace, JobPlace
  <1>2. visit' = [visit EXCEPT ![v] = new]
    BY DEF Begins
  <1> QED BY <1>1, <1>2 DEF BookTypeOK

FormInv ==
    /\ BookTypeOK
    /\ \A v \in Visit : visit[v].at # "idle" => visit[v].form \in IntakeSubmission
    /\ \A v, w \in Visit : visit[v].form = visit[w].form /\ visit[v].form \in Web => v = w

LEMMA BookInitForm == BookInit => FormInv
  <1>1. NoVisit \in VisitState /\ NoVisit.at = "idle" /\ NoVisit.form = NoSubmission
    BY DEF NoVisit, VisitState, JobPlace
  <1> QED BY <1>1, BookingAssumption DEF BookInit, FormInv, BookTypeOK, JobPlace

\* A visit that goes on, or ends, keeps the forms apart.
LEMMA FormKept ==
  ASSUME FormInv, BookTypeOK', NEW v \in Visit,
         \A w \in Visit : w # v => visit'[w] = visit[w],
         \/ visit'[v] = NoVisit
         \/ visit'[v].form = visit[v].form /\ visit[v].at # "idle"
  PROVE  FormInv'
  <1>1. NoVisit.at = "idle" /\ NoVisit.form \notin Web
    BY BookingAssumption DEF NoVisit
  <1> QED BY <1>1 DEF FormInv

LEMMA BookStepForm == FormInv /\ [BookNext]_bookVars => FormInv'
  <1> SUFFICES ASSUME FormInv, [BookNext]_bookVars PROVE FormInv'
    OBVIOUS
  <1>0. BookTypeOK /\ \A v \in Visit : visit[v].at # "idle" => visit[v].form \in IntakeSubmission
    BY DEF FormInv
  <1> USE DEF VisitAt, Of
  <1>1. ASSUME NEW v \in Visit, NEW s \in IntakeSubmission, NEW review \in BOOLEAN,
               ReceiveJotform(v, s, review)
        PROVE  FormInv'
    <2> DEFINE step == IF intake[s] = "none" THEN "store" ELSE "again"
    <2>1. step \in VisitPlace
      BY DEF VisitPlace
    <2>2. Begins(v, s, review, step) /\ s \notin Web
      BY <1>1 DEF ReceiveJotform
    <2> HIDE DEF step
    <2>3. BookTypeOK' /\ visit'[v].form = s /\ \A w \in Visit : w # v => visit'[w] = visit[w]
      BY <1>0, <1>1, <2>1, <2>2, BeginsType DEF ReceiveJotform, BookTypeOK
    <2> QED BY <2>2, <2>3 DEF FormInv
  <1>2. ASSUME NEW v \in Visit, NEW s \in IntakeSubmission, BookOnline(v, s) \/ RequestReview(v, s)
        PROVE  FormInv'
    <2>1. "slot" \in VisitPlace /\ "store" \in VisitPlace
      BY DEF VisitPlace
    <2>2. BookTypeOK' /\ visit'[v].form = s /\ \A w \in Visit : w # v => visit'[w] = visit[w]
      BY <1>0, <1>2, <2>1, BeginsType DEF BookOnline, RequestReview, BookTypeOK
    <2>3. \A w \in Visit : visit[w].form # s
      BY <1>2 DEF BookOnline, RequestReview, FreshId
    <2> QED BY <2>2, <2>3 DEF FormInv
  <1>3. ASSUME NEW v \in Visit, VisitEnds(v), visit[v].at # "idle",
               made' = made, job' = job, usedUnits' = usedUnits,
               \/ intake' = intake
               \/ \E status \in IntakeStatus : intake' = [intake EXCEPT ![visit[v].form] = status]
        PROVE  FormInv'
    <2>1. BookTypeOK'
      BY <1>0, <1>3, VisitEndsType DEF BookTypeOK
    <2> QED BY <1>0, <1>3, <2>1, VisitEndsType, FormKept
  <1>4. ASSUME NEW v \in Visit, NEW step \in VisitPlace, VisitTo(v, step), visit[v].at # "idle",
               crowded' = crowded, made' = made, job' = job, usedUnits' = usedUnits,
               \/ intake' = intake
               \/ \E status \in IntakeStatus : intake' = [intake EXCEPT ![visit[v].form] = status]
        PROVE  FormInv'
    <2>1. BookTypeOK'
      BY <1>0, <1>4, VisitToType DEF BookTypeOK
    <2> QED BY <1>0, <1>4, <2>1, VisitToType, FormKept
  <1>5. /\ {"received", "processing", "processed", "failed", "duplicate"} \subseteq IntakeStatus
        /\ {"store", "mark", "assess", "made", "failing"} \subseteq VisitPlace
    BY DEF IntakeStatus, VisitPlace
  <1>6. ASSUME NEW v \in Visit, MarkDuplicate(v) \/ MarkProcessed(v) \/ MarkFailed(v) \/ VisitLost(v)
        PROVE  FormInv'
    BY <1>3, <1>5, <1>6 DEF MarkDuplicate, MarkProcessed, MarkFailed, VisitLost
  <1>7. ASSUME NEW v \in Visit, CheckSlot(v)
        PROVE  FormInv'
    BY <1>3, <1>4, <1>5, <1>7 DEF CheckSlot
  <1>8. ASSUME NEW v \in Visit, CreateIntakeSubmission(v)
        PROVE  FormInv'
    BY <1>3, <1>4, <1>5, <1>8 DEF CreateIntakeSubmission
  <1>9. ASSUME NEW v \in Visit, MarkProcessing(v) \/ IntakeFails(v)
        PROVE  FormInv'
    BY <1>4, <1>5, <1>9 DEF MarkProcessing, IntakeFails
  <1>10. ASSUME NEW v \in Visit, AssessIntake(v)
         PROVE  FormInv'
    <2>1. PICK area \in ServiceArea, hasPrice \in BOOLEAN :
             visit' = [visit EXCEPT ![v].at = "create",
                          ![v].place = PlaceOf(InitialStatus(visit[v].review, area, hasPrice))]
      BY <1>10 DEF AssessIntake
    <2> DEFINE place == PlaceOf(InitialStatus(visit[v].review, area, hasPrice))
               new == [visit[v] EXCEPT !.at = "create", !.place = place]
    <2>2. place \in JobPlace
      BY DEF PlaceOf, JobPlace
    <2> HIDE DEF place
    <2>3. visit' = [visit EXCEPT ![v] = new]
      BY <2>1 DEF place
    <2>4. new \in VisitState /\ new.form = visit[v].form
      BY <1>0, <2>2 DEF BookTypeOK, VisitState
    <2> HIDE DEF new
    <2>5. BookTypeOK' /\ visit'[v] = new /\ \A w \in Visit : w # v => visit'[w] = visit[w]
      BY <1>0, <1>10, <2>3, <2>4 DEF AssessIntake, BookTypeOK
    <2> QED BY <1>10, <2>4, <2>5, FormKept DEF AssessIntake
  <1>11. ASSUME NEW v \in Visit, CreateJob(v)
         PROVE  FormInv'
    <2>1. visit[v].form \in IntakeSubmission /\ visit[v].place \in JobPlace
      BY <1>0, <1>11 DEF CreateJob, BookTypeOK, VisitState
    <2>2. made' \in [IntakeSubmission -> Nat] /\ job' \in [IntakeSubmission -> JobPlace]
      BY <1>0, <1>11, <2>1 DEF CreateJob, InsertJob, BookTypeOK
    <2>3. usedUnits' \in Int /\ crowded' \subseteq Visit
      BY <1>0, <1>11, <2>1, BookingAssumption DEF CreateJob, ComesIntoWindow, BookTypeOK
    <2>4. BookTypeOK'
      BY <1>0, <1>5, <1>11, <2>2, <2>3, VisitToType DEF CreateJob, BookTypeOK
    <2> QED BY <1>0, <1>5, <1>11, <2>4, VisitToType, FormKept DEF CreateJob
  <1>12. ASSUME NEW s \in IntakeSubmission, JobLeavesWindow(s) \/ JobComesBack(s)
         PROVE  FormInv'
    <2>1. BookTypeOK'
      BY <1>0, <1>12, BookingAssumption
         DEF JobLeavesWindow, JobComesBack, ComesIntoWindow, BookTypeOK, JobPlace
    <2> QED BY <1>12, <2>1 DEF JobLeavesWindow, JobComesBack, FormInv
  <1>13. CASE UNCHANGED bookVars
    BY <1>13 DEF bookVars, FormInv, BookTypeOK
  <1> QED BY <1>1, <1>2, <1>6, <1>7, <1>8, <1>9, <1>10, <1>11, <1>12, <1>13 DEF BookNext

\* Submissions, jobs and requests stay in their declared sets.
THEOREM BookTypeCorrect == BookSpec => []BookTypeOK
  <1>1. FormInv => BookTypeOK
    BY DEF FormInv
  <1> QED BY <1>1, BookInitForm, BookStepForm, PTL DEF BookSpec

-----------------------------------------------------------------------------
(* Booking: the window.  What an instant booking has counted is still an     *)
(* upper bound as long as nothing has come into the window.                  *)

CountInv ==
    \A v \in Visit :
        HasCounted(v) /\ v \notin crowded => usedUnits + Units[visit[v].form] <= Capacity

\* A step that adds no booking to those that have counted, and no job
LEMMA CountKept ==
  ASSUME FormInv, CountInv, usedUnits' \in Int, usedUnits' <= usedUnits,
         \A v \in Visit : HasCounted(v)' /\ v \notin crowded' =>
             HasCounted(v) /\ v \notin crowded /\ visit'[v].form = visit[v].form
  PROVE  CountInv'
  <1> SUFFICES ASSUME NEW v \in Visit, HasCounted(v)', v \notin crowded'
               PROVE  usedUnits' + Units[visit'[v].form] <= Capacity
    BY DEF CountInv
  <1>1. /\ HasCounted(v) /\ v \notin crowded /\ visit'[v].form = visit[v].form
        /\ usedUnits + Units[visit[v].form] <= Capacity
    BY DEF CountInv
  <1>2. Units[visit[v].form] \in Nat
    BY <1>1, BookingAssumption DEF HasCounted
  <1> QED BY <1>1, <1>2, BookingAssumption DEF FormInv, BookTypeOK

\* A job that comes into the window makes crowded of all that have counted.
LEMMA CountCrowded ==
  ASSUME FormInv, CountInv, NEW v \in Visit, NEW s, ComesIntoWindow(s, Visit \ {v}),
         ~ HasCounted(v)', \A w \in Visit : w # v => visit'[w] = visit[w]
  PROVE  CountInv'
  BY DEF CountInv, ComesIntoWindow, HasCounted

LEMMA BookStepCount == FormInv /\ CountInv /\ [BookNext]_bookVars => CountInv'
  <1> SUFFICES ASSUME FormInv, CountInv, [BookNext]_bookVars PROVE CountInv'
    OBVIOUS
  <1>0. /\ BookTypeOK
        /\ \A v \in Visit : visit[v].at # "idle" => visit[v].form \in IntakeSubmission
        /\ usedUnits \in Int /\ usedUnits <= usedUnits
    BY DEF FormInv, BookTypeOK
  <1> USE DEF VisitAt, Of
  <1>1. ASSUME NEW v \in Visit, ~ HasCounted(v)', usedUnits' = usedUnits, crowded \ {v} \subseteq crowded',
               \A w \in Visit : w # v => visit'[w] = visit[w]
        PROVE  CountInv'
    BY <1>0, <1>1, CountKept DEF HasCounted
  <1>2. {"slot", "store", "again", "mark", "assess", "create", "made", "failing"} \subseteq VisitPlace
    BY DEF VisitPlace
  <1>3. ASSUME NEW v \in Visit, VisitEnds(v), usedUnits' = usedUnits
        PROVE  CountInv'
    <2>1. visit'[v].at = "idle"
      BY <1>0, <1>3, VisitEndsType DEF NoVisit
    <2> QED BY <1>0, <1>1, <1>3, <2>1, VisitEndsType DEF HasCounted
  <1>4. ASSUME NEW v \in Visit, NEW step \in VisitPlace, VisitTo(v, step), visit[v].at # "idle",
               crowded' = crowded, usedUnits' = usedUnits,
               visit[v].at \in {"store", "mark", "assess", "create"}
                  \/ step \notin {"store", "mark", "assess", "create"}
        PROVE  CountInv'
    BY <1>0, <1>4, VisitToType, CountKept DEF HasCounted
  <1>5. ASSUME NEW v \in Visit, NEW s \in IntakeSubmission, NEW review \in BOOLEAN,
               ReceiveJotform(v, s, review)
        PROVE  CountInv'
    <2> DEFINE step == IF intake[s] = "none" THEN "store" ELSE "again"
    <2>1. step \in VisitPlace
      BY <1>2
    <2>2. Begins(v, s, review, step) /\ s \notin Web
      BY <1>5 DEF ReceiveJotform
    <2> HIDE DEF step
    <2>3. visit'[v].form = s /\ \A w \in Visit : w # v => visit'[w] = visit[w]
      BY <1>0, <2>1, <2>2, BeginsType
    <2> QED BY <1>1, <1>5, <2>2, <2>3 DEF HasCounted, ReceiveJotform
  <1>6. ASSUME NEW v \in Visit, NEW s \in IntakeSubmission, BookOnline(v, s)
        PROVE  CountInv'
    <2>1. Begins(v, s, FALSE, "slot") /\ crowded' = crowded /\ usedUnits' = usedUnits
      BY <1>6 DEF BookOnline
    <2>2. visit'[v].at = "slot" /\ \A w \in Visit : w # v => visit'[w] = visit[w]
      BY <1>0, <1>2, <2>1, BeginsType
    <2>3. ~ HasCounted(v)'
      BY <2>2 DEF HasCounted
    <2> QED BY <1>1, <2>1, <2>2, <2>3
  <1>7. ASSUME NEW v \in Visit, NEW s \in IntakeSubmission, RequestReview(v, s)
        PROVE  CountInv'
    <2>1. Begins(v, s, TRUE, "store") /\ crowded' = crowded /\ usedUnits' = usedUnits
      BY <1>7 DEF RequestReview
    <2>2. visit'[v].review = TRUE /\ \A w \in Visit : w # v => visit'[w] = visit[w]
      BY <1>0, <1>2, <2>1, BeginsType
    <2>3. ~ HasCounted(v)'
      BY <2>2 DEF HasCounted
    <2> QED BY <1>1, <2>1, <2>2, <2>3
  <1>8. ASSUME NEW v \in Visit, MarkDuplicate(v) \/ MarkProcessed(v) \/ MarkFailed(v) \/ VisitLost(v)
        PROVE  CountInv'
    BY <1>3, <1>8 DEF MarkDuplicate, MarkProcessed, MarkFailed, VisitLost
  <1>9. ASSUME NEW v \in Visit, CheckSlot(v)
        PROVE  CountInv'
    <2>1. CASE IsSlotAvailable(visit[v].form)
      <3>1. /\ VisitTo(v, "store") /\ crowded' = crowded /\ usedUnits' = usedUnits
            /\ visit[v].at = "slot"
        BY <1>9, <2>1 DEF CheckSlot
      <3>2. /\ visit'[v].form = visit[v].form /\ \A w \in Visit : w # v => visit'[w] = visit[w]
            /\ usedUnits + Units[visit[v].form] <= Capacity
        BY <1>0, <1>2, <2>1, <3>1, VisitToType DEF IsSlotAvailable
      <3> QED BY <3>1, <3>2 DEF CountInv, HasCounted
    <2>2. CASE ~ IsSlotAvailable(visit[v].form)
      BY <1>3, <1>9, <2>2 DEF CheckSlot
    <2> QED BY <2>1, <2>2
  <1>10. ASSUME NEW v \in Visit, CreateIntakeSubmission(v)
         PROVE  CountInv'
    BY <1>2, <1>3, <1>4, <1>10 DEF CreateIntakeSubmission
  <1>11. ASSUME NEW v \in Visit, MarkProcessing(v) \/ IntakeFails(v)
         PROVE  CountInv'
    BY <1>2, <1>4, <1>11 DEF MarkProcessing, IntakeFails
  <1>12. ASSUME NEW v \in Visit, AssessIntake(v)
         PROVE  CountInv'
    <2>1. /\ visit'[v].form = visit[v].form /\ visit'[v].review = visit[v].review
          /\ visit[v].at = "assess"
          /\ \A w \in Visit : w # v => visit'[w] = visit[w]
          /\ crowded' = crowded /\ usedUnits' = usedUnits
      BY <1>0, <1>12 DEF AssessIntake, BookTypeOK, VisitState
    <2> QED BY <1>0, <2>1, CountKept DEF HasCounted
  <1>13. ASSUME NEW v \in Visit, CreateJob(v)
         PROVE  CountInv'
    <2>1. VisitTo(v, "made")
      BY <1>13 DEF CreateJob
    <2>2. visit'[v].at = "made" /\ \A w \in Visit : w # v => visit'[w] = visit[w]
      BY <1>0, <1>2, <2>1, VisitToType
    <2>3. ~ HasCounted(v)'
      BY <2>2 DEF HasCounted
    <2>4. CASE visit[v].place = "counted"
      BY <1>13, <2>2, <2>3, <2>4, CountCrowded DEF CreateJob
    <2>5. CASE visit[v].place # "counted"
      BY <1>1, <1>13, <2>2, <2>3, <2>5 DEF CreateJob
    <2> QED BY <2>4, <2>5
  <1>14. ASSUME NEW s \in IntakeSubmission, JobLeavesWindow(s)
         PROVE  CountInv'
    <2>1. usedUnits' \in Int /\ usedUnits' <= usedUnits
      BY <1>0, <1>14, BookingAssumption DEF JobLeavesWindow
    <2> QED BY <1>14, <2>1, CountKept DEF JobLeavesWindow, HasCounted
  <1>15. ASSUME NEW s \in IntakeSubmission, JobComesBack(s)
         PROVE  CountInv'
    BY <1>15 DEF JobComesBack, ComesIntoWindow, CountInv, HasCounted
  <1>16. CASE UNCHANGED bookVars
    BY <1>0, <1>16, CountKept DEF bookVars, HasCounted
  <1> QED BY <1>5, <1>6, <1>7, <1>8, <1>9, <1>10, <1>11, <1>12, <1>13, <1>14, <1>15, <1>16
          DEF BookNext

\* Only the request of a booking makes its job.
LEMMA BookStepFits ==
  ASSUME FormInv, CountInv, BookNext, NEW v \in Visit, HasCounted(v), v \notin crowded,
         job'[visit[v].form] = "counted", job[visit[v].form] = "none"
  PROVE  usedUnits' <= Capacity
  <1> USE DEF VisitAt, Of
  <1>0. /\ BookTypeOK
        /\ visit[v].form \in IntakeSubmission /\ usedUnits + Units[visit[v].form] <= Capacity
    BY BookingAssumption DEF FormInv, CountInv, HasCounted
  <1>1. job' # job
    BY <1>0
  <1>2. ASSUME NEW s \in IntakeSubmission, JobLeavesWindow(s) \/ JobComesBack(s)
        PROVE  FALSE
    BY <1>0, <1>2 DEF JobLeavesWindow, JobComesBack, BookTypeOK
  <1>3. PICK w \in Visit : CreateJob(w)
    BY <1>1, <1>2 DEF BookNext, ReceiveJotform, BookOnline, RequestReview, MarkDuplicate,
       CheckSlot, CreateIntakeSubmission, MarkProcessing, AssessIntake, MarkProcessed,
       IntakeFails, MarkFailed, VisitLost
  <1>4. visit[w].form \in IntakeSubmission /\ visit[w].form = visit[v].form
    BY <1>0, <1>3 DEF FormInv, CreateJob, InsertJob, BookTypeOK
  <1>5. w = v
    BY <1>4 DEF FormInv, HasCounted
  <1>6. visit[v].place = "counted"
    BY <1>0, <1>3, <1>5 DEF CreateJob, InsertJob, BookTypeOK
  <1> QED BY <1>0, <1>3, <1>5, <1>6 DEF CreateJob, ComesIntoWindow

LEMMA BookInitCount == BookInit => CountInv
  BY DEF BookInit, CountInv, HasCounted, NoVisit

\* An instant booking (publicBooking.routes.ts:396) overfills its window only if
\* another job has come into it since its count, for any capacity and services.
THEOREM BookingFitsAlways == BookSpec => BookingFits
  <1>1. FormInv /\ CountInv /\ [BookNext]_bookVars =>
           [\A v \in Visit : HasCounted(v) /\ job'[Of(v)] = "counted" /\ job[Of(v)] = "none"
                                /\ v \notin crowded => usedUnits' <= Capacity]_bookVars
    BY BookStepFits DEF Of
  <1> QED BY <1>1, BookInitForm, BookInitCount, BookStepForm, BookStepCount, PTL
          DEF BookSpec, BookingFits

-----------------------------------------------------------------------------
(* Booking: one job for a submission.  Its row has one maker, who is the     *)
(* only one to process it.                                                   *)

Past == {"mark", "assess", "create", "made", "failing"}

OnceInv ==
    /\ \A s \in IntakeSubmission :
          /\ made[s] <= 1
          /\ intake[s] = "none" => made[s] = 0
          /\ intake[s] = "processed" => made[s] = 1
    /\ \A v \in Visit :
          /\ visit[v].at \in Past => intake[visit[v].form] # "none"
          /\ visit[v].at \in {"mark", "assess", "create"} => made[visit[v].form] = 0
          /\ visit[v].at = "made" => made[visit[v].form] = 1
    /\ \A v, w \in Visit :
          visit[v].at \in Past /\ visit[w].at \in Past /\ visit[v].form = visit[w].form => v = w

LEMMA BookInitOnce == BookInit => OnceInv
  BY DEF BookInit, OnceInv, NoVisit, Past

LEMMA BookStepOnce == FormInv /\ OnceInv /\ [BookNext]_bookVars => OnceInv'
  <1> SUFFICES ASSUME FormInv, OnceInv, [BookNext]_bookVars PROVE OnceInv'
    OBVIOUS
  <1>0. /\ BookTypeOK
        /\ \A v \in Visit : visit[v].at # "idle" => visit[v].form \in IntakeSubmission
    BY DEF FormInv
  <1> USE DEF VisitAt, Of
  <1>1. {"slot", "store", "again", "mark", "assess", "create", "made", "failing"} \subseteq VisitPlace
    BY DEF VisitPlace
  <1>2. ASSUME NEW v \in Visit, visit'[v].at \notin Past, intake' = intake, made' = made,
               \A w \in Visit : w # v => visit'[w] = visit[w]
        PROVE  OnceInv'
    BY <1>2 DEF OnceInv, Past
  <1>3. ASSUME NEW v \in Visit, VisitEnds(v), intake' = intake, made' = made
        PROVE  OnceInv'
    BY <1>0, <1>2, <1>3, VisitEndsType DEF NoVisit, Past
  <1>4. ASSUME NEW v \in Visit, NEW s \in IntakeSubmission, NEW review \in BOOLEAN,
               ReceiveJotform(v, s, review)
        PROVE  OnceInv'
    <2> DEFINE step == IF intake[s] = "none" THEN "store" ELSE "again"
    <2>1. step \in VisitPlace /\ step \notin Past
      BY <1>1 DEF Past
    <2>2. Begins(v, s, review, step)
      BY <1>4 DEF ReceiveJotform
    <2> HIDE DEF step
    <2>3. visit'[v].at \notin Past /\ \A w \in Visit : w # v => visit'[w] = visit[w]
      BY <1>0, <2>1, <2>2, BeginsType
    <2> QED BY <1>2, <1>4, <2>3 DEF ReceiveJotform
  <1>5. ASSUME NEW v \in Visit, NEW s \in IntakeSubmission, BookOnline(v, s) \/ RequestReview(v, s)
        PROVE  OnceInv'
    <2>1. \E review \in BOOLEAN, step \in {"slot", "store"} : Begins(v, s, review, step)
      BY <1>5 DEF BookOnline, RequestReview
    <2>2. visit'[v].at \in {"slot", "store"} /\ \A w \in Visit : w # v => visit'[w] = visit[w]
      BY <1>0, <1>1, <2>1, BeginsType
    <2> QED BY <1>2, <1>5, <2>2 DEF BookOnline, RequestReview, Past
  <1>6. ASSUME NEW v \in Visit, NEW status \in {"duplicate", "processed", "failed"}, VisitEnds(v),
               intake' = [intake EXCEPT ![visit[v].form] = status], made' = made,
               visit[v].at # "idle", status = "processed" => visit[v].at = "made"
        PROVE  OnceInv'
    <2>1. /\ visit'[v].at = "idle" /\ visit[v].form \in IntakeSubmission
          /\ \A w \in Visit : w # v => visit'[w] = visit[w]
      BY <1>0, <1>6, VisitEndsType DEF NoVisit
    <2>2. \A s \in IntakeSubmission : intake'[s] = IF s = visit[v].form THEN status ELSE intake[s]
      BY <1>0, <1>6 DEF BookTypeOK
    <2>3. \A w \in Visit : visit'[w].at \in Past => /\ w # v /\ visit'[w] = visit[w]
                                                   /\ visit[w].form \in IntakeSubmission
      BY <1>0, <2>1 DEF Past
    <2> QED BY <1>6, <2>1, <2>2, <2>3 DEF OnceInv, Past
  <1>7. ASSUME NEW v \in Visit, MarkDuplicate(v) \/ MarkProcessed(v) \/ MarkFailed(v)
        PROVE  OnceInv'
    BY <1>6, <1>7 DEF MarkDuplicate, MarkProcessed, MarkFailed
  <1>8. ASSUME NEW v \in Visit, VisitLost(v)
        PROVE  OnceInv'
    BY <1>3, <1>8 DEF VisitLost
  <1>9. ASSUME NEW v \in Visit, CheckSlot(v)
        PROVE  OnceInv'
    <2>1. CASE VisitTo(v, "store")
      BY <1>0, <1>1, <1>2, <1>9, <2>1, VisitToType DEF CheckSlot, Past
    <2>2. CASE VisitEnds(v)
      BY <1>3, <1>9, <2>2 DEF CheckSlot
    <2> QED BY <1>9, <2>1, <2>2 DEF CheckSlot
  <1>10. ASSUME NEW v \in Visit, CreateIntakeSubmission(v)
         PROVE  OnceInv'
    <2>1. CASE intake[visit[v].form] = "none"
      <3>1. /\ intake' = [intake EXCEPT ![visit[v].form] = "received"] /\ VisitTo(v, "mark")
            /\ made' = made /\ visit[v].at = "store" /\ visit[v].form \in IntakeSubmission
        BY <1>0, <1>10, <2>1 DEF CreateIntakeSubmission
      <3>2. /\ visit'[v].at = "mark" /\ visit'[v].form = visit[v].form
            /\ \A w \in Visit : w # v => visit'[w] = visit[w]
        BY <1>0, <1>1, <3>1, VisitToType
      <3>3. \A s \in IntakeSubmission :
               intake'[s] = IF s = visit[v].form THEN "received" ELSE intake[s]
        BY <1>0, <3>1 DEF BookTypeOK
      <3>4. \A w \in Visit : visit[w].at \in Past => visit[w].form \in IntakeSubmission
        BY <1>0 DEF Past
      <3>5. \A w \in Visit : visit[w].at \in Past => visit[w].form # visit[v].form
        BY <2>1 DEF OnceInv
      <3> QED BY <2>1, <3>1, <3>2, <3>3, <3>4, <3>5 DEF OnceInv, Past
    <2>2. CASE intake[visit[v].form] # "none"
      BY <1>3, <1>10, <2>2 DEF CreateIntakeSubmission
    <2> QED BY <2>1, <2>2
  <1>11. ASSUME NEW v \in Visit, MarkProcessing(v)
         PROVE  OnceInv'
    <2>1. /\ intake' = [intake EXCEPT ![visit[v].form] = "processing"] /\ VisitTo(v, "assess")
          /\ made' = made /\ visit[v].at = "mark" /\ visit[v].form \in IntakeSubmission
      BY <1>0, <1>11 DEF MarkProcessing
    <2>2. /\ visit'[v].at = "assess" /\ visit'[v].form = visit[v].form
          /\ \A w \in Visit : w # v => visit'[w] = visit[w]
      BY <1>0, <1>1, <2>1, VisitToType
    <2>3. \A s \in IntakeSubmission :
             intake'[s] = IF s = visit[v].form THEN "processing" ELSE intake[s]
      BY <1>0, <2>1 DEF BookTypeOK
    <2>4. \A w \in Visit : visit'[w].at \in Past => /\ visit[w].at \in Past
                                                   /\ visit'[w].form = visit[w].form
                                                   /\ visit[w].form \in IntakeSubmission
      BY <1>0, <2>1, <2>2 DEF Past
    <2> QED BY <2>1, <2>2, <2>3, <2>4 DEF OnceInv, Past
  <1>12. ASSUME NEW v \in Visit, intake' = intake, made' = made,
                \A w \in Visit : w # v => visit'[w] = visit[w], visit'[v].form = visit[v].form,
                \/ visit[v].at \in Past /\ visit'[v].at = "failing"
                \/ visit[v].at = "assess" /\ visit'[v].at = "create"
         PROVE  OnceInv'
    BY <1>12 DEF OnceInv, Past
  <1>13. ASSUME NEW v \in Visit, IntakeFails(v)
         PROVE  OnceInv'
    BY <1>0, <1>1, <1>12, <1>13, VisitToType DEF IntakeFails, Past
  <1>14. ASSUME NEW v \in Visit, AssessIntake(v)
         PROVE  OnceInv'
    BY <1>0, <1>12, <1>14 DEF AssessIntake, BookTypeOK, VisitState
  <1>15. ASSUME NEW v \in Visit, CreateJob(v)
         PROVE  OnceInv'
    <2>1. /\ made' = [made EXCEPT ![visit[v].form] = @ + 1] /\ VisitTo(v, "made")
          /\ intake' = intake /\ visit[v].at = "create" /\ visit[v].form \in IntakeSubmission
      BY <1>0, <1>15 DEF CreateJob, InsertJob
    <2>2. /\ visit'[v].at = "made" /\ visit'[v].form = visit[v].form
          /\ \A w \in Visit : w # v => visit'[w] = visit[w]
      BY <1>0, <1>1, <2>1, VisitToType
    <2>3. \A s \in IntakeSubmission : made'[s] = IF s = visit[v].form THEN 1 ELSE made[s]
      BY <1>0, <2>1 DEF BookTypeOK, OnceInv
    <2>4. \A w \in Visit : visit'[w].at \in Past => /\ visit[w].at \in Past
                                                   /\ visit'[w].form = visit[w].form
                                                   /\ visit[w].form \in IntakeSubmission
      BY <1>0, <2>1, <2>2 DEF Past
    <2>5. intake[visit[v].form] # "none"
      BY <2>1 DEF OnceInv, Past
    <2>6. \A w \in Visit : w # v /\ visit[w].at \in Past => visit[w].form # visit[v].form
      BY <2>1 DEF OnceInv, Past
    <2> QED BY <2>1, <2>2, <2>3, <2>4, <2>5, <2>6 DEF OnceInv, Past
  <1>16. ASSUME NEW s \in IntakeSubmission, JobLeavesWindow(s) \/ JobComesBack(s)
         PROVE  OnceInv'
    BY <1>16 DEF JobLeavesWindow, JobComesBack, OnceInv
  <1>17. CASE UNCHANGED bookVars
    BY <1>17 DEF bookVars, OnceInv
  <1> QED BY <1>4, <1>5, <1>7, <1>8, <1>9, <1>10, <1>11, <1>13, <1>14, <1>15, <1>16, <1>17
          DEF BookNext

\* A submission makes one job at most, and "processed" says that it has, however
\* often it is delivered and whatever fails (intake.service.ts, intake.repository.ts).
THEOREM IntakeAccountedAlways == BookSpec => []IntakeAccounted
  <1>1. OnceInv => IntakeAccounted
    BY DEF OnceInv, IntakeAccounted
  <1> QED BY <1>1, BookInitForm, BookInitOnce, BookStepForm, BookStepOnce, PTL DEF BookSpec

-----------------------------------------------------------------------------
(* Pricing *)

\* The Stripe fee and the half of a total round to integers.
LEMMA RoundedNat ==
  /\ \A n \in Nat : Rounded(n, 2) \in Nat /\ 2 * Rounded(n, 2) \in {n, n + 1}
  /\ \A n \in Nat : Rounded(n, 1000) \in Nat
  BY DEF Rounded

\* What a customer pays by deposit and remainder (pricing.service.ts:143-149) is
\* never less than the total, and it is the total whenever the rule's deposit and
\* rush fee are no more than its base price.
THEOREM DepositAndRemainder ==
  ASSUME NEW rule \in PricingRule, NEW tier \in RushTier
  PROVE  /\ Deposit(rule, tier) + Remainder(rule, tier) >= Total(rule, tier)
         /\ rule.deposit <= rule.base /\ RushAmount(rule, tier) <= rule.base =>
               Deposit(rule, tier) + Remainder(rule, tier) = Total(rule, tier)
  <1>1. rule.base \in Nat /\ rule.deposit \in Nat /\ RushAmount(rule, tier) \in Nat
    BY DEF PricingRule, RushAmount, RushTier
  <1>2. Total(rule, tier) \in Nat /\ Total(rule, tier) = rule.base + RushAmount(rule, tier)
    BY <1>1 DEF Total
  <1>3. /\ Rounded(Total(rule, tier), 2) \in Nat
        /\ 2 * Rounded(Total(rule, tier), 2) <= Total(rule, tier) + 1
    BY <1>2, RoundedNat
  <1>4. CASE rule.deposit > 0
    BY <1>1, <1>2, <1>4 DEF Deposit, Remainder, AtLeastZero
  <1>5. CASE rule.deposit = 0
    <2> DEFINE half == Rounded(Total(rule, tier), 2)
               rush == RushAmount(rule, tier)
    <2>1. /\ half \in Nat /\ rush \in Nat /\ 2 * half <= rule.base + rush + 1
          /\ Deposit(rule, tier) = half + rush /\ Total(rule, tier) = rule.base + rush
      BY <1>1, <1>2, <1>3, <1>5 DEF Deposit
    <2> HIDE DEF half, rush
    <2>2. rush <= rule.base => half <= rule.base
      BY <1>1, <2>1
    <2> QED BY <1>1, <2>1, <2>2 DEF Remainder, AtLeastZero, rush
  <1> QED BY <1>1, <1>4, <1>5

\* The margin (pricing.service.ts:159) is what is left of the total after fee and
\* payout, and 0 only when they leave nothing.
THEOREM MarginIsLeft ==
  ASSUME NEW rule \in PricingRule, NEW tier \in RushTier
  PROVE  LET spent == EstimateStripeFee(Total(rule, tier)) + Payout(rule, tier)
         IN  /\ JobMargin(rule, tier) >= 0
             /\ IF spent <= Total(rule, tier)
                THEN JobMargin(rule, tier) + spent = Total(rule, tier)
                ELSE JobMargin(rule, tier) = 0
  <1>1. rule.base \in Nat /\ rule.payout \in Nat /\ RushAmount(rule, tier) \in Nat
        /\ RushBonus(rule, tier) \in Nat
    BY DEF PricingRule, RushAmount, RushBonus, RushTier, AtLeastZero
  <1>2. Total(rule, tier) \in Nat /\ Payout(rule, tier) \in Nat
    BY <1>1 DEF Total, Payout
  <1>3. EstimateStripeFee(Total(rule, tier)) \in Nat
    <2>1. 29 * Total(rule, tier) \in Nat
      BY <1>2
    <2> QED BY <2>1, RoundedNat DEF EstimateStripeFee
  <1> QED BY <1>2, <1>3 DEF JobMargin, AtLeastZero
=============================================================================
