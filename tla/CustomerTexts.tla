---------------------------- MODULE CustomerTexts ----------------------------
(***************************************************************************)
(* The texts to the customer of one job.  The payment link is claimed in   *)
(* the job's row before it is sent; the news of a confirmation and of the  *)
(* contractor being on the way is sent first and written to the row        *)
(* afterwards, by whoever had seen the row without it.                     *)
(***************************************************************************)
EXTENDS Naturals

CONSTANTS
    Texter,     \* bound: the requests texting the customer at once
    MaxTexts    \* bound: the texts of a behaviour

VARIABLES
    textKind,   \* which text; the same in all of a behaviour, as they do not meet
    sentAt,     \* payment_link_sms_sent_at, customer_confirm_text_sent_at or
                \* customer_otw_text_sent_at IS NOT NULL
    textStatus, \* the status column beside it, "none" for NULL
    texter,     \* where each request is, and the outcome it writes
    hasPhone,   \* the job has a phone number of the customer
    texts,      \* external: how many texts the provider has taken
    doubtful    \* history: two requests were at it together, or the news from
                \* the provider did not reach the row

textVars == <<textKind, sentAt, textStatus, texter, hasPhone, texts, doubtful>>

TextKind == {"link", "confirm", "otw"}
Outcome == {"sent", "failed", "skipped"}
TexterState == [at : {"idle", "check", "skip", "send", "write"}, outcome : Outcome]

NotTexting == [at |-> "idle", outcome |-> "skipped"]

TextTypeOK ==
    /\ textKind \in TextKind
    /\ sentAt \in BOOLEAN
    /\ textStatus \in Outcome \cup {"none", "in_flight"}
    /\ texter \in [Texter -> TexterState]
    /\ hasPhone \in BOOLEAN
    /\ texts \in Nat
    /\ doubtful \in BOOLEAN

TextInit ==
    /\ textKind \in TextKind
    /\ sentAt = FALSE /\ textStatus = "none"
    /\ texter = [t \in Texter |-> NotTexting]
    /\ hasPhone \in BOOLEAN
    /\ texts = 0 /\ doubtful = FALSE

Texting(t) == texter[t].at \in {"send", "write"}
TexterTo(t, step) == texter' = [texter EXCEPT ![t].at = step]
TexterEnds(t) == texter' = [texter EXCEPT ![t] = NotTexting]

-----------------------------------------------------------------------------
(* sendPaymentLinkSms: processIntake calls it once it has a checkout, and it is to
   be safe against any other call *)

\* Mutant: the claim does not look whether there is one
ClaimPaymentLink_Unguarded(t) ==
    /\ textKind = "link" /\ hasPhone
    /\ texter[t].at = "idle"
    /\ sentAt' = TRUE /\ textStatus' = "in_flight"
    /\ TexterTo(t, "send")
    /\ UNCHANGED <<textKind, hasPhone, texts, doubtful>>

\* UPDATE ... WHERE payment_link_sms_sent_at IS NULL
ClaimPaymentLink(t) ==
    /\ textKind = "link" /\ hasPhone
    /\ texter[t].at = "idle"
    /\ ~ sentAt
    /\ sentAt' = TRUE /\ textStatus' = "in_flight"
    /\ TexterTo(t, "send")
    /\ UNCHANGED <<textKind, hasPhone, texts, doubtful>>

-----------------------------------------------------------------------------
(* processSmsWebhook: the news of the contractor's CONFIRM and OTW *)

\* CONFIRM looks at the row when the command is routed, before the command's
\* transaction, and OTW after it.
CommandRouted(t) ==
    /\ textKind # "link"
    /\ texter[t].at = "idle"
    /\ TexterTo(t, "check")
    /\ UNCHANGED <<textKind, sentAt, textStatus, hasPhone, texts, doubtful>>

\* Nobody's text is noticed that is not in the row yet.
CheckSentAt(t) ==
    /\ texter[t].at = "check"
    /\ \/ /\ sentAt
          /\ TexterEnds(t)
          /\ UNCHANGED doubtful
       \/ /\ ~ sentAt
          /\ TexterTo(t, IF hasPhone THEN "send" ELSE "skip")
          /\ doubtful' = (doubtful \/ \E u \in Texter : Texting(u))
    /\ UNCHANGED <<textKind, sentAt, textStatus, hasPhone, texts>>

SkipText(t) ==
    /\ texter[t].at = "skip"
    /\ textStatus' = "skipped"
    /\ TexterEnds(t)
    /\ UNCHANGED <<textKind, sentAt, hasPhone, texts, doubtful>>

-----------------------------------------------------------------------------
(* The provider, and the row *)

\* sendSms returns a message id, throws, or has none because it is not
\* configured.  A text may be taken although it throws or brings no id.
SendSms(t, taken, outcome) ==
    /\ texter[t].at = "send" /\ (taken => texts < MaxTexts)
    /\ outcome = "sent" => taken
    /\ texts' = IF taken THEN texts + 1 ELSE texts
    /\ texter' = [texter EXCEPT ![t].at = "write", ![t].outcome = outcome]
    /\ doubtful' = (doubtful \/ (taken /\ outcome # "sent"))
    /\ UNCHANGED <<textKind, sentAt, textStatus, hasPhone>>

\* The link keeps its claim.  Whatever is not sent is "failed", and so is a text
\* whose "sent" could not be written.
WriteLinkStatus(t) ==
    /\ textKind = "link"
    /\ texter[t].at = "write"
    /\ textStatus' \in {"failed"} \cup ({texter[t].outcome} \cap {"sent"})
    /\ TexterEnds(t)
    /\ UNCHANGED <<textKind, sentAt, hasPhone, texts, doubtful>>

\* The news writes sent_at too, and NULL over an earlier text's when its own has
\* failed.
WriteNewsStatus(t) ==
    /\ textKind # "link"
    /\ texter[t].at = "write"
    /\ sentAt' = (texter[t].outcome = "sent")
    /\ textStatus' = texter[t].outcome
    /\ TexterEnds(t)
    /\ UNCHANGED <<textKind, hasPhone, texts, doubtful>>

\* The write fails, or the process dies.  A dead sender of news has left nothing
\* that keeps the next one from sending.
TexterLost(t) ==
    /\ texter[t].at # "idle"
    /\ TexterEnds(t)
    /\ doubtful' = (doubtful \/ (texter[t].at = "write" /\ texter[t].outcome = "sent"))
    /\ UNCHANGED <<textKind, sentAt, textStatus, hasPhone, texts>>

TextNext ==
    \E t \in Texter :
        \/ ClaimPaymentLink(t) \/ CommandRouted(t)
        \/ CheckSentAt(t) \/ SkipText(t)
        \/ \E taken \in BOOLEAN, outcome \in Outcome : SendSms(t, taken, outcome)
        \/ WriteLinkStatus(t) \/ WriteNewsStatus(t) \/ TexterLost(t)

TextSpec == TextInit /\ [][TextNext]_textVars

-----------------------------------------------------------------------------
(* Properties *)

\* paymentLink.sms.ts:10: the payment link that is claimed there is texted once
\* at most, whatever fails, dies or runs together; the news once too, unless two
\* commands were at it together or the row did not learn of a text.  And a status
\* "sent" stands for a text.
TextedOnce ==
    /\ textKind = "link" \/ ~ doubtful => texts <= 1
    /\ textStatus = "sent" => texts >= 1
=============================================================================
