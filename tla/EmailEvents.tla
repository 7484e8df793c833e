----------------------------- MODULE EmailEvents -----------------------------
(***************************************************************************)
(* One row of email_events: the e-mail of one kind to one contractor, or   *)
(* about one job.  The row is reserved before the message is sent, so that *)
(* whoever comes second is told it was sent already; forceResend resets    *)
(* the row and sends again.  The row is marked by its id, whatever has     *)
(* happened to it in between.                                              *)
(***************************************************************************)
CONSTANT Sender     \* bound: the requests and jobs sending at once

VARIABLES
    kind,           \* event_type; the same in all of a behaviour
    eventStatus,    \* status of the row, "none" without one
    sender,         \* where each request is, and what it works with
    isActive,       \* contractors.is_active
    hasRecord,      \* contractors.airtable_record_id IS NOT NULL
    told,           \* history: a message of this row was accepted by the
                    \* provider since it was inserted or reset
    unasked,        \* history: one without forceResend, since it was inserted
    muddled         \* history: the row was reset under a sender, or the news of
                    \* its message got lost

mailVars == <<kind, eventStatus, sender, isActive, hasRecord, told, unasked, muddled>>

ContractorKind == {"contractor_onboarding", "contractor_missing_docs",
                   "contractor_onboarding_accepted", "contractor_activated"}
EmailKind == ContractorKind \cup {"customer_job_complete"}

\* A request: the await it is at, whether forceResend was set, and whether the
\* row it has reserved is the one there is
SenderState == [at : {"idle", "record", "reserve", "dispatch", "accepted", "failing"},
                forced : BOOLEAN, live : BOOLEAN]

NotSending == [at |-> "idle", forced |-> FALSE, live |-> FALSE]

MailTypeOK ==
    /\ kind \in EmailKind
    /\ eventStatus \in {"none", "pending", "sent", "failed"}
    /\ sender \in [Sender -> SenderState]
    /\ isActive \in BOOLEAN /\ hasRecord \in BOOLEAN
    /\ told \in BOOLEAN /\ unasked \in BOOLEAN /\ muddled \in BOOLEAN

MailInit ==
    /\ kind \in EmailKind
    /\ eventStatus = "none"
    /\ sender = [m \in Sender |-> NotSending]
    /\ isActive = FALSE /\ hasRecord \in BOOLEAN
    /\ told = FALSE /\ unasked = FALSE /\ muddled = FALSE

InFlight(m) == sender[m].live /\ sender[m].at \in {"dispatch", "accepted", "failing"}
MailStep(m, step) == sender' = [sender EXCEPT ![m].at = step]
MailEnds(m) == sender' = [sender EXCEPT ![m] = NotSending]

-----------------------------------------------------------------------------
(* The admin routes, and the two places that close a job *)

Requests(m, force) ==
    /\ sender[m].at = "idle"
    /\ sender' = [sender EXCEPT ![m].at = "reserve", ![m].forced = force]
    /\ UNCHANGED <<kind, eventStatus, isActive, hasRecord, told, unasked, muddled>>

\* The request may bring the Airtable record id, which is kept if there is none.
SendOnboardingEmail(m, force, brings) ==
    /\ kind = "contractor_onboarding"
    /\ \/ /\ ~ brings \/ hasRecord
          /\ Requests(m, force)
       \/ /\ brings /\ ~ hasRecord
          /\ sender[m].at = "idle"
          /\ sender' = [sender EXCEPT ![m].at = "record", ![m].forced = force]
          /\ UNCHANGED <<kind, eventStatus, isActive, hasRecord, told, unasked, muddled>>

PersistRecord(m) ==
    /\ sender[m].at = "record"
    /\ hasRecord' = TRUE
    /\ MailStep(m, "reserve")
    /\ UNCHANGED <<kind, eventStatus, isActive, told, unasked, muddled>>

\* Without an Airtable record there is no form to link to.
SendMissingDocsEmail(m, force) ==
    /\ kind = "contractor_missing_docs" /\ hasRecord
    /\ Requests(m, force)

SendAcceptedEmail(m, force) ==
    /\ kind = "contractor_onboarding_accepted"
    /\ Requests(m, force)

\* The contractor as read is active.
SendActivatedEmail(m, force) ==
    /\ kind = "contractor_activated" /\ isActive
    /\ Requests(m, force)

\* The approval or the payment that closes a job; never forced
SendJobComplete(m) ==
    /\ kind = "customer_job_complete"
    /\ Requests(m, FALSE)

-----------------------------------------------------------------------------
(* Reserving the row *)

\* A row that is inserted starts with no message and belongs to its sender.
InsertEvent(m) ==
    /\ eventStatus' = "pending"
    /\ sender' = [sender EXCEPT ![m].at = "dispatch", ![m].live = TRUE]
    /\ told' = FALSE /\ unasked' = FALSE /\ muddled' = FALSE

\* Whoever finds a row, in whatever status, is answered "already sent" (or with
\* an error when it is deleted before it is read).
AlreadySent(m) ==
    /\ eventStatus # "none"
    /\ MailEnds(m)
    /\ UNCHANGED <<eventStatus, told, unasked, muddled>>

\* Mutant: a failed event does not keep anybody from sending
ReserveEmailEvent_Failed(m) ==
    /\ sender[m].at = "reserve" /\ ~ sender[m].forced
    /\ \/ /\ eventStatus \in {"none", "pending", "failed"}
          /\ eventStatus' = "pending"
          /\ sender' = [sender EXCEPT ![m].at = "dispatch", ![m].live = TRUE]
          /\ UNCHANGED <<told, unasked, muddled>>
       \/ /\ eventStatus = "sent"
          /\ MailEnds(m)
          /\ UNCHANGED <<eventStatus, told, unasked, muddled>>
    /\ UNCHANGED <<kind, isActive, hasRecord>>

ReserveEmailEvent(m) ==
    /\ sender[m].at = "reserve" /\ ~ sender[m].forced
    /\ (eventStatus = "none" /\ InsertEvent(m)) \/ AlreadySent(m)
    /\ UNCHANGED <<kind, isActive, hasRecord>>

\* The row goes back to pending under whoever is sending, with no message of its
\* own; one that went out without forceResend is not forgotten.
ResetEvent(m) ==
    /\ eventStatus # "none"
    /\ eventStatus' = "pending"
    /\ sender' = [sender EXCEPT ![m].at = "dispatch", ![m].live = TRUE]
    /\ told' = FALSE
    /\ muddled' = \E n \in Sender : InFlight(n)
    /\ UNCHANGED unasked

ReserveForResend(m) ==
    /\ sender[m].at = "reserve" /\ sender[m].forced
    /\ (eventStatus = "none" /\ InsertEvent(m)) \/ ResetEvent(m)
    /\ UNCHANGED <<kind, isActive, hasRecord>>

-----------------------------------------------------------------------------
(* _dispatchEmail *)

\* The provider takes the message; a forced one has an idempotency key of its
\* own, so it is never taken for one it has seen.
SendViaResend(m) ==
    /\ sender[m].at = "dispatch"
    /\ MailStep(m, "accepted")
    /\ told' = (told \/ sender[m].live)
    /\ unasked' = (unasked \/ (sender[m].live /\ ~ sender[m].forced))
    /\ UNCHANGED <<kind, eventStatus, isActive, hasRecord, muddled>>

\* The provider refuses it, or there is no API key; or takes it and its answer
\* does not arrive.
SendFails(m) ==
    /\ sender[m].at = "dispatch"
    /\ MailStep(m, "failing")
    /\ \/ UNCHANGED <<told, unasked, muddled>>
       \/ /\ told' = (told \/ sender[m].live)
          /\ unasked' = (unasked \/ (sender[m].live /\ ~ sender[m].forced))
          /\ muddled' = (muddled \/ sender[m].live)
    /\ UNCHANGED <<kind, eventStatus, isActive, hasRecord>>

\* Mutant: marked sent before it is sent
MarkEmailEventSent_Early(m) ==
    /\ sender[m].at \in {"dispatch", "accepted"}
    /\ eventStatus' = IF sender[m].live THEN "sent" ELSE eventStatus
    /\ MailEnds(m)
    /\ UNCHANGED <<kind, isActive, hasRecord, told, unasked, muddled>>

MarkEmailEventSent(m) ==
    /\ sender[m].at = "accepted"
    /\ eventStatus' = IF sender[m].live THEN "sent" ELSE eventStatus
    /\ MailEnds(m)
    /\ UNCHANGED <<kind, isActive, hasRecord, told, unasked, muddled>>

\* The mark throws inside the same try block as the send.
MarkSentFails(m) ==
    /\ sender[m].at = "accepted"
    /\ MailStep(m, "failing")
    /\ muddled' = (muddled \/ sender[m].live)
    /\ UNCHANGED <<kind, eventStatus, isActive, hasRecord, told, unasked>>

MarkEmailEventFailed(m) ==
    /\ sender[m].at = "failing"
    /\ eventStatus' = IF sender[m].live THEN "failed" ELSE eventStatus
    /\ MailEnds(m)
    /\ UNCHANGED <<kind, isActive, hasRecord, told, unasked, muddled>>

\* log_only leaves the row pending; so does a process that dies, and a query
\* that throws outside of the try block.
EmailAbandoned(m) ==
    /\ sender[m].at # "idle"
    /\ MailEnds(m)
    /\ muddled' = (muddled \/ (sender[m].live /\ sender[m].at \in {"accepted", "failing"}))
    /\ UNCHANGED <<kind, eventStatus, isActive, hasRecord, told, unasked>>

-----------------------------------------------------------------------------
(* Around the senders *)

\* clearContractorMissingDocsEvent, called by Onboarding: the row is deleted,
\* and whoever was sending has nothing to mark any more.
ClearEvent ==
    /\ kind = "contractor_missing_docs" /\ eventStatus # "none"
    /\ eventStatus' = "none"
    /\ sender' = [m \in Sender |-> [sender[m] EXCEPT !.live = FALSE]]
    /\ told' = FALSE /\ unasked' = FALSE /\ muddled' = FALSE
    /\ UNCHANGED <<kind, isActive, hasRecord>>

\* The operator activates the contractor, or deactivates him.
ContractorActivation ==
    /\ kind = "contractor_activated"
    /\ isActive' = ~ isActive
    /\ UNCHANGED <<kind, eventStatus, sender, hasRecord, told, unasked, muddled>>

MailNext ==
    \/ \E m \in Sender :
        \/ \E force \in BOOLEAN :
            \/ \E brings \in BOOLEAN : SendOnboardingEmail(m, force, brings)
            \/ SendMissingDocsEmail(m, force) \/ SendAcceptedEmail(m, force)
            \/ SendActivatedEmail(m, force)
        \/ SendJobComplete(m) \/ PersistRecord(m)
        \/ ReserveEmailEvent(m) \/ ReserveForResend(m)
        \/ SendViaResend(m) \/ SendFails(m)
        \/ MarkEmailEventSent(m) \/ MarkSentFails(m) \/ MarkEmailEventFailed(m)
        \/ EmailAbandoned(m)
    \/ ClearEvent
    \/ ContractorActivation

MailSpec == MailInit /\ [][MailNext]_mailVars

-----------------------------------------------------------------------------
(* Properties *)

\* The row says what happened: "sent" stands for a message of this row since it
\* was last reset, and once nobody is sending any more a message that went out
\* has the row say "sent"; unless the row was reset under a sender or the news of
\* a message got lost.
StatusTellsTruth ==
    ~ muddled =>
        /\ eventStatus = "sent" => told
        /\ told /\ (\A m \in Sender : ~ InFlight(m)) => eventStatus = "sent"

\* email_events.repository.ts:64: without forceResend a row has one sender and
\* one message, however many requests, failures, resends and deletes there are.
UnaskedOnce ==
    LET unforced == {m \in Sender : InFlight(m) /\ ~ sender[m].forced}
    IN  /\ \A m, n \in unforced : m = n
        /\ unasked => \A m \in unforced : sender[m].at # "dispatch"
        /\ unforced # {} => eventStatus # "none"
=============================================================================
