------------------------------ MODULE Payments ------------------------------
(***************************************************************************)
(* Payment of jobs: Stripe checkout sessions, the Stripe webhook, the      *)
(* price recalculation and the approval of a reported completion.          *)
(*                                                                         *)
(* The webhook answers 200 before it processes an event, so Stripe does    *)
(* not repeat one whose processing is lost; it may still deliver an event  *)
(* more than once, and in any order.  Each handler looks at the tables one *)
(* query at a time, then commits one transaction; nothing locks the job    *)
(* row, and other requests run between any two of its steps.               *)
(***************************************************************************)
EXTENDS JobMoves, Naturals, FiniteSets

CONSTANTS
    NoJob,             \* the job of a row not inserted yet
    Payment,           \* bound: the checkout sessions that may ever be created
    MaxOutbox,         \* bound: undelivered Stripe events at once
    PricedRemainder    \* whether the pricing rules leave a remainder: TRUE, FALSE

ASSUME PaymentsAssumption ==
    /\ NoJob \notin Job
    /\ MaxOutbox \in Nat
    /\ PricedRemainder \subseteq BOOLEAN

VARIABLES
    remainder,     \* jobs.remainder_amount_cents > 0
    payStatus,     \* payments.status, "none" before the insert
    payJob,        \* payments.job_id
    payType,       \* payments.payment_type
    charged,       \* external: the sessions whose customer has been charged
    outbox,        \* external: the events Stripe has to deliver
    recorded,      \* payment_events: the events whose transaction committed
    webhooks,      \* webhook events between their first read and their commit
    approvals,     \* approve-completion requests in the same position
    recalcs,       \* recalculate requests in the same position
    autoCheckout,  \* the approved jobs whose remainder checkout is still to come
    overtaken      \* history: the jobs a handler moved when their status was no
                   \* longer the one it had read

payVars == <<payStatus, payJob, payType>>
stripeVars == <<charged, outbox>>
requestVars == <<webhooks, approvals, recalcs, moving, autoCheckout>>
vars == <<jobStatus, remainder, payVars, stripeVars, recorded, requestVars, overtaken>>

PaymentType == {"full", "deposit", "remainder"}
PaymentStatus == {"checkout_created", "paid_in_full", "payment_failed", "refunded"}
EventType == {"completed", "succeeded", "failed", "refunded"}
StripeEvent == [payment : Payment, type : EventType]

TypeOK ==
    /\ jobStatus \in [Job -> JobStatus]
    /\ remainder \in [Job -> BOOLEAN]
    /\ payStatus \in [Payment -> PaymentStatus \cup {"none"}]
    /\ payJob \in [Payment -> Job \cup {NoJob}]
    /\ payType \in [Payment -> PaymentType]
    /\ charged \subseteq Payment
    /\ outbox \subseteq StripeEvent
    /\ recorded \subseteq StripeEvent
    /\ webhooks \subseteq [handler : Handler, event : StripeEvent,
                           seen : JobStatus \cup {"unread"}]
    /\ approvals \subseteq [handler : Handler, job : Job, owes : BOOLEAN, decided : BOOLEAN]
    /\ recalcs \subseteq [handler : Handler, job : Job]
    /\ moving \subseteq MoveRequest
    /\ autoCheckout \subseteq Job
    /\ overtaken \subseteq Job

Init ==
    /\ jobStatus = [j \in Job |-> "awaiting_payment"]
    /\ remainder \in [Job -> PricedRemainder]
    /\ payStatus = [p \in Payment |-> "none"]
    /\ payJob = [p \in Payment |-> NoJob]
    /\ payType = [p \in Payment |-> "full"]
    /\ charged = {}
    /\ outbox = {}
    /\ recorded = {}
    /\ webhooks = {}
    /\ approvals = {}
    /\ recalcs = {}
    /\ moving = {}
    /\ autoCheckout = {}
    /\ overtaken = {}

-----------------------------------------------------------------------------
(* Queries *)

Event(p, type) == [payment |-> p, type |-> type]

\* provider_payment_intent_id is stored by the transaction that records the
\* completed event, and by nothing else.
IntentKnown(p) == Event(p, "completed") \in recorded

\* Mutant: any paid row of the job counts, a deposit too
FullyPaid_AnyType(j) == \E p \in Payment : payJob[p] = j /\ payStatus[p] = "paid_in_full"

FullyPaid(j) == \E p \in Payment : /\ payJob[p] = j
                                   /\ payType[p] = "full"
                                   /\ payStatus[p] = "paid_in_full"

HandlerFree(h) == \A m \in webhooks \cup approvals \cup recalcs \cup moving : m.handler # h

\* The status a completed checkout moves its job to
PaidStatus(type) == CASE type = "full" -> "paid_in_full"
                      [] type = "deposit" -> "deposit_paid"
                      [] type = "remainder" -> "closed_paid"

\* The transitions the webhook makes: those of the table, and from deposit_paid
\* to closed_paid in one write, through awaiting_remainder_payment.
PaymentMove(from, to) ==
    \/ CanTransition(from, to)
    \/ /\ to = "closed_paid"
       /\ from = "deposit_paid"
       /\ CanTransition(from, "awaiting_remainder_payment")
       /\ CanTransition("awaiting_remainder_payment", to)

\* The history after a handler that had read status "seen" moves job j
Overtaken(j, seen) == IF jobStatus[j] = seen THEN overtaken ELSE overtaken \cup {j}

-----------------------------------------------------------------------------
(* createJobCheckoutSession.  The link leaves the server only after the row   *)
(* is committed, so the session and its row appear together.  No caller looks *)
(* at the job status; only a remainder of zero is refused.                    *)

InsertPayment(j, type, p) ==
    /\ payStatus[p] = "none"
    /\ type = "remainder" => remainder[j]
    /\ payStatus' = [payStatus EXCEPT ![p] = "checkout_created"]
    /\ payJob' = [payJob EXCEPT ![p] = j]
    /\ payType' = [payType EXCEPT ![p] = type]
    /\ UNCHANGED <<jobStatus, remainder, stripeVars, recorded, overtaken>>

CreateJobCheckoutSession(j, type, p) ==
    /\ InsertPayment(j, type, p)
    /\ UNCHANGED requestVars

\* The checkout approve-completion creates by itself, after its answer
AutoRemainderCheckout(j, p) ==
    /\ j \in autoCheckout
    /\ InsertPayment(j, "remainder", p)
    /\ autoCheckout' = autoCheckout \ {j}
    /\ UNCHANGED <<webhooks, approvals, recalcs, moving>>

\* It throws (the remainder is gone, Stripe is down): audited, not retried
AutoRemainderCheckoutFailed(j) ==
    /\ j \in autoCheckout
    /\ autoCheckout' = autoCheckout \ {j}
    /\ UNCHANGED <<jobStatus, remainder, payVars, stripeVars, recorded, webhooks,
                   approvals, recalcs, moving, overtaken>>

-----------------------------------------------------------------------------
(* Stripe and the customer (external) *)

Open(p) == payStatus[p] # "none" /\ p \notin charged

Emit(p, type) ==
    /\ outbox' = outbox \cup {Event(p, type)}
    /\ Cardinality(outbox') <= MaxOutbox
    /\ UNCHANGED <<jobStatus, remainder, payVars, recorded, requestVars, overtaken>>

CustomerPays(p) ==
    /\ Open(p)
    /\ charged' = charged \cup {p}
    /\ Emit(p, "completed")

\* The charge behind the session succeeded: an event of its own
IntentSucceeds(p) ==
    /\ p \in charged
    /\ Emit(p, "succeeded")
    /\ UNCHANGED charged

\* An attempt on the session is declined before the one that succeeds; Stripe
\* may have its event to deliver long after.
CardDeclined(p) ==
    /\ payStatus[p] # "none"
    /\ Emit(p, "failed")
    /\ UNCHANGED charged

RefundInStripe(p) ==
    /\ p \in charged
    /\ Emit(p, "refunded")
    /\ UNCHANGED charged

-----------------------------------------------------------------------------
(* The webhook *)

\* The 200 answer, then the look-ups of handleStripeEvent: a recorded event is
\* skipped, and so is one whose intent no payment row knows yet.  "again" says
\* whether Stripe will deliver the event once more.
StripeEventReceived(h, e, again) ==
    /\ e \in outbox
    /\ HandlerFree(h)
    /\ outbox' = IF again THEN outbox ELSE outbox \ {e}
    /\ webhooks' =
         IF e \in recorded \/ (e.type # "completed" /\ ~ IntentKnown(e.payment))
         THEN webhooks
         ELSE webhooks \cup {[handler |-> h, event |-> e, seen |-> "unread"]}
    /\ UNCHANGED <<jobStatus, remainder, payVars, charged, recorded, approvals,
                   recalcs, moving, autoCheckout, overtaken>>

\* getJobById, the last read before the transaction of a completed checkout
CheckoutJobRead(m) ==
    /\ m \in webhooks
    /\ m.event.type = "completed"
    /\ m.seen = "unread"
    /\ webhooks' = (webhooks \ {m})
                      \cup {[m EXCEPT !.seen = jobStatus[payJob[m.event.payment]]]}
    /\ UNCHANGED <<jobStatus, remainder, payVars, stripeVars, recorded, approvals,
                   recalcs, moving, autoCheckout, overtaken>>

\* Every transaction of the webhook ends in the insert into payment_events.
CommitEvent(m) ==
    /\ m \in webhooks
    /\ webhooks' = webhooks \ {m}
    /\ recorded' = recorded \cup {m.event}
    /\ UNCHANGED <<payJob, payType, stripeVars, approvals, recalcs, moving, autoCheckout>>

\* Mutant: the job moves whatever its status was
HandleCheckoutCompleted_NoAssert(m) ==
    LET p == m.event.payment
        j == payJob[p]
    IN  /\ m.event.type = "completed"
        /\ m.seen # "unread"
        /\ CommitEvent(m)
        /\ payStatus' = [payStatus EXCEPT ![p] = "paid_in_full"]
        /\ jobStatus' = [jobStatus EXCEPT ![j] = PaidStatus(payType[p])]
        /\ remainder' = IF payType[p] = "full" THEN [remainder EXCEPT ![j] = FALSE] ELSE remainder
        /\ overtaken' = Overtaken(j, m.seen)

\* The payment is paid whatever its status was; the job moves if the status
\* read before the transaction allows it, else the move is skipped.
HandleCheckoutCompleted(m) ==
    LET p == m.event.payment
        j == payJob[p]
        moves == PaymentMove(m.seen, PaidStatus(payType[p]))
    IN  /\ m.event.type = "completed"
        /\ m.seen # "unread"
        /\ CommitEvent(m)
        /\ payStatus' = [payStatus EXCEPT ![p] = "paid_in_full"]
        /\ jobStatus' = IF moves THEN [jobStatus EXCEPT ![j] = PaidStatus(payType[p])]
                                 ELSE jobStatus
        /\ remainder' = IF moves /\ payType[p] = "full"
                        THEN [remainder EXCEPT ![j] = FALSE] ELSE remainder
        /\ overtaken' = IF moves THEN Overtaken(j, m.seen) ELSE overtaken

HandlePaymentIntentSucceeded(m) ==
    /\ m.event.type = "succeeded"
    /\ CommitEvent(m)
    /\ UNCHANGED <<payStatus, jobStatus, remainder, overtaken>>

\* Mutant: the handler stores the status Stripe gives the intent
HandlePaymentIntentFailed_StripeStatus(m) ==
    /\ m.event.type = "failed"
    /\ CommitEvent(m)
    /\ payStatus' = [payStatus EXCEPT ![m.event.payment] = "requires_payment_method"]
    /\ UNCHANGED <<jobStatus, remainder, overtaken>>

HandlePaymentIntentFailed(m) ==
    /\ m.event.type = "failed"
    /\ CommitEvent(m)
    /\ payStatus' = [payStatus EXCEPT ![m.event.payment] = "payment_failed"]
    /\ UNCHANGED <<jobStatus, remainder, overtaken>>

\* Mutant: the refund handler stores the failure handler's status
HandleChargeRefunded_MarksFailed(m) ==
    /\ m.event.type = "refunded"
    /\ CommitEvent(m)
    /\ payStatus' = [payStatus EXCEPT ![m.event.payment] = "payment_failed"]
    /\ UNCHANGED <<jobStatus, remainder, overtaken>>

HandleChargeRefunded(m) ==
    /\ m.event.type = "refunded"
    /\ CommitEvent(m)
    /\ payStatus' = [payStatus EXCEPT ![m.event.payment] = "refunded"]
    /\ UNCHANGED <<jobStatus, remainder, overtaken>>

\* The processing throws: logged, and Stripe has its 200 already.
StripeEventFailed(m) ==
    /\ m \in webhooks
    /\ webhooks' = webhooks \ {m}
    /\ UNCHANGED <<jobStatus, remainder, payVars, stripeVars, recorded, approvals,
                   recalcs, moving, autoCheckout, overtaken>>

-----------------------------------------------------------------------------
(* approve-completion *)

\* The job row, with its remainder, is read first
ApproveCompletionRead(h, j) ==
    /\ HandlerFree(h)
    /\ jobStatus[j] = "completion_reported"
    /\ approvals' = approvals \cup
         {[handler |-> h, job |-> j, owes |-> remainder[j], decided |-> FALSE]}
    /\ UNCHANGED <<jobStatus, remainder, payVars, stripeVars, recorded, webhooks,
                   recalcs, moving, autoCheckout, overtaken>>

\* A paid full payment on file means that nothing is owed, whatever the job
\* row says.
ApproveCompletionDecide(m) ==
    /\ m \in approvals
    /\ ~ m.decided
    /\ approvals' = (approvals \ {m}) \cup
         {[m EXCEPT !.owes = IF FullyPaid(m.job) THEN FALSE ELSE m.owes, !.decided = TRUE]}
    /\ UNCHANGED <<jobStatus, remainder, payVars, stripeVars, recorded, webhooks,
                   recalcs, moving, autoCheckout, overtaken>>

\* Path A, a remainder is owed; Path B, nothing is
ApproveCompletionWrite(m) ==
    LET s == IF m.owes THEN "awaiting_remainder_payment" ELSE "closed_paid"
    IN  /\ m \in approvals
        /\ m.decided
        /\ approvals' = approvals \ {m}
        /\ jobStatus' = [jobStatus EXCEPT ![m.job] = s]
        /\ autoCheckout' = IF m.owes THEN autoCheckout \cup {m.job} ELSE autoCheckout
        /\ overtaken' = Overtaken(m.job, "completion_reported")
        /\ UNCHANGED <<remainder, payVars, stripeVars, recorded, webhooks, recalcs, moving>>

-----------------------------------------------------------------------------
(* recalculate *)

RecalculateRead(h, j) ==
    /\ HandlerFree(h)
    /\ jobStatus[j] \notin {"paid_in_full", "deposit_paid", "closed_paid"}
    /\ recalcs' = recalcs \cup {[handler |-> h, job |-> j]}
    /\ UNCHANGED <<jobStatus, remainder, payVars, stripeVars, recorded, webhooks,
                   approvals, moving, autoCheckout, overtaken>>

RecalculateWrite(m, owed) ==
    /\ m \in recalcs
    /\ recalcs' = recalcs \ {m}
    /\ remainder' = [remainder EXCEPT ![m.job] = owed]
    /\ UNCHANGED <<jobStatus, payVars, stripeVars, recorded, webhooks, approvals, moving,
                   autoCheckout, overtaken>>

-----------------------------------------------------------------------------
(* What Dispatch does with the job meanwhile *)

DispatchMoves(j, s) ==
    /\ Move(j, s)
    /\ UNCHANGED <<remainder, payVars, stripeVars, recorded, webhooks, approvals, recalcs,
                   autoCheckout, overtaken>>

DispatchRead(h, j, s) ==
    /\ HandlerFree(h)
    /\ MoveRead(h, j, s)
    /\ UNCHANGED <<remainder, payVars, stripeVars, recorded, webhooks, approvals, recalcs,
                   autoCheckout, overtaken>>

DispatchWrite(m) ==
    /\ MoveWrite(m)
    /\ overtaken' = Overtaken(m.job, m.edge[1])
    /\ UNCHANGED <<remainder, payVars, stripeVars, recorded, webhooks, approvals,
                   recalcs, autoCheckout>>

\* The process dies: everything in memory is lost, acknowledged events too.
Crash ==
    /\ webhooks' = {}
    /\ approvals' = {}
    /\ recalcs' = {}
    /\ autoCheckout' = {}
    /\ MovesLost
    /\ UNCHANGED <<remainder, payVars, stripeVars, recorded, overtaken>>

WebhookCommit(m) ==
    \/ HandleCheckoutCompleted(m)
    \/ HandlePaymentIntentSucceeded(m)
    \/ HandlePaymentIntentFailed(m)
    \/ HandleChargeRefunded(m)

WebhookStep(m) == CheckoutJobRead(m) \/ WebhookCommit(m)

Next ==
    \/ \E j \in Job, p \in Payment :
        \/ \E type \in PaymentType : CreateJobCheckoutSession(j, type, p)
        \/ AutoRemainderCheckout(j, p)
    \/ \E p \in Payment : 
           CustomerPays(p) \/ IntentSucceeds(p) \/ CardDeclined(p) \/ RefundInStripe(p)
    \/ \E h \in Handler, e \in outbox, again \in BOOLEAN : StripeEventReceived(h, e, again)
    \/ \E m \in webhooks : WebhookStep(m) \/ StripeEventFailed(m)
    \/ \E j \in Job :
        \/ AutoRemainderCheckoutFailed(j)
        \/ \E h \in Handler : ApproveCompletionRead(h, j) \/ RecalculateRead(h, j)
        \/ \E s \in JobStatus :
            DispatchMoves(j, s) \/ \E h \in Handler : DispatchRead(h, j, s)
    \/ \E m \in approvals : ApproveCompletionDecide(m) \/ ApproveCompletionWrite(m)
    \/ \E m \in recalcs, owed \in PricedRemainder : RecalculateWrite(m, owed)
    \/ \E m \in moving : DispatchWrite(m)
    \/ Crash

Spec == Init /\ [][Next]_vars

\* Stripe delivers every event until it is acknowledged, and an event loop that
\* stays up runs what it has scheduled.
Fairness ==
    /\ \A p \in Payment, type \in EventType :
           WF_vars(\E h \in Handler, again \in BOOLEAN :
                       StripeEventReceived(h, Event(p, type), again))
    /\ WF_vars(\E m \in webhooks : WebhookStep(m) \/ StripeEventFailed(m))
    /\ WF_vars(\E m \in approvals : ApproveCompletionDecide(m) \/ ApproveCompletionWrite(m))
    /\ WF_vars(\E m \in recalcs, owed \in PricedRemainder : RecalculateWrite(m, owed))
    /\ WF_vars(\E m \in moving : DispatchWrite(m))

FairSpec == Spec /\ Fairness

-----------------------------------------------------------------------------
(* Properties *)

\* Some session of the job was charged
ChargedOnce(j) == \E p \in charged : payJob[p] = j

\* No job gets past awaiting_payment without a charged session of its own, in
\* whatever order and however often events arrive: Stripe is the only payment
\* truth.
PaidBeforeDispatch ==
    \A j \in Job : jobStatus[j] \notin {"awaiting_payment", "cancelled"} => ChargedOnce(j)

\* A job is closed only when the rest of its price was charged: by a full or a
\* remainder payment, or by the deposit when the price leaves no remainder.
ClosedIsPaid ==
    \A j \in Job : jobStatus[j] = "closed_paid" =>
        \E p \in charged :
            /\ payJob[p] = j
            /\ payType[p] \in {"full", "remainder"} \/ FALSE \in PricedRemainder

\* The three tables tell one story however events are repeated, delayed and
\* reordered: a payment is paid, refunded or failed only with a recorded event
\* that says so, and a job is deposit_paid or paid_in_full only with a recorded
\* payment of that type.
LedgerBacked ==
    /\ \A p \in Payment :
        /\ payStatus[p] = "paid_in_full" =>
               p \in charged /\ Event(p, "completed") \in recorded
        /\ payStatus[p] = "refunded" => Event(p, "refunded") \in recorded
        /\ payStatus[p] = "payment_failed" => Event(p, "failed") \in recorded
    /\ \A j \in Job, type \in {"full", "deposit"} : jobStatus[j] = PaidStatus(type) =>
           \E p \in Payment : /\ payJob[p] = j
                              /\ payType[p] = type
                              /\ Event(p, "completed") \in recorded

\* The webhook, approve-completion and dispatch together move a job only along
\* the table (and deposit_paid to closed_paid), unless a handler wrote when the
\* status was no longer the one it had read.
OnlyPaymentTransitions ==
    [][\A j \in Job : \/ jobStatus'[j] = jobStatus[j]
                      \/ PaymentMove(jobStatus[j], jobStatus'[j])
                      \/ j \in overtaken']_vars

\* The requests of the webhook and of approve-completion that are going to move
\* a job, as JobSettles knows them
Settling ==
    {[handler |-> m.handler, job |-> payJob[m.event.payment], seen |-> m.seen] :
        m \in {n \in webhooks : /\ n.event.type = "completed"
                               /\ n.seen # "unread"
                               /\ PaymentMove(n.seen, PaidStatus(payType[n.event.payment]))}}
    \cup {[handler |-> m.handler, job |-> m.job, seen |-> "completion_reported"] :
              m \in approvals}

Lifecycle == INSTANCE JobLifecycle WITH settling <- Settling

\* Payments moves a job as Dispatch reckons with: by a request that read it at
\* the start of one of seven edges, of which every later write is one, whatever
\* session it is for and however its event was delayed or repeated.
SettlesAsPromised == Lifecycle!LifecycleSpec

\* README.md:243: a job that is already paid keeps its price.  Its guard looks
\* at the status only, and a paid job leaves paid_in_full when dispatch starts.
PaidPriceIsKept ==
    [][\A j \in Job : FullyPaid(j) /\ ~ remainder[j] => ~ remainder'[j]]_vars

\* README.md:1629: the pipeline tolerates faults.  A charge whose event was
\* acknowledged just before a crash is never recorded.
ChargeIsRecorded ==
    \A p \in Payment : p \in charged ~> Event(p, "completed") \in recorded
=============================================================================
