--------------------------- MODULE PaymentsProofs ---------------------------
(***************************************************************************)
(* Proofs about Payments, for every set of jobs, sessions and handlers and *)
(* every order, repetition and loss of Stripe's events.                    *)
(***************************************************************************)
EXTENDS Payments, TLAPS

\* A session in use has its row, and its events come from what happened to it.
SessionsWellFormed ==
    /\ \A p \in Payment : payStatus[p] = "none" <=> payJob[p] = NoJob
    /\ \A p \in charged : payJob[p] \in Job
    /\ \A e \in outbox \cup recorded \cup {m.event : m \in webhooks} :
           /\ payJob[e.payment] \in Job
           /\ e.type = "completed" => e.payment \in charged

IType == TypeOK /\ SessionsWellFormed

-----------------------------------------------------------------------------
(* Type correctness *)

\* Dispatch moves a job along the table, away from paid jobs, and pays nothing.
LEMMA EdgeFacts ==
  ASSUME NEW edge \in DispatchEdges
  PROVE  /\ edge[1] \in JobStatus /\ edge[2] \in JobStatus
         /\ CanTransition(edge[1], edge[2])
         /\ edge[1] \notin {"awaiting_payment", "cancelled"}
         /\ edge[2] \notin {"paid_in_full", "deposit_paid", "closed_paid"}
  BY DEF DispatchEdges, CanTransition, Transitions, JobStatus

LEMMA UnlockedFacts == UnlockedEdges \subseteq DispatchEdges
  BY DEF UnlockedEdges

LEMMA InitIType == Init => IType
  BY PaymentsAssumption
  DEF Init, IType, TypeOK, SessionsWellFormed, JobStatus, PaymentType

LEMMA CheckoutIType ==
  ASSUME IType, NEW j \in Job, NEW type \in PaymentType, NEW p \in Payment,
         InsertPayment(j, type, p), webhooks' = webhooks, approvals' = approvals,
         recalcs' = recalcs, moving' = moving, autoCheckout' \subseteq autoCheckout
  PROVE  IType'
  <1> USE DEF IType, TypeOK, SessionsWellFormed, InsertPayment, stripeVars
  <1>1. TypeOK'
    BY DEF PaymentStatus
  <1>2. \A e \in StripeEvent : payJob[e.payment] \in Job => payJob'[e.payment] \in Job
    BY DEF StripeEvent
  <1>3. {m.event : m \in webhooks} \subseteq StripeEvent
    OBVIOUS
  <1>4. SessionsWellFormed'
    BY <1>2, <1>3, PaymentsAssumption
  <1> QED BY <1>1, <1>4

LEMMA StripeIType ==
  ASSUME IType, NEW p \in Payment,
         CustomerPays(p) \/ IntentSucceeds(p) \/ CardDeclined(p) \/ RefundInStripe(p)
  PROVE  IType'
  <1> USE DEF IType, TypeOK, SessionsWellFormed, payVars, requestVars
  <1>1. PICK type \in EventType : Emit(p, type) /\ (type = "completed" => CustomerPays(p))
    BY DEF CustomerPays, IntentSucceeds, CardDeclined, RefundInStripe, EventType
  <1>2. /\ payJob[p] \in Job
        /\ charged' = charged \/ charged' = charged \cup {p}
        /\ type = "completed" => p \in charged'
    BY <1>1 DEF CustomerPays, IntentSucceeds, CardDeclined, RefundInStripe, Open
  <1>3. outbox' = outbox \cup {Event(p, type)} /\ Event(p, type) \in StripeEvent
        /\ Event(p, type).payment = p /\ Event(p, type).type = type
    BY <1>1 DEF Emit, Event, StripeEvent
  <1>4. TypeOK'
    BY <1>1, <1>2, <1>3 DEF Emit
  <1>5. SessionsWellFormed'
    BY <1>1, <1>2, <1>3 DEF Emit
  <1> QED BY <1>4, <1>5

LEMMA WebhookIType ==
  ASSUME IType,
         \/ \E h \in Handler, e \in outbox, again \in BOOLEAN : StripeEventReceived(h, e, again)
         \/ \E m \in webhooks : WebhookStep(m) \/ StripeEventFailed(m)
  PROVE  IType'
  <1> USE DEF IType, TypeOK, SessionsWellFormed, payVars, stripeVars
  <1>1. ASSUME NEW h \in Handler, NEW e \in outbox, NEW again \in BOOLEAN,
               StripeEventReceived(h, e, again)
        PROVE  IType'
    <2>1. e \in StripeEvent /\ payJob[e.payment] \in Job
      OBVIOUS
    <2>2. TypeOK'
      BY <1>1, <2>1 DEF StripeEventReceived
    <2>3. SessionsWellFormed'
      BY <1>1, <2>1 DEF StripeEventReceived
    <2> QED BY <2>2, <2>3
  <1>2. ASSUME NEW m \in webhooks, WebhookCommit(m)
        PROVE  IType'
    <2> DEFINE p == m.event.payment
    <2>1. p \in Payment /\ payJob[p] \in Job /\ m.event \in StripeEvent /\ payType[p] \in PaymentType
      BY DEF StripeEvent
    <2>2. CommitEvent(m)
      BY <1>2 DEF WebhookCommit, HandleCheckoutCompleted, HandlePaymentIntentSucceeded,
                  HandlePaymentIntentFailed, HandleChargeRefunded
    <2>3. PaidStatus(payType[p]) \in JobStatus
      BY <2>1 DEF PaidStatus, PaymentType, JobStatus
    <2>4. TypeOK'
      <3>1. CASE HandleCheckoutCompleted(m)
        BY <3>1, <2>1, <2>2, <2>3
        DEF HandleCheckoutCompleted, CommitEvent, PaymentStatus, Overtaken
      <3>2. CASE HandlePaymentIntentSucceeded(m)
        BY <3>2, <2>1, <2>2 DEF HandlePaymentIntentSucceeded, CommitEvent
      <3>3. CASE HandlePaymentIntentFailed(m)
        BY <3>3, <2>1, <2>2 DEF HandlePaymentIntentFailed, CommitEvent, PaymentStatus
      <3>4. CASE HandleChargeRefunded(m)
        BY <3>4, <2>1, <2>2 DEF HandleChargeRefunded, CommitEvent, PaymentStatus
      <3> QED BY <1>2, <3>1, <3>2, <3>3, <3>4 DEF WebhookCommit
    <2>5. \A q \in Payment : payStatus'[q] = "none" <=> payStatus[q] = "none"
      BY <1>2, <2>1, PaymentsAssumption
      DEF WebhookCommit, HandleCheckoutCompleted, HandlePaymentIntentSucceeded,
          HandlePaymentIntentFailed, HandleChargeRefunded
    <2>6. SessionsWellFormed'
      BY <2>1, <2>2, <2>5 DEF CommitEvent
    <2> QED BY <2>4, <2>6
  <1>3. ASSUME NEW m \in webhooks, StripeEventFailed(m)
        PROVE  IType'
    BY <1>3 DEF StripeEventFailed
  <1>4. ASSUME NEW m \in webhooks, CheckoutJobRead(m)
        PROVE  IType'
    <2>1. /\ m.event.payment \in Payment /\ payJob[m.event.payment] \in Job
          /\ jobStatus[payJob[m.event.payment]] \in JobStatus
      BY DEF StripeEvent
    <2>2. PICK n : /\ n \in [handler : Handler, event : StripeEvent, seen : JobStatus \cup {"unread"}]
                   /\ n.event = m.event
                   /\ webhooks' = (webhooks \ {m}) \cup {n}
      BY <1>4, <2>1 DEF CheckoutJobRead
    <2>3. TypeOK'
      BY <1>4, <2>2 DEF CheckoutJobRead
    <2>4. SessionsWellFormed'
      BY <1>4, <2>2 DEF CheckoutJobRead
    <2> QED BY <2>3, <2>4
  <1> QED BY <1>1, <1>2, <1>3, <1>4 DEF WebhookStep

LEMMA OperatorIType ==
  ASSUME IType,
         \/ \E j \in Job : \/ AutoRemainderCheckoutFailed(j)
                           \/ \E h \in Handler : ApproveCompletionRead(h, j) \/ RecalculateRead(h, j)
                           \/ \E s \in JobStatus :
                                DispatchMoves(j, s) \/ \E h \in Handler : DispatchRead(h, j, s)
         \/ \E m \in approvals : ApproveCompletionDecide(m) \/ ApproveCompletionWrite(m)
         \/ \E m \in recalcs, owed \in PricedRemainder : RecalculateWrite(m, owed)
         \/ \E m \in moving : DispatchWrite(m)
         \/ Crash
  PROVE  IType'
  <1> USE DEF IType, TypeOK, payVars, stripeVars, requestVars
  <1>1. TypeOK'
    <2>1. ASSUME NEW j \in Job,
                 \/ AutoRemainderCheckoutFailed(j)
                 \/ \E h \in Handler : ApproveCompletionRead(h, j) \/ RecalculateRead(h, j)
          PROVE  TypeOK'
      <3>1. CASE AutoRemainderCheckoutFailed(j)
        BY <3>1 DEF AutoRemainderCheckoutFailed
      <3>2. ASSUME NEW h \in Handler, ApproveCompletionRead(h, j)
            PROVE  TypeOK'
        <4>1. PICK n : /\ n \in [handler : Handler, job : Job, owes : BOOLEAN, decided : BOOLEAN]
                       /\ approvals' = approvals \cup {n}
          BY <3>2 DEF ApproveCompletionRead
        <4> QED BY <3>2, <4>1 DEF ApproveCompletionRead
      <3>3. ASSUME NEW h \in Handler, RecalculateRead(h, j)
            PROVE  TypeOK'
        BY <3>3 DEF RecalculateRead
      <3> QED BY <2>1, <3>1, <3>2, <3>3
    <2>2. ASSUME NEW j \in Job, NEW s \in JobStatus, DispatchMoves(j, s)
          PROVE  TypeOK'
      BY <2>2 DEF DispatchMoves, Move
    <2>3. ASSUME NEW m \in approvals, ApproveCompletionWrite(m)
          PROVE  TypeOK'
      BY <2>3 DEF ApproveCompletionWrite, Overtaken, JobStatus
    <2>4. ASSUME NEW m \in recalcs, NEW owed \in PricedRemainder, RecalculateWrite(m, owed)
          PROVE  TypeOK'
      BY <2>4, PaymentsAssumption DEF RecalculateWrite
    <2>5. ASSUME NEW m \in approvals, ApproveCompletionDecide(m)
          PROVE  TypeOK'
      <3>1. PICK n : /\ n \in [handler : Handler, job : Job, owes : BOOLEAN, decided : BOOLEAN]
                     /\ approvals' = (approvals \ {m}) \cup {n}
        BY <2>5 DEF ApproveCompletionDecide
      <3> QED BY <2>5, <3>1 DEF ApproveCompletionDecide
    <2>6. ASSUME NEW h \in Handler, NEW j \in Job, NEW s \in JobStatus, DispatchRead(h, j, s)
          PROVE  TypeOK'
      <3>1. PICK n : /\ n \in MoveRequest
                     /\ moving' = moving \cup {n}
        BY <2>6 DEF DispatchRead, MoveRead, MoveRequest
      <3> QED BY <2>6, <3>1 DEF DispatchRead, MoveRead
    <2>7. ASSUME NEW m \in moving, DispatchWrite(m)
          PROVE  TypeOK'
      <3>1. m.job \in Job /\ m.edge[2] \in JobStatus
        BY UnlockedFacts, EdgeFacts DEF MoveRequest
      <3> QED BY <2>7, <3>1 DEF DispatchWrite, MoveWrite, Overtaken
    <2>8. CASE Crash
      BY <2>8 DEF Crash, MovesLost
    <2> QED BY <2>1, <2>2, <2>3, <2>4, <2>5, <2>6, <2>7, <2>8
  <1>2. UNCHANGED <<payStatus, payJob, charged, outbox, recorded>> /\ webhooks' \subseteq webhooks
    BY DEF AutoRemainderCheckoutFailed, ApproveCompletionRead, RecalculateRead, DispatchMoves, Move,
           DispatchRead, MoveRead, DispatchWrite, MoveWrite, ApproveCompletionDecide,
           ApproveCompletionWrite, RecalculateWrite, Crash, MovesLost
  <1>3. SessionsWellFormed'
    BY <1>2 DEF SessionsWellFormed
  <1> QED BY <1>1, <1>3

LEMMA NextIType == IType /\ [Next]_vars => IType'
  <1> SUFFICES ASSUME IType, [Next]_vars PROVE IType'
    OBVIOUS
  <1>1. ASSUME NEW j \in Job, NEW p \in Payment,
               \/ \E type \in PaymentType : CreateJobCheckoutSession(j, type, p)
               \/ AutoRemainderCheckout(j, p)
        PROVE  IType'
    BY <1>1, CheckoutIType
    DEF CreateJobCheckoutSession, AutoRemainderCheckout, requestVars, PaymentType
  <1>2. CASE UNCHANGED vars
    BY <1>2 DEF IType, TypeOK, SessionsWellFormed, vars, payVars, stripeVars, requestVars
  <1> QED BY <1>1, <1>2, StripeIType, WebhookIType, OperatorIType DEF Next

\* Every reachable state is well-formed: a session that is charged or has an
\* event belongs to a job, and a completed event has its charge.
THEOREM AlwaysIType == Spec => []IType
  BY InitIType, NextIType, PTL DEF Spec

\* No handler stores a status, payment or request outside its declared set.
THEOREM TypeCorrect == Spec => []TypeOK
  BY AlwaysIType, PTL DEF IType
-----------------------------------------------------------------------------
(* The ledger: payments, payment_events and the paid job statuses *)

\* What LedgerBacked says of one payment and of one job
PaymentBacked(p) ==
    /\ payStatus[p] = "paid_in_full" => p \in charged /\ Event(p, "completed") \in recorded
    /\ payStatus[p] = "refunded" => Event(p, "refunded") \in recorded
    /\ payStatus[p] = "payment_failed" => Event(p, "failed") \in recorded

JobBacked(j, type) ==
    jobStatus[j] = PaidStatus(type) =>
        \E p \in Payment : /\ payJob[p] = j
                           /\ payType[p] = type
                           /\ Event(p, "completed") \in recorded

LEMMA LedgerParts ==
  LedgerBacked <=> /\ \A p \in Payment : PaymentBacked(p)
                   /\ \A j \in Job, type \in {"full", "deposit"} : JobBacked(j, type)
  BY DEF LedgerBacked, PaymentBacked, JobBacked

\* The event a webhook is processing, and the session it is about
LEMMA WebhookEvent ==
  ASSUME IType, NEW m \in webhooks
  PROVE  /\ m.event.payment \in Payment
         /\ payJob[m.event.payment] \in Job
         /\ payType[m.event.payment] \in PaymentType
         /\ m.event = Event(m.event.payment, m.event.type)
         /\ m.event.type = "completed" => m.event.payment \in charged
  BY DEF IType, TypeOK, SessionsWellFormed, StripeEvent, Event

\* Nothing recorded or charged is taken back, and a session with a recorded
\* event keeps its job and type.
LEMMA HistoryGrows ==
  ASSUME IType, [Next]_vars
  PROVE  /\ recorded \subseteq recorded'
         /\ charged \subseteq charged'
         /\ \A p \in Payment : payJob[p] # NoJob => payJob'[p] = payJob[p] /\ payType'[p] = payType[p]
  <1> USE DEF IType, TypeOK, payVars, stripeVars, requestVars
  <1>1. ASSUME NEW j \in Job, NEW p \in Payment, NEW type \in PaymentType, InsertPayment(j, type, p)
        PROVE  /\ recorded' = recorded /\ charged' = charged
               /\ \A q \in Payment : payJob[q] # NoJob => payJob'[q] = payJob[q] /\ payType'[q] = payType[q]
    BY <1>1 DEF InsertPayment, SessionsWellFormed
  <1>2. ASSUME NEW m \in webhooks, WebhookCommit(m)
        PROVE  CommitEvent(m)
    BY <1>2 DEF WebhookCommit, HandleCheckoutCompleted, HandlePaymentIntentSucceeded,
                HandlePaymentIntentFailed, HandleChargeRefunded
  <1>3. ASSUME NEW p \in Payment,
               CustomerPays(p) \/ IntentSucceeds(p) \/ CardDeclined(p) \/ RefundInStripe(p)
        PROVE  UNCHANGED <<recorded, payJob, payType>> /\ charged \subseteq charged'
    BY <1>3 DEF CustomerPays, IntentSucceeds, CardDeclined, RefundInStripe, Emit
  <1>4. ASSUME NEW h \in Handler, NEW e \in outbox, NEW again \in BOOLEAN,
               StripeEventReceived(h, e, again)
        PROVE  UNCHANGED <<recorded, charged, payJob, payType>>
    BY <1>4 DEF StripeEventReceived
  <1>5. ASSUME \/ \E m \in webhooks : CheckoutJobRead(m) \/ StripeEventFailed(m)
               \/ \E j \in Job : \/ AutoRemainderCheckoutFailed(j)
                                 \/ \E h \in Handler : ApproveCompletionRead(h, j) \/ RecalculateRead(h, j)
                                 \/ \E s \in JobStatus :
                                      DispatchMoves(j, s) \/ \E h \in Handler : DispatchRead(h, j, s)
               \/ \E m \in approvals : ApproveCompletionDecide(m) \/ ApproveCompletionWrite(m)
               \/ \E m \in moving : DispatchWrite(m)
               \/ \E m \in recalcs, owed \in PricedRemainder : RecalculateWrite(m, owed)
               \/ Crash \/ UNCHANGED vars
        PROVE  UNCHANGED <<recorded, charged, payJob, payType>>
    BY <1>5
    DEF CheckoutJobRead, StripeEventFailed, AutoRemainderCheckoutFailed, ApproveCompletionRead,
        RecalculateRead, DispatchMoves, Move, DispatchRead, MoveRead, DispatchWrite, MoveWrite, ApproveCompletionDecide,
        ApproveCompletionWrite, RecalculateWrite, Crash, MovesLost, vars
  <1>6. ASSUME NEW m \in webhooks, CommitEvent(m)
        PROVE  recorded \subseteq recorded' /\ UNCHANGED <<charged, payJob, payType>>
    BY <1>6 DEF CommitEvent
  <1>7. CASE Next
    <2>1. CASE \E j \in Job, p \in Payment :
                  \/ \E type \in PaymentType : CreateJobCheckoutSession(j, type, p)
                  \/ AutoRemainderCheckout(j, p)
      BY <2>1, <1>1 DEF CreateJobCheckoutSession, AutoRemainderCheckout, PaymentType
    <2>2. CASE \E m \in webhooks : WebhookCommit(m)
      BY <2>2, <1>2, <1>6
    <2> QED BY <1>7, <2>1, <2>2, <1>3, <1>4, <1>5 DEF Next, WebhookStep
  <1> QED BY <1>5, <1>7

\* The only handlers that write jobs.status
LEMMA JobStatusWriters ==
  ASSUME [Next]_vars
  PROVE  \/ jobStatus' = jobStatus
         \/ \E m \in webhooks : HandleCheckoutCompleted(m)
         \/ \E m \in approvals : ApproveCompletionWrite(m)
         \/ \E j \in Job, s \in JobStatus : DispatchMoves(j, s)
         \/ \E m \in moving : DispatchWrite(m)
  <1>1. CASE \E j \in Job, p \in Payment :
                \/ \E type \in PaymentType : CreateJobCheckoutSession(j, type, p)
                \/ AutoRemainderCheckout(j, p)
    BY <1>1 DEF CreateJobCheckoutSession, AutoRemainderCheckout, InsertPayment
  <1>2. CASE \E p \in Payment :
                CustomerPays(p) \/ IntentSucceeds(p) \/ CardDeclined(p) \/ RefundInStripe(p)
    BY <1>2 DEF CustomerPays, IntentSucceeds, CardDeclined, RefundInStripe, Emit
  <1>3. CASE \/ \E h \in Handler, e \in outbox, again \in BOOLEAN : StripeEventReceived(h, e, again)
             \/ \E m \in webhooks : CheckoutJobRead(m) \/ StripeEventFailed(m)
    BY <1>3 DEF StripeEventReceived, CheckoutJobRead, StripeEventFailed
  <1>4. CASE \E m \in webhooks : WebhookCommit(m)
    BY <1>4 DEF WebhookCommit, HandlePaymentIntentSucceeded, HandlePaymentIntentFailed,
                HandleChargeRefunded
  <1>5. CASE \/ \E j \in Job : \/ AutoRemainderCheckoutFailed(j)
                               \/ \E h \in Handler : ApproveCompletionRead(h, j) \/ RecalculateRead(h, j)
                               \/ \E h \in Handler, s \in JobStatus : DispatchRead(h, j, s)
             \/ \E m \in recalcs, owed \in PricedRemainder : RecalculateWrite(m, owed)
             \/ \E m \in approvals : ApproveCompletionDecide(m)
             \/ Crash \/ UNCHANGED vars
    BY <1>5 DEF AutoRemainderCheckoutFailed, ApproveCompletionRead, RecalculateRead,
                RecalculateWrite, ApproveCompletionDecide, DispatchRead, MoveRead, Crash, MovesLost, vars
  <1> QED BY <1>1, <1>2, <1>3, <1>4, <1>5 DEF Next, WebhookStep

LEMMA LedgerStep == IType /\ LedgerBacked /\ [Next]_vars => LedgerBacked'
  <1> SUFFICES ASSUME IType, LedgerBacked, [Next]_vars PROVE LedgerBacked'
    OBVIOUS
  <1>1. /\ recorded \subseteq recorded' /\ charged \subseteq charged'
        /\ \A p \in Payment : payJob[p] # NoJob => payJob'[p] = payJob[p] /\ payType'[p] = payType[p]
    BY HistoryGrows
  \* A payment changes status by its insert or by the event that says so.
  <1>2. ASSUME NEW p \in Payment
        PROVE  \/ payStatus'[p] \in {payStatus[p], "checkout_created"}
               \/ /\ payStatus'[p] = "paid_in_full"
                  /\ p \in charged /\ Event(p, "completed") \in recorded'
               \/ payStatus'[p] = "refunded" /\ Event(p, "refunded") \in recorded'
               \/ payStatus'[p] = "payment_failed" /\ Event(p, "failed") \in recorded'
    <2> USE DEF IType, TypeOK
    <2>1. ASSUME NEW m \in webhooks, WebhookCommit(m)
          PROVE  <1>2!2
      BY <2>1, WebhookEvent
      DEF WebhookCommit, HandleCheckoutCompleted, HandlePaymentIntentSucceeded,
          HandlePaymentIntentFailed, HandleChargeRefunded, CommitEvent
    <2>2. ASSUME NEW j \in Job, NEW type \in PaymentType, NEW q \in Payment,
                 InsertPayment(j, type, q)
          PROVE  payStatus'[p] \in {payStatus[p], "checkout_created"}
      BY <2>2 DEF InsertPayment
    <2> QED
      BY <2>1, <2>2
      DEF Next, vars, payVars, CreateJobCheckoutSession, AutoRemainderCheckout, CustomerPays,
          IntentSucceeds, CardDeclined, RefundInStripe, Emit, StripeEventReceived,
          WebhookStep, CheckoutJobRead, StripeEventFailed,
          AutoRemainderCheckoutFailed, ApproveCompletionRead, ApproveCompletionDecide,
          ApproveCompletionWrite, RecalculateRead, RecalculateWrite, DispatchMoves, Move, DispatchRead, MoveRead,
          DispatchWrite, MoveWrite, Crash, MovesLost, PaymentType
  <1>3. \A p \in Payment : PaymentBacked(p)'
    BY <1>1, <1>2, LedgerParts DEF PaymentBacked
  \* A job becomes paid by the completed event of a session of that type.
  <1>4. ASSUME NEW j \in Job, NEW type \in {"full", "deposit"}, jobStatus'[j] = PaidStatus(type)
        PROVE  \/ jobStatus[j] = PaidStatus(type)
               \/ \E p \in Payment : /\ payJob[p] = j /\ payType[p] = type
                                     /\ Event(p, "completed") \in recorded'
    <2> USE DEF IType, TypeOK
    <2> DEFINE Backing == \E p \in Payment : /\ payJob[p] = j /\ payType[p] = type
                                             /\ Event(p, "completed") \in recorded'
    <2>1. ASSUME NEW m \in webhooks, HandleCheckoutCompleted(m)
          PROVE  jobStatus[j] = PaidStatus(type) \/ Backing
      <3>1. /\ m.event.payment \in Payment /\ payType[m.event.payment] \in PaymentType
            /\ m.event = Event(m.event.payment, "completed") /\ m.event \in recorded'
        BY <2>1, WebhookEvent DEF HandleCheckoutCompleted, CommitEvent
      <3>2. PaidStatus(payType[m.event.payment]) = PaidStatus(type) => payType[m.event.payment] = type
        BY <3>1 DEF PaidStatus, PaymentType
      <3>3. jobStatus'[j] = jobStatus[j] \/ /\ payJob[m.event.payment] = j
                                            /\ jobStatus'[j] = PaidStatus(payType[m.event.payment])
        BY <2>1 DEF HandleCheckoutCompleted
      <3> QED BY <1>4, <3>1, <3>2, <3>3
    <2>2. ASSUME NEW k \in Job, NEW s \in JobStatus, DispatchMoves(k, s)
          PROVE  jobStatus[j] = PaidStatus(type)
      BY <1>4, <2>2 DEF DispatchMoves, Move, DispatchEdges, PaidStatus
    <2>3. ASSUME NEW m \in approvals, ApproveCompletionWrite(m)
          PROVE  jobStatus[j] = PaidStatus(type)
      BY <1>4, <2>3 DEF ApproveCompletionWrite, PaidStatus
    <2>4. ASSUME NEW m \in moving, DispatchWrite(m)
          PROVE  jobStatus[j] = PaidStatus(type)
      <3>1. m.edge[2] \notin {"paid_in_full", "deposit_paid"}
        BY UnlockedFacts, EdgeFacts DEF MoveRequest
      <3> QED BY <1>4, <2>4, <3>1 DEF DispatchWrite, MoveWrite, PaidStatus
    <2>5. CASE jobStatus' = jobStatus
      BY <1>4, <2>5
    <2> HIDE DEF IType, TypeOK
    <2> QED BY <2>1, <2>2, <2>3, <2>4, <2>5, JobStatusWriters
  <1>5. ASSUME NEW j \in Job, NEW type \in {"full", "deposit"}
        PROVE  JobBacked(j, type)'
    <2> SUFFICES ASSUME jobStatus'[j] = PaidStatus(type)
                 PROVE  \E p \in Payment : /\ payJob'[p] = j /\ payType'[p] = type
                                          /\ Event(p, "completed") \in recorded'
      BY DEF JobBacked
    <2>1. \A p \in Payment : payJob[p] = j => payJob[p] # NoJob
      BY PaymentsAssumption
    <2>2. \E p \in Payment : /\ payJob[p] = j /\ payType[p] = type
                            /\ Event(p, "completed") \in recorded'
      BY <1>1, <1>4, LedgerParts DEF JobBacked
    <2> QED BY <1>1, <2>1, <2>2
  <1>6. LedgerBacked' <=> /\ \A p \in Payment : PaymentBacked(p)'
                          /\ \A j \in Job, type \in {"full", "deposit"} : JobBacked(j, type)'
    BY DEF LedgerBacked, PaymentBacked, JobBacked
  <1> QED BY <1>3, <1>5, <1>6

\* Payments and jobs are paid only on the strength of recorded Stripe events,
\* for every order and repetition of the events.
THEOREM LedgerBackedAlways == Spec => []LedgerBacked
  <1>1. Init => LedgerBacked
    BY DEF Init, LedgerBacked, PaidStatus
  <1> QED BY <1>1, LedgerStep, AlwaysIType, PTL DEF Spec

-----------------------------------------------------------------------------
(* Money first *)

\* An approval or a request of dispatch in progress is for a job that was
\* charged.
HandledJobsCharged == \A m \in approvals \cup moving : ChargedOnce(m.job)

LEMMA PaidBeforeDispatchStep ==
  IType /\ HandledJobsCharged /\ PaidBeforeDispatch /\ [Next]_vars
     => HandledJobsCharged' /\ PaidBeforeDispatch'
  <1> SUFFICES ASSUME IType, HandledJobsCharged, PaidBeforeDispatch, [Next]_vars
               PROVE  HandledJobsCharged' /\ PaidBeforeDispatch'
    OBVIOUS
  <1> USE DEF IType, TypeOK, HandledJobsCharged, PaidBeforeDispatch, payVars, stripeVars,
              requestVars, MoveRequest
  \* Charges stay, and the row of a charged session keeps its job.
  <1>1. \A j \in Job : ChargedOnce(j) => ChargedOnce(j)'
    <2>1. charged \subseteq charged' /\ \A p \in charged : payJob'[p] = payJob[p]
      BY HistoryGrows, PaymentsAssumption DEF SessionsWellFormed
    <2> QED BY <2>1 DEF ChargedOnce
  <1>2. ASSUME NEW m \in webhooks, HandleCheckoutCompleted(m)
        PROVE  HandledJobsCharged' /\ PaidBeforeDispatch'
    <2>1. /\ m.event.payment \in charged /\ m.event.payment \in Payment
          /\ payJob[m.event.payment] \in Job
      BY <1>2 DEF HandleCheckoutCompleted, SessionsWellFormed, StripeEvent
    <2>2. ChargedOnce(payJob[m.event.payment])
      BY <2>1 DEF ChargedOnce
    <2> QED BY <1>1, <1>2, <2>1, <2>2 DEF HandleCheckoutCompleted, CommitEvent
  <1>3. ASSUME NEW j \in Job, NEW s \in JobStatus, DispatchMoves(j, s)
        PROVE  HandledJobsCharged' /\ PaidBeforeDispatch'
    BY <1>1, <1>3 DEF DispatchMoves, Move, DispatchEdges
  <1>4. ASSUME NEW m \in approvals, ApproveCompletionWrite(m)
        PROVE  HandledJobsCharged' /\ PaidBeforeDispatch'
    BY <1>1, <1>4 DEF ApproveCompletionWrite
  <1>5. ASSUME NEW h \in Handler, NEW j \in Job, ApproveCompletionRead(h, j)
        PROVE  HandledJobsCharged' /\ PaidBeforeDispatch'
    BY <1>1, <1>5 DEF ApproveCompletionRead
  <1>6. ASSUME NEW m \in approvals, ApproveCompletionDecide(m)
        PROVE  HandledJobsCharged' /\ PaidBeforeDispatch'
    <2>1. \A n \in approvals' : n.job \in Job /\ ChargedOnce(n.job)
      BY <1>6 DEF ApproveCompletionDecide
    <2> QED BY <1>1, <1>6, <2>1 DEF ApproveCompletionDecide
  <1>7. ASSUME NEW h \in Handler, NEW j \in Job, NEW s \in JobStatus, DispatchRead(h, j, s)
        PROVE  HandledJobsCharged' /\ PaidBeforeDispatch'
    <2>1. jobStatus[j] \notin {"awaiting_payment", "cancelled"}
      <3>1. <<jobStatus[j], s>> \in DispatchEdges
        BY <1>7, UnlockedFacts DEF DispatchRead, MoveRead
      <3> QED BY <3>1 DEF DispatchEdges
    <2>2. \A n \in moving' : n.job \in Job /\ ChargedOnce(n.job)
      BY <1>7, <2>1 DEF DispatchRead, MoveRead
    <2> QED BY <1>1, <1>7, <2>2 DEF DispatchRead, MoveRead
  <1>8. ASSUME NEW m \in moving, DispatchWrite(m)
        PROVE  HandledJobsCharged' /\ PaidBeforeDispatch'
    BY <1>1, <1>8 DEF DispatchWrite, MoveWrite
  <1>9. CASE UNCHANGED jobStatus /\ approvals' \subseteq approvals /\ moving' \subseteq moving
    BY <1>1, <1>9
  <1> QED
    BY <1>2, <1>3, <1>4, <1>5, <1>6, <1>7, <1>8, <1>9
    DEF Next, vars, CreateJobCheckoutSession, AutoRemainderCheckout, InsertPayment, CustomerPays,
        IntentSucceeds, CardDeclined, RefundInStripe, Emit, StripeEventReceived,
        StripeEventFailed, WebhookStep, WebhookCommit, CheckoutJobRead, HandlePaymentIntentSucceeded, HandlePaymentIntentFailed,
        HandleChargeRefunded, CommitEvent, AutoRemainderCheckoutFailed, RecalculateRead,
        RecalculateWrite, Crash, MovesLost

LEMMA InitPaid == Init => HandledJobsCharged /\ PaidBeforeDispatch
  BY DEF Init, HandledJobsCharged, PaidBeforeDispatch

\* No job leaves awaiting_payment, other than by cancellation, before one of
\* its own sessions is charged.
THEOREM PaidBeforeDispatchAlways == Spec => []PaidBeforeDispatch
  BY InitPaid, PaidBeforeDispatchStep, AlwaysIType, PTL DEF Spec

-----------------------------------------------------------------------------
(* Closing a job *)

\* The rest of the price of job j was charged
PaidRest(j) ==
    \E p \in charged :
        payJob[p] = j /\ (payType[p] \in {"full", "remainder"} \/ FALSE \in PricedRemainder)

\* What keeps ClosedIsPaid inductive: a remainder the rules always leave is
\* gone only by a charged full payment, and an approval that found nothing
\* owed is right about it.
RemainderPaid ==
    /\ \A j \in Job : ~ remainder[j] => FALSE \in PricedRemainder \/ PaidRest(j)
    /\ \A m \in approvals : ~ m.owes => PaidRest(m.job)

LEMMA PaidRestStays ==
  ASSUME IType, [Next]_vars, NEW j \in Job, PaidRest(j)
  PROVE  PaidRest(j)'
  <1>1. charged \subseteq Payment /\ j # NoJob
    BY PaymentsAssumption DEF IType, TypeOK
  <1>2. PICK p \in Payment :
             /\ p \in charged /\ payJob[p] = j
             /\ payType[p] \in {"full", "remainder"} \/ FALSE \in PricedRemainder
    BY <1>1 DEF PaidRest
  <1>3. p \in charged' /\ payJob'[p] = j /\ payType'[p] = payType[p]
    BY <1>1, <1>2, HistoryGrows
  <1> QED BY <1>2, <1>3 DEF PaidRest

\* The only handlers that write remainder_amount_cents or add an approval
LEMMA RemainderWriters ==
  ASSUME [Next]_vars
  PROVE  /\ \/ remainder' = remainder
            \/ \E m \in webhooks : HandleCheckoutCompleted(m)
            \/ \E m \in recalcs, owed \in PricedRemainder : RecalculateWrite(m, owed)
         /\ \/ approvals' \subseteq approvals
            \/ \E h \in Handler, j \in Job : ApproveCompletionRead(h, j)
            \/ \E m \in approvals : ApproveCompletionDecide(m)
  <1>1. CASE \E j \in Job, p \in Payment :
                \/ \E type \in PaymentType : CreateJobCheckoutSession(j, type, p)
                \/ AutoRemainderCheckout(j, p)
    BY <1>1 DEF CreateJobCheckoutSession, AutoRemainderCheckout, InsertPayment, requestVars
  <1>2. CASE \E p \in Payment :
                CustomerPays(p) \/ IntentSucceeds(p) \/ CardDeclined(p) \/ RefundInStripe(p)
    BY <1>2 DEF CustomerPays, IntentSucceeds, CardDeclined, RefundInStripe, Emit, requestVars
  <1>3. CASE \/ \E h \in Handler, e \in outbox, again \in BOOLEAN : StripeEventReceived(h, e, again)
             \/ \E m \in webhooks : CheckoutJobRead(m) \/ StripeEventFailed(m)
    BY <1>3 DEF StripeEventReceived, CheckoutJobRead, StripeEventFailed
  <1>4. CASE \E m \in webhooks : WebhookCommit(m)
    BY <1>4 DEF WebhookCommit, HandleCheckoutCompleted, HandlePaymentIntentSucceeded,
                HandlePaymentIntentFailed, HandleChargeRefunded, CommitEvent
  <1>5. CASE \/ \E m \in approvals : ApproveCompletionDecide(m) \/ ApproveCompletionWrite(m)
             \/ \E j \in Job : \/ AutoRemainderCheckoutFailed(j)
                               \/ \E h \in Handler : ApproveCompletionRead(h, j) \/ RecalculateRead(h, j)
                               \/ \E s \in JobStatus :
                                    DispatchMoves(j, s) \/ \E h \in Handler : DispatchRead(h, j, s)
             \/ \E m \in moving : DispatchWrite(m)
    BY <1>5 DEF ApproveCompletionDecide, ApproveCompletionWrite, AutoRemainderCheckoutFailed, ApproveCompletionRead,
                RecalculateRead, DispatchMoves, Move, DispatchRead, MoveRead, DispatchWrite, MoveWrite,
                requestVars
  <1>6. CASE \/ \E m \in recalcs, owed \in PricedRemainder : RecalculateWrite(m, owed)
             \/ Crash \/ UNCHANGED vars
    BY <1>6 DEF RecalculateWrite, Crash, MovesLost, vars, requestVars
  <1> QED BY <1>1, <1>2, <1>3, <1>4, <1>5, <1>6 DEF Next, WebhookStep

LEMMA ClosedIsPaidStep ==
  IType /\ LedgerBacked /\ PaidBeforeDispatch /\ RemainderPaid /\ ClosedIsPaid /\ [Next]_vars
     => RemainderPaid' /\ ClosedIsPaid'
  <1> SUFFICES ASSUME IType, LedgerBacked, PaidBeforeDispatch, RemainderPaid, ClosedIsPaid,
                      [Next]_vars
               PROVE  RemainderPaid' /\ ClosedIsPaid'
    OBVIOUS
  <1>1. \A j \in Job : PaidRest(j) => PaidRest(j)'
    BY PaidRestStays
  <1>2. ASSUME NEW m \in webhooks, HandleCheckoutCompleted(m),
               payType[m.event.payment] \in {"full", "remainder"}
        PROVE  PaidRest(payJob[m.event.payment])
    BY <1>2, WebhookEvent DEF HandleCheckoutCompleted, PaidRest
  <1>3. ASSUME NEW j \in Job, ~ remainder'[j]
        PROVE  FALSE \in PricedRemainder \/ PaidRest(j)
    <2>1. CASE ~ remainder[j]
      BY <2>1 DEF RemainderPaid
    <2>2. ASSUME NEW m \in webhooks, HandleCheckoutCompleted(m), remainder[j]
          PROVE  PaidRest(j)
      BY <1>2, <1>3, <2>2 DEF HandleCheckoutCompleted, IType, TypeOK
    <2>3. ASSUME NEW m \in recalcs, NEW owed \in PricedRemainder, RecalculateWrite(m, owed),
                 remainder[j]
          PROVE  FALSE \in PricedRemainder
      BY <1>3, <2>3, PaymentsAssumption DEF RecalculateWrite, IType, TypeOK
    <2> QED BY <1>3, <2>1, <2>2, <2>3, RemainderWriters
  <1>4. ASSUME NEW m \in approvals', ~ m.owes
        PROVE  m.job \in Job /\ PaidRest(m.job)
    <2>1. CASE m \in approvals
      BY <1>4, <2>1 DEF RemainderPaid, IType, TypeOK
    <2>2. ASSUME NEW h \in Handler, NEW j \in Job, ApproveCompletionRead(h, j), m \notin approvals
          PROVE  m.job \in Job /\ PaidRest(m.job)
      <3>1. m = [handler |-> h, job |-> j, owes |-> remainder[j], decided |-> FALSE] /\ ChargedOnce(j)
        BY <1>4, <2>2 DEF ApproveCompletionRead, PaidBeforeDispatch
      <3>2. j = m.job /\ ~ remainder[j]
        BY <1>4, <3>1
      <3> QED BY <3>1, <3>2 DEF RemainderPaid, PaidRest, ChargedOnce
    <2>3. ASSUME NEW n \in approvals, ApproveCompletionDecide(n), m \notin approvals
          PROVE  m.job \in Job /\ PaidRest(m.job)
      <3>1. /\ m.job = n.job /\ n.job \in Job
            /\ ~ n.owes \/ FullyPaid(n.job)
        BY <1>4, <2>3 DEF ApproveCompletionDecide, IType, TypeOK
      <3>2. CASE ~ n.owes
        BY <3>1, <3>2 DEF RemainderPaid
      <3>3. CASE FullyPaid(n.job)
        <4>1. PICK p \in Payment : /\ payJob[p] = n.job /\ payType[p] = "full"
                                   /\ payStatus[p] = "paid_in_full"
          BY <3>3 DEF FullyPaid
        <4>2. p \in charged
          BY <4>1 DEF LedgerBacked
        <4> QED BY <3>1, <4>1, <4>2 DEF PaidRest
      <3> QED BY <3>1, <3>2, <3>3
    <2> QED BY <2>1, <2>2, <2>3, RemainderWriters
  <1>5. ASSUME NEW j \in Job, jobStatus'[j] = "closed_paid"
        PROVE  PaidRest(j)
    <2>1. CASE jobStatus[j] = "closed_paid"
      BY <2>1 DEF ClosedIsPaid, PaidRest
    <2>2. ASSUME NEW m \in webhooks, HandleCheckoutCompleted(m), jobStatus[j] # "closed_paid"
          PROVE  PaidRest(j)
      <3>1. /\ payJob[m.event.payment] = j
            /\ PaidStatus(payType[m.event.payment]) = "closed_paid"
        BY <1>5, <2>2 DEF HandleCheckoutCompleted, IType, TypeOK
      <3>2. payType[m.event.payment] = "remainder"
        BY <3>1, WebhookEvent DEF PaidStatus, PaymentType
      <3> QED BY <1>2, <2>2, <3>1, <3>2
    <2>3. ASSUME NEW m \in approvals, ApproveCompletionWrite(m), jobStatus[j] # "closed_paid"
          PROVE  PaidRest(j)
      <3>1. j = m.job /\ ~ m.owes
        BY <1>5, <2>3 DEF ApproveCompletionWrite, IType, TypeOK
      <3> QED BY <3>1 DEF RemainderPaid
    <2>4. ASSUME NEW k \in Job, NEW s \in JobStatus, DispatchMoves(k, s)
          PROVE  jobStatus[j] = "closed_paid"
      BY <1>5, <2>4 DEF DispatchMoves, Move, DispatchEdges, IType, TypeOK
    <2>5. ASSUME NEW m \in moving, DispatchWrite(m)
          PROVE  jobStatus[j] = "closed_paid"
      <3>1. m.edge[2] # "closed_paid"
        BY UnlockedFacts, EdgeFacts DEF IType, TypeOK, MoveRequest
      <3> QED BY <1>5, <2>5, <3>1 DEF DispatchWrite, MoveWrite, MoveRequest, IType, TypeOK
    <2> QED BY <1>5, <2>1, <2>2, <2>3, <2>4, <2>5, JobStatusWriters
  <1>6. RemainderPaid'
    BY <1>1, <1>3, <1>4 DEF RemainderPaid
  <1>7. ClosedIsPaid'
    BY <1>1, <1>5 DEF ClosedIsPaid, PaidRest
  <1> QED BY <1>6, <1>7

\* A closed job had the rest of its price charged, however its payments, its
\* recalculations and its approval interleave.
THEOREM ClosedIsPaidAlways == Spec => []ClosedIsPaid
  <1>1. Init => RemainderPaid /\ ClosedIsPaid
    <2> SUFFICES ASSUME Init PROVE RemainderPaid /\ ClosedIsPaid
      OBVIOUS
    <2>1. \A j \in Job : ~ remainder[j] => FALSE \in PricedRemainder
      BY PaymentsAssumption DEF Init
    <2>2. approvals = {} /\ \A j \in Job : jobStatus[j] # "closed_paid"
      BY DEF Init
    <2> QED BY <2>1, <2>2 DEF RemainderPaid, ClosedIsPaid
  <1> QED BY <1>1, ClosedIsPaidStep, AlwaysIType, LedgerBackedAlways, PaidBeforeDispatchAlways, PTL
          DEF Spec

-----------------------------------------------------------------------------
(* Transitions *)

\* Every status the webhook, approve-completion or dispatch stores is an edge of
\* the table, or deposit_paid to closed_paid, from the status it replaces,
\* unless that is no longer the status the handler had read.
THEOREM OnlyPaymentTransitionsAlways == Spec => OnlyPaymentTransitions
  <1> DEFINE Moves == \A j \in Job : \/ jobStatus'[j] = jobStatus[j]
                                     \/ PaymentMove(jobStatus[j], jobStatus'[j])
                                     \/ j \in overtaken'
  <1>1. IType /\ [Next]_vars => Moves
    <2> SUFFICES ASSUME IType, [Next]_vars PROVE Moves
      OBVIOUS
    <2>1. ASSUME NEW m \in webhooks, HandleCheckoutCompleted(m)
          PROVE  Moves
      BY <2>1 DEF HandleCheckoutCompleted, Overtaken, IType, TypeOK
    <2>2. ASSUME NEW m \in approvals, ApproveCompletionWrite(m)
          PROVE  Moves
      <3>1. /\ CanTransition("completion_reported", "awaiting_remainder_payment")
            /\ CanTransition("completion_reported", "closed_paid")
        BY DEF CanTransition, Transitions, JobStatus
      <3> QED BY <2>2, <3>1 DEF ApproveCompletionWrite, Overtaken, PaymentMove, IType, TypeOK
    <2>3. ASSUME NEW j \in Job, NEW s \in JobStatus, DispatchMoves(j, s)
          PROVE  Moves
      <3>1. \A edge \in DispatchEdges : CanTransition(edge[1], edge[2])
        BY EdgeFacts
      <3>2. CanTransition(jobStatus[j], s)
        BY <2>3, <3>1 DEF DispatchMoves, Move
      <3> QED BY <2>3, <3>2 DEF DispatchMoves, Move, PaymentMove, IType, TypeOK
    <2>4. ASSUME NEW m \in moving, DispatchWrite(m)
          PROVE  Moves
      <3>1. m.job \in Job /\ CanTransition(m.edge[1], m.edge[2])
        BY UnlockedFacts, EdgeFacts DEF IType, TypeOK, MoveRequest
      <3> QED BY <2>4, <3>1 DEF DispatchWrite, MoveWrite, Overtaken, PaymentMove, IType, TypeOK
    <2>5. CASE jobStatus' = jobStatus
      BY <2>5
    <2> HIDE DEF Moves
    <2> QED BY <2>1, <2>2, <2>3, <2>4, <2>5, JobStatusWriters
  <1> QED BY <1>1, AlwaysIType, PTL DEF Spec, OnlyPaymentTransitions

-----------------------------------------------------------------------------
(* Payments implements JobLifecycle: its own half is the webhook's moves and *)
(* the approvals, and the dispatch half is what it has taken from there.     *)

\* A handler carries one request at a time.
OneRequestEach ==
    /\ \A m, n \in webhooks : m.handler = n.handler => m = n
    /\ \A m, n \in approvals : m.handler = n.handler => m = n
    /\ \A m \in webhooks, n \in approvals : m.handler # n.handler

LEMMA OneRequestStep == IType /\ OneRequestEach /\ [Next]_vars => OneRequestEach'
  <1> SUFFICES ASSUME IType, OneRequestEach, [Next]_vars PROVE OneRequestEach'
    OBVIOUS
  <1> USE DEF IType, TypeOK, OneRequestEach, requestVars
  <1>1. ASSUME NEW h \in Handler, NEW e \in outbox, NEW again \in BOOLEAN,
               StripeEventReceived(h, e, again)
        PROVE  OneRequestEach'
    BY <1>1 DEF StripeEventReceived, HandlerFree
  <1>2. ASSUME NEW m \in webhooks, CheckoutJobRead(m)
        PROVE  OneRequestEach'
    <2>1. PICK n : n.handler = m.handler /\ webhooks' = (webhooks \ {m}) \cup {n}
      BY <1>2 DEF CheckoutJobRead
    <2> QED BY <1>2, <2>1 DEF CheckoutJobRead
  <1>3. ASSUME NEW h \in Handler, NEW j \in Job, ApproveCompletionRead(h, j)
        PROVE  OneRequestEach'
    <2>1. PICK n : n.handler = h /\ approvals' = approvals \cup {n}
      BY <1>3 DEF ApproveCompletionRead
    <2> QED BY <1>3, <2>1 DEF ApproveCompletionRead, HandlerFree
  <1>4. ASSUME NEW m \in approvals, ApproveCompletionDecide(m)
        PROVE  OneRequestEach'
    <2>1. PICK n : n.handler = m.handler /\ approvals' = (approvals \ {m}) \cup {n}
      BY <1>4 DEF ApproveCompletionDecide
    <2> QED BY <1>4, <2>1 DEF ApproveCompletionDecide
  <1>5. CASE webhooks' \subseteq webhooks /\ approvals' \subseteq approvals
    BY <1>5
  <1> QED
    BY <1>1, <1>2, <1>3, <1>4, <1>5
    DEF Next, vars, WebhookStep, WebhookCommit, HandleCheckoutCompleted, CommitEvent,
        HandlePaymentIntentSucceeded, HandlePaymentIntentFailed, HandleChargeRefunded,
        CreateJobCheckoutSession, InsertPayment, AutoRemainderCheckout,
        AutoRemainderCheckoutFailed, CustomerPays, IntentSucceeds, CardDeclined,
        RefundInStripe, Emit, StripeEventFailed, ApproveCompletionWrite, RecalculateRead,
        RecalculateWrite, DispatchMoves, DispatchRead, DispatchWrite, Crash

LEMMA AlwaysOneRequest == Spec => []OneRequestEach
  <1>1. Init => OneRequestEach
    BY DEF Init, OneRequestEach
  <1> QED BY <1>1, OneRequestStep, AlwaysIType, PTL DEF Spec

\* The requests of JobLifecycle that an event about to move its job and an
\* approval stand for
IsDue(m) == /\ m.event.type = "completed"
            /\ m.seen # "unread"
            /\ PaymentMove(m.seen, PaidStatus(payType[m.event.payment]))
EventSettle(m) == [handler |-> m.handler, job |-> payJob[m.event.payment], seen |-> m.seen]
ApprovalSettle(m) == [handler |-> m.handler, job |-> m.job, seen |-> "completion_reported"]

LEMMA SettlingIs ==
  Settling = {EventSettle(m) : m \in {n \in webhooks : IsDue(n)}}
                \cup {ApprovalSettle(m) : m \in approvals}
  BY DEF Settling, IsDue, EventSettle, ApprovalSettle

\* The session of an event keeps its job and its type, so what a request stands
\* for does not change while it is in progress.
LEMMA SettlingNext ==
  ASSUME IType, [Next]_vars
  PROVE  Settling' = {EventSettle(m) : m \in {n \in webhooks' : IsDue(n)}}
                        \cup {ApprovalSettle(m) : m \in approvals'}
  <1>1. \A m \in webhooks' : m.event \in outbox \cup {n.event : n \in webhooks}
    <2> USE DEF requestVars
    <2>1. ASSUME NEW m \in webhooks, CheckoutJobRead(m)
          PROVE  \A k \in webhooks' : k.event \in outbox \cup {n.event : n \in webhooks}
      BY <2>1 DEF CheckoutJobRead, IType, TypeOK
    <2>2. ASSUME NEW h \in Handler, NEW e \in outbox, NEW again \in BOOLEAN,
                 StripeEventReceived(h, e, again)
          PROVE  \A k \in webhooks' : k.event \in outbox \cup {n.event : n \in webhooks}
      BY <2>2 DEF StripeEventReceived
    <2>3. CASE webhooks' \subseteq webhooks
      BY <2>3
    <2> QED
      BY <2>1, <2>2, <2>3
      DEF Next, vars, WebhookStep, WebhookCommit, HandleCheckoutCompleted, CommitEvent,
          HandlePaymentIntentSucceeded, HandlePaymentIntentFailed, HandleChargeRefunded,
          CreateJobCheckoutSession, InsertPayment, AutoRemainderCheckout,
          AutoRemainderCheckoutFailed, CustomerPays, IntentSucceeds, CardDeclined,
          RefundInStripe, Emit, StripeEventFailed, ApproveCompletionRead,
          ApproveCompletionDecide, ApproveCompletionWrite, RecalculateRead, RecalculateWrite,
          DispatchMoves, DispatchRead, DispatchWrite, Crash
  <1>2. ASSUME NEW m \in webhooks'
        PROVE  /\ payJob'[m.event.payment] = payJob[m.event.payment]
               /\ payType'[m.event.payment] = payType[m.event.payment]
    <2>1. m.event.payment \in Payment /\ payJob[m.event.payment] \in Job
      <3>1. m.event \in StripeEvent /\ payJob[m.event.payment] \in Job
        BY <1>1 DEF IType, TypeOK, SessionsWellFormed
      <3> QED BY <3>1 DEF StripeEvent
    <2> QED BY <2>1, HistoryGrows, PaymentsAssumption
  <1>3. ASSUME NEW m \in webhooks'
        PROVE  (IsDue(m)' <=> IsDue(m)) /\ EventSettle(m)' = EventSettle(m)
    BY <1>2 DEF IsDue, EventSettle
  <1>4. Settling' = {EventSettle(m)' : m \in {n \in webhooks' : IsDue(n)'}}
                       \cup {ApprovalSettle(m) : m \in approvals'}
    BY DEF Settling, IsDue, EventSettle, ApprovalSettle
  <1>5. {n \in webhooks' : IsDue(n)'} = {n \in webhooks' : IsDue(n)}
    BY <1>3
  <1>6. {EventSettle(m)' : m \in {n \in webhooks' : IsDue(n)'}}
        = {EventSettle(m) : m \in {n \in webhooks' : IsDue(n)}}
    BY <1>3, <1>5
  <1> QED BY <1>4, <1>6

LEMMA SameTable ==
  /\ Lifecycle!JobStatus = JobStatus
  /\ Lifecycle!DispatchEdges = DispatchEdges
  /\ Lifecycle!UnlockedEdges = UnlockedEdges
  /\ \A s, t : Lifecycle!CanTransition(s, t) <=> CanTransition(s, t)
  BY DEF JobStatus, Lifecycle!JobStatus, CanTransition, Lifecycle!CanTransition, Transitions,
         Lifecycle!Transitions, DispatchEdges, Lifecycle!DispatchEdges, UnlockedEdges,
         Lifecycle!UnlockedEdges

\* The half Payments takes from JobLifecycle is the half there.
LEMMA SameMoves ==
  /\ \A j \in Job, s \in JobStatus : Move(j, s) => Lifecycle!Move(j, s)
  /\ \A h \in Handler, j \in Job, s \in JobStatus : MoveRead(h, j, s) => Lifecycle!MoveRead(h, j, s)
  /\ \A m \in moving : MoveWrite(m) => Lifecycle!MoveWrite(m)
  BY SameTable DEF Move, MoveRead, MoveWrite, Lifecycle!Move, Lifecycle!MoveRead, Lifecycle!MoveWrite

\* What the webhook and an approval store is an edge from what they read.
LEMMA SettleEdge ==
  /\ \A from \in JobStatus, type \in PaymentType : PaymentMove(from, PaidStatus(type)) =>
         <<from, PaidStatus(type)>> \in Lifecycle!SettleEdges
  /\ \A to \in {"awaiting_remainder_payment", "closed_paid"} :
         <<"completion_reported", to>> \in Lifecycle!SettleEdges
  <1>1. ASSUME NEW from \in JobStatus, NEW to \in {"paid_in_full", "deposit_paid", "closed_paid"},
               PaymentMove(from, to)
        PROVE  <<from, to>> \in Lifecycle!SettleEdges
    BY <1>1 DEF PaymentMove, CanTransition, Transitions, Lifecycle!SettleEdges
  <1>2. \A type \in PaymentType : PaidStatus(type) \in {"paid_in_full", "deposit_paid", "closed_paid"}
    BY DEF PaymentType, PaidStatus
  <1> QED BY <1>1, <1>2 DEF Lifecycle!SettleEdges

\* A request that reads its job joins Settling.
LEMMA Reads ==
  ASSUME IType, OneRequestEach, [Next]_vars,
         \/ \E m \in webhooks : CheckoutJobRead(m)
         \/ \E h \in Handler, j \in Job : ApproveCompletionRead(h, j)
  PROVE  /\ UNCHANGED <<jobStatus, moving>>
         /\ Settling' = Settling \/ \E h \in Handler, j \in Job : Lifecycle!SettleRead(h, j)
  <1> USE DEF IType, TypeOK
  <1>1. ASSUME NEW m \in webhooks, CheckoutJobRead(m)
        PROVE  /\ UNCHANGED <<jobStatus, moving>>
               /\ Settling' = Settling \/ \E h \in Handler, j \in Job : Lifecycle!SettleRead(h, j)
    <2> DEFINE j == payJob[m.event.payment]
               n == [m EXCEPT !.seen = jobStatus[j]]
    <2>1. /\ webhooks' = (webhooks \ {m}) \cup {n} /\ UNCHANGED <<approvals, jobStatus, moving>>
          /\ ~ IsDue(m)
      BY <1>1 DEF CheckoutJobRead, IsDue
    <2>2. /\ m.handler \in Handler /\ j \in Job /\ payType[m.event.payment] \in PaymentType
          /\ jobStatus[j] \in JobStatus
      BY WebhookEvent
    <2>3. n.handler = m.handler /\ n.event = m.event /\ n.seen = jobStatus[j]
      OBVIOUS
    <2> HIDE DEF j, n
    <2>4. CASE ~ IsDue(n)
      <3>1. {k \in webhooks' : IsDue(k)} = {k \in webhooks : IsDue(k)}
        BY <2>1, <2>4
      <3> QED BY <2>1, <3>1, SettlingIs, SettlingNext
    <2>5. CASE IsDue(n)
      <3>1. {k \in webhooks' : IsDue(k)} = {k \in webhooks : IsDue(k)} \cup {n}
        BY <2>1, <2>5
      <3>2. EventSettle(n) = [handler |-> m.handler, job |-> j, seen |-> jobStatus[j]]
        BY <2>3 DEF EventSettle, j
      <3>3. Settling' = Settling \cup {[handler |-> m.handler, job |-> j, seen |-> jobStatus[j]]}
        BY <2>1, <3>1, <3>2, SettlingIs, SettlingNext
      <3>4. \A k \in Settling : k.handler # m.handler
        BY <2>1, SettlingIs DEF EventSettle, ApprovalSettle, OneRequestEach
      <3>5. \E s \in JobStatus : <<jobStatus[j], s>> \in Lifecycle!SettleEdges
        <4>1. PaymentMove(jobStatus[j], PaidStatus(payType[m.event.payment]))
          BY <2>3, <2>5 DEF IsDue
        <4>2. PaidStatus(payType[m.event.payment]) \in JobStatus
          BY <2>2 DEF PaidStatus, PaymentType, JobStatus
        <4> QED BY <2>2, <4>1, <4>2, SettleEdge
      <3>6. Lifecycle!SettleRead(m.handler, j)
        BY <2>1, <3>3, <3>4, <3>5, SameTable DEF Lifecycle!SettleRead
      <3> QED BY <2>1, <2>2, <3>6
    <2> QED BY <2>4, <2>5
  <1>2. ASSUME NEW h \in Handler, NEW j \in Job, ApproveCompletionRead(h, j)
        PROVE  UNCHANGED <<jobStatus, moving>> /\ Lifecycle!SettleRead(h, j)
    <2>1. PICK n : /\ n.handler = h /\ n.job = j /\ approvals' = approvals \cup {n}
      BY <1>2 DEF ApproveCompletionRead
    <2>2. /\ webhooks' = webhooks /\ UNCHANGED <<jobStatus, moving>>
          /\ jobStatus[j] = "completion_reported"
      BY <1>2 DEF ApproveCompletionRead
    <2>3. ApprovalSettle(n) = [handler |-> h, job |-> j, seen |-> jobStatus[j]]
      BY <2>1, <2>2 DEF ApprovalSettle
    <2>4. Settling' = Settling \cup {[handler |-> h, job |-> j, seen |-> jobStatus[j]]}
      BY <2>1, <2>2, <2>3, SettlingIs, SettlingNext
    <2>5. \A k \in Settling : k.handler # h
      BY <1>2, SettlingIs DEF ApproveCompletionRead, HandlerFree, EventSettle, ApprovalSettle
    <2>6. \E s \in JobStatus : <<jobStatus[j], s>> \in Lifecycle!SettleEdges
      BY <2>2, SettleEdge DEF JobStatus
    <2> QED BY <2>2, <2>4, <2>5, <2>6, SameTable DEF Lifecycle!SettleRead
  <1> QED BY <1>1, <1>2

\* An event that ends leaves Settling, and no other request does.
LEMMA EventLeaves ==
  ASSUME IType, OneRequestEach, [Next]_vars, NEW m \in webhooks,
         webhooks' = webhooks \ {m}, approvals' = approvals
  PROVE  /\ IsDue(m) => /\ EventSettle(m) \in Settling
                        /\ Settling' = Settling \ {EventSettle(m)}
         /\ ~ IsDue(m) => Settling' = Settling
  <1>1. CASE ~ IsDue(m)
    <2>1. {k \in webhooks' : IsDue(k)} = {k \in webhooks : IsDue(k)}
      BY <1>1
    <2> QED BY <1>1, <2>1, SettlingIs, SettlingNext
  <1>2. CASE IsDue(m)
    <2>1. {k \in webhooks' : IsDue(k)} = {k \in webhooks : IsDue(k)} \ {m}
      OBVIOUS
    <2>2. \A k \in webhooks \ {m} : EventSettle(k) # EventSettle(m)
      BY DEF EventSettle, OneRequestEach
    <2>3. \A k \in approvals : ApprovalSettle(k) # EventSettle(m)
      BY DEF EventSettle, ApprovalSettle, OneRequestEach
    <2> QED BY <1>2, <2>1, <2>2, <2>3, SettlingIs, SettlingNext
  <1> QED BY <1>1, <1>2

\* An approval that writes leaves it.
LEMMA ApprovalLeaves ==
  ASSUME IType, OneRequestEach, [Next]_vars, NEW m \in approvals,
         approvals' = approvals \ {m}, webhooks' = webhooks
  PROVE  /\ ApprovalSettle(m) \in Settling
         /\ Settling' = Settling \ {ApprovalSettle(m)}
  <1>1. \A k \in approvals \ {m} : ApprovalSettle(k) # ApprovalSettle(m)
    BY DEF ApprovalSettle, OneRequestEach
  <1>2. \A k \in webhooks : EventSettle(k) # ApprovalSettle(m)
    BY DEF EventSettle, ApprovalSettle, OneRequestEach
  <1> QED BY <1>1, <1>2, SettlingIs, SettlingNext

\* What the webhook and an approval write, they write as JobLifecycle says.
LEMMA Writes ==
  ASSUME IType, OneRequestEach, [Next]_vars,
         \/ \E m \in webhooks : WebhookCommit(m) \/ StripeEventFailed(m)
         \/ \E m \in approvals : ApproveCompletionWrite(m)
  PROVE  /\ UNCHANGED moving
         /\ \/ UNCHANGED <<jobStatus, Settling>>
            \/ \E n \in Settling : \/ Lifecycle!SettleEnds(n)
                                   \/ \E s \in JobStatus : Lifecycle!SettleWrite(n, s)
  <1> USE DEF IType, TypeOK
  <1>1. ASSUME NEW m \in webhooks, HandleCheckoutCompleted(m)
        PROVE  /\ UNCHANGED moving
               /\ \/ UNCHANGED <<jobStatus, Settling>>
                  \/ \E n \in Settling, s \in JobStatus : Lifecycle!SettleWrite(n, s)
    <2> DEFINE to == PaidStatus(payType[m.event.payment])
    <2>1. /\ webhooks' = webhooks \ {m} /\ approvals' = approvals /\ moving' = moving
          /\ IF IsDue(m) THEN jobStatus' = [jobStatus EXCEPT ![payJob[m.event.payment]] = to]
                         ELSE jobStatus' = jobStatus
      BY <1>1 DEF HandleCheckoutCompleted, CommitEvent, IsDue
    <2>2. CASE ~ IsDue(m)
      BY <2>1, <2>2, EventLeaves
    <2>3. CASE IsDue(m)
      <3>1. /\ EventSettle(m) \in Settling /\ Settling' = Settling \ {EventSettle(m)}
        BY <2>1, <2>3, EventLeaves
      <3>2. to \in JobStatus /\ <<m.seen, to>> \in Lifecycle!SettleEdges
        <4>1. payType[m.event.payment] \in PaymentType
          BY WebhookEvent
        <4>2. m.seen \in JobStatus /\ PaymentMove(m.seen, to)
          BY <2>3 DEF IsDue
        <4> QED BY <4>1, <4>2, SettleEdge DEF PaidStatus, PaymentType, JobStatus
      <3> HIDE DEF to
      <3>3. Lifecycle!SettleWrite(EventSettle(m), to)
        BY <2>1, <2>3, <3>1, <3>2 DEF Lifecycle!SettleWrite, EventSettle
      <3> QED BY <2>1, <3>1, <3>2, <3>3
    <2> QED BY <2>2, <2>3
  <1>2. ASSUME NEW m \in webhooks,
               \/ StripeEventFailed(m) \/ HandlePaymentIntentSucceeded(m)
               \/ HandlePaymentIntentFailed(m) \/ HandleChargeRefunded(m)
        PROVE  /\ UNCHANGED moving
               /\ \/ UNCHANGED <<jobStatus, Settling>>
                  \/ \E n \in Settling : Lifecycle!SettleEnds(n)
    <2>1. /\ webhooks' = webhooks \ {m} /\ approvals' = approvals
          /\ UNCHANGED <<jobStatus, moving>>
      BY <1>2 DEF StripeEventFailed, HandlePaymentIntentSucceeded, HandlePaymentIntentFailed,
                  HandleChargeRefunded, CommitEvent
    <2>2. CASE ~ IsDue(m)
      BY <2>1, <2>2, EventLeaves
    <2>3. CASE IsDue(m)
      BY <2>1, <2>3, EventLeaves DEF Lifecycle!SettleEnds
    <2> QED BY <2>1, <2>2, <2>3
  <1>3. ASSUME NEW m \in approvals, ApproveCompletionWrite(m)
        PROVE  /\ UNCHANGED moving
               /\ \E n \in Settling, s \in JobStatus : Lifecycle!SettleWrite(n, s)
    <2>1. PICK s \in {"awaiting_remainder_payment", "closed_paid"} :
             jobStatus' = [jobStatus EXCEPT ![m.job] = s]
      BY <1>3 DEF ApproveCompletionWrite
    <2>2. approvals' = approvals \ {m} /\ webhooks' = webhooks /\ moving' = moving
      BY <1>3 DEF ApproveCompletionWrite
    <2>3. /\ ApprovalSettle(m) \in Settling /\ Settling' = Settling \ {ApprovalSettle(m)}
      BY <2>2, ApprovalLeaves
    <2>4. Lifecycle!SettleWrite(ApprovalSettle(m), s)
      BY <2>1, <2>3, SettleEdge DEF Lifecycle!SettleWrite, ApprovalSettle
    <2> QED BY <2>2, <2>3, <2>4 DEF JobStatus
  <1> QED BY <1>1, <1>2, <1>3 DEF WebhookCommit

\* A step that neither reads nor ends a request leaves Settling alone.
LEMMA SettlingKept ==
  ASSUME IType, [Next]_vars,
         {m \in webhooks' : IsDue(m)} = {m \in webhooks : IsDue(m)},
         {ApprovalSettle(m) : m \in approvals'} = {ApprovalSettle(m) : m \in approvals}
  PROVE  Settling' = Settling
  BY SettlingIs, SettlingNext

LEMMA LifecycleStep ==
  IType /\ OneRequestEach /\ [Next]_vars
  => [Lifecycle!LifecycleNext]_(Lifecycle!lifecycleVars)
  <1> SUFFICES ASSUME IType, OneRequestEach, [Next]_vars
               PROVE  Lifecycle!LifecycleNext \/ UNCHANGED <<jobStatus, moving, Settling>>
    BY DEF Lifecycle!lifecycleVars
  <1>1. ASSUME \/ \E m \in webhooks : CheckoutJobRead(m)
               \/ \E h \in Handler, j \in Job : ApproveCompletionRead(h, j)
        PROVE  Lifecycle!LifecycleNext \/ UNCHANGED <<jobStatus, moving, Settling>>
    BY <1>1, Reads DEF Lifecycle!LifecycleNext, Lifecycle!PaymentsHalf
  <1>2. ASSUME \/ \E m \in webhooks : WebhookCommit(m) \/ StripeEventFailed(m)
               \/ \E m \in approvals : ApproveCompletionWrite(m)
        PROVE  Lifecycle!LifecycleNext \/ UNCHANGED <<jobStatus, moving, Settling>>
    BY <1>2, Writes, SameTable DEF Lifecycle!LifecycleNext, Lifecycle!PaymentsHalf
  <1>3. ASSUME \/ \E j \in Job, s \in JobStatus :
                     DispatchMoves(j, s) \/ \E h \in Handler : DispatchRead(h, j, s)
               \/ \E m \in moving : DispatchWrite(m)
        PROVE  Lifecycle!LifecycleNext
    <2>1. UNCHANGED <<webhooks, approvals>>
      BY <1>3 DEF DispatchMoves, DispatchRead, DispatchWrite
    <2>2. Settling' = Settling
      BY <2>1, SettlingKept
    <2>3. Lifecycle!DispatchHalf
      BY <1>3, SameMoves, SameTable
      DEF Lifecycle!DispatchHalf, DispatchMoves, DispatchRead, DispatchWrite
    <2> QED BY <2>2, <2>3 DEF Lifecycle!LifecycleNext
  <1>4. ASSUME NEW h \in Handler, NEW e \in outbox, NEW again \in BOOLEAN,
               StripeEventReceived(h, e, again)
        PROVE  UNCHANGED <<jobStatus, moving, Settling>>
    <2>1. {m \in webhooks' : IsDue(m)} = {m \in webhooks : IsDue(m)}
      BY <1>4 DEF StripeEventReceived, IsDue
    <2> QED BY <1>4, <2>1, SettlingKept DEF StripeEventReceived
  <1>5. ASSUME NEW m \in approvals, ApproveCompletionDecide(m)
        PROVE  UNCHANGED <<jobStatus, moving, Settling>>
    <2>1. PICK n : /\ n.handler = m.handler /\ n.job = m.job
                   /\ approvals' = (approvals \ {m}) \cup {n}
      BY <1>5 DEF ApproveCompletionDecide, IType, TypeOK
    <2>2. ApprovalSettle(n) = ApprovalSettle(m)
      BY <2>1 DEF ApprovalSettle
    <2>3. {ApprovalSettle(k) : k \in approvals'} = {ApprovalSettle(k) : k \in approvals}
      BY <2>1, <2>2
    <2> QED BY <1>5, <2>3, SettlingKept DEF ApproveCompletionDecide
  <1>6. CASE Crash
    <2>1. Settling' = {}
      BY <1>6 DEF Crash, Settling
    <2> QED BY <1>6, <2>1 DEF Crash, MovesLost, Lifecycle!MovesLost, Lifecycle!SettlesLost,
                              Lifecycle!LifecycleNext
  <1>7. ASSUME UNCHANGED <<jobStatus, moving, webhooks, approvals>>
        PROVE  UNCHANGED <<jobStatus, moving, Settling>>
    BY <1>7, SettlingKept
  <1> QED
    BY <1>1, <1>2, <1>3, <1>4, <1>5, <1>6, <1>7
    DEF Next, vars, requestVars, WebhookStep, CreateJobCheckoutSession, InsertPayment,
        AutoRemainderCheckout, AutoRemainderCheckoutFailed, CustomerPays, IntentSucceeds,
        CardDeclined, RefundInStripe, Emit, RecalculateRead, RecalculateWrite

\* Payments implements JobLifecycle: whatever sessions, prices and events there
\* are, it moves a job the way Dispatch lets it move, one request per handler, so
\* that what is proved of Dispatch is not about payments of its own making.
THEOREM SettlesKept == Spec => SettlesAsPromised
  <1>1. Init => Lifecycle!LifecycleInit
    BY SameTable DEF Init, Lifecycle!LifecycleInit, Settling, JobStatus
  <1> QED BY <1>1, LifecycleStep, AlwaysIType, AlwaysOneRequest, PTL
          DEF Spec, SettlesAsPromised, Lifecycle!LifecycleSpec

-----------------------------------------------------------------------------
(* How far the two refuted claims fail.  The runs payments_lost and          *)
(* payments_recalculate show that they do; here is all it takes.             *)

\* The event of a paid session is with Stripe, in the server, or stored.
Accounted(p) ==
    \/ Event(p, "completed") \in outbox \cup recorded
    \/ \E m \in webhooks : m.event = Event(p, "completed")

\* The claim ChargeIsRecorded, as far as it goes: the event of a charge is there
\* when the customer is charged and is lost only by a crash, or by processing
\* that fails, after the 200.  No look-up of handleStripeEvent drops it.
ChargeLostOnlyAfterAnswer ==
    [][\A p \in charged' :
          \/ Accounted(p)'
          \/ p \in charged /\ ~ Accounted(p)
          \/ Crash
          \/ \E m \in webhooks : m.event = Event(p, "completed") /\ StripeEventFailed(m)]_vars

\* However events are repeated and reordered, only what comes after the answer
\* loses a charge.
THEOREM ChargeLostOnlyAfterAnswerAlways == Spec => ChargeLostOnlyAfterAnswer
  <1> DEFINE Bound == \A p \in charged' :
                \/ Accounted(p)'
                \/ p \in charged /\ ~ Accounted(p)
                \/ Crash
                \/ \E m \in webhooks : m.event = Event(p, "completed") /\ StripeEventFailed(m)
  <1>1. IType /\ [Next]_vars => Bound
    <2> SUFFICES ASSUME IType, [Next]_vars, NEW p \in charged', p \in charged => Accounted(p)
                 PROVE  \/ Accounted(p)'
                        \/ Crash
                        \/ \E m \in webhooks :
                               m.event = Event(p, "completed") /\ StripeEventFailed(m)
      OBVIOUS
    <2> DEFINE paid == Event(p, "completed")
    <2> USE DEF payVars, stripeVars, requestVars
    <2>1. ASSUME NEW q \in Payment,
                 CustomerPays(q) \/ IntentSucceeds(q) \/ CardDeclined(q) \/ RefundInStripe(q)
          PROVE  Accounted(p)'
      <3>1. outbox \subseteq outbox' /\ recorded' = recorded /\ webhooks' = webhooks
        BY <2>1 DEF CustomerPays, IntentSucceeds, CardDeclined, RefundInStripe, Emit
      <3>2. p \in charged \/ Event(p, "completed") \in outbox'
        BY <2>1 DEF CustomerPays, IntentSucceeds, CardDeclined, RefundInStripe, Emit
      <3> QED BY <3>1, <3>2 DEF Accounted, Event
    <2>2. ASSUME charged' = charged, outbox \subseteq outbox', recorded \subseteq recorded',
                 \A m \in webhooks : \/ \E n \in webhooks' : n.event = m.event
                                     \/ m.event \in recorded'
          PROVE  Accounted(p)'
      BY <2>2 DEF Accounted, Event
    <2>3. ASSUME NEW h \in Handler, NEW e \in outbox, NEW again \in BOOLEAN,
                 StripeEventReceived(h, e, again)
          PROVE  Accounted(p)'
      <3>1. charged' = charged /\ recorded' = recorded /\ webhooks \subseteq webhooks'
        BY <2>3 DEF StripeEventReceived
      <3>2. CASE e # paid
        <4>1. paid \in outbox => paid \in outbox'
          BY <2>3, <3>2 DEF StripeEventReceived
        <4> QED BY <3>1, <4>1 DEF Accounted, Event
      <3>3. CASE e = paid
        <4>1. paid \in recorded
              \/ [handler |-> h, event |-> paid, seen |-> "unread"] \in webhooks'
          BY <2>3, <3>3 DEF StripeEventReceived, Event
        <4>2. CASE paid \in recorded
          BY <3>1, <4>2 DEF Accounted, Event
        <4>3. ASSUME [handler |-> h, event |-> paid, seen |-> "unread"] \in webhooks'
              PROVE  \E m \in webhooks' : m.event = paid
          BY <4>3
        <4> QED BY <4>1, <4>2, <4>3 DEF Accounted, Event
      <3> QED BY <3>2, <3>3
    <2>4. ASSUME NEW m \in webhooks, CheckoutJobRead(m)
          PROVE  Accounted(p)'
      <3>1. PICK n \in webhooks' : n.event = m.event /\ webhooks' = (webhooks \ {m}) \cup {n}
        BY <2>4 DEF CheckoutJobRead, IType, TypeOK
      <3> QED BY <2>2, <2>4, <3>1 DEF CheckoutJobRead
    <2>5. ASSUME NEW m \in webhooks, WebhookCommit(m)
          PROVE  Accounted(p)'
      <3>1. CommitEvent(m)
        BY <2>5 DEF WebhookCommit, HandleCheckoutCompleted, HandlePaymentIntentSucceeded,
                    HandlePaymentIntentFailed, HandleChargeRefunded
      <3> QED BY <2>2, <3>1 DEF CommitEvent
    <2>6. ASSUME NEW m \in webhooks, StripeEventFailed(m), m.event # paid
          PROVE  Accounted(p)'
      <3>1. charged' = charged /\ outbox' = outbox /\ recorded' = recorded
            /\ webhooks' = webhooks \ {m}
        BY <2>6 DEF StripeEventFailed
      <3> QED BY <2>6, <3>1 DEF Accounted, Event
    <2>7. CASE UNCHANGED <<charged, outbox, recorded, webhooks>>
      BY <2>2, <2>7
    <2> QED
      BY <2>1, <2>3, <2>4, <2>5, <2>6, <2>7
      DEF Next, vars, WebhookStep, CreateJobCheckoutSession, InsertPayment,
          AutoRemainderCheckout, AutoRemainderCheckoutFailed, ApproveCompletionRead,
          ApproveCompletionDecide, ApproveCompletionWrite, RecalculateRead, RecalculateWrite,
          DispatchMoves, DispatchRead, DispatchWrite
  <1>2. IType /\ [Next]_vars => [Bound]_vars
    BY <1>1
  <1> QED BY <1>2, AlwaysIType, PTL DEF Spec, ChargeLostOnlyAfterAnswer

\* The claim PaidPriceIsKept, as far as it goes: while a job is in one of the
\* three statuses recalculate refuses and no recalculation read it earlier, none
\* gets under way and the job owes no remainder it did not owe before.
PriceKeptWhilePaid ==
    [][\A j \in Job :
          /\ jobStatus[j] \in {"paid_in_full", "deposit_paid", "closed_paid"}
          /\ \A m \in recalcs : m.job # j
          => /\ \A m \in recalcs' : m.job # j
             /\ remainder'[j] => remainder[j]]_vars

\* The guard of recalculate (README.md:243) protects a paid job until it leaves
\* its status or if a recalculation began before it was paid.
THEOREM PriceKeptWhilePaidAlways == Spec => PriceKeptWhilePaid
  <1> DEFINE Bound == \A j \in Job :
                /\ jobStatus[j] \in {"paid_in_full", "deposit_paid", "closed_paid"}
                /\ \A m \in recalcs : m.job # j
                => /\ \A m \in recalcs' : m.job # j
                   /\ remainder'[j] => remainder[j]
  <1>1. IType /\ [Next]_vars => Bound
    <2> SUFFICES ASSUME IType, [Next]_vars PROVE Bound
      OBVIOUS
    <2> USE DEF IType, TypeOK, payVars, stripeVars, requestVars
    <2>1. ASSUME NEW h \in Handler, NEW k \in Job, RecalculateRead(h, k)
          PROVE  Bound
      BY <2>1 DEF RecalculateRead
    <2>2. ASSUME NEW m \in recalcs, NEW owed \in PricedRemainder, RecalculateWrite(m, owed)
          PROVE  Bound
      BY <2>2 DEF RecalculateWrite
    <2>3. ASSUME NEW m \in webhooks, WebhookCommit(m)
          PROVE  Bound
      <3>1. recalcs' = recalcs
        BY <2>3 DEF WebhookCommit, HandleCheckoutCompleted, HandlePaymentIntentSucceeded,
                    HandlePaymentIntentFailed, HandleChargeRefunded, CommitEvent
      <3>2. remainder' = remainder
            \/ remainder' = [remainder EXCEPT ![payJob[m.event.payment]] = FALSE]
        BY <2>3 DEF WebhookCommit, HandleCheckoutCompleted, HandlePaymentIntentSucceeded,
                    HandlePaymentIntentFailed, HandleChargeRefunded
      <3> QED BY <3>1, <3>2
    <2>4. CASE remainder' = remainder /\ recalcs' \subseteq recalcs
      BY <2>4
    <2> HIDE DEF Bound
    <2> QED
      BY <2>1, <2>2, <2>3, <2>4
      DEF Next, vars, WebhookStep, CheckoutJobRead, CreateJobCheckoutSession, InsertPayment,
          AutoRemainderCheckout, AutoRemainderCheckoutFailed, CustomerPays, IntentSucceeds,
          CardDeclined, RefundInStripe, Emit, StripeEventReceived, StripeEventFailed,
          ApproveCompletionRead, ApproveCompletionDecide, ApproveCompletionWrite,
          DispatchMoves, DispatchRead, DispatchWrite, Crash
  <1>2. IType /\ [Next]_vars => [Bound]_vars
    BY <1>1
  <1> QED BY <1>2, AlwaysIType, PTL DEF Spec, PriceKeptWhilePaid
=============================================================================
