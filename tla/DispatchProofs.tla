--------------------------- MODULE DispatchProofs ---------------------------
(***************************************************************************)
(* Proofs about Dispatch, for every set of jobs, contractors and rows.     *)
(* The inductive invariant is built in layers: types and well-formed rows  *)
(* (IType), one active holder (OneActiveAssignment), agreement of the job  *)
(* with its holder (HolderMatchesJobStatus), bookings (NoDoubleBooking).   *)
(***************************************************************************)
EXTENDS Dispatch, TLAPS

\* A row's columns are filled together, and whatever names a row in a request
\* or in a pending send names an inserted one.
RowsWellFormed ==
    /\ \A r \in Row : /\ dispatches[r] = "none" <=> rowJob[r] = NoJob
                      /\ assignments[r] = "none" <=> rowJob[r] = NoJob
    /\ \A m \in smsRead : rowJob[m.row] \in Job
    /\ \A r \in texting : rowJob[r] \in Job

\* Whatever waits for its write was approved on what its handler read.
RequestsApproved ==
    /\ \A m \in adminRead : CanTransition(m.seen, m.target)
    /\ \A m \in smsRead : m.held \in RuleAssignment(m.command) /\ m.seen \in RuleJob(m.command)

IType == TypeOK /\ RowsWellFormed

-----------------------------------------------------------------------------
(* Type correctness *)

LEMMA InitIType == Init => IType
  BY DispatchAssumption DEF Init, IType, TypeOK, RowsWellFormed, JobStatus

LEMMA DispatchIType ==
  ASSUME NEW j \in Job, NEW c \in Contractor, NEW r \in Row, IType,
         DispatchJobToContractor(j, c, r)
  PROVE  IType'
  <1>1. TypeOK'
    BY DEF IType, TypeOK, DispatchJobToContractor, DispatchStatus, AssignmentStatus,
           JobStatus, readVars
  <1>2. RowsWellFormed'
    BY DispatchAssumption DEF IType, TypeOK, RowsWellFormed, DispatchJobToContractor,
           readVars, SmsRequest
  <1> QED BY <1>1, <1>2 DEF IType

LEMMA DispatchTextIType ==
  ASSUME NEW r \in Row, IType, DispatchTextSent(r) \/ DispatchTextFailed(r)
  PROVE  IType'
  <1> USE DispatchAssumption DEF IType, TypeOK, RowsWellFormed, rowVars, readVars
  <1>1. CASE DispatchTextSent(r)
    BY <1>1 DEF DispatchTextSent
  <1>2. CASE DispatchTextFailed(r)
    BY <1>2 DEF DispatchTextFailed, DispatchStatus
  <1> QED BY <1>1, <1>2

LEMMA CancelIType ==
  ASSUME NEW j \in Job, IType,
         CancelJob(j) \/ \E r \in Row : CancelContractorAssignment(j, r)
  PROVE  IType'
  <1> USE DispatchAssumption
      DEF IType, TypeOK, RowsWellFormed, rowVars, readVars, ActiveRows, ActiveStatus,
          DispatchStatus, AssignmentStatus, JobStatus
  <1>1. CASE CancelJob(j)
    BY <1>1 DEF CancelJob
  <1>2. ASSUME NEW r \in Row, CancelContractorAssignment(j, r)
        PROVE  IType'
    BY <1>2 DEF CancelContractorAssignment
  <1> QED BY <1>1, <1>2

LEMMA AdminIType ==
  ASSUME IType,
         \/ \E h \in Handler, j \in Job, t \in {"ready_for_dispatch", "work_completed"} :
               AdminJobRead(h, j, t)
         \/ \E m \in adminRead : AdminJobWrite(m)
  PROVE  IType'
  <1> USE DEF IType, TypeOK, RowsWellFormed, rowVars, readVars, AdminRequest, JobStatus
  <1>1. ASSUME NEW h \in Handler, NEW j \in Job,
               NEW t \in {"ready_for_dispatch", "work_completed"}, AdminJobRead(h, j, t)
        PROVE  IType'
    BY <1>1 DEF AdminJobRead
  <1>2. ASSUME NEW m \in adminRead, AdminJobWrite(m)
        PROVE  IType'
    BY <1>2 DEF AdminJobWrite
  <1> QED BY <1>1, <1>2

\* What a command's write can store
LEMMA CommandTargets ==
  ASSUME NEW command \in SmsCommand, command # "OTW"
  PROVE  /\ TargetJobStatus(command) \in JobStatus
         /\ TargetAssignment(command) \in {"accepted", "declined", "completed"}
         /\ command # "DONE" => TargetAssignment(command) \in DispatchStatus
  BY DEF SmsCommand, TargetJobStatus, TargetAssignment, JobStatus, DispatchStatus

LEMMA SmsIType ==
  ASSUME IType,
         \/ \E h \in Handler, c \in Contractor, command \in SmsCommand, r \in Row :
               SmsCommandRead(h, c, command, r)
         \/ \E m \in smsRead : SmsCommandWrite(m) \/ SmsOtwWrite(m)
  PROVE  IType'
  <1> USE DEF IType, TypeOK, RowsWellFormed, rowVars, readVars, SmsRequest
  <1>1. ASSUME NEW h \in Handler, NEW c \in Contractor, NEW command \in SmsCommand,
               NEW r \in Row, SmsCommandRead(h, c, command, r)
        PROVE  IType'
    <2>1. rowJob[r] \in Job /\ assignments[r] \in ActiveStatus
      BY <1>1 DEF SmsCommandRead, Routed, RoutableRows, ActiveStatus
    <2> QED BY <1>1, <2>1 DEF SmsCommandRead
  <1>2. ASSUME NEW m \in smsRead, SmsCommandWrite(m)
        PROVE  IType'
    <2>1. /\ m.command \in SmsCommand /\ m.command # "OTW" /\ m.row \in Row
          /\ rowJob[m.row] \in Job
      BY <1>2 DEF SmsCommandWrite
    <2>2. TypeOK'
      BY <1>2, <2>1, CommandTargets DEF SmsCommandWrite, AssignmentStatus
    <2>3. RowsWellFormed'
      BY <1>2, <2>1, CommandTargets, DispatchAssumption DEF SmsCommandWrite, DispatchStatus
    <2> QED BY <2>2, <2>3
  <1>3. ASSUME NEW m \in smsRead, SmsOtwWrite(m)
        PROVE  IType'
    BY <1>3 DEF SmsOtwWrite
  <1> QED BY <1>1, <1>2, <1>3

LEMMA PaymentIType ==
  ASSUME IType,
         \/ \E h \in Handler, j \in Job : PaymentRead(h, j)
         \/ \E m \in settling : PaymentEnds(m) \/ \E s \in JobStatus : PaymentWrite(m, s)
  PROVE  IType'
  <1> USE DEF IType, TypeOK, RowsWellFormed, rowVars, readVars, SettleRequest
  <1>1. ASSUME NEW h \in Handler, NEW j \in Job, PaymentRead(h, j)
        PROVE  IType'
    BY <1>1 DEF PaymentRead, SettleRead
  <1>2. ASSUME NEW m \in settling, NEW s \in JobStatus, PaymentWrite(m, s)
        PROVE  IType'
    BY <1>2 DEF PaymentWrite, SettleWrite
  <1>3. ASSUME NEW m \in settling, PaymentEnds(m)
        PROVE  IType'
    BY <1>3 DEF PaymentEnds, SettleEnds
  <1> QED BY <1>1, <1>2, <1>3

LEMMA EnvironmentIType ==
  ASSUME IType,
         \/ \E c \in Contractor : SetContractorActive(c) \/ SetContractorInactive(c)
         \/ Crash
  PROVE  IType'
  BY DEF IType, TypeOK, RowsWellFormed, SetContractorActive, SetContractorInactive,
         Crash, SettlesLost, rowVars, readVars, SmsRequest, AdminRequest

LEMMA NextIType == IType /\ [Next]_vars => IType'
  <1> SUFFICES ASSUME IType, [Next]_vars PROVE IType'
    OBVIOUS
  <1>1. CASE Next
    BY <1>1, DispatchIType, DispatchTextIType, CancelIType, AdminIType, SmsIType,
       PaymentIType, EnvironmentIType DEF Next
  <1>2. CASE UNCHANGED vars
    BY <1>2 DEF IType, TypeOK, RowsWellFormed, vars, rowVars, readVars
  <1> QED BY <1>1, <1>2

THEOREM AlwaysIType == Spec => []IType
  BY InitIType, NextIType, PTL DEF Spec

\* Every reachable state of every instance has the declared types: no handler
\* stores a status, row or request outside them.
THEOREM TypeCorrect == Spec => []TypeOK
  BY AlwaysIType, PTL DEF IType

-----------------------------------------------------------------------------
(* Approval.  A write whose rows are still as they were read is allowed now. *)

LEMMA RequestsApprovedStep ==
  IType /\ RequestsApproved /\ [Next]_vars => RequestsApproved'
  <1> SUFFICES ASSUME IType, RequestsApproved, [Next]_vars PROVE RequestsApproved'
    OBVIOUS
  <1> USE DEF IType, TypeOK, RequestsApproved, rowVars, readVars
  <1>1. ASSUME NEW h \in Handler, NEW j \in Job,
               NEW t \in {"ready_for_dispatch", "work_completed"}, AdminJobRead(h, j, t)
        PROVE  RequestsApproved'
    BY <1>1 DEF AdminJobRead
  <1>2. ASSUME NEW h \in Handler, NEW c \in Contractor, NEW command \in SmsCommand,
               NEW r \in Row, SmsCommandRead(h, c, command, r)
        PROVE  RequestsApproved'
    BY <1>2 DEF SmsCommandRead, CommandAllowed
  <1>3. CASE smsRead' \subseteq smsRead /\ adminRead' \subseteq adminRead
    BY <1>3
  <1> QED
    BY <1>1, <1>2, <1>3
    DEF Next, vars, DispatchJobToContractor, DispatchTextSent, DispatchTextFailed,
        CancelContractorAssignment, CancelJob, AdminJobWrite, SmsCommandWrite,
        SmsOtwWrite, PaymentRead, PaymentWrite, PaymentEnds, SetContractorActive,
        SetContractorInactive, Crash

\* In every reachable state, a request between its read and its write was
\* approved on what it read.
THEOREM AlwaysApproved == Spec => []RequestsApproved
  <1>1. Init => RequestsApproved
    BY DEF Init, RequestsApproved
  <1> QED BY <1>1, RequestsApprovedStep, AlwaysIType, PTL DEF Spec

\* What a command that does not overtake its rows finds: its row active, with
\* its job in the status the rule names.
LEMMA AllowedCommand ==
  ASSUME IType, RequestsApproved, NEW m \in smsRead, SmsCommandWrite(m),
         rowJob[m.row] \notin overtaken'
  PROVE  /\ assignments[m.row] \in ActiveStatus
         /\ m.command = "CONFIRM" => /\ assignments[m.row] = "pending"
                                     /\ jobStatus[rowJob[m.row]] = "dispatch_in_progress"
         /\ m.command = "DONE" => jobStatus[rowJob[m.row]] = "assigned"
         /\ jobStatus[rowJob[m.row]] \in {"dispatch_in_progress", "assigned"}
  <1>1. /\ m.command \in SmsCommand /\ m.command # "OTW"
        /\ m.held \in RuleAssignment(m.command) /\ m.seen \in RuleJob(m.command)
    BY DEF IType, TypeOK, SmsRequest, RequestsApproved, SmsCommandWrite
  <1>2. jobStatus[rowJob[m.row]] = m.seen /\ assignments[m.row] = m.held
    BY DEF SmsCommandWrite
  <1> QED BY <1>1, <1>2 DEF RuleAssignment, RuleJob, SmsCommand, ActiveStatus

\* What a payment does to a job whose status is still the one it has read
LEMMA AllowedPayment ==
  ASSUME NEW m \in settling, NEW s, PaymentWrite(m, s), m.job \notin overtaken'
  PROVE  <<jobStatus[m.job], s>> \in SettleEdges
  BY DEF PaymentWrite, SettleWrite

\* The same for approve-dispatch and mark-complete
LEMMA AllowedTransition ==
  ASSUME RequestsApproved, NEW m \in adminRead, AdminJobWrite(m), m.job \notin overtaken'
  PROVE  CanTransition(jobStatus[m.job], m.target)
  BY DEF RequestsApproved, AdminJobWrite

-----------------------------------------------------------------------------
(* One active assignment.  Only a dispatch adds to the active rows of a job, *)
(* and only when there are none; a command that was not overtaken finds its  *)
(* row active and leaves it active or released.                              *)

LEMMA OneActiveStep ==
  IType /\ RequestsApproved /\ OneActiveAssignment /\ [Next]_vars => OneActiveAssignment'
  <1> SUFFICES ASSUME IType, RequestsApproved, OneActiveAssignment, [Next]_vars,
                      NEW j \in Job, j \notin overtaken',
                      NEW r \in ActiveRows(j)', NEW s \in ActiveRows(j)'
               PROVE  r = s
    BY DEF OneActiveAssignment
  <1> USE DEF IType, TypeOK, RowsWellFormed, OneActiveAssignment, ActiveRows, ActiveStatus,
              rowVars, readVars
  <1>1. ASSUME NEW k \in Job, NEW c \in Contractor, NEW q \in Row,
               DispatchJobToContractor(k, c, q)
        PROVE  r = s
    BY <1>1, DispatchAssumption DEF DispatchJobToContractor, HasActiveAssignment
  <1>2. ASSUME NEW k \in Job,
               CancelJob(k) \/ \E q \in Row : CancelContractorAssignment(k, q)
        PROVE  r = s
    BY <1>2 DEF CancelJob, CancelContractorAssignment
  <1>3. ASSUME NEW m \in adminRead, AdminJobWrite(m)
        PROVE  r = s
    BY <1>3 DEF AdminJobWrite
  <1>4. ASSUME NEW m \in smsRead, SmsCommandWrite(m)
        PROVE  r = s
    <2>1. /\ m.command \in SmsCommand /\ m.command # "OTW" /\ m.row \in Row
          /\ rowJob[m.row] \in Job
      BY <1>4 DEF SmsCommandWrite, SmsRequest
    <2>2. CASE rowJob[m.row] = j
      <3>1. assignments[m.row] \in ActiveStatus
        BY <1>4, <2>2, AllowedCommand
      <3> QED BY <1>4, <2>1, <3>1 DEF SmsCommandWrite
    <2>3. CASE rowJob[m.row] # j
      BY <1>4, <2>1, <2>3 DEF SmsCommandWrite
    <2> QED BY <2>2, <2>3
  <1>5. CASE UNCHANGED <<assignments, rowJob, overtaken>>
    BY <1>5
  <1>6. ASSUME NEW m \in settling, NEW t \in JobStatus, PaymentWrite(m, t)
        PROVE  r = s
    BY <1>6 DEF PaymentWrite
  <1> QED
    BY <1>1, <1>2, <1>3, <1>4, <1>5, <1>6
    DEF Next, vars, DispatchTextSent, DispatchTextFailed, AdminJobRead, SmsCommandRead,
        SmsOtwWrite, PaymentRead, PaymentEnds, SetContractorActive, SetContractorInactive, Crash

\* On a job no write has overtaken, at most one contractor holds a pending or
\* accepted assignment, for any number of jobs, contractors and requests.
THEOREM OneActiveAlways == Spec => []OneActiveAssignment
  <1>1. Init => OneActiveAssignment
    BY DEF Init, OneActiveAssignment, ActiveRows, ActiveStatus
  <1> QED BY <1>1, OneActiveStep, AlwaysApproved, AlwaysIType, PTL DEF Spec

-----------------------------------------------------------------------------
(* Agreement of the job with its holder *)

LEMMA HolderStep ==
  /\ IType /\ RequestsApproved /\ OneActiveAssignment /\ HolderMatchesJobStatus
  /\ [Next]_vars
  => HolderMatchesJobStatus'
  <1> SUFFICES ASSUME IType, RequestsApproved, OneActiveAssignment, HolderMatchesJobStatus, [Next]_vars
               PROVE  HolderMatchesJobStatus'
    OBVIOUS
  <1> USE DEF IType, TypeOK, RowsWellFormed, ActiveRows, ActiveStatus, rowVars, readVars
  <1>1. ASSUME NEW k \in Job, NEW c \in Contractor, NEW q \in Row,
               DispatchJobToContractor(k, c, q)
        PROVE  HolderMatchesJobStatus'
    BY <1>1, DispatchAssumption
    DEF DispatchJobToContractor, HasActiveAssignment, HolderMatchesJobStatus
  <1>2. ASSUME NEW k \in Job, CancelJob(k)
        PROVE  HolderMatchesJobStatus'
    BY <1>2 DEF CancelJob, HolderMatchesJobStatus
  <1>3. ASSUME NEW k \in Job, NEW q \in Row, CancelContractorAssignment(k, q)
        PROVE  HolderMatchesJobStatus'
    BY <1>3 DEF CancelContractorAssignment, HolderMatchesJobStatus
  <1>4. ASSUME NEW m \in adminRead, AdminJobWrite(m)
        PROVE  HolderMatchesJobStatus'
    BY <1>4 DEF AdminJobWrite, HolderMatchesJobStatus, AdminRequest
  <1>5. ASSUME NEW m \in smsRead, SmsCommandWrite(m)
        PROVE  HolderMatchesJobStatus'
    <2> DEFINE k == rowJob[m.row]
    <2>1. m.command \in SmsCommand /\ m.command # "OTW" /\ m.row \in Row /\ k \in Job
      BY <1>5 DEF SmsCommandWrite, SmsRequest
    <2>2. CASE k \in overtaken'
      BY <1>5, <2>1, <2>2 DEF SmsCommandWrite, HolderMatchesJobStatus
    <2>3. CASE k \notin overtaken'
      <3>1. /\ assignments[m.row] \in ActiveStatus
            /\ m.command = "CONFIRM" => assignments[m.row] = "pending"
        BY <1>5, <2>3, AllowedCommand
      <3>2. \A s \in ActiveRows(k) : s = m.row
        BY <1>5, <2>1, <2>3, <3>1 DEF OneActiveAssignment, SmsCommandWrite
      <3>3. CASE m.command = "CONFIRM"
        BY <1>5, <2>1, <2>3, <3>1, <3>2, <3>3
        DEF SmsCommandWrite, HolderMatchesJobStatus, TargetJobStatus, TargetAssignment
      <3>4. CASE m.command = "DECLINE"
        BY <1>5, <2>1, <2>3, <3>1, <3>2, <3>4
        DEF SmsCommandWrite, HolderMatchesJobStatus, TargetJobStatus, TargetAssignment
      <3>5. CASE m.command = "DONE"
        BY <1>5, <2>1, <2>3, <3>1, <3>2, <3>5
        DEF SmsCommandWrite, HolderMatchesJobStatus, TargetJobStatus, TargetAssignment
      <3> QED BY <2>1, <3>3, <3>4, <3>5 DEF SmsCommand
    <2> QED BY <2>2, <2>3
  <1>6. CASE UNCHANGED <<jobStatus, assignments, rowJob, overtaken>>
    BY <1>6 DEF HolderMatchesJobStatus
  <1>7. ASSUME NEW m \in settling, NEW t \in JobStatus, PaymentWrite(m, t)
        PROVE  HolderMatchesJobStatus'
    BY <1>7, AllowedPayment
    DEF PaymentWrite, SettleWrite, SettleEdges, SettleRequest, HolderMatchesJobStatus
  <1> QED
    BY <1>1, <1>2, <1>3, <1>4, <1>5, <1>6, <1>7
    DEF Next, vars, DispatchTextSent, DispatchTextFailed, AdminJobRead, SmsCommandRead,
        SmsOtwWrite, PaymentRead, PaymentEnds, SettleRead, SettleEnds, SettlesLost,
        SetContractorActive, SetContractorInactive, Crash

\* The job row and its assignment rows agree on every job no write has
\* overtaken.
THEOREM HolderMatchesAlways == Spec => []HolderMatchesJobStatus
  <1>1. Init => HolderMatchesJobStatus
    BY DEF Init, HolderMatchesJobStatus, ActiveRows, ActiveStatus
  <1> QED BY <1>1, HolderStep, OneActiveAlways, AlwaysApproved, AlwaysIType, PTL DEF Spec

-----------------------------------------------------------------------------
(* No double booking *)

\* Only jobs that were dispatched, and so have their times, have active rows:
\* CONFLICT_SQL's Mode B never has anything to find.
ActiveRowsScheduled ==
    \A r \in Row : assignments[r] \in {"pending", "accepted", "declined",
                                       "completed", "cancelled"}
                   => rowJob[r] \in scheduled

LEMMA ActiveScheduledStep ==
  IType /\ ActiveRowsScheduled /\ [Next]_vars => ActiveRowsScheduled'
  <1> SUFFICES ASSUME IType, ActiveRowsScheduled, [Next]_vars PROVE ActiveRowsScheduled'
    OBVIOUS
  <1> USE DEF IType, TypeOK, RowsWellFormed, ActiveRowsScheduled, rowVars, readVars
  <1>1. ASSUME NEW k \in Job, NEW c \in Contractor, NEW q \in Row,
               DispatchJobToContractor(k, c, q)
        PROVE  ActiveRowsScheduled'
    BY <1>1 DEF DispatchJobToContractor
  <1>2. ASSUME NEW k \in Job,
               CancelJob(k) \/ \E q \in Row : CancelContractorAssignment(k, q)
        PROVE  ActiveRowsScheduled'
    BY <1>2 DEF CancelJob, CancelContractorAssignment, ActiveRows, ActiveStatus
  <1>3. ASSUME NEW m \in smsRead, SmsCommandWrite(m)
        PROVE  ActiveRowsScheduled'
    <2>1. /\ m.command \in SmsCommand /\ m.command # "OTW" /\ m.row \in Row
          /\ assignments[m.row] # "none"
      BY <1>3, DispatchAssumption DEF SmsCommandWrite, SmsRequest
    <2>2. rowJob[m.row] \in scheduled
      BY <2>1 DEF AssignmentStatus
    <2> QED BY <1>3, <2>1, <2>2 DEF SmsCommandWrite
  <1>4. CASE UNCHANGED <<scheduled, assignments, rowJob>>
    BY <1>4
  <1> QED
    BY <1>1, <1>2, <1>3, <1>4
    DEF Next, vars, DispatchTextSent, DispatchTextFailed, AdminJobRead, AdminJobWrite,
        SmsCommandRead, SmsOtwWrite, PaymentRead, PaymentWrite, PaymentEnds,
        SetContractorActive, SetContractorInactive, Crash

LEMMA NoDoubleBookingStep ==
  /\ IType /\ RequestsApproved /\ ActiveRowsScheduled /\ HolderMatchesJobStatus
  /\ NoDoubleBooking /\ [Next]_vars
  => NoDoubleBooking'
  <1> SUFFICES ASSUME IType, RequestsApproved, ActiveRowsScheduled, HolderMatchesJobStatus, NoDoubleBooking,
                      [Next]_vars
               PROVE  NoDoubleBooking'
    OBVIOUS
  <1> USE DEF IType, TypeOK, RowsWellFormed, rowVars, readVars, ActiveStatus
  \* A booking that was there before and keeps its row, job and contractor
  <1> DEFINE Kept(r) == /\ Occupies(r)' => Occupies(r)
                        /\ rowJob'[r] = rowJob[r]
                        /\ rowContractor'[r] = rowContractor[r]
  <1>1. (\A r \in Row : Kept(r)) => NoDoubleBooking'
    BY DEF NoDoubleBooking, SlotsOverlap
  <1>2. ASSUME NEW k \in Job, NEW c \in Contractor, NEW q \in Row,
               DispatchJobToContractor(k, c, q)
        PROVE  NoDoubleBooking'
    <2>1. \A r \in Row \ {q} : rowJob'[r] = rowJob[r] /\ rowContractor'[r] = rowContractor[r]
      BY <1>2 DEF DispatchJobToContractor
    <2>2. \A r \in Row \ {q} : Occupies(r)' => Occupies(r)
      BY <1>2, DispatchAssumption DEF DispatchJobToContractor, Occupies, OccupyingStatus
    <2>3. rowJob'[q] = k /\ rowContractor'[q] = c
      BY <1>2 DEF DispatchJobToContractor
    <2>4. ASSUME NEW r \in Row \ {q}, Occupies(r), rowContractor[r] = c, rowJob[r] # k
          PROVE  ~ SlotsOverlap(AppointmentOf[rowJob[r]], AppointmentOf[k])
      <3>1. rowJob[r] \in scheduled
        BY <2>4 DEF Occupies, ActiveRowsScheduled
      <3> QED BY <1>2, <2>4, <3>1
              DEF DispatchJobToContractor, ScheduleConflict, Occupies
    <2>5. \A s, t \in Slot : SlotsOverlap(s, t) <=> SlotsOverlap(t, s)
      BY DEF SlotsOverlap
    <2>6. AppointmentOf \in [Job -> Slot]
      BY DispatchAssumption
    <2>7. SUFFICES ASSUME NEW r \in Row, NEW s \in Row, Occupies(r)', Occupies(s)',
                          rowContractor'[r] = rowContractor'[s],
                          SlotsOverlap(AppointmentOf[rowJob'[r]], AppointmentOf[rowJob'[s]])
                   PROVE  rowJob'[r] = rowJob'[s]
      BY DEF NoDoubleBooking, SlotsOverlap
    <2>8. CASE r # q /\ s # q
      BY <2>1, <2>2, <2>7, <2>8 DEF NoDoubleBooking
    <2>9. CASE r = q /\ s # q
      BY <2>1, <2>2, <2>3, <2>4, <2>5, <2>6, <2>7, <2>9 DEF Occupies
    <2>10. CASE r # q /\ s = q
      BY <2>1, <2>2, <2>3, <2>4, <2>7, <2>10
    <2> QED BY <2>8, <2>9, <2>10
  <1>3. ASSUME NEW k \in Job,
               CancelJob(k) \/ \E q \in Row : CancelContractorAssignment(k, q)
        PROVE  \A r \in Row : Kept(r)
    BY <1>3 DEF CancelJob, CancelContractorAssignment, ActiveRows, Occupies, OccupyingStatus
  <1>4. ASSUME NEW m \in adminRead, AdminJobWrite(m)
        PROVE  \A r \in Row : Kept(r)
    <2>1. m.job \in Job /\ m.target \in {"ready_for_dispatch", "work_completed"}
      BY <1>4 DEF AdminRequest
    <2>2. /\ CanTransition(jobStatus[m.job], m.target)
          /\ m.target = "ready_for_dispatch"
          => jobStatus[m.job] \in {"deposit_paid", "paid_in_full",
                                   "dispatch_in_progress", "assigned"}
      BY <2>1 DEF CanTransition, Transitions
    <2>3. ASSUME NEW r \in Row, Occupies(r)' PROVE Occupies(r)
      <3>1. CASE rowJob[r] # m.job
        BY <1>4, <2>1, <2>3, <3>1 DEF AdminJobWrite, Occupies, OccupyingStatus
      <3>2. CASE rowJob[r] = m.job
        <4>1. /\ CanTransition(jobStatus[m.job], m.target)
              /\ m.target = "ready_for_dispatch"
              /\ m.job \notin overtaken
              /\ assignments[r] \in ActiveStatus
          BY <1>4, <2>1, <2>3, <3>2, AllowedTransition
          DEF AdminJobWrite, Occupies, OccupyingStatus
        <4>2. jobStatus[m.job] \notin {"deposit_paid", "paid_in_full"}
          BY <2>1, <3>2, <4>1 DEF HolderMatchesJobStatus, ActiveRows
        <4> QED BY <2>1, <2>2, <3>2, <4>1, <4>2 DEF Occupies, OccupyingStatus
      <3> QED BY <3>1, <3>2
    <2> QED BY <1>4, <2>3 DEF AdminJobWrite
  <1>5. ASSUME NEW m \in smsRead, SmsCommandWrite(m)
        PROVE  \A r \in Row : Kept(r)
    <2>1. /\ m.command \in SmsCommand /\ m.command # "OTW" /\ m.row \in Row
          /\ rowJob[m.row] \in Job
      BY <1>5 DEF SmsCommandWrite, SmsRequest
    <2>2. CASE rowJob[m.row] \notin overtaken'
      <3>1. /\ assignments[m.row] \in ActiveStatus
            /\ jobStatus[rowJob[m.row]] \in {"dispatch_in_progress", "assigned"}
        BY <1>5, <2>2, AllowedCommand
      <3> QED BY <1>5, <2>1, <2>2, <3>1 DEF SmsCommandWrite, Occupies, OccupyingStatus
    <2>3. CASE rowJob[m.row] \in overtaken'
      BY <1>5, <2>1, <2>3 DEF SmsCommandWrite, Occupies, OccupyingStatus
    <2> QED BY <2>2, <2>3
  <1>6. CASE UNCHANGED <<jobStatus, assignments, rowJob, rowContractor, overtaken>>
    BY <1>6 DEF Occupies, OccupyingStatus, NoDoubleBooking, SlotsOverlap
  <1>7. ASSUME NEW m \in settling, NEW t \in JobStatus, PaymentWrite(m, t)
        PROVE  \A r \in Row : Kept(r)
    <2>1. m.job \in Job /\ t \notin OccupyingStatus
      BY <1>7 DEF SettleRequest, PaymentWrite, SettleWrite, SettleEdges, OccupyingStatus
    <2> QED BY <1>7, <2>1 DEF PaymentWrite, SettleWrite, Occupies, OccupyingStatus
  <1> QED
    BY <1>1, <1>2, <1>3, <1>4, <1>5, <1>6, <1>7
    DEF Next, vars, DispatchTextSent, DispatchTextFailed, AdminJobRead, SmsCommandRead,
        SmsOtwWrite, PaymentRead, PaymentEnds, SettleRead, SettleEnds, SettlesLost,
        SetContractorActive, SetContractorInactive, Crash

\* No contractor is booked on two jobs with overlapping times, as long as
\* neither job was overtaken: the contractor lock and the conflict check are
\* enough for any number of jobs, slots and contractors.
THEOREM NoDoubleBookingAlways == Spec => []NoDoubleBooking
  <1>1. Init => ActiveRowsScheduled /\ NoDoubleBooking
    BY DEF Init, ActiveRowsScheduled, NoDoubleBooking, Occupies, ActiveStatus
  <1> QED BY <1>1, ActiveScheduledStep, NoDoubleBookingStep, HolderMatchesAlways,
             AlwaysApproved, AlwaysIType, PTL DEF Spec

-----------------------------------------------------------------------------
(* Linked rows.  Every write that is not overtaken writes both rows of the   *)
(* pair, except DONE, which finds both accepted.                             *)

LEMMA LinkedRowsStep ==
  IType /\ RequestsApproved /\ LinkedRowsAgree /\ [Next]_vars => LinkedRowsAgree'
  <1> SUFFICES ASSUME IType, RequestsApproved, LinkedRowsAgree, [Next]_vars
               PROVE  LinkedRowsAgree'
    OBVIOUS
  <1> USE DEF IType, TypeOK, RowsWellFormed, LinkedRowsAgree, rowVars, readVars
  <1>1. ASSUME NEW k \in Job, NEW c \in Contractor, NEW q \in Row,
               DispatchJobToContractor(k, c, q)
        PROVE  LinkedRowsAgree'
    BY <1>1 DEF DispatchJobToContractor
  <1>2. ASSUME NEW k \in Job,
               CancelJob(k) \/ \E q \in Row : CancelContractorAssignment(k, q)
        PROVE  LinkedRowsAgree'
    BY <1>2 DEF CancelJob, CancelContractorAssignment, ActiveRows, ActiveStatus
  <1>3. ASSUME NEW q \in Row, DispatchTextFailed(q)
        PROVE  LinkedRowsAgree'
    BY <1>3 DEF DispatchTextFailed
  <1>4. ASSUME NEW m \in smsRead, SmsCommandWrite(m)
        PROVE  LinkedRowsAgree'
    <2>1. /\ m.command \in {"CONFIRM", "DECLINE", "DONE"} /\ m.row \in Row
          /\ rowJob' = rowJob /\ overtaken \subseteq overtaken'
          /\ \A r \in Row \ {m.row} : /\ assignments'[r] = assignments[r]
                                       /\ dispatches'[r] = dispatches[r]
      BY <1>4 DEF SmsCommandWrite, SmsRequest, SmsCommand
    <2>2. assignments'[m.row] = TargetAssignment(m.command)
      BY <1>4, <2>1 DEF SmsCommandWrite
    <2>3. CASE m.command # "DONE"
      <3>1. dispatches'[m.row] = assignments'[m.row]
        BY <1>4, <2>1, <2>2, <2>3 DEF SmsCommandWrite
      <3>2. assignments'[m.row] \in {"accepted", "declined"}
        BY <2>1, <2>2, <2>3 DEF TargetAssignment
      <3> QED BY <2>1, <3>1, <3>2
    <2>4. CASE m.command = "DONE"
      <3>1. dispatches' = dispatches /\ assignments'[m.row] = "completed"
        BY <1>4, <2>2, <2>4 DEF SmsCommandWrite, TargetAssignment
      <3>2. rowJob[m.row] \notin overtaken' => assignments[m.row] = "accepted"
        BY <1>4, <2>4 DEF SmsCommandWrite, RequestsApproved, RuleAssignment
      <3> QED BY <2>1, <3>1, <3>2
    <2> QED BY <2>3, <2>4
  <1>5. ASSUME NEW m \in adminRead, AdminJobWrite(m)
        PROVE  LinkedRowsAgree'
    BY <1>5 DEF AdminJobWrite
  <1>6. CASE UNCHANGED <<dispatches, assignments, rowJob, overtaken>>
    BY <1>6
  <1>7. ASSUME NEW m \in settling, NEW t \in JobStatus, PaymentWrite(m, t)
        PROVE  LinkedRowsAgree'
    BY <1>7 DEF PaymentWrite
  <1> QED
    BY <1>1, <1>2, <1>3, <1>4, <1>5, <1>6, <1>7
    DEF Next, vars, DispatchTextSent, AdminJobRead, SmsCommandRead, SmsOtwWrite,
        PaymentRead, PaymentEnds, SetContractorActive, SetContractorInactive, Crash

\* The dispatches row and the contractor_assignments row that were inserted
\* together agree on every job no write has overtaken, unless the text failed.
THEOREM LinkedRowsAlways == Spec => []LinkedRowsAgree
  <1>1. Init => LinkedRowsAgree
    BY DispatchAssumption DEF Init, LinkedRowsAgree
  <1> QED BY <1>1, LinkedRowsStep, AlwaysApproved, AlwaysIType, PTL DEF Spec

-----------------------------------------------------------------------------
(* Action properties *)

\* Every status change is an edge of TRANSITIONS, also across the handlers that
\* assert the edge on one read and write on another, unless the row was no
\* longer as its handler had read it.  The webhook closes a job that owes only
\* its deposit's remainder in one write, through awaiting_remainder_payment.
TableMove(from, to) ==
    \/ CanTransition(from, to)
    \/ /\ CanTransition(from, "awaiting_remainder_payment")
       /\ CanTransition("awaiting_remainder_payment", to)

OnlyTableTransitions ==
    [][\A j \in Job : \/ jobStatus'[j] = jobStatus[j]
                      \/ TableMove(jobStatus[j], jobStatus'[j])
                      \/ j \in overtaken']_vars

\* Whatever a handler writes to jobs.status is an edge of the status table
\* from the status the row had, or else the job is counted as overtaken.
THEOREM OnlyTableTransitionsAlways == Spec => OnlyTableTransitions
  <1>1. ASSUME IType, RequestsApproved, [Next]_vars
        PROVE  [\A j \in Job : \/ jobStatus'[j] = jobStatus[j]
                               \/ TableMove(jobStatus[j], jobStatus'[j])
                               \/ j \in overtaken']_vars
    <2> USE <1>1 DEF IType, TypeOK, RowsWellFormed, rowVars, readVars
    <2>1. ASSUME NEW k \in Job, NEW c \in Contractor, NEW q \in Row,
                 DispatchJobToContractor(k, c, q)
          PROVE  \A j \in Job : jobStatus'[j] = jobStatus[j]
                                \/ TableMove(jobStatus[j], jobStatus'[j])
      BY <2>1 DEF DispatchJobToContractor, TableMove, CanTransition, Transitions
    <2>2. ASSUME NEW k \in Job,
                 CancelJob(k) \/ \E q \in Row : CancelContractorAssignment(k, q)
          PROVE  \A j \in Job : jobStatus'[j] = jobStatus[j]
                                \/ TableMove(jobStatus[j], jobStatus'[j])
      BY <2>2 DEF CancelJob, CancelContractorAssignment, TableMove, CanTransition, Transitions
    <2>3. ASSUME NEW m \in adminRead, AdminJobWrite(m)
          PROVE  \A j \in Job : \/ jobStatus'[j] = jobStatus[j]
                                \/ TableMove(jobStatus[j], jobStatus'[j])
                                \/ j \in overtaken'
      BY <2>3, AllowedTransition DEF AdminJobWrite, AdminRequest, TableMove
    <2>4. ASSUME NEW m \in smsRead, SmsCommandWrite(m)
          PROVE  \A j \in Job : \/ jobStatus'[j] = jobStatus[j]
                                \/ TableMove(jobStatus[j], jobStatus'[j])
                                \/ j \in overtaken'
      <3>1. /\ m.command \in SmsCommand /\ m.command # "OTW" /\ m.row \in Row
            /\ rowJob[m.row] \in Job
        BY <2>4 DEF SmsCommandWrite, SmsRequest
      <3>2. rowJob[m.row] \notin overtaken' =>
              CanTransition(jobStatus[rowJob[m.row]], TargetJobStatus(m.command))
        BY <2>4, <3>1, AllowedCommand
        DEF TargetJobStatus, SmsCommand, CanTransition, Transitions
      <3> QED BY <2>4, <3>1, <3>2 DEF SmsCommandWrite, TableMove
    <2>5. CASE UNCHANGED jobStatus
      BY <2>5
    <2>6. ASSUME NEW m \in settling, NEW t \in JobStatus, PaymentWrite(m, t)
          PROVE  \A j \in Job : \/ jobStatus'[j] = jobStatus[j]
                                \/ TableMove(jobStatus[j], jobStatus'[j])
                                \/ j \in overtaken'
      <3>1. m.job \notin overtaken' => TableMove(jobStatus[m.job], t)
        BY <2>6, AllowedPayment DEF SettleEdges, TableMove, CanTransition, Transitions
      <3> QED BY <2>6, <3>1 DEF PaymentWrite, SettleWrite
    <2> QED
      BY <2>1, <2>2, <2>3, <2>4, <2>5, <2>6
      DEF Next, vars, DispatchTextSent, DispatchTextFailed, AdminJobRead, SmsCommandRead,
          SmsOtwWrite, PaymentRead, PaymentEnds, SettleRead, SettleEnds, SettlesLost,
          SetContractorActive, SetContractorInactive, Crash
  <1> QED BY <1>1, AlwaysApproved, AlwaysIType, PTL DEF Spec, OnlyTableTransitions

\* A declined, cancelled or completed assignment is final on every job that
\* was not overtaken.
THEOREM ReleasedStaysReleasedAlways == Spec => ReleasedStaysReleased
  <1>1. ASSUME IType, RequestsApproved, [Next]_vars
        PROVE  [\A r \in Row :
                   /\ assignments[r] \in {"declined", "cancelled", "completed"}
                   /\ rowJob[r] \notin overtaken'
                   => assignments'[r] = assignments[r]]_vars
    <2> USE <1>1 DEF IType, TypeOK, RowsWellFormed, rowVars, readVars
    <2> DEFINE Stays == \A r \in Row :
                   /\ assignments[r] \in {"declined", "cancelled", "completed"}
                   /\ rowJob[r] \notin overtaken'
                   => assignments'[r] = assignments[r]
    <2>1. ASSUME NEW k \in Job, NEW c \in Contractor, NEW q \in Row,
                 DispatchJobToContractor(k, c, q)
          PROVE  Stays
      BY <2>1 DEF DispatchJobToContractor
    <2>2. ASSUME NEW k \in Job,
                 CancelJob(k) \/ \E q \in Row : CancelContractorAssignment(k, q)
          PROVE  Stays
      BY <2>2 DEF CancelJob, CancelContractorAssignment, ActiveRows, ActiveStatus
    <2>3. ASSUME NEW m \in smsRead, SmsCommandWrite(m)
          PROVE  Stays
      <3>1. /\ m.command \in SmsCommand /\ m.command # "OTW" /\ m.row \in Row
            /\ rowJob[m.row] \in Job
        BY <2>3 DEF SmsCommandWrite, SmsRequest
      <3>2. rowJob[m.row] \notin overtaken' => assignments[m.row] \in ActiveStatus
        BY <2>3, AllowedCommand
      <3> QED BY <2>3, <3>1, <3>2 DEF SmsCommandWrite, ActiveStatus
    <2>4. CASE UNCHANGED assignments
      BY <2>4
    <2> QED
      BY <2>1, <2>2, <2>3, <2>4
      DEF Next, vars, DispatchTextSent, DispatchTextFailed, AdminJobRead, AdminJobWrite,
          SmsCommandRead, SmsOtwWrite, PaymentRead, PaymentWrite, PaymentEnds,
          SetContractorActive, SetContractorInactive, Crash
  <1> QED BY <1>1, AlwaysApproved, AlwaysIType, PTL DEF Spec, ReleasedStaysReleased

-----------------------------------------------------------------------------
(* How far the two refuted claims fail.  The runs dispatch_cancelled and     *)
(* dispatch_backtoready show that they do; here is all it takes.             *)

\* The claim CancelledIsFinal, as far as it goes: only a write decided on what
\* the job was before brings a cancelled job back to life.
RevivedOnlyByOvertaking ==
    [][\A j \in Job : jobStatus[j] = "cancelled" /\ jobStatus'[j] # "cancelled"
                         => j \in overtaken']_vars

\* A cancelled job is final for every handler that reads it cancelled.
THEOREM RevivedOnlyByOvertakingAlways == Spec => RevivedOnlyByOvertaking
  <1>1. [\A j \in Job : \/ jobStatus'[j] = jobStatus[j]
                        \/ TableMove(jobStatus[j], jobStatus'[j])
                        \/ j \in overtaken']_vars
        => [\A j \in Job : jobStatus[j] = "cancelled" /\ jobStatus'[j] # "cancelled"
                              => j \in overtaken']_vars
    BY DEF TableMove, CanTransition, Transitions
  <1> QED BY <1>1, OnlyTableTransitionsAlways, PTL
          DEF OnlyTableTransitions, RevivedOnlyByOvertaking

\* The claim BackToReadyReleasesHolder, as far as it goes: an assigned job that
\* goes back to ready keeps its holder only when approve-dispatch sends it back,
\* having seen it assigned, or after a write has overtaken it.
StrandedOnlyByApproval ==
    [][\A j \in Job :
          jobStatus[j] = "assigned" /\ jobStatus'[j] = "ready_for_dispatch" =>
              \/ ActiveRows(j)' = {}
              \/ j \in overtaken'
              \/ \E m \in adminRead \ adminRead' : m.job = j /\ m.seen = "assigned"]_vars

\* Cancelling the assignment and DECLINE release the holder with the job.
THEOREM StrandedOnlyByApprovalAlways == Spec => StrandedOnlyByApproval
  <1> DEFINE Bound == \A j \in Job :
                jobStatus[j] = "assigned" /\ jobStatus'[j] = "ready_for_dispatch" =>
                    \/ ActiveRows(j)' = {}
                    \/ j \in overtaken'
                    \/ \E m \in adminRead \ adminRead' : m.job = j /\ m.seen = "assigned"
  <1>1. IType /\ OneActiveAssignment /\ RequestsApproved /\ [Next]_vars => Bound
    <2> SUFFICES ASSUME IType, OneActiveAssignment, RequestsApproved, [Next]_vars, NEW j \in Job,
                        jobStatus[j] = "assigned", jobStatus'[j] = "ready_for_dispatch",
                        j \notin overtaken'
                 PROVE  \/ ActiveRows(j)' = {}
                        \/ \E m \in adminRead \ adminRead' : m.job = j /\ m.seen = "assigned"
      OBVIOUS
    <2> USE DEF IType, TypeOK, RowsWellFormed, rowVars, readVars
    <2>1. ASSUME NEW r \in Row, CancelContractorAssignment(j, r)
          PROVE  ActiveRows(j)' = {}
      <3>1. \A s \in ActiveRows(j) : s = r
        BY <2>1 DEF CancelContractorAssignment, OneActiveAssignment
      <3> QED BY <2>1, <3>1 DEF CancelContractorAssignment, ActiveRows, ActiveStatus
    <2>2. ASSUME NEW m \in smsRead, SmsCommandWrite(m)
          PROVE  ActiveRows(j)' = {}
      <3>1. m.row \in Row /\ m.command \in SmsCommand \ {"OTW"} /\ rowJob[m.row] = j
        BY <2>2 DEF SmsCommandWrite, SmsRequest
      <3>2. m.command = "DECLINE"
        BY <2>2, <3>1 DEF SmsCommandWrite, SmsCommand, TargetJobStatus
      <3>3. j \notin overtaken /\ assignments[m.row] \in ActiveStatus
        BY <2>2, <3>1, AllowedCommand DEF SmsCommandWrite
      <3>4. \A s \in ActiveRows(j) : s = m.row
        BY <3>1, <3>3 DEF OneActiveAssignment, ActiveRows
      <3>5. assignments' = [assignments EXCEPT ![m.row] = "declined"] /\ rowJob' = rowJob
        BY <2>2, <3>2 DEF SmsCommandWrite, TargetAssignment
      <3> QED BY <3>1, <3>4, <3>5 DEF ActiveRows, ActiveStatus
    <2>3. ASSUME NEW m \in adminRead, AdminJobWrite(m)
          PROVE  \E n \in adminRead \ adminRead' : n.job = j /\ n.seen = "assigned"
      BY <2>3 DEF AdminJobWrite, AdminRequest
    <2>4. ASSUME NEW m \in settling, NEW t \in JobStatus, PaymentWrite(m, t)
          PROVE  FALSE
      BY <2>4 DEF PaymentWrite, SettleWrite, SettleEdges
    <2> QED
      BY <2>1, <2>2, <2>3, <2>4
      DEF Next, vars, DispatchJobToContractor, CancelContractorAssignment, CancelJob,
          DispatchTextSent, DispatchTextFailed, AdminJobRead, SmsCommandRead, SmsOtwWrite,
          PaymentRead, PaymentEnds, SettleRead, SettleEnds, SettlesLost, SetContractorActive,
          SetContractorInactive, Crash
  <1>2. IType /\ OneActiveAssignment /\ RequestsApproved /\ [Next]_vars => [Bound]_vars
    BY <1>1
  <1> QED BY <1>2, AlwaysIType, OneActiveAlways, AlwaysApproved, PTL
          DEF Spec, StrandedOnlyByApproval

-----------------------------------------------------------------------------
(* Dispatch implements AssignmentBook *)

\* The statuses a priced job can get to by what Dispatch models
StatusReached ==
    \A j \in Job : jobStatus[j] \in
        {"awaiting_payment", "deposit_paid", "paid_in_full", "ready_for_dispatch",
         "dispatch_in_progress", "assigned", "cancelled"} \cup DoneStatus

\* What the refinement rests on
BookInv ==
    /\ IType /\ RequestsApproved /\ OneActiveAssignment /\ HolderMatchesJobStatus
    /\ ActiveRowsScheduled /\ StatusReached

LEMMA StatusReachedStep == IType /\ StatusReached /\ [Next]_vars => StatusReached'
  <1> SUFFICES ASSUME IType, StatusReached, [Next]_vars PROVE StatusReached'
    OBVIOUS
  <1> USE DEF IType, TypeOK, StatusReached, DoneStatus, rowVars, readVars
  <1>1. ASSUME NEW k \in Job,
               \/ \E c \in Contractor, q \in Row : DispatchJobToContractor(k, c, q)
               \/ CancelJob(k) \/ \E q \in Row : CancelContractorAssignment(k, q)
        PROVE  StatusReached'
    BY <1>1 DEF DispatchJobToContractor, CancelJob, CancelContractorAssignment
  <1>2. ASSUME NEW m \in adminRead, AdminJobWrite(m)
        PROVE  StatusReached'
    BY <1>2 DEF AdminJobWrite, AdminRequest
  <1>3. ASSUME NEW m \in smsRead, SmsCommandWrite(m)
        PROVE  StatusReached'
    <2>1. TargetJobStatus(m.command) \in {"assigned", "ready_for_dispatch", "completion_reported"}
      BY <1>3 DEF SmsCommandWrite, SmsRequest, SmsCommand, TargetJobStatus
    <2> QED BY <1>3, <2>1 DEF SmsCommandWrite
  <1>4. CASE UNCHANGED jobStatus
    BY <1>4
  <1>5. ASSUME NEW m \in settling, NEW t \in JobStatus, PaymentWrite(m, t)
        PROVE  StatusReached'
    BY <1>5 DEF PaymentWrite, SettleWrite, SettleEdges
  <1> QED
    BY <1>1, <1>2, <1>3, <1>4, <1>5
    DEF Next, vars, DispatchTextSent, DispatchTextFailed, AdminJobRead, SmsCommandRead,
        SmsOtwWrite, PaymentRead, PaymentEnds, SettleRead, SettleEnds, SettlesLost,
        SetContractorActive, SetContractorInactive, Crash

\* The invariants the refinement rests on hold of every reachable state.
THEOREM AlwaysBookInv == Spec => []BookInv
  <1>1. Init => ActiveRowsScheduled /\ StatusReached
    BY DEF Init, ActiveRowsScheduled, StatusReached
  <1>2. IType /\ ActiveRowsScheduled /\ StatusReached /\ [Next]_vars
        => ActiveRowsScheduled' /\ StatusReached'
    BY ActiveScheduledStep, StatusReachedStep
  <1> QED BY <1>1, <1>2, AlwaysIType, AlwaysApproved, OneActiveAlways, HolderMatchesAlways, PTL
          DEF Spec, BookInv

-----------------------------------------------------------------------------
(* Lines of the book *)

USE DEF DoneStatus

\* The holder of a job with one active row is the contractor of that row.
LEMMA HolderIs ==
  ASSUME OneActiveAssignment, NEW j \in Job, j \notin overtaken, NEW r \in ActiveRows(j)
  PROVE  HolderOf(j) = rowContractor[r]
  <1>1. r \in Row
    BY DEF ActiveRows
  <1>2. (CHOOSE s \in ActiveRows(j) : TRUE) \in ActiveRows(j)
    OBVIOUS
  <1>3. (CHOOSE s \in ActiveRows(j) : TRUE) = r
    BY <1>2 DEF OneActiveAssignment
  <1> QED BY <1>3 DEF HolderOf

LEMMA HolderIsNext ==
  ASSUME OneActiveAssignment', NEW j \in Job, j \notin overtaken', NEW r \in ActiveRows(j)'
  PROVE  HolderOf(j)' = rowContractor'[r]
  <1>2. (CHOOSE s \in ActiveRows(j)' : TRUE) \in ActiveRows(j)'
    OBVIOUS
  <1>3. (CHOOSE s \in ActiveRows(j)' : TRUE) = r
    BY <1>2 DEF OneActiveAssignment
  <1> QED BY <1>3 DEF HolderOf

\* What a job's line says, by its status and its rows
LineOf(j) ==
    /\ j \in overtaken => Phases[j] = "astray" /\ Holders[j] = NoContractor
    /\ j \notin overtaken /\ jobStatus[j] = "cancelled" =>
           Phases[j] = "cancelled" /\ Holders[j] = NoContractor
    /\ j \notin overtaken /\ jobStatus[j] \in DoneStatus =>
           Phases[j] = "done" /\ Holders[j] = NoContractor
    /\ /\ j \notin overtaken
       /\ jobStatus[j] \notin {"cancelled"} \cup DoneStatus
       => /\ ActiveRows(j) = {} => Phases[j] = "open" /\ Holders[j] = NoContractor
          /\ \A r \in ActiveRows(j) :
                /\ Phases[j] = IF assignments[r] = "accepted" THEN "held" ELSE "offered"
                /\ Holders[j] = rowContractor[r]

LEMMA Lines ==
  ASSUME OneActiveAssignment, NEW j \in Job
  PROVE  LineOf(j)
  <1>1. CASE j \in overtaken
    BY <1>1 DEF LineOf, PhaseOf, Phases, Holders
  <1>2. CASE j \notin overtaken /\ jobStatus[j] = "cancelled"
    BY <1>2 DEF LineOf, PhaseOf, Phases, Holders
  <1>3. CASE j \notin overtaken /\ jobStatus[j] \in DoneStatus
    BY <1>3 DEF LineOf, PhaseOf, Phases, Holders
  <1>4. CASE /\ j \notin overtaken
             /\ jobStatus[j] \notin {"cancelled"} \cup DoneStatus
    <2>1. PhaseOf(j) = IF ActiveRows(j) = {} THEN "open"
                       ELSE IF \E r \in ActiveRows(j) : assignments[r] = "accepted"
                            THEN "held" ELSE "offered"
      BY <1>4 DEF PhaseOf
    <2>2. Phases[j] = PhaseOf(j)
      BY DEF Phases
    <2>3. Holders[j] = IF PhaseOf(j) \in {"offered", "held"} THEN HolderOf(j) ELSE NoContractor
      BY DEF Holders
    <2>4. ASSUME NEW r \in ActiveRows(j)
          PROVE  /\ Phases[j] = IF assignments[r] = "accepted" THEN "held" ELSE "offered"
                 /\ Holders[j] = rowContractor[r]
      <3>1. \A s \in ActiveRows(j) : s = r
        BY <1>4 DEF OneActiveAssignment
      <3>2. HolderOf(j) = rowContractor[r]
        BY <1>4, HolderIs
      <3> QED BY <2>1, <2>2, <2>3, <3>1, <3>2
    <2> QED BY <1>4, <2>1, <2>2, <2>3, <2>4 DEF LineOf
  <1> QED BY <1>1, <1>2, <1>3, <1>4

LEMMA LinesNext ==
  ASSUME OneActiveAssignment', NEW j \in Job
  PROVE  LineOf(j)'
  <1>1. CASE j \in overtaken'
    BY <1>1 DEF LineOf, PhaseOf, Phases, Holders
  <1>2. CASE j \notin overtaken' /\ jobStatus'[j] = "cancelled"
    BY <1>2 DEF LineOf, PhaseOf, Phases, Holders
  <1>3. CASE j \notin overtaken' /\ jobStatus'[j] \in DoneStatus
    BY <1>3 DEF LineOf, PhaseOf, Phases, Holders
  <1>4. CASE /\ j \notin overtaken'
             /\ jobStatus'[j] \notin {"cancelled"} \cup DoneStatus
    <2>1. PhaseOf(j)' = IF ActiveRows(j)' = {} THEN "open"
                        ELSE IF \E r \in ActiveRows(j)' : assignments'[r] = "accepted"
                             THEN "held" ELSE "offered"
      BY <1>4 DEF PhaseOf
    <2>2. Phases'[j] = PhaseOf(j)'
      BY DEF Phases
    <2>3. Holders'[j] = IF PhaseOf(j)' \in {"offered", "held"} THEN HolderOf(j)' ELSE NoContractor
      BY DEF Holders
    <2>4. ASSUME NEW r \in ActiveRows(j)'
          PROVE  /\ Phases'[j] = IF assignments'[r] = "accepted" THEN "held" ELSE "offered"
                 /\ Holders'[j] = rowContractor'[r]
      <3>1. \A s \in ActiveRows(j)' : s = r
        BY <1>4 DEF OneActiveAssignment
      <3>2. HolderOf(j)' = rowContractor'[r]
        BY <1>4, HolderIsNext
      <3> QED BY <2>1, <2>2, <2>3, <3>1, <3>2
    <2> QED BY <1>4, <2>1, <2>2, <2>3, <2>4 DEF LineOf
  <1> QED BY <1>1, <1>2, <1>3, <1>4

\* The line of a job stays when its status, its rows and their contractors do.
LEMMA LineStays ==
  ASSUME OneActiveAssignment, OneActiveAssignment', NEW k \in Job,
         jobStatus'[k] = jobStatus[k], k \in overtaken' <=> k \in overtaken,
         ActiveRows(k)' = ActiveRows(k),
         \A r \in ActiveRows(k) : /\ assignments'[r] = assignments[r]
                                  /\ rowContractor'[r] = rowContractor[r]
  PROVE  Phases'[k] = Phases[k] /\ Holders'[k] = Holders[k]
  BY Lines, LinesNext DEF LineOf

\* A step that leaves every line but one alone writes at most that line.
LEMMA OneLine ==
  ASSUME NEW j \in Job, \A k \in Job \ {j} : Phases'[k] = Phases[k] /\ Holders'[k] = Holders[k]
  PROVE  /\ Phases' = [Phases EXCEPT ![j] = Phases'[j]]
         /\ Holders' = [Holders EXCEPT ![j] = Holders'[j]]
         /\ Phases'[j] = Phases[j] /\ Holders'[j] = Holders[j] =>
                UNCHANGED Book!bookVars
  <1>1. /\ Phases = [k \in Job |-> Phases[k]] /\ Phases' = [k \in Job |-> Phases'[k]]
        /\ Holders = [k \in Job |-> Holders[k]] /\ Holders' = [k \in Job |-> Holders'[k]]
    BY DEF Phases, Holders
  <1>2. /\ Phases' = [Phases EXCEPT ![j] = Phases'[j]]
        /\ Holders' = [Holders EXCEPT ![j] = Holders'[j]]
    BY <1>1
  <1>3. ASSUME Phases'[j] = Phases[j], Holders'[j] = Holders[j]
        PROVE  UNCHANGED Book!bookVars
    <2>1. Phases' = Phases /\ Holders' = Holders
      BY <1>1, <1>3
    <2> QED BY <2>1 DEF Book!bookVars
  <1> QED BY <1>2, <1>3

-----------------------------------------------------------------------------
(* Steps of the book *)

\* When a step touches one job only, its line is the only one written.
LEMMA OnlyLine ==
  ASSUME OneActiveAssignment, OneActiveAssignment', NEW j \in Job,
         \A k \in Job \ {j} : /\ jobStatus'[k] = jobStatus[k]
                              /\ k \in overtaken' <=> k \in overtaken,
         \A r \in Row, k \in Job \ {j} :
             /\ rowJob'[r] = k <=> rowJob[r] = k
             /\ rowJob[r] = k => /\ assignments'[r] = assignments[r]
                                 /\ rowContractor'[r] = rowContractor[r]
  PROVE  /\ Phases' = [Phases EXCEPT ![j] = Phases'[j]]
         /\ Holders' = [Holders EXCEPT ![j] = Holders'[j]]
         /\ Phases'[j] = Phases[j] /\ Holders'[j] = Holders[j] =>
                UNCHANGED Book!bookVars
  <1>1. ASSUME NEW k \in Job \ {j}
        PROVE  Phases'[k] = Phases[k] /\ Holders'[k] = Holders[k]
    <2>1. ActiveRows(k)' = ActiveRows(k)
      BY DEF ActiveRows
    <2>2. \A r \in ActiveRows(k) : /\ assignments'[r] = assignments[r]
                                   /\ rowContractor'[r] = rowContractor[r]
      BY DEF ActiveRows
    <2> QED BY <2>1, <2>2, LineStays
  <1> QED BY <1>1, OneLine

\* A step that touches no job writes no line.
LEMMA NoLine ==
  ASSUME OneActiveAssignment, OneActiveAssignment',
         UNCHANGED <<jobStatus, assignments, rowJob, rowContractor, overtaken>>
  PROVE  UNCHANGED Book!bookVars
  <1>1. ASSUME NEW k \in Job
        PROVE  Phases'[k] = Phases[k] /\ Holders'[k] = Holders[k]
    <2>1. ActiveRows(k)' = ActiveRows(k)
      BY DEF ActiveRows
    <2> QED BY <2>1, LineStays
  <1>2. /\ Phases = [k \in Job |-> Phases[k]] /\ Phases' = [k \in Job |-> Phases'[k]]
        /\ Holders = [k \in Job |-> Holders[k]] /\ Holders' = [k \in Job |-> Holders'[k]]
    BY DEF Phases, Holders
  <1>3. Phases' = Phases /\ Holders' = Holders
    BY <1>1, <1>2
  <1> QED BY <1>3 DEF Book!bookVars

\* Which entry of the book a line that was written stands for
LEMMA Entry ==
  ASSUME NEW j \in Job,
         Phases' = [Phases EXCEPT ![j] = Phases'[j]],
         Holders' = [Holders EXCEPT ![j] = Holders'[j]]
  PROVE  /\ Phases[j] = "offered" /\ Phases'[j] = "held" /\ Holders'[j] = Holders[j] =>
                Book!BookNext
         /\ Holders'[j] = NoContractor =>
              /\ Phases[j] \in {"offered", "held"} /\ Phases'[j] = "open" => Book!BookNext
              /\ Phases[j] = "held" /\ Phases'[j] = "done" => Book!BookNext
              /\ Phases[j] \in {"open", "offered", "held"} /\ Phases'[j] = "cancelled" =>
                    Book!BookNext
              /\ Phases[j] \in {"open", "offered", "held", "done", "cancelled"}
                 /\ Phases'[j] = "astray" => Book!BookNext
  <1>1. DOMAIN Phases = Job /\ DOMAIN Holders = Job
    BY DEF Phases, Holders
  <1>2. ASSUME Phases[j] = "offered", Phases'[j] = "held", Holders'[j] = Holders[j]
        PROVE  Book!BookNext
    <2>1. Holders' = Holders
      BY <1>2 DEF Holders
    <2> QED BY <1>2, <2>1 DEF Book!BookNext, Book!Accept, Book!Moves
  <1>3. ASSUME Holders'[j] = NoContractor, Phases[j] \in {"offered", "held"},
               Phases'[j] = "open"
        PROVE  Book!BookNext
    BY <1>3 DEF Book!BookNext, Book!Release, Book!Moves, Book!LetsGo
  <1>4. ASSUME Holders'[j] = NoContractor, Phases[j] = "held", Phases'[j] = "done"
        PROVE  Book!BookNext
    BY <1>4 DEF Book!BookNext, Book!Finish, Book!Moves, Book!LetsGo
  <1>5. ASSUME Holders'[j] = NoContractor, Phases[j] \in {"open", "offered", "held"},
               Phases'[j] = "cancelled"
        PROVE  Book!BookNext
    BY <1>5 DEF Book!BookNext, Book!Cancel, Book!Moves, Book!LetsGo
  <1>6. ASSUME Holders'[j] = NoContractor, Phases'[j] = "astray",
               Phases[j] \in {"open", "offered", "held", "done", "cancelled"}
        PROVE  Book!BookNext
    BY <1>6 DEF Book!BookNext, Book!GoAstray, Book!Moves, Book!LetsGo, Book!Phase
  <1> QED BY <1>2, <1>3, <1>4, <1>5, <1>6

\* A job that nobody holds is closed.
LEMMA CloseEntry ==
  ASSUME NEW j \in Job,
         Phases' = [Phases EXCEPT ![j] = Phases'[j]],
         Holders' = [Holders EXCEPT ![j] = Holders'[j]],
         Holders'[j] = NoContractor, Holders[j] = NoContractor,
         Phases[j] = "open", Phases'[j] = "done"
  PROVE  Book!BookNext
  <1>1. Holders' = Holders
    BY DEF Holders
  <1>2. Book!Close(j)
    BY <1>1 DEF Book!Close, Book!Moves
  <1> QED BY <1>2 DEF Book!BookNext

\* A line whose job is overtaken goes astray once and stays there.
LEMMA Astray ==
  ASSUME OneActiveAssignment, OneActiveAssignment', NEW j \in Job, j \in overtaken',
         Phases' = [Phases EXCEPT ![j] = Phases'[j]],
         Holders' = [Holders EXCEPT ![j] = Holders'[j]],
         Phases'[j] = Phases[j] /\ Holders'[j] = Holders[j] => UNCHANGED Book!bookVars
  PROVE  Book!BookNext \/ UNCHANGED Book!bookVars
  <1>1. Phases'[j] = "astray" /\ Holders'[j] = NoContractor
    BY LinesNext DEF LineOf
  <1>2. CASE j \in overtaken
    <2>1. Phases[j] = "astray" /\ Holders[j] = NoContractor
      BY <1>2, Lines DEF LineOf
    <2> QED BY <1>1, <2>1
  <1>3. CASE j \notin overtaken
    <2>1. Phases[j] \in {"open", "offered", "held", "done", "cancelled"}
      BY <1>3 DEF Phases, PhaseOf
    <2> QED BY <1>1, <2>1, Entry
  <1> QED BY <1>2, <1>3

\* A dispatch is an offer: the conflict check under the contractor lock sees
\* every job the contractor holds.
LEMMA DispatchKeeps ==
  ASSUME BookInv, BookInv', NEW j \in Job, NEW c \in Contractor, NEW q \in Row,
         DispatchJobToContractor(j, c, q)
  PROVE  Book!BookNext \/ UNCHANGED Book!bookVars
  <1> USE DEF BookInv, IType, TypeOK, RowsWellFormed, rowVars, readVars
  <1>1. /\ Phases' = [Phases EXCEPT ![j] = Phases'[j]]
        /\ Holders' = [Holders EXCEPT ![j] = Holders'[j]]
        /\ Phases'[j] = Phases[j] /\ Holders'[j] = Holders[j] => UNCHANGED Book!bookVars
    <2>1. \A k \in Job \ {j} : /\ jobStatus'[k] = jobStatus[k]
                               /\ k \in overtaken' <=> k \in overtaken
      BY DEF DispatchJobToContractor
    <2>2. \A r \in Row, k \in Job \ {j} :
             /\ rowJob'[r] = k <=> rowJob[r] = k
             /\ rowJob[r] = k => /\ assignments'[r] = assignments[r]
                                 /\ rowContractor'[r] = rowContractor[r]
      BY DispatchAssumption DEF DispatchJobToContractor
    <2> QED BY <2>1, <2>2, OnlyLine
  <1>2. CASE j \in overtaken
    BY <1>1, <1>2, Astray DEF DispatchJobToContractor
  <1>3. CASE j \notin overtaken
    <2>1. Phases[j] = "open"
      BY <1>3, Lines DEF LineOf, DispatchJobToContractor, HasActiveAssignment
    <2>2. q \in ActiveRows(j)' /\ assignments'[q] = "pending" /\ rowContractor'[q] = c
      BY DEF DispatchJobToContractor, ActiveRows, ActiveStatus
    <2>3. Phases'[j] = "offered" /\ Holders'[j] = c
      BY <1>3, <2>2, LinesNext DEF LineOf, DispatchJobToContractor
    <2>4. ASSUME NEW k \in Job, Holders[k] = c
          PROVE  <<k, j>> \notin Clashes
      <3>1. k \notin overtaken /\ Phases[k] \in {"offered", "held"}
        BY <2>4, DispatchAssumption DEF Holders, Phases, PhaseOf
      <3>2. jobStatus[k] \notin {"cancelled"} \cup DoneStatus
        BY <3>1, Lines DEF LineOf
      <3>3. PICK s \in ActiveRows(k) : TRUE
        BY <3>1, <3>2, Lines DEF LineOf
      <3>4. rowContractor[s] = c /\ s \in Row /\ rowJob[s] = k /\ assignments[s] \in ActiveStatus
        BY <2>4, <3>1, <3>2, Lines DEF LineOf, ActiveRows
      <3>5. jobStatus[k] \in OccupyingStatus
        BY <3>1, <3>2, <3>3 DEF StatusReached, HolderMatchesJobStatus, OccupyingStatus
      <3>6. k \in scheduled
        BY <3>4 DEF ActiveRowsScheduled, ActiveStatus
      <3>7. k # j
        BY <3>3 DEF DispatchJobToContractor, HasActiveAssignment
      <3>8. ~ SlotsOverlap(AppointmentOf[k], AppointmentOf[j])
        BY <3>4, <3>5, <3>6, <3>7 DEF DispatchJobToContractor, ScheduleConflict
      <3> QED BY <3>8 DEF Clashes
    <2>5. Book!Offer(j, c)
      BY <1>1, <2>1, <2>3, <2>4 DEF Book!Offer, Book!Moves
    <2> QED BY <2>5 DEF Book!BookNext
  <1> QED BY <1>2, <1>3

\* cancel and cancel-assignment let the holder go.
LEMMA CancelKeeps ==
  ASSUME BookInv, BookInv', NEW j \in Job,
         CancelJob(j) \/ \E q \in Row : CancelContractorAssignment(j, q)
  PROVE  Book!BookNext \/ UNCHANGED Book!bookVars
  <1> USE DEF BookInv, IType, TypeOK, RowsWellFormed, rowVars, readVars
  <1>1. /\ Phases' = [Phases EXCEPT ![j] = Phases'[j]]
        /\ Holders' = [Holders EXCEPT ![j] = Holders'[j]]
        /\ Phases'[j] = Phases[j] /\ Holders'[j] = Holders[j] => UNCHANGED Book!bookVars
    <2>1. \A k \in Job \ {j} : /\ jobStatus'[k] = jobStatus[k]
                               /\ k \in overtaken' <=> k \in overtaken
      BY DEF CancelJob, CancelContractorAssignment
    <2>2. \A r \in Row, k \in Job \ {j} :
             /\ rowJob'[r] = k <=> rowJob[r] = k
             /\ rowJob[r] = k => /\ assignments'[r] = assignments[r]
                                 /\ rowContractor'[r] = rowContractor[r]
      BY DEF CancelJob, CancelContractorAssignment, ActiveRows
    <2> QED BY <2>1, <2>2, OnlyLine
  <1>2. overtaken' = overtaken
    BY DEF CancelJob, CancelContractorAssignment
  <1>3. CASE j \in overtaken
    BY <1>1, <1>2, <1>3, Astray
  <1>4. CASE j \notin overtaken /\ CancelJob(j)
    <2>1. /\ jobStatus'[j] = "cancelled"
          /\ jobStatus[j] \notin {"cancelled"} \cup DoneStatus
      BY <1>4 DEF CancelJob, CanTransition, Transitions
    <2>2. Phases[j] \in {"open", "offered", "held"}
      BY <1>4, <2>1 DEF Phases, PhaseOf
    <2>3. Phases'[j] = "cancelled" /\ Holders'[j] = NoContractor
      BY <1>2, <1>4, <2>1, LinesNext DEF LineOf
    <2> QED BY <1>1, <2>2, <2>3, Entry
  <1>5. ASSUME j \notin overtaken, NEW q \in Row, CancelContractorAssignment(j, q)
        PROVE  Book!BookNext
    <2>1. q \in ActiveRows(j) /\ \A s \in ActiveRows(j) : s = q
      BY <1>5 DEF OneActiveAssignment, CancelContractorAssignment
    <2>2. Phases[j] \in {"offered", "held"}
      BY <1>5, <2>1, Lines DEF LineOf, CancelContractorAssignment
    <2>3. ActiveRows(j)' = {}
      BY <1>5, <2>1 DEF CancelContractorAssignment, ActiveRows, ActiveStatus
    <2>4. Phases'[j] = "open" /\ Holders'[j] = NoContractor
      BY <1>2, <1>5, <2>3, LinesNext DEF LineOf, CancelContractorAssignment
    <2> QED BY <1>1, <2>2, <2>4, Entry
  <1> QED BY <1>3, <1>4, <1>5

\* approve-dispatch leaves the line alone and mark-complete finishes it, unless
\* the job was overtaken.
LEMMA AdminKeeps ==
  ASSUME BookInv, BookInv', NEW m \in adminRead, AdminJobWrite(m)
  PROVE  Book!BookNext \/ UNCHANGED Book!bookVars
  <1> DEFINE j == m.job
  <1> USE DEF BookInv, IType, TypeOK, RowsWellFormed, rowVars, readVars
  <1>1. j \in Job /\ m.target \in {"ready_for_dispatch", "work_completed"}
    BY DEF AdminRequest
  <1>2. /\ Phases' = [Phases EXCEPT ![j] = Phases'[j]]
        /\ Holders' = [Holders EXCEPT ![j] = Holders'[j]]
        /\ Phases'[j] = Phases[j] /\ Holders'[j] = Holders[j] => UNCHANGED Book!bookVars
    <2>1. \A k \in Job \ {j} : /\ jobStatus'[k] = jobStatus[k]
                               /\ k \in overtaken' <=> k \in overtaken
      BY <1>1 DEF AdminJobWrite
    <2>2. \A r \in Row, k \in Job \ {j} :
             /\ rowJob'[r] = k <=> rowJob[r] = k
             /\ rowJob[r] = k => /\ assignments'[r] = assignments[r]
                                 /\ rowContractor'[r] = rowContractor[r]
      BY DEF AdminJobWrite
    <2> HIDE DEF j
    <2> QED BY <1>1, <2>1, <2>2, OnlyLine
  <1>3. CASE j \in overtaken'
    <2> HIDE DEF j
    <2> QED BY <1>1, <1>2, <1>3, Astray
  <1>4. CASE j \notin overtaken'
    <2>1. /\ j \notin overtaken
          /\ CanTransition(jobStatus[j], m.target)
          /\ jobStatus'[j] = m.target
      BY <1>1, <1>4, AllowedTransition DEF AdminJobWrite
    <2>2. ActiveRows(j)' = ActiveRows(j) /\ assignments' = assignments
                                         /\ rowContractor' = rowContractor
      BY DEF AdminJobWrite, ActiveRows
    <2>3. CASE m.target = "ready_for_dispatch"
      <3>1. jobStatus[j] \notin {"cancelled"} \cup DoneStatus
        BY <2>1, <2>3 DEF CanTransition, Transitions
      <3>2. LineOf(j) /\ LineOf(j)'
        BY <1>1, Lines, LinesNext
      <3>3. Phases'[j] = Phases[j] /\ Holders'[j] = Holders[j]
        BY <1>4, <2>1, <2>2, <2>3, <3>1, <3>2 DEF LineOf
      <3> QED BY <1>2, <3>3
    <2>4. CASE m.target = "work_completed"
      <3>1. jobStatus[j] = "assigned"
        BY <1>1, <2>1, <2>4 DEF CanTransition, Transitions, StatusReached
      <3>2. PICK r \in ActiveRows(j) : assignments[r] = "accepted"
        BY <1>1, <2>1, <3>1 DEF HolderMatchesJobStatus
      <3>3. LineOf(j) /\ LineOf(j)'
        BY <1>1, Lines, LinesNext
      <3>4. Phases[j] = "held"
        BY <2>1, <3>1, <3>2, <3>3 DEF LineOf
      <3>5. Phases'[j] = "done" /\ Holders'[j] = NoContractor
        BY <1>4, <2>1, <2>4, <3>3 DEF LineOf
      <3> HIDE DEF j
      <3> QED BY <1>1, <1>2, <3>4, <3>5, Entry
    <2> QED BY <1>1, <2>3, <2>4
  <1> QED BY <1>3, <1>4

\* CONFIRM accepts, DECLINE releases and DONE finishes, unless the job was
\* overtaken.
LEMMA CommandKeeps ==
  ASSUME BookInv, BookInv', NEW m \in smsRead, SmsCommandWrite(m),
         NEW j \in Job, rowJob[m.row] = j
  PROVE  Book!BookNext \/ UNCHANGED Book!bookVars
  <1> USE DEF BookInv, IType, TypeOK, RowsWellFormed, rowVars, readVars
  <1>1. m.command \in {"CONFIRM", "DECLINE", "DONE"} /\ m.row \in Row
    BY DEF SmsCommandWrite, SmsRequest, SmsCommand
  <1>2. /\ Phases' = [Phases EXCEPT ![j] = Phases'[j]]
        /\ Holders' = [Holders EXCEPT ![j] = Holders'[j]]
        /\ Phases'[j] = Phases[j] /\ Holders'[j] = Holders[j] => UNCHANGED Book!bookVars
    <2>1. \A k \in Job \ {j} : /\ jobStatus'[k] = jobStatus[k]
                               /\ k \in overtaken' <=> k \in overtaken
      BY <1>1 DEF SmsCommandWrite
    <2>2. \A r \in Row, k \in Job \ {j} :
             /\ rowJob'[r] = k <=> rowJob[r] = k
             /\ rowJob[r] = k => /\ assignments'[r] = assignments[r]
                                 /\ rowContractor'[r] = rowContractor[r]
      BY <1>1 DEF SmsCommandWrite
    <2> QED BY <2>1, <2>2, OnlyLine
  <1>3. CASE j \in overtaken'
    BY <1>2, <1>3, Astray
  <1>4. CASE j \notin overtaken'
    <2>1. /\ j \notin overtaken
          /\ assignments[m.row] \in ActiveStatus
          /\ m.command = "CONFIRM" => assignments[m.row] = "pending"
          /\ m.command = "DONE" => jobStatus[j] = "assigned"
          /\ jobStatus[j] \in {"dispatch_in_progress", "assigned"}
      BY <1>4, AllowedCommand DEF SmsCommandWrite
    <2>2. m.row \in ActiveRows(j) /\ \A s \in ActiveRows(j) : s = m.row
      BY <1>1, <2>1 DEF ActiveRows, OneActiveAssignment
    <2>3. LineOf(j) /\ LineOf(j)'
      BY Lines, LinesNext
    <2>4. /\ jobStatus'[j] = TargetJobStatus(m.command)
          /\ assignments'[m.row] = TargetAssignment(m.command)
          /\ \A r \in Row \ {m.row} : assignments'[r] = assignments[r]
          /\ rowJob' = rowJob /\ rowContractor' = rowContractor
      BY <1>1 DEF SmsCommandWrite
    <2>5. CASE m.command = "CONFIRM"
      <3>1. Phases[j] = "offered" /\ Holders[j] = rowContractor[m.row]
        BY <2>1, <2>2, <2>3, <2>5 DEF LineOf
      <3>2. jobStatus'[j] = "assigned" /\ assignments'[m.row] = "accepted"
        BY <2>4, <2>5 DEF TargetJobStatus, TargetAssignment
      <3>3. m.row \in ActiveRows(j)'
        BY <1>1, <2>4, <3>2 DEF ActiveRows, ActiveStatus
      <3>4. Phases'[j] = "held" /\ Holders'[j] = rowContractor[m.row]
        BY <1>4, <2>3, <2>4, <3>2, <3>3 DEF LineOf
      <3> QED BY <1>2, <3>1, <3>4, Entry
    <2>6. CASE m.command = "DECLINE"
      <3>1. Phases[j] \in {"offered", "held"}
        BY <2>1, <2>2, <2>3 DEF LineOf
      <3>2. jobStatus'[j] = "ready_for_dispatch" /\ assignments'[m.row] = "declined"
        BY <2>4, <2>6 DEF TargetJobStatus, TargetAssignment
      <3>3. ActiveRows(j)' = {}
        BY <2>2, <2>4, <3>2 DEF ActiveRows, ActiveStatus
      <3>4. Phases'[j] = "open" /\ Holders'[j] = NoContractor
        BY <1>4, <2>3, <3>2, <3>3 DEF LineOf
      <3> QED BY <1>2, <3>1, <3>4, Entry
    <2>7. CASE m.command = "DONE"
      <3>1. PICK r \in ActiveRows(j) : assignments[r] = "accepted"
        BY <1>1, <2>1, <2>7 DEF HolderMatchesJobStatus
      <3>2. Phases[j] = "held"
        BY <2>1, <2>3, <2>7, <3>1 DEF LineOf
      <3>3. jobStatus'[j] = "completion_reported"
        BY <2>4, <2>7 DEF TargetJobStatus
      <3>4. Phases'[j] = "done" /\ Holders'[j] = NoContractor
        BY <1>4, <2>3, <3>3 DEF LineOf
      <3> QED BY <1>2, <3>2, <3>4, Entry
    <2> QED BY <1>1, <2>5, <2>6, <2>7
  <1> QED BY <1>3, <1>4

\* A payment closes an open line or leaves the line alone, unless the job was
\* overtaken.
LEMMA PaymentKeeps ==
  ASSUME BookInv, BookInv', NEW m \in settling, NEW s \in JobStatus, PaymentWrite(m, s),
         NEW j \in Job, m.job = j
  PROVE  Book!BookNext \/ UNCHANGED Book!bookVars
  <1> USE DEF BookInv, IType, TypeOK, RowsWellFormed, rowVars, readVars
  <1>1. /\ Phases' = [Phases EXCEPT ![j] = Phases'[j]]
        /\ Holders' = [Holders EXCEPT ![j] = Holders'[j]]
        /\ Phases'[j] = Phases[j] /\ Holders'[j] = Holders[j] => UNCHANGED Book!bookVars
    <2>1. \A k \in Job \ {j} : /\ jobStatus'[k] = jobStatus[k]
                               /\ k \in overtaken' <=> k \in overtaken
      BY DEF PaymentWrite, SettleWrite
    <2>2. \A r \in Row, k \in Job \ {j} :
             /\ rowJob'[r] = k <=> rowJob[r] = k
             /\ rowJob[r] = k => /\ assignments'[r] = assignments[r]
                                 /\ rowContractor'[r] = rowContractor[r]
      BY DEF PaymentWrite
    <2> QED BY <2>1, <2>2, OnlyLine
  <1>2. CASE j \in overtaken'
    BY <1>1, <1>2, Astray
  <1>3. CASE j \notin overtaken'
    <2>1. j \notin overtaken /\ <<jobStatus[j], s>> \in SettleEdges /\ jobStatus'[j] = s
      BY <1>3, AllowedPayment DEF PaymentWrite, SettleWrite
    <2>2. ActiveRows(j)' = ActiveRows(j)
      BY DEF PaymentWrite, ActiveRows
    <2>3. LineOf(j) /\ LineOf(j)'
      BY Lines, LinesNext
    <2>4. CASE jobStatus[j] \in DoneStatus
      <3>1. s \in DoneStatus
        BY <2>1, <2>4 DEF SettleEdges, DoneStatus
      <3> QED BY <1>1, <1>3, <2>1, <2>3, <2>4, <3>1 DEF LineOf
    <2>5. CASE jobStatus[j] \in {"awaiting_payment", "deposit_paid"}
      <3>1. ActiveRows(j) = {}
        BY <2>1, <2>5 DEF HolderMatchesJobStatus
      <3>2. Phases[j] = "open" /\ Holders[j] = NoContractor
        BY <2>1, <2>3, <2>5, <3>1 DEF LineOf, DoneStatus
      <3>3. CASE s = "closed_paid"
        <4>1. Phases'[j] = "done" /\ Holders'[j] = NoContractor
          BY <1>3, <2>1, <2>3, <3>3 DEF LineOf, DoneStatus
        <4> QED BY <1>1, <3>2, <4>1, CloseEntry
      <3>4. CASE s \in {"deposit_paid", "paid_in_full"}
        <4>1. Phases'[j] = "open" /\ Holders'[j] = NoContractor
          BY <1>3, <2>1, <2>2, <2>3, <3>1, <3>4 DEF LineOf, DoneStatus
        <4> QED BY <1>1, <3>2, <4>1
      <3> QED BY <2>1, <2>5, <3>3, <3>4 DEF SettleEdges
    <2> QED BY <2>1, <2>4, <2>5 DEF SettleEdges, DoneStatus
  <1> QED BY <1>2, <1>3

LEMMA InitKeeps == Init => Book!BookInit
  <1> SUFFICES ASSUME Init PROVE Book!BookInit
    OBVIOUS
  <1>1. \A j \in Job : PhaseOf(j) = "open"
    BY DispatchAssumption DEF Init, PhaseOf, ActiveRows
  <1> QED BY <1>1 DEF Book!BookInit, Phases, Holders

LEMMA BookStep == BookInv /\ BookInv' /\ [Next]_vars => [Book!BookNext]_(Book!bookVars)
  <1> SUFFICES ASSUME BookInv, BookInv', [Next]_vars
               PROVE  Book!BookNext \/ UNCHANGED Book!bookVars
    OBVIOUS
  <1>1. CASE UNCHANGED <<jobStatus, assignments, rowJob, rowContractor, overtaken>>
    BY <1>1, NoLine DEF BookInv
  <1>2. ASSUME NEW m \in smsRead, SmsCommandWrite(m)
        PROVE  rowJob[m.row] \in Job
    BY DEF BookInv, IType, RowsWellFormed
  <1>3. ASSUME NEW m \in settling
        PROVE  m.job \in Job
    BY DEF BookInv, IType, TypeOK, SettleRequest
  <1> QED
    BY <1>1, <1>2, <1>3, DispatchKeeps, CancelKeeps, AdminKeeps, CommandKeeps, PaymentKeeps
    DEF Next, vars, rowVars, readVars, DispatchTextSent, DispatchTextFailed, AdminJobRead,
        SmsCommandRead, SmsOtwWrite, PaymentRead, PaymentEnds, SettleRead, SettleEnds,
        SettlesLost, SetContractorActive, SetContractorInactive, Crash

\* Dispatch implements the book: with any number of requests in progress, what
\* happens to a job no write has overtaken is an offer that clashes with nothing
\* its contractor holds, an answer, a release, an end or a cancellation, or it is
\* closed by payment before anyone was offered it.
THEOREM BookKept == Spec => KeepsTheBook
  <1> QED BY InitKeeps, BookStep, AlwaysBookInv, PTL DEF Spec, KeepsTheBook, Book!BookSpec

-----------------------------------------------------------------------------
(* Dispatch implements JobLifecycle: its own half is the moves, and the        *)
(* payments half is what it has taken from there                             *)

\* A handler carries one request at a time.
OneRequestEach ==
    /\ \A m, n \in smsRead : m.handler = n.handler => m = n
    /\ \A m, n \in adminRead : m.handler = n.handler => m = n
    /\ \A m \in smsRead, n \in adminRead : m.handler # n.handler

LEMMA OneRequestStep == IType /\ OneRequestEach /\ [Next]_vars => OneRequestEach'
  <1> SUFFICES ASSUME IType, OneRequestEach, [Next]_vars PROVE OneRequestEach'
    OBVIOUS
  <1> USE DEF IType, TypeOK, OneRequestEach, readVars
  <1>1. ASSUME NEW h \in Handler, NEW j \in Job,
               NEW t \in {"ready_for_dispatch", "work_completed"}, AdminJobRead(h, j, t)
        PROVE  OneRequestEach'
    BY <1>1 DEF AdminJobRead, HandlerFree
  <1>2. ASSUME NEW h \in Handler, NEW c \in Contractor, NEW command \in SmsCommand,
               NEW r \in Row, SmsCommandRead(h, c, command, r)
        PROVE  OneRequestEach'
    BY <1>2 DEF SmsCommandRead, HandlerFree
  <1>3. CASE smsRead' \subseteq smsRead /\ adminRead' \subseteq adminRead
    BY <1>3
  <1> QED
    BY <1>1, <1>2, <1>3
    DEF Next, vars, DispatchJobToContractor, CancelContractorAssignment, CancelJob,
        DispatchTextSent, DispatchTextFailed, AdminJobWrite, SmsCommandWrite, SmsOtwWrite,
        PaymentRead, PaymentWrite, PaymentEnds, SetContractorActive, SetContractorInactive,
        Crash

LEMMA AlwaysOneRequest == Spec => []OneRequestEach
  <1>1. Init => OneRequestEach
    BY DEF Init, OneRequestEach
  <1> QED BY <1>1, OneRequestStep, AlwaysIType, PTL DEF Spec

\* The request of JobLifecycle that an admin request and a text command stand for
AdminMove(m) == [handler |-> m.handler, job |-> m.job, edge |-> <<m.seen, m.target>>]
SmsMove(m) == [handler |-> m.handler, job |-> rowJob[m.row],
               edge |-> <<m.seen, TargetJobStatus(m.command)>>]

LEMMA MovingIs ==
  /\ Moving = {AdminMove(m) : m \in adminRead}
                \cup {SmsMove(m) : m \in {n \in smsRead : n.command # "OTW"}}
  /\ Moving' = {AdminMove(m) : m \in adminRead'}
                \cup {SmsMove(m)' : m \in {n \in smsRead' : n.command # "OTW"}}
  BY DEF Moving, AdminMove, SmsMove

\* The row a text command answers stays on its job.
LEMMA SmsMoveStays ==
  ASSUME IType, [Next]_vars, NEW m \in smsRead
  PROVE  SmsMove(m)' = SmsMove(m)
  <1>1. m.row \in Row /\ rowJob[m.row] \in Job
    BY DEF IType, TypeOK, RowsWellFormed, SmsRequest
  <1>2. rowJob'[m.row] = rowJob[m.row]
    <2>1. ASSUME NEW j \in Job, NEW c \in Contractor, NEW r \in Row,
                 DispatchJobToContractor(j, c, r)
          PROVE  rowJob'[m.row] = rowJob[m.row]
      BY <1>1, <2>1, DispatchAssumption DEF DispatchJobToContractor, IType, TypeOK, RowsWellFormed
    <2>2. CASE UNCHANGED rowJob
      BY <2>2
    <2> QED
      BY <2>1, <2>2
      DEF Next, vars, rowVars, CancelContractorAssignment, CancelJob, AdminJobRead,
          DispatchTextSent, DispatchTextFailed, AdminJobWrite, SmsCommandRead, SmsCommandWrite,
          SmsOtwWrite, PaymentRead, PaymentWrite, PaymentEnds, SetContractorActive,
          SetContractorInactive, Crash
  <1> QED BY <1>2 DEF SmsMove

\* What a request is going to store, its endpoint may store without a lock.
LEMMA UnlockedEdge ==
  /\ \A s \in JobStatus, t \in {"ready_for_dispatch", "work_completed"} :
        CanTransition(s, t) => <<s, t>> \in Lifecycle!UnlockedEdges
  /\ \A command \in {"CONFIRM", "DECLINE", "DONE"} : \A s \in RuleJob(command) :
        <<s, TargetJobStatus(command)>> \in Lifecycle!UnlockedEdges
  <1>1. \A s \in JobStatus, t \in {"ready_for_dispatch", "work_completed"} :
          CanTransition(s, t) => <<s, t>> \in Lifecycle!UnlockedEdges
    BY DEF CanTransition, Transitions, Lifecycle!UnlockedEdges, Lifecycle!DispatchEdges
  <1>2. \A command \in {"CONFIRM", "DECLINE", "DONE"} : \A s \in RuleJob(command) :
          <<s, TargetJobStatus(command)>> \in Lifecycle!UnlockedEdges
    BY DEF RuleJob, TargetJobStatus, Lifecycle!UnlockedEdges, Lifecycle!DispatchEdges
  <1> QED BY <1>1, <1>2

\* What a step that neither starts nor ends a request leaves of them
LEMMA MovingKept ==
  ASSUME IType, [Next]_vars, smsRead' = smsRead, adminRead' = adminRead
  PROVE  Moving' = Moving
  <1>1. {SmsMove(m)' : m \in {n \in smsRead : n.command # "OTW"}}
        = {SmsMove(m) : m \in {n \in smsRead : n.command # "OTW"}}
    BY SmsMoveStays
  <1> QED BY <1>1, MovingIs

LEMMA AdminReadMoves ==
  ASSUME IType, [Next]_vars, NEW h \in Handler, NEW j \in Job,
         NEW t \in {"ready_for_dispatch", "work_completed"}, AdminJobRead(h, j, t)
  PROVE  Lifecycle!MoveRead(h, j, t)
  <1> DEFINE m == [handler |-> h, job |-> j, seen |-> jobStatus[j], target |-> t]
             commands == {n \in smsRead : n.command # "OTW"}
  <1>1. /\ adminRead' = adminRead \cup {m} /\ smsRead' = smsRead /\ jobStatus' = jobStatus
        /\ HandlerFree(h) /\ CanTransition(jobStatus[j], t)
    BY DEF AdminJobRead
  <1>2. AdminMove(m) = [handler |-> h, job |-> j, edge |-> <<jobStatus[j], t>>]
    BY DEF AdminMove
  <1>3. {SmsMove(n)' : n \in commands} = {SmsMove(n) : n \in commands}
    BY SmsMoveStays
  <1>4. {AdminMove(n) : n \in adminRead \cup {m}}
        = {AdminMove(n) : n \in adminRead} \cup {AdminMove(m)}
    OBVIOUS
  <1>5. Moving' = Moving \cup {AdminMove(m)}
    <2> HIDE DEF m
    <2> QED BY <1>1, <1>3, <1>4, MovingIs
  <1>6. \A n \in Moving : n.handler # h
    BY <1>1, MovingIs DEF HandlerFree, AdminMove, SmsMove
  <1>7. <<jobStatus[j], t>> \in Lifecycle!UnlockedEdges
    BY <1>1, UnlockedEdge DEF IType, TypeOK
  <1> QED BY <1>1, <1>2, <1>5, <1>6, <1>7 DEF Lifecycle!MoveRead

LEMMA CommandReadMoves ==
  ASSUME IType, [Next]_vars, NEW h \in Handler, NEW c \in Contractor,
         NEW command \in SmsCommand \ {"OTW"}, NEW r \in Row,
         SmsCommandRead(h, c, command, r)
  PROVE  \E j \in Job : Lifecycle!MoveRead(h, j, TargetJobStatus(command))
  <1> DEFINE commands == {n \in smsRead : n.command # "OTW"}
             j == rowJob[r]
  <1> PICK m : m = [handler |-> h, command |-> command, row |-> r,
                    seen |-> jobStatus[rowJob[r]], held |-> assignments[r]]
    OBVIOUS
  <1>1. /\ smsRead' = smsRead \cup {m} /\ adminRead' = adminRead /\ jobStatus' = jobStatus
        /\ rowJob' = rowJob
        /\ HandlerFree(h) /\ jobStatus[j] \in RuleJob(command)
        /\ assignments[r] \in ActiveStatus
    BY DEF SmsCommandRead, rowVars, CommandAllowed, Routed, RoutableRows
  <1>2. j \in Job
    BY <1>1 DEF IType, TypeOK, RowsWellFormed, ActiveStatus
  <1>3. SmsMove(m) = [handler |-> h, job |-> j,
                      edge |-> <<jobStatus[j], TargetJobStatus(command)>>]
    BY DEF SmsMove
  <1>4. SmsMove(m)' = SmsMove(m)
    BY <1>1 DEF SmsMove
  <1>5. {SmsMove(n)' : n \in commands} = {SmsMove(n) : n \in commands}
    BY SmsMoveStays
  <1>6. {n \in smsRead \cup {m} : n.command # "OTW"} = commands \cup {m}
    OBVIOUS
  <1>7. {SmsMove(n)' : n \in commands \cup {m}}
        = {SmsMove(n)' : n \in commands} \cup {SmsMove(m)'}
    OBVIOUS
  <1>8. Moving' = Moving \cup {SmsMove(m)}
    <2>1. {n \in smsRead' : n.command # "OTW"} = commands \cup {m}
      BY <1>1, <1>6
    <2> QED BY <1>1, <1>4, <1>5, <1>7, <2>1, MovingIs
  <1>9. \A n \in Moving : n.handler # h
    BY <1>1, MovingIs DEF HandlerFree, AdminMove, SmsMove
  <1>10. <<jobStatus[j], TargetJobStatus(command)>> \in Lifecycle!UnlockedEdges
    BY <1>1, UnlockedEdge DEF SmsCommand
  <1> QED BY <1>1, <1>2, <1>3, <1>8, <1>9, <1>10 DEF Lifecycle!MoveRead

LEMMA AdminWriteMoves ==
  ASSUME IType, OneRequestEach, [Next]_vars, NEW m \in adminRead, AdminJobWrite(m)
  PROVE  Lifecycle!MoveWrite(AdminMove(m)) /\ AdminMove(m) \in Moving
  <1> DEFINE commands == {n \in smsRead : n.command # "OTW"}
  <1>1. /\ adminRead' = adminRead \ {m} /\ smsRead' = smsRead
        /\ jobStatus' = [jobStatus EXCEPT ![m.job] = m.target]
    BY DEF AdminJobWrite
  <1>2. AdminMove(m).job = m.job /\ AdminMove(m).edge[2] = m.target
    BY DEF AdminMove
  <1>3. {SmsMove(n)' : n \in commands} = {SmsMove(n) : n \in commands}
    BY SmsMoveStays
  <1>4. \A n \in adminRead \ {m} : AdminMove(n) # AdminMove(m)
    BY DEF OneRequestEach, AdminMove
  <1>5. \A n \in commands : SmsMove(n) # AdminMove(m)
    BY DEF OneRequestEach, AdminMove, SmsMove
  <1>6. Moving' = Moving \ {AdminMove(m)} /\ AdminMove(m) \in Moving
    BY <1>1, <1>3, <1>4, <1>5, MovingIs
  <1> QED BY <1>1, <1>2, <1>6 DEF Lifecycle!MoveWrite

LEMMA CommandWriteMoves ==
  ASSUME IType, OneRequestEach, [Next]_vars, NEW m \in smsRead, SmsCommandWrite(m)
  PROVE  Lifecycle!MoveWrite(SmsMove(m)) /\ SmsMove(m) \in Moving
  <1> DEFINE commands == {n \in smsRead : n.command # "OTW"}
  <1>1. /\ smsRead' = smsRead \ {m} /\ adminRead' = adminRead /\ m.command # "OTW"
        /\ jobStatus' = [jobStatus EXCEPT ![rowJob[m.row]] = TargetJobStatus(m.command)]
    BY DEF SmsCommandWrite
  <1>2. SmsMove(m).job = rowJob[m.row] /\ SmsMove(m).edge[2] = TargetJobStatus(m.command)
    BY DEF SmsMove
  <1>3. {n \in smsRead' : n.command # "OTW"} = commands \ {m} /\ m \in commands
    BY <1>1
  <1>4. {SmsMove(n)' : n \in commands \ {m}} = {SmsMove(n) : n \in commands \ {m}}
    BY SmsMoveStays
  <1>5. \A n \in commands \ {m} : SmsMove(n) # SmsMove(m)
    BY DEF OneRequestEach, SmsMove
  <1>6. \A n \in adminRead : AdminMove(n) # SmsMove(m)
    BY DEF OneRequestEach, AdminMove, SmsMove
  <1>7. Moving' = Moving \ {SmsMove(m)} /\ SmsMove(m) \in Moving
    <2>1. Moving' = {AdminMove(n) : n \in adminRead}
                      \cup {SmsMove(n) : n \in commands \ {m}}
      BY <1>1, <1>3, <1>4, MovingIs
    <2>2. Moving = {AdminMove(n) : n \in adminRead} \cup {SmsMove(n) : n \in commands}
      BY MovingIs
    <2> HIDE DEF commands
    <2> QED BY <1>3, <1>5, <1>6, <2>1, <2>2
  <1> QED BY <1>1, <1>2, <1>7 DEF Lifecycle!MoveWrite

LEMMA SameTable ==
  /\ Lifecycle!JobStatus = JobStatus
  /\ \A s, t : CanTransition(s, t) => Lifecycle!CanTransition(s, t)
  BY DEF JobStatus, Lifecycle!JobStatus, CanTransition, Lifecycle!CanTransition, Transitions,
         Lifecycle!Transitions

LEMMA LockedMoves ==
  ASSUME IType, [Next]_vars, NEW j \in Job,
         \/ \E c \in Contractor, r \in Row : DispatchJobToContractor(j, c, r)
         \/ \E r \in Row : CancelContractorAssignment(j, r)
         \/ CancelJob(j)
  PROVE  \E s \in JobStatus : Lifecycle!Move(j, s)
  <1>1. Moving' = Moving
    BY MovingKept DEF DispatchJobToContractor, CancelContractorAssignment, CancelJob, readVars
  <1>2. CASE \E c \in Contractor, r \in Row : DispatchJobToContractor(j, c, r)
    <2>1. Lifecycle!Move(j, "dispatch_in_progress")
      BY <1>1, <1>2 DEF DispatchJobToContractor, Lifecycle!Move, Lifecycle!DispatchEdges
    <2> QED BY <2>1 DEF JobStatus
  <1>3. CASE \E r \in Row : CancelContractorAssignment(j, r)
    <2>1. Lifecycle!Move(j, "ready_for_dispatch")
      BY <1>1, <1>3 DEF CancelContractorAssignment, Lifecycle!Move, Lifecycle!DispatchEdges
    <2> QED BY <2>1 DEF JobStatus
  <1>4. CASE CancelJob(j)
    <2>1. Lifecycle!Move(j, "cancelled")
      BY <1>1, <1>4, SameTable DEF CancelJob, Lifecycle!Move
    <2> QED BY <2>1 DEF JobStatus
  <1> QED BY <1>2, <1>3, <1>4

\* The half Dispatch takes from JobLifecycle is the half there.
LEMMA SameSettles ==
  ASSUME [Next]_vars
  PROVE  /\ \A h \in Handler, j \in Job : PaymentRead(h, j) =>
                Lifecycle!SettleRead(h, j) /\ UNCHANGED <<smsRead, adminRead>>
         /\ \A m \in settling, s \in JobStatus : PaymentWrite(m, s) =>
                Lifecycle!SettleWrite(m, s) /\ UNCHANGED <<smsRead, adminRead>>
         /\ \A m \in settling : PaymentEnds(m) =>
                Lifecycle!SettleEnds(m) /\ UNCHANGED <<smsRead, adminRead>>
  <1>1. Lifecycle!SettleEdges = SettleEdges
    BY DEF SettleEdges, Lifecycle!SettleEdges
  <1> QED
    BY <1>1, SameTable
    DEF PaymentRead, PaymentWrite, PaymentEnds, SettleRead, SettleWrite, SettleEnds,
        Lifecycle!SettleRead, Lifecycle!SettleWrite, Lifecycle!SettleEnds

LEMMA LifecycleStep ==
  IType /\ OneRequestEach /\ [Next]_vars
  => [Lifecycle!LifecycleNext]_(Lifecycle!lifecycleVars)
  <1> SUFFICES ASSUME IType, OneRequestEach, [Next]_vars
               PROVE  Lifecycle!LifecycleNext \/ UNCHANGED <<jobStatus, Moving, settling>>
    BY DEF Lifecycle!lifecycleVars
  <1>1. ASSUME NEW j \in Job,
               \/ \E c \in Contractor, r \in Row : DispatchJobToContractor(j, c, r)
               \/ \E r \in Row : CancelContractorAssignment(j, r)
               \/ CancelJob(j)
        PROVE  Lifecycle!LifecycleNext
    <2>1. UNCHANGED settling
      BY <1>1 DEF DispatchJobToContractor, CancelContractorAssignment, CancelJob, readVars
    <2> QED BY <1>1, <2>1, LockedMoves, SameTable
            DEF Lifecycle!LifecycleNext, Lifecycle!DispatchHalf
  <1>2. ASSUME NEW h \in Handler, NEW j \in Job,
               NEW t \in {"ready_for_dispatch", "work_completed"}, AdminJobRead(h, j, t)
        PROVE  Lifecycle!LifecycleNext
    <2>1. UNCHANGED settling
      BY <1>2 DEF AdminJobRead
    <2> QED BY <1>2, <2>1, AdminReadMoves, SameTable
            DEF Lifecycle!LifecycleNext, Lifecycle!DispatchHalf, JobStatus
  <1>3. ASSUME NEW m \in adminRead, AdminJobWrite(m)
        PROVE  Lifecycle!LifecycleNext
    <2>1. UNCHANGED settling
      BY <1>3 DEF AdminJobWrite
    <2> QED BY <1>3, <2>1, AdminWriteMoves DEF Lifecycle!LifecycleNext, Lifecycle!DispatchHalf
  <1>4. ASSUME NEW h \in Handler, NEW c \in Contractor, NEW command \in SmsCommand,
               NEW r \in Row, SmsCommandRead(h, c, command, r)
        PROVE  Lifecycle!LifecycleNext \/ UNCHANGED <<jobStatus, Moving, settling>>
    <2>1. CASE command = "OTW"
      <3>1. {n \in smsRead' : n.command # "OTW"} = {n \in smsRead : n.command # "OTW"}
        BY <1>4, <2>1 DEF SmsCommandRead
      <3>2. {SmsMove(n)' : n \in {k \in smsRead' : k.command # "OTW"}}
            = {SmsMove(n) : n \in {k \in smsRead : k.command # "OTW"}}
        BY <3>1, SmsMoveStays
      <3> QED BY <1>4, <3>2, MovingIs DEF SmsCommandRead
    <2>2. CASE command # "OTW"
      <3>1. TargetJobStatus(command) \in JobStatus
        BY <2>2 DEF SmsCommand, TargetJobStatus, JobStatus
      <3>2. UNCHANGED settling
        BY <1>4 DEF SmsCommandRead
      <3> QED BY <1>4, <2>2, <3>1, <3>2, CommandReadMoves, SameTable
              DEF Lifecycle!LifecycleNext, Lifecycle!DispatchHalf
    <2> QED BY <2>1, <2>2
  <1>5. ASSUME NEW m \in smsRead, SmsCommandWrite(m)
        PROVE  Lifecycle!LifecycleNext
    <2>1. UNCHANGED settling
      BY <1>5 DEF SmsCommandWrite
    <2> QED BY <1>5, <2>1, CommandWriteMoves
            DEF Lifecycle!LifecycleNext, Lifecycle!DispatchHalf
  <1>6. ASSUME NEW m \in smsRead, SmsOtwWrite(m)
        PROVE  UNCHANGED <<jobStatus, Moving, settling>>
    <2>1. {n \in smsRead' : n.command # "OTW"} = {n \in smsRead : n.command # "OTW"}
      BY <1>6 DEF SmsOtwWrite
    <2>2. {SmsMove(n)' : n \in {k \in smsRead' : k.command # "OTW"}}
          = {SmsMove(n) : n \in {k \in smsRead : k.command # "OTW"}}
      BY <2>1, SmsMoveStays
    <2> QED BY <1>6, <2>2, MovingIs DEF SmsOtwWrite
  <1>7. CASE Crash
    BY <1>7 DEF Crash, SettlesLost, Moving, Lifecycle!MovesLost, Lifecycle!SettlesLost,
                Lifecycle!LifecycleNext
  <1>8. CASE UNCHANGED <<jobStatus, smsRead, adminRead, settling>>
    BY <1>8, MovingKept
  <1>9. ASSUME \/ \E h \in Handler, j \in Job : PaymentRead(h, j)
               \/ \E m \in settling : PaymentEnds(m) \/ \E s \in JobStatus : PaymentWrite(m, s)
        PROVE  Lifecycle!LifecycleNext
    <2>1. Lifecycle!PaymentsHalf /\ UNCHANGED <<smsRead, adminRead>>
      BY <1>9, SameSettles, SameTable DEF Lifecycle!PaymentsHalf
    <2> QED BY <2>1, MovingKept DEF Lifecycle!LifecycleNext
  <1> QED
    BY <1>1, <1>2, <1>3, <1>4, <1>5, <1>6, <1>7, <1>8, <1>9
    DEF Next, vars, readVars, DispatchTextSent, DispatchTextFailed, SetContractorActive,
        SetContractorInactive

\* Dispatch implements JobLifecycle: whatever texts, contractors and rows there
\* are, it moves a job the way Payments lets it move, one request per handler, so
\* that what is proved of Payments is not about a dispatch of its own making.
THEOREM MovesKept == Spec => KeepsToItsMoves
  <1>1. Init => Lifecycle!LifecycleInit
    BY SameTable DEF Init, Lifecycle!LifecycleInit, Moving, JobStatus
  <1> QED BY <1>1, LifecycleStep, AlwaysIType, AlwaysOneRequest, PTL
          DEF Spec, KeepsToItsMoves, Lifecycle!LifecycleSpec
=============================================================================
