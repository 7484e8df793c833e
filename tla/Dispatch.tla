------------------------------ MODULE Dispatch ------------------------------
(***************************************************************************)
(* Dispatch of paid jobs to contractors: the operator's endpoints          *)
(* (approve-dispatch, dispatch, cancel-assignment, cancel, mark-complete)  *)
(* and the contractor's SMS commands (CONFIRM, DECLINE, OTW, DONE/FINISH). *)
(*                                                                         *)
(* dispatch, cancel-assignment and cancel lock the job row (dispatch also  *)
(* the contractor row) before they read anything, and every other writer   *)
(* updates the job row first, so each of the three is one atomic action.   *)
(* approve-dispatch, mark-complete and the SMS webhook read without a lock *)
(* and write later by primary key: each is a read action that remembers    *)
(* what it decided, and a write action that applies it to whatever the     *)
(* rows have become.                                                       *)
(*                                                                         *)
(* A dispatch inserts its dispatches row and its contractor_assignments    *)
(* row in one transaction, so a Row stands for the linked pair.            *)
(***************************************************************************)
EXTENDS JobSettles, Integers, FiniteSets

CONSTANTS
    NoJob,                \* the job of a row not inserted yet
    Contractor, NoContractor,
    Row,                  \* bound: the dispatches that may ever be inserted
    Slot,                 \* appointment date and window
    Parseable,            \* the slots parseSchedule can turn into times
    StartOf, EndOf,       \* the times it gives
    AppointmentOf         \* the slot of each job

ASSUME DispatchAssumption ==
    /\ NoJob \notin Job
    /\ NoContractor \notin Contractor
    /\ Parseable \subseteq Slot
    /\ StartOf \in [Parseable -> Int]
    /\ EndOf \in [Parseable -> Int]
    /\ AppointmentOf \in [Job -> Slot]

VARIABLES
    scheduled,      \* the jobs with scheduled_start_at and scheduled_end_at
    isActive,       \* the contractors with is_active = TRUE
    dispatches,     \* dispatches.status of a row, "none" before the insert
    assignments,    \* contractor_assignments.status of a row
    rowJob,         \* job_id of both rows
    rowContractor,  \* contractor_id of the assignment
    texting,        \* the rows whose dispatch text is being sent, after commit
    smsRead,        \* SMS commands between their unlocked read and their write
    adminRead,      \* approve-dispatch and mark-complete in the same position
    overtaken       \* history: the jobs that a write hit when the rows were no
                    \* longer as its handler had read them

rowVars == <<dispatches, assignments, rowJob, rowContractor>>
readVars == <<smsRead, adminRead, settling>>
vars == <<jobStatus, scheduled, isActive, rowVars, texting, readVars, overtaken>>

DispatchStatus == {"sent", "accepted", "declined", "expired", "failed"}
AssignmentStatus == {"pending", "accepted", "declined", "completed", "cancelled"}
ActiveStatus == {"pending", "accepted"}
SmsCommand == {"CONFIRM", "DECLINE", "OTW", "DONE"}   \* FINISH is DONE's synonym

\* A request carries what its handler read: "seen" the job's status, "held" the
\* assignment's.
SmsRequest == [handler : Handler, command : SmsCommand, row : Row,
               seen : JobStatus, held : ActiveStatus]
AdminRequest == [handler : Handler, job : Job, seen : JobStatus,
                 target : {"ready_for_dispatch", "work_completed"}]

TypeOK ==
    /\ jobStatus \in [Job -> JobStatus]
    /\ scheduled \subseteq Job
    /\ isActive \subseteq Contractor
    /\ dispatches \in [Row -> DispatchStatus \cup {"none"}]
    /\ assignments \in [Row -> AssignmentStatus \cup {"none"}]
    /\ rowJob \in [Row -> Job \cup {NoJob}]
    /\ rowContractor \in [Row -> Contractor \cup {NoContractor}]
    /\ texting \subseteq Row
    /\ smsRead \subseteq SmsRequest
    /\ adminRead \subseteq AdminRequest
    /\ settling \subseteq SettleRequest
    /\ overtaken \subseteq Job

Init ==
    /\ jobStatus \in [Job -> {"awaiting_payment", "deposit_paid", "paid_in_full"}]
    /\ scheduled = {}
    /\ isActive = Contractor
    /\ dispatches = [r \in Row |-> "none"]
    /\ assignments = [r \in Row |-> "none"]
    /\ rowJob = [r \in Row |-> NoJob]
    /\ rowContractor = [r \in Row |-> NoContractor]
    /\ texting = {}
    /\ smsRead = {}
    /\ adminRead = {}
    /\ settling = {}
    /\ overtaken = {}

-----------------------------------------------------------------------------
(* Queries *)

ActiveRows(j) == {r \in Row : rowJob[r] = j /\ assignments[r] \in ActiveStatus}

\* has_active_dispatch: the linked assignment of a Row always exists, so a
\* dispatch is live only while that assignment is.
HasActiveDispatch(j) ==
    \E r \in Row : /\ rowJob[r] = j
                   /\ dispatches[r] \in {"sent", "accepted"}
                   /\ assignments[r] \in ActiveStatus

HasActiveAssignment(j) == ActiveRows(j) # {}

\* The job statuses CONFLICT_SQL counts as occupying the contractor
OccupyingStatus ==
    {"ready_for_dispatch", "dispatch_in_progress", "assigned", "scheduled",
     "completion_reported"}

SlotsOverlap(s, t) == StartOf[s] < EndOf[t] /\ EndOf[s] > StartOf[t]

\* Mutant: only the very same slot conflicts
ScheduleConflict_SameSlotOnly(c, j) ==
    \E r \in Row : /\ rowContractor[r] = c
                   /\ assignments[r] \in ActiveStatus
                   /\ rowJob[r] # j
                   /\ jobStatus[rowJob[r]] \in OccupyingStatus
                   /\ AppointmentOf[rowJob[r]] = AppointmentOf[j]

\* CONFLICT_SQL for dispatching job j to contractor c.  Mode A compares
\* times, Mode B the slot of a job whose times were never computed.
ScheduleConflict(c, j) ==
    \E r \in Row :
        /\ rowContractor[r] = c
        /\ assignments[r] \in ActiveStatus
        /\ rowJob[r] # j
        /\ jobStatus[rowJob[r]] \in OccupyingStatus
        /\ \/ /\ rowJob[r] \in scheduled
              /\ SlotsOverlap(AppointmentOf[rowJob[r]], AppointmentOf[j])
           \/ /\ rowJob[r] \notin scheduled
              /\ AppointmentOf[rowJob[r]] = AppointmentOf[j]

HandlerFree(h) == /\ \A m \in smsRead : m.handler # h
                  /\ \A m \in adminRead : m.handler # h
                  /\ \A m \in settling : m.handler # h

-----------------------------------------------------------------------------
(* dispatchJobToContractor *)

\* Mutant: the winner gate is left to the job status
DispatchJobToContractor_NoWinnerGate(j, c, r) ==
    /\ jobStatus[j] = "ready_for_dispatch"
    /\ c \in isActive
    /\ j \in scheduled \/ AppointmentOf[j] \in Parseable
    /\ ~ ScheduleConflict(c, j)
    /\ dispatches[r] = "none"
    /\ scheduled' = scheduled \cup {j}
    /\ dispatches' = [dispatches EXCEPT ![r] = "sent"]
    /\ assignments' = [assignments EXCEPT ![r] = "pending"]
    /\ rowJob' = [rowJob EXCEPT ![r] = j]
    /\ rowContractor' = [rowContractor EXCEPT ![r] = c]
    /\ jobStatus' = [jobStatus EXCEPT ![j] = "dispatch_in_progress"]
    /\ texting' = texting \cup {r}
    /\ UNCHANGED <<isActive, readVars, overtaken>>

\* The transaction: winner check under the job lock, contractor check and
\* conflict check under the contractor lock, then the two inserts and the
\* status change.
DispatchJobToContractor(j, c, r) ==
    /\ ~ HasActiveDispatch(j)
    /\ ~ HasActiveAssignment(j)
    /\ jobStatus[j] = "ready_for_dispatch"
    /\ c \in isActive
    /\ j \in scheduled \/ AppointmentOf[j] \in Parseable
    /\ ~ ScheduleConflict(c, j)
    /\ dispatches[r] = "none"
    /\ scheduled' = scheduled \cup {j}
    /\ dispatches' = [dispatches EXCEPT ![r] = "sent"]
    /\ assignments' = [assignments EXCEPT ![r] = "pending"]
    /\ rowJob' = [rowJob EXCEPT ![r] = j]
    /\ rowContractor' = [rowContractor EXCEPT ![r] = c]
    /\ jobStatus' = [jobStatus EXCEPT ![j] = "dispatch_in_progress"]
    /\ texting' = texting \cup {r}
    /\ UNCHANGED <<isActive, readVars, overtaken>>

\* After the commit sendSms returns: nothing but the message id is stored.
DispatchTextSent(r) ==
    /\ r \in texting
    /\ texting' = texting \ {r}
    /\ UNCHANGED <<jobStatus, scheduled, isActive, rowVars, readVars, overtaken>>

\* sendSms throws: the dispatch is marked failed by id, whatever its status
\* has become since the commit; the job and the assignment stay.
DispatchTextFailed(r) ==
    /\ r \in texting
    /\ texting' = texting \ {r}
    /\ dispatches' = [dispatches EXCEPT ![r] = "failed"]
    /\ UNCHANGED <<jobStatus, scheduled, isActive, assignments, rowJob,
                   rowContractor, readVars, overtaken>>

-----------------------------------------------------------------------------
(* cancelContractorAssignment and cancelJob *)

\* Mutant: the linked dispatch is not expired
CancelContractorAssignment_KeepsDispatch(j, r) ==
    /\ jobStatus[j] \in {"dispatch_in_progress", "assigned"}
    /\ r \in ActiveRows(j)
    /\ assignments' = [assignments EXCEPT ![r] = "cancelled"]
    /\ jobStatus' = [jobStatus EXCEPT ![j] = "ready_for_dispatch"]
    /\ UNCHANGED <<dispatches, scheduled, isActive, rowJob, rowContractor, texting,
                   readVars, overtaken>>

\* Without an assignment id there must be exactly one active assignment; with
\* one, it must be among the active ones.  Either way r is the target.
CancelContractorAssignment(j, r) ==
    /\ jobStatus[j] \in {"dispatch_in_progress", "assigned"}
    /\ r \in ActiveRows(j)
    /\ assignments' = [assignments EXCEPT ![r] = "cancelled"]
    /\ dispatches' = [dispatches EXCEPT ![r] = "expired"]
    /\ jobStatus' = [jobStatus EXCEPT ![j] = "ready_for_dispatch"]
    /\ UNCHANGED <<scheduled, isActive, rowJob, rowContractor, texting,
                   readVars, overtaken>>

\* Mutant: the holder is not released
CancelJob_KeepsHolder(j) ==
    /\ CanTransition(jobStatus[j], "cancelled")
    /\ jobStatus' = [jobStatus EXCEPT ![j] = "cancelled"]
    /\ UNCHANGED <<scheduled, isActive, rowVars, texting, readVars, overtaken>>

\* Mutant: every assignment of the job is cancelled, not only the active ones
CancelJob_EveryRow(j) ==
    /\ CanTransition(jobStatus[j], "cancelled")
    /\ assignments' = [r \in Row |-> IF rowJob[r] = j THEN "cancelled"
                                                      ELSE assignments[r]]
    /\ dispatches' = [r \in Row |-> IF rowJob[r] = j THEN "expired"
                                                     ELSE dispatches[r]]
    /\ jobStatus' = [jobStatus EXCEPT ![j] = "cancelled"]
    /\ UNCHANGED <<scheduled, isActive, rowJob, rowContractor, texting,
                   readVars, overtaken>>

CancelJob(j) ==
    /\ CanTransition(jobStatus[j], "cancelled")
    /\ assignments' = [r \in Row |-> IF r \in ActiveRows(j) THEN "cancelled"
                                                            ELSE assignments[r]]
    /\ dispatches' = [r \in Row |-> IF r \in ActiveRows(j) THEN "expired"
                                                           ELSE dispatches[r]]
    /\ jobStatus' = [jobStatus EXCEPT ![j] = "cancelled"]
    /\ UNCHANGED <<scheduled, isActive, rowJob, rowContractor, texting,
                   readVars, overtaken>>

-----------------------------------------------------------------------------
(* approve-dispatch and mark-complete: getJobById, assertTransition, then    *)
(* updateJobStatus, with no lock between the read and the write              *)

\* Mutant: the transition is not asserted
AdminJobRead_NoAssert(h, j, target) ==
    /\ HandlerFree(h)
    /\ adminRead' = adminRead \cup
         {[handler |-> h, job |-> j, seen |-> jobStatus[j], target |-> target]}
    /\ UNCHANGED <<jobStatus, scheduled, isActive, rowVars, texting, smsRead, settling, overtaken>>

AdminJobRead(h, j, target) ==
    /\ HandlerFree(h)
    /\ CanTransition(jobStatus[j], target)
    /\ adminRead' = adminRead \cup
         {[handler |-> h, job |-> j, seen |-> jobStatus[j], target |-> target]}
    /\ UNCHANGED <<jobStatus, scheduled, isActive, rowVars, texting, smsRead, settling, overtaken>>

AdminJobWrite(m) ==
    /\ m \in adminRead
    /\ adminRead' = adminRead \ {m}
    /\ jobStatus' = [jobStatus EXCEPT ![m.job] = m.target]
    /\ overtaken' = IF jobStatus[m.job] = m.seen THEN overtaken
                                                  ELSE overtaken \cup {m.job}
    /\ UNCHANGED <<scheduled, isActive, rowVars, texting, smsRead, settling>>

-----------------------------------------------------------------------------
(* processSmsWebhook *)

\* COMMAND_RULES
RuleAssignment(command) ==
    CASE command = "CONFIRM" -> {"pending"}
      [] command = "DECLINE" -> {"pending", "accepted"}
      [] OTHER -> {"accepted"}

RuleJob(command) ==
    CASE command = "CONFIRM" -> {"dispatch_in_progress"}
      [] command = "DECLINE" -> {"dispatch_in_progress", "assigned"}
      [] OTHER -> {"assigned"}

\* isCommandAllowed
CommandAllowed(command, r) ==
    /\ assignments[r] \in RuleAssignment(command)
    /\ jobStatus[rowJob[r]] \in RuleJob(command)

\* ACTIVE_JOB_BASE_SQL
RoutableRows(c) ==
    {r \in Row : /\ rowContractor[r] = c
                 /\ assignments[r] \in ActiveStatus
                 /\ jobStatus[rowJob[r]] \in {"dispatch_in_progress", "assigned"}}

\* A job key must match one active row, and a message without a key is only
\* acted on when the contractor has one active row in all.
Routed(c, r) ==
    /\ r \in RoutableRows(c)
    /\ \/ RoutableRows(c) = {r}
       \/ {s \in RoutableRows(c) : rowJob[s] = rowJob[r]} = {r}

SmsCommandRead(h, c, command, r) ==
    /\ HandlerFree(h)
    /\ c \in isActive
    /\ Routed(c, r)
    /\ CommandAllowed(command, r)
    /\ smsRead' = smsRead \cup
         {[handler |-> h, command |-> command, row |-> r,
           seen |-> jobStatus[rowJob[r]], held |-> assignments[r]]}
    /\ UNCHANGED <<jobStatus, scheduled, isActive, rowVars, texting, adminRead, settling,
                   overtaken>>

\* Mutant: a status the schema does not have
TargetJobStatus_Unknown(command) ==
    CASE command = "CONFIRM" -> "assigned"
      [] command = "DECLINE" -> "ready_for_dispatch"
      [] command = "DONE" -> "completed"

\* What the transaction writes, for each command: OTW only stamps the job.
TargetJobStatus(command) ==
    CASE command = "CONFIRM" -> "assigned"
      [] command = "DECLINE" -> "ready_for_dispatch"
      [] command = "DONE" -> "completion_reported"

TargetAssignment(command) ==
    CASE command = "CONFIRM" -> "accepted"
      [] command = "DECLINE" -> "declined"
      [] command = "DONE" -> "completed"

\* The write transaction updates by id and never looks at the rows again.
SmsCommandWrite(m) ==
    /\ m \in smsRead
    /\ m.command # "OTW"
    /\ smsRead' = smsRead \ {m}
    /\ jobStatus' = [jobStatus EXCEPT ![rowJob[m.row]] = TargetJobStatus(m.command)]
    /\ assignments' = [assignments EXCEPT ![m.row] = TargetAssignment(m.command)]
    /\ dispatches' = IF m.command = "DONE" THEN dispatches
                     ELSE [dispatches EXCEPT ![m.row] = TargetAssignment(m.command)]
    /\ overtaken' = IF jobStatus[rowJob[m.row]] = m.seen /\ assignments[m.row] = m.held
                    THEN overtaken ELSE overtaken \cup {rowJob[m.row]}
    /\ UNCHANGED <<scheduled, isActive, rowJob, rowContractor, texting, adminRead, settling>>

\* OTW leaves the status of the job and of its rows alone.
SmsOtwWrite(m) ==
    /\ m \in smsRead
    /\ m.command = "OTW"
    /\ smsRead' = smsRead \ {m}
    /\ UNCHANGED <<jobStatus, scheduled, isActive, rowVars, texting, adminRead, settling,
                   overtaken>>

-----------------------------------------------------------------------------
(* PATCH /admin/contractors/:id and the activation endpoint *)
SetContractorActive(c) ==
    /\ isActive' = isActive \cup {c}
    /\ c \notin isActive
    /\ UNCHANGED <<jobStatus, scheduled, rowVars, texting, readVars, overtaken>>

SetContractorInactive(c) ==
    /\ c \in isActive
    /\ isActive' = isActive \ {c}
    /\ UNCHANGED <<jobStatus, scheduled, rowVars, texting, readVars, overtaken>>

-----------------------------------------------------------------------------
(* What payments does with the job meanwhile: the webhook and                *)
(* approve-completion, which read it without a lock too                      *)

PaymentRead(h, j) ==
    /\ HandlerFree(h)
    /\ SettleRead(h, j)
    /\ UNCHANGED <<scheduled, isActive, rowVars, texting, smsRead, adminRead, overtaken>>

PaymentWrite(m, s) ==
    /\ SettleWrite(m, s)
    /\ overtaken' = IF jobStatus[m.job] = m.seen THEN overtaken
                                                  ELSE overtaken \cup {m.job}
    /\ UNCHANGED <<scheduled, isActive, rowVars, texting, smsRead, adminRead>>

PaymentEnds(m) ==
    /\ SettleEnds(m)
    /\ UNCHANGED <<scheduled, isActive, rowVars, texting, smsRead, adminRead, overtaken>>

-----------------------------------------------------------------------------
\* The process dies: requests in progress are lost, only committed rows stay.
Crash ==
    /\ texting' = {}
    /\ smsRead' = {}
    /\ adminRead' = {}
    /\ SettlesLost
    /\ UNCHANGED <<scheduled, isActive, rowVars, overtaken>>

Next ==
    \/ \E j \in Job :
        \/ \E c \in Contractor, r \in Row : DispatchJobToContractor(j, c, r)
        \/ \E r \in Row : CancelContractorAssignment(j, r)
        \/ CancelJob(j)
        \/ \E h \in Handler, t \in {"ready_for_dispatch", "work_completed"} :
               AdminJobRead(h, j, t)
        \/ \E h \in Handler : PaymentRead(h, j)
    \/ \E r \in Row : DispatchTextSent(r) \/ DispatchTextFailed(r)
    \/ \E m \in adminRead : AdminJobWrite(m)
    \/ \E h \in Handler, c \in Contractor, command \in SmsCommand, r \in Row :
           SmsCommandRead(h, c, command, r)
    \/ \E m \in smsRead : SmsCommandWrite(m) \/ SmsOtwWrite(m)
    \/ \E m \in settling : PaymentEnds(m) \/ \E s \in JobStatus : PaymentWrite(m, s)
    \/ \E c \in Contractor : SetContractorActive(c) \/ SetContractorInactive(c)
    \/ Crash

Spec == Init /\ [][Next]_vars

-----------------------------------------------------------------------------
(* Properties.  "overtaken" is what the unlocked read costs: each safety      *)
(* property below holds of every job on which no write has landed when the    *)
(* rows were no longer as its handler had read them.                          *)

\* A job never has two contractors holding a pending or accepted assignment:
\* what the winner gate of dispatchJobToContractor, cancel-assignment and the
\* SMS commands have to maintain together.
OneActiveAssignment ==
    \A j \in Job \ overtaken : \A r, s \in ActiveRows(j) : r = s

\* The job row and the assignment rows tell the same story: an offered job has
\* a pending holder, an assigned one an accepted holder, a reported one a
\* completed holder and no active one, and nobody holds the job before it is
\* approved for dispatch, while its remainder is awaited and after cancellation.
HolderMatchesJobStatus ==
    \A j \in Job \ overtaken :
        /\ jobStatus[j] = "dispatch_in_progress" =>
               \E r \in ActiveRows(j) : assignments[r] = "pending"
        /\ jobStatus[j] = "assigned" =>
               \E r \in ActiveRows(j) : assignments[r] = "accepted"
        /\ jobStatus[j] = "completion_reported" =>
               \E r \in Row : rowJob[r] = j /\ assignments[r] = "completed"
        /\ jobStatus[j] \in {"awaiting_payment", "deposit_paid", "paid_in_full",
                             "completion_reported", "awaiting_remainder_payment",
                             "cancelled"} => ActiveRows(j) = {}

\* An active assignment of a job that occupies its contractor
Occupies(r) == /\ assignments[r] \in ActiveStatus
               /\ rowJob[r] \in Job \ overtaken
               /\ jobStatus[rowJob[r]] \in OccupyingStatus

\* A contractor is never booked on two jobs whose times overlap: the conflict
\* check under the contractor lock, and every way a booking comes back to life.
NoDoubleBooking ==
    \A r, s \in Row :
        /\ Occupies(r) /\ Occupies(s)
        /\ rowContractor[r] = rowContractor[s]
        /\ SlotsOverlap(AppointmentOf[rowJob[r]], AppointmentOf[rowJob[s]])
        => rowJob[r] = rowJob[s]

\* The linked rows agree unless the late "failed" mark of the dispatch text
\* hit: the packet page, which wants both accepted, opens for a confirmed job.
LinkedRowsAgree ==
    \A r \in Row : rowJob[r] \in Job \ overtaken /\ dispatches[r] # "failed" =>
        <<dispatches[r], assignments[r]>> \in
            {<<"sent", "pending">>, <<"accepted", "accepted">>,
             <<"declined", "declined">>, <<"expired", "cancelled">>,
             <<"accepted", "completed">>}

\* An assignment that was declined, cancelled or completed never becomes
\* active again, so a released contractor stays released.
ReleasedStaysReleased ==
    [][\A r \in Row :
          /\ assignments[r] \in {"declined", "cancelled", "completed"}
          /\ rowJob[r] \notin overtaken'
          => assignments'[r] = assignments[r]]_vars

\* job.stateMachine.ts:37 and the 409 of README.md:1434: a cancelled job is
\* final.  The unconditional writes of the webhooks and of approve-dispatch break
\* it.
CancelledIsFinal ==
    [][\A j \in Job : jobStatus[j] = "cancelled" => jobStatus'[j] = "cancelled"]_vars

\* job.stateMachine.ts:29: assigned -> ready_for_dispatch is there for the
\* cancellation of the assignment, so nobody holds the job afterwards.
BackToReadyReleasesHolder ==
    [][\A j \in Job :
          jobStatus[j] = "assigned" /\ jobStatus'[j] = "ready_for_dispatch"
          => ActiveRows(j)' = {}]_vars

-----------------------------------------------------------------------------
(* The promise dispatch implements *)

\* The contractor of the job's active row, if there is one
HolderOf(j) == IF ActiveRows(j) = {} THEN NoContractor
               ELSE rowContractor[CHOOSE r \in ActiveRows(j) : TRUE]

\* The statuses after the work, and of a job closed without any
DoneStatus ==
    {"work_completed", "completion_reported", "awaiting_remainder_payment", "closed_paid"}

\* How far a job is, by its status where it is over, by its rows before that
PhaseOf(j) ==
    CASE j \in overtaken -> "astray"
      [] j \notin overtaken /\ jobStatus[j] = "cancelled" -> "cancelled"
      [] j \notin overtaken /\ jobStatus[j] \in DoneStatus -> "done"
      [] OTHER -> IF ActiveRows(j) = {} THEN "open"
                  ELSE IF \E r \in ActiveRows(j) : assignments[r] = "accepted"
                       THEN "held" ELSE "offered"

Phases == [j \in Job |-> PhaseOf(j)]
Holders == [j \in Job |-> IF PhaseOf(j) \in {"offered", "held"} THEN HolderOf(j)
                          ELSE NoContractor]
Clashes == {p \in Job \X Job : SlotsOverlap(AppointmentOf[p[1]], AppointmentOf[p[2]])}

Book == INSTANCE AssignmentBook WITH phase <- Phases, holder <- Holders, Clashing <- Clashes

\* Every step keeps the book of AssignmentBook: offers, answers, releases,
\* endings and cancellations are the only things that happen to a job no write
\* has overtaken, one job at a time, and no offer clashes with what is held.
KeepsTheBook == Book!BookSpec

-----------------------------------------------------------------------------
(* The column it shares with payments *)

\* The requests that are going to store a status; OTW stores none
Moving ==
    {[handler |-> m.handler, job |-> m.job, edge |-> <<m.seen, m.target>>] : m \in adminRead}
    \cup {[handler |-> m.handler, job |-> rowJob[m.row],
           edge |-> <<m.seen, TargetJobStatus(m.command)>>] :
             m \in {n \in smsRead : n.command # "OTW"}}

Lifecycle == INSTANCE JobLifecycle WITH moving <- Moving

\* Payments lets dispatch move a job under its feet, and only as JobLifecycle
\* says.  That is all dispatch does: a status is stored along an edge read under
\* the job lock, or along one of a request that saw the job at its start.
KeepsToItsMoves == Lifecycle!LifecycleSpec
=============================================================================
