------------------------------ MODULE JobMoves ------------------------------
(***************************************************************************)
(* What dispatch does to jobs.status, as payments meets it: its half of    *)
(* JobLifecycle.                                                           *)
(***************************************************************************)
EXTENDS JobRow

VARIABLE
    moving         \* the requests that have read a job and not yet written it

\* Mutant: a job can be approved for dispatch before it is paid
DispatchEdges_Unpaid ==
    {<<"awaiting_payment", "ready_for_dispatch">>,
     <<"deposit_paid", "ready_for_dispatch">>, <<"paid_in_full", "ready_for_dispatch">>}

\* The moves Dispatch makes with a job, cancellation aside
DispatchEdges ==
    {<<"deposit_paid", "ready_for_dispatch">>, <<"paid_in_full", "ready_for_dispatch">>,
     <<"ready_for_dispatch", "dispatch_in_progress">>,
     <<"dispatch_in_progress", "ready_for_dispatch">>,
     <<"dispatch_in_progress", "assigned">>, <<"assigned", "ready_for_dispatch">>,
     <<"assigned", "work_completed">>, <<"scheduled", "work_completed">>,
     <<"assigned", "completion_reported">>}

\* The edges of the requests that read the job without locking its row:
\* approve-dispatch, mark-complete and the commands by text message.  Only
\* dispatchJobToContractor always locks first.
UnlockedEdges == DispatchEdges \ {<<"ready_for_dispatch", "dispatch_in_progress">>}

\* What a request has read and decided: "edge" is the status it saw and the one
\* it is going to store
MoveRequest == [handler : Handler, job : Job, edge : UnlockedEdges]

\* A request that holds the job row, cancellation by the operator, or one that
\* nothing interrupts
Move(j, s) ==
    /\ \/ <<jobStatus[j], s>> \in DispatchEdges
       \/ s = "cancelled" /\ CanTransition(jobStatus[j], s)
    /\ jobStatus' = [jobStatus EXCEPT ![j] = s]
    /\ UNCHANGED moving

MoveRead(h, j, s) ==
    /\ \A m \in moving : m.handler # h
    /\ <<jobStatus[j], s>> \in UnlockedEdges
    /\ moving' = moving \cup {[handler |-> h, job |-> j, edge |-> <<jobStatus[j], s>>]}
    /\ UNCHANGED jobStatus

\* The write is by primary key, whatever the job has become.
MoveWrite(m) ==
    /\ m \in moving
    /\ moving' = moving \ {m}
    /\ jobStatus' = [jobStatus EXCEPT ![m.job] = m.edge[2]]

\* The process dies.
MovesLost == moving' = {} /\ UNCHANGED jobStatus
=============================================================================
