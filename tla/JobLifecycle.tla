---------------------------- MODULE JobLifecycle ----------------------------
(***************************************************************************)
(* Dispatch and payments on one column, jobs.status, with neither the rows *)
(* of the one nor those of the other: moves that hold the row's lock, and  *)
(* requests that read it and later write by primary key.  Dispatch and     *)
(* Payments implement this module, each with its own half from the code    *)
(* and the other half from here, so that each may rely on the other doing  *)
(* no more than it reckons with.                                           *)
(***************************************************************************)
EXTENDS JobMoves, JobSettles

lifecycleVars == <<jobStatus, moving, settling>>

LifecycleInit ==
    /\ jobStatus \in [Job -> JobStatus]
    /\ moving = {}
    /\ settling = {}

DispatchHalf ==
    \/ \E j \in Job, s \in JobStatus : Move(j, s) \/ \E h \in Handler : MoveRead(h, j, s)
    \/ \E m \in moving : MoveWrite(m)

PaymentsHalf ==
    \/ \E h \in Handler, j \in Job : SettleRead(h, j)
    \/ \E m \in settling : SettleEnds(m) \/ \E s \in JobStatus : SettleWrite(m, s)

\* The first is every step of either module that concerns neither the column nor
\* a request about to write it.
LifecycleNext ==
    \/ UNCHANGED lifecycleVars
    \/ UNCHANGED settling /\ DispatchHalf
    \/ UNCHANGED moving /\ PaymentsHalf
    \/ MovesLost /\ SettlesLost

LifecycleSpec == LifecycleInit /\ [][LifecycleNext]_lifecycleVars
=============================================================================
