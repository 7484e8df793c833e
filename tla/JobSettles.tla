----------------------------- MODULE JobSettles -----------------------------
(***************************************************************************)
(* What the Stripe webhook and approve-completion do to jobs.status, as    *)
(* dispatch meets it: the payments half of JobLifecycle.                   *)
(***************************************************************************)
EXTENDS JobRow

VARIABLE
    settling       \* the requests that have read a job and not yet written it

\* The moves of the webhook: a deposit, a full payment, a remainder; and the two
\* ways an approved job can go
SettleEdges ==
    {<<"awaiting_payment", "deposit_paid">>, <<"awaiting_payment", "paid_in_full">>,
     <<"deposit_paid", "closed_paid">>, <<"work_completed", "closed_paid">>,
     <<"completion_reported", "closed_paid">>,
     <<"awaiting_remainder_payment", "closed_paid">>,
     <<"completion_reported", "awaiting_remainder_payment">>}

\* "seen" is the status the request has read
SettleRequest == [handler : Handler, job : Job, seen : JobStatus]

SettleRead(h, j) ==
    /\ \A m \in settling : m.handler # h
    /\ \E s \in JobStatus : <<jobStatus[j], s>> \in SettleEdges
    /\ settling' = settling \cup {[handler |-> h, job |-> j, seen |-> jobStatus[j]]}
    /\ UNCHANGED jobStatus

\* The write is by primary key, along an edge from what was read, whatever the
\* job has become.
SettleWrite(m, s) ==
    /\ m \in settling
    /\ <<m.seen, s>> \in SettleEdges
    /\ settling' = settling \ {m}
    /\ jobStatus' = [jobStatus EXCEPT ![m.job] = s]

\* The transaction fails, or the request decides to write nothing.
SettleEnds(m) ==
    /\ m \in settling
    /\ settling' = settling \ {m}
    /\ UNCHANGED jobStatus

\* The process dies.
SettlesLost == settling' = {} /\ UNCHANGED jobStatus
=============================================================================
