--------------------------- MODULE AssignmentBook ---------------------------
(***************************************************************************)
(* What dispatch promises, without rows, locks, requests or texts: a book  *)
(* with one line per job, saying how far the job is and which contractor   *)
(* holds it.  A contractor lets go of a job before another gets it, holds  *)
(* no two jobs that clash, and a job that is done or cancelled stays so.   *)
(* A job may go astray, and then nothing is promised of it any more.       *)
(***************************************************************************)
CONSTANTS
    Job,
    Contractor, NoContractor,
    Clashing     \* the pairs of jobs one contractor cannot both do

VARIABLES phase, holder

bookVars == <<phase, holder>>

Phase == {"open", "offered", "held", "done", "cancelled", "astray"}

BookInit ==
    /\ phase = [j \in Job |-> "open"]
    /\ holder = [j \in Job |-> NoContractor]

Moves(j, from, to) ==
    /\ phase[j] \in from
    /\ phase' = [phase EXCEPT ![j] = to]

LetsGo(j) == holder' = [holder EXCEPT ![j] = NoContractor]

Offer(j, c) ==
    /\ Moves(j, {"open"}, "offered")
    /\ \A k \in Job : holder[k] = c => <<k, j>> \notin Clashing
    /\ holder' = [holder EXCEPT ![j] = c]

Accept(j) == Moves(j, {"offered"}, "held") /\ UNCHANGED holder

\* Declined, or withdrawn by an operator
Release(j) == Moves(j, {"offered", "held"}, "open") /\ LetsGo(j)

Finish(j) == Moves(j, {"held"}, "done") /\ LetsGo(j)

\* Closed by payment before anyone was offered it
Close(j) == Moves(j, {"open"}, "done") /\ UNCHANGED holder

Cancel(j) == Moves(j, {"open", "offered", "held"}, "cancelled") /\ LetsGo(j)

GoAstray(j) == Moves(j, Phase \ {"astray"}, "astray") /\ LetsGo(j)

BookNext ==
    \E j \in Job :
        \/ \E c \in Contractor : Offer(j, c)
        \/ Accept(j) \/ Release(j) \/ Finish(j) \/ Close(j) \/ Cancel(j) \/ GoAstray(j)

BookSpec == BookInit /\ [][BookNext]_bookVars
=============================================================================
