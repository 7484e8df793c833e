------------------------------- MODULE JobRow -------------------------------
(***************************************************************************)
(* The row of a job, as far as its handlers share it.                      *)
(***************************************************************************)
EXTENDS JobStateMachine

CONSTANTS
    Job,
    Handler        \* bound: requests in progress at once

VARIABLE
    jobStatus      \* jobs.status
=============================================================================
