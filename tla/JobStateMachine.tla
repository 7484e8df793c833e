-------------------------- MODULE JobStateMachine --------------------------
(***************************************************************************)
(* The job status graph of src/modules/jobs/job.stateMachine.ts.  Every    *)
(* module whose handlers move a job extends this one, so that a status     *)
(* change can be compared with the table the code asserts against.         *)
(***************************************************************************)

JobStatus ==
    {"intake_received", "intake_validated", "quoted_outside_area",
     "awaiting_payment", "deposit_paid", "paid_in_full",
     "ready_for_dispatch", "dispatch_in_progress", "assigned", "scheduled",
     "work_completed", "completion_reported", "awaiting_remainder_payment",
     "closed_paid", "cancelled", "error_review"}

\* TRANSITIONS: the pairs <<from, to>> the table allows.  closed_paid and
\* cancelled have no row: nothing leaves them.
Transitions ==
         ({"intake_received"} \X
             {"intake_validated", "quoted_outside_area", "error_review", "cancelled"})
    \cup ({"intake_validated"} \X
             {"awaiting_payment", "quoted_outside_area", "error_review", "cancelled"})
    \cup ({"quoted_outside_area"} \X {"cancelled"})
    \cup ({"awaiting_payment"} \X
             {"deposit_paid", "paid_in_full", "cancelled", "error_review"})
    \cup ({"deposit_paid"} \X
             {"ready_for_dispatch", "awaiting_remainder_payment", "cancelled", "error_review"})
    \cup ({"paid_in_full"} \X {"ready_for_dispatch", "cancelled", "error_review"})
    \cup ({"ready_for_dispatch"} \X {"dispatch_in_progress", "cancelled", "error_review"})
    \cup ({"dispatch_in_progress"} \X
             {"assigned", "ready_for_dispatch", "cancelled", "error_review"})
    \cup ({"assigned"} \X
             {"scheduled", "completion_reported", "work_completed",
              "ready_for_dispatch", "cancelled", "error_review"})
    \cup ({"scheduled"} \X {"work_completed", "cancelled", "error_review"})
    \cup ({"work_completed"} \X
             {"completion_reported", "awaiting_remainder_payment", "closed_paid", "error_review"})
    \cup ({"completion_reported"} \X
             {"awaiting_remainder_payment", "closed_paid", "error_review"})
    \cup ({"awaiting_remainder_payment"} \X {"closed_paid", "error_review"})
    \cup ({"error_review"} \X {"intake_received", "awaiting_payment", "cancelled"})

\* canTransition, which assertTransition turns into a thrown error
CanTransition(from, to) == <<from, to>> \in Transitions

=============================================================================
