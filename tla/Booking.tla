------------------------------- MODULE Booking -------------------------------
(***************************************************************************)
(* How jobs come about: the Jotform webhook, which may be delivered again, *)
(* the website's instant booking, and its request for a manual review.     *)
(* Each is a submission, stored first and processed afterwards into a job. *)
(* Instant booking counts the jobs of the window before it stores the      *)
(* submission, and nothing keeps the window in between.  All submissions   *)
(* here are for the same city, date and window, since the count compares   *)
(* all three.                                                              *)
(***************************************************************************)
EXTENDS Integers

CONSTANTS
    IntakeSubmission,    \* the submissions there may be
    Web,           \* those made on the website, each with an id of its own
    Units,         \* serviceUnits of each submission's service type
    Capacity,      \* totalCapacityUnits
    Visit,         \* bound: the requests in progress at once
    NoSubmission   \* what an idle request works with

ASSUME BookingAssumption ==
    /\ Web \subseteq IntakeSubmission
    /\ Units \in [IntakeSubmission -> Nat]
    /\ Capacity \in Nat
    /\ NoSubmission \notin IntakeSubmission

VARIABLES
    intake,        \* processing_status of each submission, "none" without a row
    made,          \* how many jobs each submission has made
    job,           \* its job: "none", "counted" when its status is one of
                   \* CAPACITY_STATUSES, or else "apart"
    usedUnits,     \* the units of the jobs that are in the window
    visit,         \* where each request is, and what it works with
    crowded        \* history: instant bookings since whose count another job
                   \* has come into the window

bookVars == <<intake, made, job, usedUnits, visit, crowded>>

IntakeStatus == {"received", "processing", "processed", "failed", "duplicate"}
JobPlace == {"none", "counted", "apart"}
ServiceArea == {"in_area", "quote_only", "blocked"}

\* A request: the await it is at, its submission, whether it is for a manual
\* review, asked for or because of the service type, and where the first status
\* puts its job
VisitState == [at : {"idle", "slot", "store", "again", "mark", "assess", "create", "made",
                     "failing"},
               form : IntakeSubmission \cup {NoSubmission}, review : BOOLEAN,
               place : JobPlace]

NoVisit == [at |-> "idle", form |-> NoSubmission, review |-> FALSE, place |-> "none"]

BookTypeOK ==
    /\ intake \in [IntakeSubmission -> IntakeStatus \cup {"none"}]
    /\ made \in [IntakeSubmission -> Nat]
    /\ job \in [IntakeSubmission -> JobPlace]
    /\ usedUnits \in Int
    /\ visit \in [Visit -> VisitState]
    /\ crowded \subseteq Visit

BookInit ==
    /\ intake = [s \in IntakeSubmission |-> "none"]
    /\ made = [s \in IntakeSubmission |-> 0]
    /\ job = [s \in IntakeSubmission |-> "none"]
    /\ usedUnits = 0
    /\ visit = [v \in Visit |-> NoVisit]
    /\ crowded = {}

VisitAt(v, step) == visit[v].at = step
Of(v) == visit[v].form
VisitEnds(v) == /\ visit' = [visit EXCEPT ![v] = NoVisit]
                /\ crowded' = crowded \ {v}
VisitTo(v, step) == visit' = [visit EXCEPT ![v].at = step, ![v].place = "none"]
Begins(v, s, review, step) ==
    visit' = [visit EXCEPT ![v] = [NoVisit EXCEPT !.at = step, !.form = s, !.review = review]]

\* The id of a submission on the website is new with every request.
FreshId(s) == intake[s] = "none" /\ \A v \in Visit : visit[v].form # s

\* The instant bookings that have found room, and have no job yet
HasCounted(v) ==
    /\ visit[v].at \in {"store", "mark", "assess", "create"}
    /\ visit[v].form \in Web /\ ~ visit[v].review

-----------------------------------------------------------------------------
(* The ways in *)

\* /webhooks/jotform: findByIdempotencyKey
ReceiveJotform(v, s, review) ==
    /\ VisitAt(v, "idle") /\ s \notin Web
    /\ Begins(v, s, review, IF intake[s] = "none" THEN "store" ELSE "again")
    /\ UNCHANGED <<intake, made, job, usedUnits, crowded>>

\* Whatever has become of it, and whoever is processing it
MarkDuplicate(v) ==
    /\ VisitAt(v, "again")
    /\ intake' = [intake EXCEPT ![Of(v)] = "duplicate"]
    /\ VisitEnds(v)
    /\ UNCHANGED <<made, job, usedUnits>>

\* /bookings, after its own look at the service area
BookOnline(v, s) ==
    /\ VisitAt(v, "idle") /\ s \in Web /\ FreshId(s)
    /\ Begins(v, s, FALSE, "slot")
    /\ UNCHANGED <<intake, made, job, usedUnits, crowded>>

\* Mutant: room for one unit is room for any service
IsSlotAvailable_OneUnit(s) == usedUnits + 1 <= Capacity

IsSlotAvailable(s) == usedUnits + Units[s] <= Capacity

CheckSlot(v) ==
    /\ VisitAt(v, "slot")
    /\ \/ /\ IsSlotAvailable(Of(v))
          /\ VisitTo(v, "store")
          /\ UNCHANGED crowded
       \/ /\ ~ IsSlotAvailable(Of(v))
          /\ VisitEnds(v)
    /\ UNCHANGED <<intake, made, job, usedUnits>>

\* /review-requests: any city, and no count
RequestReview(v, s) ==
    /\ VisitAt(v, "idle") /\ s \in Web /\ FreshId(s)
    /\ Begins(v, s, TRUE, "store")
    /\ UNCHANGED <<intake, made, job, usedUnits, crowded>>

-----------------------------------------------------------------------------
(* Storing and processing *)

\* Mutant: the idempotency key has no unique index
CreateIntakeSubmission_NotUnique(v) ==
    /\ VisitAt(v, "store")
    /\ intake' = [intake EXCEPT ![Of(v)] = "received"]
    /\ VisitTo(v, "mark")
    /\ UNCHANGED <<made, job, usedUnits, crowded>>

\* The key is unique: of two deliveries that both found no row the second one's
\* INSERT throws.  A Jotform delivery is answered 202 here.
CreateIntakeSubmission(v) ==
    /\ VisitAt(v, "store")
    /\ \/ /\ intake[Of(v)] = "none"
          /\ intake' = [intake EXCEPT ![Of(v)] = "received"]
          /\ VisitTo(v, "mark")
          /\ UNCHANGED crowded
       \/ /\ intake[Of(v)] # "none"
          /\ VisitEnds(v)
          /\ UNCHANGED intake
    /\ UNCHANGED <<made, job, usedUnits>>

MarkProcessing(v) ==
    /\ VisitAt(v, "mark")
    /\ intake' = [intake EXCEPT ![Of(v)] = "processing"]
    /\ VisitTo(v, "assess")
    /\ UNCHANGED <<made, job, usedUnits, crowded>>

InitialStatus(review, area, hasPrice) ==
    CASE area = "blocked" -> "cancelled"
      [] area = "quote_only" -> "quoted_outside_area"
      [] area = "in_area" /\ review -> "intake_validated"
      [] area = "in_area" /\ ~ review /\ ~ hasPrice -> "error_review"
      [] OTHER -> "awaiting_payment"

\* CAPACITY_STATUSES, of the statuses above and of the later ones of a job
PlaceOf(status) == IF status = "awaiting_payment" THEN "counted" ELSE "apart"

\* classifyServiceArea and calculatePricing, whose error only makes the job one
\* for review.  The operator can change both at any time: the area since /bookings
\* looked at it, and the rule in two queries, between which there is none.
AssessIntake(v) ==
    /\ VisitAt(v, "assess")
    /\ \E area \in ServiceArea, hasPrice \in BOOLEAN :
          visit' = [visit EXCEPT
                      ![v].at = "create",
                      ![v].place = PlaceOf(InitialStatus(visit[v].review, area, hasPrice))]
    /\ UNCHANGED <<intake, made, job, usedUnits, crowded>>

\* Whoever has counted the window's jobs does not know of this one.
ComesIntoWindow(s, counted) ==
    /\ usedUnits' = usedUnits + Units[s]
    /\ crowded' = crowded \cup {v \in counted : HasCounted(v)}

InsertJob(s, place) ==
    /\ made' = [made EXCEPT ![s] = @ + 1]
    /\ job' = [job EXCEPT ![s] = place]

\* processIntake's transaction: customer, address, job and audit event
CreateJob(v) ==
    /\ VisitAt(v, "create")
    /\ InsertJob(Of(v), visit[v].place)
    /\ \/ /\ visit[v].place = "counted"
          /\ ComesIntoWindow(Of(v), Visit \ {v})
       \/ /\ visit[v].place # "counted"
          /\ UNCHANGED <<usedUnits, crowded>>
    /\ VisitTo(v, "made")
    /\ UNCHANGED <<intake>>

MarkProcessed(v) ==
    /\ VisitAt(v, "made")
    /\ intake' = [intake EXCEPT ![Of(v)] = "processed"]
    /\ VisitEnds(v)
    /\ UNCHANGED <<made, job, usedUnits>>

\* Anything throws, the mark after the commit too
IntakeFails(v) ==
    /\ visit[v].at \in {"mark", "assess", "create", "made"}
    /\ VisitTo(v, "failing")
    /\ UNCHANGED <<intake, made, job, usedUnits, crowded>>

MarkFailed(v) ==
    /\ VisitAt(v, "failing")
    /\ intake' = [intake EXCEPT ![Of(v)] = "failed"]
    /\ VisitEnds(v)
    /\ UNCHANGED <<made, job, usedUnits>>

\* The process dies, or a query outside of the try blocks throws; nobody takes
\* the submission up again.
VisitLost(v) ==
    /\ ~ VisitAt(v, "idle")
    /\ VisitEnds(v)
    /\ UNCHANGED <<intake, made, job, usedUnits>>

-----------------------------------------------------------------------------
(* Meanwhile *)

\* Cancelled, finished, or put aside for review
JobLeavesWindow(s) ==
    /\ job[s] = "counted"
    /\ job' = [job EXCEPT ![s] = "apart"]
    /\ usedUnits' = usedUnits - Units[s]
    /\ UNCHANGED <<intake, made, visit, crowded>>

\* Brought back, as by an approval that had read the job before it was cancelled
\* (Dispatch); nothing counts the window's jobs then.
JobComesBack(s) ==
    /\ job[s] = "apart"
    /\ job' = [job EXCEPT ![s] = "counted"]
    /\ ComesIntoWindow(s, Visit)
    /\ UNCHANGED <<intake, made, visit>>

BookNext ==
    \/ \E v \in Visit :
        \/ \E s \in IntakeSubmission :
            \/ \E review \in BOOLEAN : ReceiveJotform(v, s, review)
            \/ BookOnline(v, s) \/ RequestReview(v, s)
        \/ MarkDuplicate(v) \/ CheckSlot(v) \/ CreateIntakeSubmission(v)
        \/ MarkProcessing(v) \/ AssessIntake(v) \/ CreateJob(v)
        \/ MarkProcessed(v) \/ IntakeFails(v) \/ MarkFailed(v) \/ VisitLost(v)
    \/ \E s \in IntakeSubmission : JobLeavesWindow(s) \/ JobComesBack(s)

BookSpec == BookInit /\ [][BookNext]_bookVars

-----------------------------------------------------------------------------
(* Properties *)

\* An instant booking overfills its window only if another job has come into it
\* since this one's count: by another booking at the same time, by Jotform, which
\* does not count, or out of cancellation.
BookingFits ==
    [][\A v \in Visit :
          HasCounted(v) /\ job'[Of(v)] = "counted" /\ job[Of(v)] = "none"
              /\ v \notin crowded
          => usedUnits' <= Capacity]_bookVars

\* However often Jotform delivers a submission, and whatever fails or is marked
\* a duplicate in between, it makes one job at most; and a submission that says
\* it is processed has made it.
IntakeAccounted ==
    \A s \in IntakeSubmission :
        /\ made[s] <= 1
        /\ intake[s] = "processed" => made[s] = 1
=============================================================================
