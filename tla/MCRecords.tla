------------------------------ MODULE MCRecords ------------------------------
(***************************************************************************)
(* The components that keep records of their own and touch neither each    *)
(* other's nor the job's: one of them runs in a behaviour, and the others  *)
(* stay in an initial state.                                               *)
(***************************************************************************)
EXTENDS MissingDocuments, CompletionPhotos, MCOnboarding, EmailEvents, Booking, IntakePhotos,
        CustomerTexts, Pricing

VARIABLE component    \* the component that runs; the same in all of a behaviour

Component == {"documents", "photos", "onboarding", "emails", "booking", "intakePhotos", "texts"}

MCTypeOK ==
    /\ component \in Component
    /\ DocTypeOK /\ PhotoTypeOK /\ OnbTypeOK /\ MailTypeOK /\ BookTypeOK /\ AddTypeOK
    /\ TextTypeOK

\* A component that does not run starts in one of its initial states only.
MCInit ==
    /\ component \in Component
    /\ DocInit /\ PhotoInit /\ OnbInit /\ BookInit /\ AddInit
    /\ MailInit /\ (component # "emails" => kind = "customer_job_complete" /\ hasRecord)
    /\ TextInit /\ (component # "texts" => textKind = "link" /\ hasPhone)

MCNext ==
    \/ /\ component = "documents" /\ DocNext
       /\ UNCHANGED <<component, photoVars, onbVars, mailVars, bookVars, addVars, textVars>>
    \/ /\ component = "photos" /\ PhotoNext
       /\ UNCHANGED <<component, docVars, onbVars, mailVars, bookVars, addVars, textVars>>
    \/ /\ component = "onboarding" /\ OnbNext
       /\ UNCHANGED <<component, docVars, photoVars, mailVars, bookVars, addVars, textVars>>
    \/ /\ component = "emails" /\ MailNext
       /\ UNCHANGED <<component, docVars, photoVars, onbVars, bookVars, addVars, textVars>>
    \/ /\ component = "booking" /\ BookNext
       /\ UNCHANGED <<component, docVars, photoVars, onbVars, mailVars, addVars, textVars>>
    \/ /\ component = "intakePhotos" /\ AddNext
       /\ UNCHANGED <<component, docVars, photoVars, onbVars, mailVars, bookVars, textVars>>
    \/ /\ component = "texts" /\ TextNext
       /\ UNCHANGED <<component, docVars, photoVars, onbVars, mailVars, bookVars, addVars>>

MCSpec ==
    MCInit /\ [][MCNext]_<<component, docVars, photoVars, onbVars, mailVars, bookVars, addVars,
                           textVars>>

-----------------------------------------------------------------------------
\* The submissions there are for the window: one by Jotform and two on the
\* website, one of them for a service that takes all of it

CONSTANTS jotform, small, large

MCUnits == jotform :> 1 @@ small :> 1 @@ large :> 2

\* Prices above, at and below one another
MCRule == [base : {0, 4999, 9900}, rush : {0, 3000, 9900}, nextDayRush : {0, 2000},
           deposit : {0, 2500, 4999, 12000}, payout : {0, 3500}, rushBonus : {0, 500, 2000}]

\* What the customer pays, and what contractor and platform get of a rush fee, add
\* up to what they are parts of, but for a deposit or a bonus higher than the whole.
ASSUME PricesAddUp ==
    \A rule \in MCRule, tier \in RushTier :
        /\ Deposit(rule, tier) + Remainder(rule, tier) =
              IF Deposit(rule, tier) > Total(rule, tier) THEN Deposit(rule, tier)
              ELSE Total(rule, tier)
        /\ RushBonus(rule, tier) + RushPlatformShare(rule, tier) =
              IF RushBonus(rule, tier) > RushAmount(rule, tier) THEN RushBonus(rule, tier)
              ELSE RushAmount(rule, tier)
        /\ LET fee == EstimateStripeFee(Total(rule, tier))
               spent == fee + Payout(rule, tier)
           IN  /\ JobMargin(rule, tier) + spent =
                     IF spent > Total(rule, tier) THEN spent ELSE Total(rule, tier)
               /\ 1000 * (fee - 30) - 29 * Total(rule, tier) \in -499 .. 500

\* Handlers of all components are the same, and nothing tells them apart, nor
\* the photos and the documents.
RecordsSymmetry == Permutations(Handler) \cup Permutations(Photo) \cup Permutations(Document)
=============================================================================
