---------------------------- MODULE RecordsProofs ----------------------------
(***************************************************************************)
(* What the run of MCRecords checks is each component's own specification: *)
(* a behaviour of the composition is one of every component, so what is    *)
(* proved of the components, alone and for all constants, holds of it.     *)
(***************************************************************************)
EXTENDS MCRecords, MissingDocumentsProofs, CompletionPhotosProofs, OnboardingProofs,
        CustomerProofs

\* A step of the composition is a step of one component, or of none.
LEMMA ComponentStep ==
  ASSUME [MCNext]_<<component, docVars, photoVars, onbVars, mailVars, bookVars, addVars,
                    textVars>>
  PROVE  /\ [DocNext]_docVars /\ [PhotoNext]_photoVars /\ [OnbNext]_onbVars
         /\ [MailNext]_mailVars /\ [BookNext]_bookVars /\ [AddNext]_addVars
         /\ [TextNext]_textVars
         /\ UNCHANGED component
  BY DEF MCNext

\* Every component of the composition follows its own specification: no step of
\* another one, nor the choice of the one that runs, moves what it keeps.
THEOREM ComponentsKeepTheirSpec ==
  MCSpec => DocSpec /\ PhotoSpec /\ OnbSpec /\ MailSpec /\ BookSpec /\ AddSpec /\ TextSpec
  <1>1. MCInit => /\ DocInit /\ PhotoInit /\ OnbInit /\ MailInit /\ BookInit /\ AddInit
                  /\ TextInit
    BY DEF MCInit
  <1> QED BY <1>1, ComponentStep, PTL
          DEF MCSpec, DocSpec, PhotoSpec, OnbSpec, MailSpec, BookSpec, AddSpec, TextSpec

\* The component that runs is the one chosen at the start.
LEMMA OneComponent == MCSpec => [](component \in Component)
  <1>1. MCInit => component \in Component
    BY DEF MCInit
  <1>2. component \in Component /\ UNCHANGED component => (component \in Component)'
    OBVIOUS
  <1> QED BY <1>1, <1>2, ComponentStep, PTL DEF MCSpec

\* Every component of the composition is type correct, for all constants.
THEOREM RecordsTypeCorrect == MCSpec => []MCTypeOK
  <1> QED BY ComponentsKeepTheirSpec, OneComponent, DocTypeCorrect, TypeCorrect, OnbTypeCorrect,
             MailTypeCorrect, BookTypeCorrect, AddTypeCorrect, TextTypeCorrect, PTL
          DEF MCTypeOK
=============================================================================
