---------------------------- MODULE MCOnboarding ----------------------------
(***************************************************************************)
(* Two forms: the first signs the agreement and attaches the W-9, the      *)
(* second attaches the photo ID, and together they are complete.           *)
(***************************************************************************)
EXTENDS Onboarding, TLC

CONSTANTS w9, photoId, agreement, first, second

MCItem == {w9, photoId, agreement}
MCByFile == first :> {w9} @@ second :> {photoId}
MCByAnswer == first :> {agreement} @@ second :> {}

OnbSymmetry == Permutations(Delivery)
=============================================================================
