----------------------------- MODULE MCDispatch -----------------------------
(***************************************************************************)
(* Two jobs whose appointment windows differ and overlap, two contractors. *)
(***************************************************************************)
EXTENDS Dispatch, TLC

CONSTANTS j1, j2, morning, midday

MCSlot == {morning, midday}
MCParseable == {morning, midday}
MCStartOf == morning :> 9 @@ midday :> 11
MCEndOf == morning :> 12 @@ midday :> 15
MCAppointmentOf == [j \in Job |-> IF j = j1 THEN morning ELSE midday]

Symmetry == Permutations(Contractor) \cup Permutations(Row) \cup Permutations(Handler)
=============================================================================
