---------------------------- MODULE MCTicketing ----------------------------
(* Small instances of Ticketing for TLC. *)
EXTENDS Ticketing, TLC

CONSTANT burger

(* One 20-cent line, ordered with the order or added later; requests for   *)
(* half a cent (stored as 1), just under 10 cents (stored as 10) and 20.   *)
MCItems == {burger}
MCLineTotal == burger :> 20
MCAmounts == {5, 96, 200}

Symmetry == Permutations(Payments) \cup Permutations(Callers)
=============================================================================
