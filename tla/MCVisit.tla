------------------------------ MODULE MCVisit ------------------------------
(* Small instances of Visit for TLC. *)
EXTENDS Visit, TLC

CONSTANT burger

MCItems == {burger}
MCLineTotal == burger :> 20
MCAmounts == {100, 200}

Symmetry == Permutations(Clients) \cup Permutations(Callers) \cup Permutations(Payments)
=============================================================================
