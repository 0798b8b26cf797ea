------------------------------ MODULE MCFloor ------------------------------
(* Small instances of Floor for TLC. *)
EXTENDS Floor, TLC

CONSTANT c1  \* one of Clients

(* Visits are interchangeable, and so are requests: no action names one.   *)
Symmetry == Permutations(Sessions) \cup Permutations(Clients)

(* RequestsEnd of one request, which stands for all of them since they are *)
(* interchangeable: it does not wait for ever, whatever the others do.     *)
ARequestEnds == RequestEnds(c1)
=============================================================================
