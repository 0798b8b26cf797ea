----------------------------- MODULE MCSeeding ------------------------------
(* One SKU and one dish of the seed's catalog stand for all; two processes *)
(* run the seed, two clerks correct the stock.                             *)
EXTENDS Seeding, TLC

MCAmounts == {14, 15}

Symmetry == Permutations(Seeders) \cup Permutations(Clerks)
=============================================================================
