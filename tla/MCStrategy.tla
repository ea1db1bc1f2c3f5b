----------------------------- MODULE MCStrategy -----------------------------
(* Values for model-checking Strategy. *)
EXTENDS Strategy, TLC

CONSTANTS a1, a2

OneAddress    == {a1}
TwoAddresses  == {a1, a2}
SeedsOnly     == {Pieces}
PartThenAll   == {{0}, Pieces}
EitherAddress == Permutations({a1, a2})

=============================================================================
