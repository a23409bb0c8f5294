------------------------------ MODULE MCGateway ------------------------------
(* Model values for TLC's runs of Gateway.                                 *)
EXTENDS Gateway, TLC

Symm == Permutations(Maintainers) \cup Permutations(Tokens)
=============================================================================
