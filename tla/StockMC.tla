------------------------------- MODULE StockMC -------------------------------
(***************************************************************************)
(* Finite instances of Stock.                                              *)
(***************************************************************************)
EXTENDS Stock, TLC

\* The bodies are interchangeable.
BodySymmetry == Permutations(Bodies)
=============================================================================
