------------------------------ MODULE ObjectMC ------------------------------
(***************************************************************************)
(* Finite instances of Object.                                             *)
(***************************************************************************)
EXTENDS Object, TLC

\* Threads, objects and references are interchangeable, as long as all or
\* no threads are Waiters.
ObjectSymmetry ==
    Permutations(Threads) \cup Permutations(Objects) \cup Permutations(Refs)
=============================================================================
