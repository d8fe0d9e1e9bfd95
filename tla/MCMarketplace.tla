---------------------------- MODULE MCMarketplace ---------------------------
(* Small instances of Marketplace for TLC. *)
EXTENDS Marketplace, TLC

\* Requests of one kind are interchangeable.
RequestSymmetry ==
    Permutations(Requirement) \cup Permutations(Extra) \cup Permutations(Attempt)
=============================================================================
