------------------------------ MODULE MCNetRate ------------------------------
(* NetRate for TLC. *)
EXTENDS NetRate, TLC

\* Collections are interchangeable.
CollectorSymmetry == Permutations(Collectors)
=============================================================================
