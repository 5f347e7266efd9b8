------------------------------ MODULE MCGobiQmi ------------------------------
(* GobiQmi with the constants of the gobi_*.cfg files.                       *)
EXTENDS GobiQmi

\* The ids of a service are interchangeable (for invariants).
IdSymmetry == Permutations(Ids \ {WdaId})
=============================================================================
