--------------------------- MODULE MCArchiveTiers ---------------------------
(* Two events, two pruners that take one row at a time and two jobs.        *)
EXTENDS ArchiveTiers, TLC

CONSTANTS p1, p2, j1, j2

Symmetry == Permutations({p1, p2}) \union Permutations({j1, j2})
=============================================================================
