---------------------------- MODULE MCCsrStorage ----------------------------
(* CsrStorage for TLC.  Sessions and writers are interchangeable: only the
   safety runs use the symmetry, which liveness checking does not admit. *)
EXTENDS CsrLeaseRefinement, TLC

Symmetry == Permutations(Writers) \cup Permutations(Sessions)
=============================================================================
