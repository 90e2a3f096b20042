----------------------------- MODULE MCCsrPages -----------------------------
(* CsrPages for TLC: sessions are interchangeable. *)
EXTENDS CsrPages, TLC

Symmetry == Permutations(Sessions)
=============================================================================
