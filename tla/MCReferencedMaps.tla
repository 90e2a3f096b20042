-------------------------- MODULE MCReferencedMaps --------------------------
EXTENDS ReferencedMaps

(* At the first snapshot the two tables fit below the invalid index, at the
   second the range of the second table would end on it. *)
MCRows == [i \in Tables, s \in Snapshots |-> s]
=============================================================================
