--------------------------- MODULE MCUploadQueue ---------------------------
(* An instance of UploadQueue for TLC. *)
EXTENDS UploadQueue

Symmetry == Permutations(Items)
=============================================================================
