--------------------------- MODULE MCManifestWalk ---------------------------
(***************************************************************************)
(* Small instances of ManifestWalk for TLC.                                *)
(***************************************************************************)
EXTENDS ManifestWalk, TLC

ObjectSymmetry == Permutations(Object)
=============================================================================
