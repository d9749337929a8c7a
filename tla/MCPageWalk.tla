----------------------------- MODULE MCPageWalk -----------------------------
(***************************************************************************)
(* Small instances of PageWalk for TLC.                                    *)
(***************************************************************************)
EXTENDS PageWalk, TLC

ObjectSymmetry == Permutations(Object)
=============================================================================
