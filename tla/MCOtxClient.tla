---------------------------- MODULE MCOtxClient ----------------------------
(***************************************************************************)
(* Small instances of OtxClient for TLC.                                   *)
(***************************************************************************)
EXTENDS OtxClient, TLC

CONSTANTS p1, p2, a1, a2

\* A pulse of long ago and one of today; each by an author of its own.
OldAndNew == p1 :> 0 - 5 @@ p2 :> 0
TwoAuthors == p1 :> a1 @@ p2 :> a2

NothingUndated == {}

FetcherSymmetry == Permutations(Fetcher)
=============================================================================
