---- MODULE MCMergedWatchlist ----
(***************************************************************************)
(* MergedWatchlist for TLC: three titles, two of them films of the same    *)
(* name, so that the sort meets a tie.                                     *)
(***************************************************************************)
EXTENDS MergedWatchlist

CONSTANTS heat, remake, show

MCKind == (heat :> "movie") @@ (remake :> "movie") @@ (show :> "tv")
MCTitle == (heat :> 2) @@ (remake :> 2) @@ (show :> 1)

Interchangeable == Permutations(Profiles)
====
