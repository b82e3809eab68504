---- MODULE MCWatchlist ----
(***************************************************************************)
(* Watchlist for TLC.  Requests come and go without end; the bounds are    *)
(* the number in flight at once and the sizes of the data.  An id may be   *)
(* used again once no row and no request has it, which is as good as a new *)
(* one: #Ids = #Keys + #Requests - 1 is always enough.                     *)
(***************************************************************************)
EXTENDS Watchlist, TLC

Interchangeable ==
    Permutations(Requests) \cup Permutations(Ids)
      \cup Permutations(Profiles) \cup Permutations(Contents)
====
