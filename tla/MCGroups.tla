---- MODULE MCGroups ----
(***************************************************************************)
(* Groups for TLC.  Memberships are never removed, so the tables are       *)
(* bounded by the groups and profiles; requests come and go without end.   *)
(***************************************************************************)
EXTENDS Groups

Interchangeable == Permutations(Requests) \cup Permutations(Registered)
====
