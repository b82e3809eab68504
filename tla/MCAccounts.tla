---- MODULE MCAccounts ----
(***************************************************************************)
(* Accounts for TLC.  Nothing deletes a profile: #Ids bounds how many      *)
(* there ever are, and a request that finds none left unused stays put     *)
(* until it fails.                                                         *)
(***************************************************************************)
EXTENDS Accounts, TLC

Interchangeable ==
    Permutations(Requests) \cup Permutations(Ids) \cup Permutations(Users)
      \cup Permutations(Passwords) \cup Permutations(Names)
====
