---- MODULE WatchlistSpec ----
(***************************************************************************)
(* What the watchlist promises its callers: each profile has at most one   *)
(* entry per title, every request takes effect in one step and only on     *)
(* the entry it names, and every refusal tells the truth about some moment *)
(* between the call and the answer.  No rows, no transactions, no locks.   *)
(***************************************************************************)
EXTENDS WatchlistData

VARIABLES
    board,    \* [Keys -> entry or Absent]
    catalog,  \* the contents that have been ingested
    busy,     \* [Requests -> BOOLEAN]: called and not answered
    call,     \* [Requests -> the call in progress, or Unset]
    seen,     \* [Requests -> what the key of the call has been since it began]
    answer    \* [Requests -> the last answer]

vars == <<board, catalog, busy, call, seen, answer>>

StatusOf(e) == IF e = Absent THEN "absent" ELSE "present"

Init ==
    /\ board = [k \in Keys |-> Absent]
    /\ catalog \in SUBSET Contents
    /\ busy = [r \in Requests |-> FALSE]
    /\ call = [r \in Requests |-> Unset]
    /\ seen = [r \in Requests |-> {}]
    /\ answer = [r \in Requests |-> "None"]

Begin(r, c) ==
    /\ ~busy[r]
    /\ busy' = [busy EXCEPT ![r] = TRUE]
    /\ call' = [call EXCEPT ![r] = c]
    /\ seen' = [seen EXCEPT ![r] = {StatusOf(board[KeyOf(c)])}]
    /\ answer' = [answer EXCEPT ![r] = "None"]
    /\ UNCHANGED <<board, catalog>>

\* The answer.  Every other request under way sees what its key has become.
Finish(r, a) ==
    /\ busy' = [busy EXCEPT ![r] = FALSE]
    /\ call' = [call EXCEPT ![r] = Unset]
    /\ answer' = [answer EXCEPT ![r] = a]
    /\ seen' = [q \in Requests |->
                  IF q = r THEN {}
                  ELSE IF busy[q] THEN seen[q] \cup {StatusOf(board'[KeyOf(call[q])])}
                  ELSE seen[q]]
    /\ UNCHANGED catalog

\* The one step in which a request takes effect.  The answer that goes with it
\* may be lost on the way, and the caller is then told that it failed.
Apply(r, e) ==
    /\ board' = [board EXCEPT ![KeyOf(call[r])] = e]
    /\ \E a \in {"OK", "Failed"} : Finish(r, a)

Current(r) == board[KeyOf(call[r])]

AddEntry(r) ==
    /\ call[r].op = "Add"
    /\ Current(r) = Absent
    /\ call[r].content \in catalog
    /\ Apply(r, NewEntry(call[r]))

UpdateEntry(r) ==
    /\ call[r].op = "Update"
    /\ Current(r) # Absent
    /\ Apply(r, Patched(Current(r), call[r]))

RemoveEntry(r) ==
    /\ call[r].op = "Remove"
    /\ Current(r) # Absent
    /\ Apply(r, Absent)

\* Answers that leave the board alone.
Refuse(r) ==
    /\ UNCHANGED board
    /\ \/ /\ call[r].op = "Add"
          /\ "present" \in seen[r]
          /\ \E a \in {"Conflict", "DuplicateKey"} : Finish(r, a)
       \/ /\ call[r].op = "Add"
          /\ call[r].content \notin catalog
          /\ Finish(r, "NotFound")
       \/ /\ call[r].op \in {"Update", "Remove"}
          /\ "absent" \in seen[r]
          /\ Finish(r, "NotFound")
       \/ /\ call[r].op = "Remove"   \* someone else removed it first
          /\ "absent" \in seen[r]
          /\ Finish(r, "OK")
       \/ Finish(r, "Failed")

Ingest(c) ==
    /\ catalog' = catalog \cup {c}
    /\ UNCHANGED <<board, busy, call, seen, answer>>

Next ==
    \/ \E r \in Requests, c \in Calls : Begin(r, c)
    \/ \E r \in Requests :
          /\ busy[r]
          /\ AddEntry(r) \/ UpdateEntry(r) \/ RemoveEntry(r) \/ Refuse(r)
    \/ \E c \in Contents : Ingest(c)

Spec == Init /\ [][Next]_vars

====
