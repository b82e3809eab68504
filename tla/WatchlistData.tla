---- MODULE WatchlistData ----
(***************************************************************************)
(* The data the watchlist endpoints handle: what a request carries and     *)
(* what a row of watchlist_items stores.  Shared by the abstract           *)
(* specification (WatchlistSpec) and the detailed one (Watchlist).         *)
(***************************************************************************)

CONSTANTS
    Requests,    \* HTTP requests in flight (one per goroutine of the server)
    Profiles,    \* profile ids; a request only ever carries its caller's own
    Contents,    \* content ids a client may name, ingested or not
    Priorities,  \* must, high, medium, low
    Notes,       \* note texts, the empty one included
    Unset,       \* a field a PATCH leaves out: priority "" or notes nil
    Absent,      \* no row
    NoOne        \* no request

Keys == Profiles \X Contents

\* The bodies the binding rules accept: POST needs a priority, PATCH may leave
\* out either field, DELETE has no body.
Call == [op : {"Add", "Update", "Remove"},
         profile : Profiles,
         content : Contents,
         priority : Priorities \cup {Unset},
         notes : Notes \cup {Unset}]

WellFormed(c) ==
    /\ c.op = "Add" => c.priority # Unset /\ c.notes # Unset
    /\ c.op = "Remove" => c.priority = Unset /\ c.notes = Unset

Calls == {c \in Call : WellFormed(c)}

KeyOf(c) == <<c.profile, c.content>>

Entry == [priority : Priorities, notes : Notes]

ASSUME DataAssumption ==
    /\ Unset \notin Priorities
    /\ Unset \notin Notes
    /\ NoOne \notin Requests
    /\ Absent \notin Entry

\* What Add stores, and what Update makes of the entry it read.
NewEntry(c) == [priority |-> c.priority, notes |-> c.notes]

Patched(e, c) ==
    [priority |-> IF c.priority # Unset THEN c.priority ELSE e.priority,
     notes |-> IF c.notes # Unset THEN c.notes ELSE e.notes]

Answers == {"None", "OK", "NotFound", "Conflict", "DuplicateKey", "Failed"}

====
