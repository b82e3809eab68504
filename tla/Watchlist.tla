---- MODULE Watchlist ----
(***************************************************************************)
(* WatchlistService (internal/domain/service/watchlist_service.go) over    *)
(* the watchlist_items table, one action per database statement, so that   *)
(* requests interleave wherever PostgreSQL lets them:                      *)
(*                                                                         *)
(*   Add     find existing - find content - INSERT - COMMIT                *)
(*   Update  SELECT ... FOR UPDATE: pick a row, then wait for its lock     *)
(*           - UPDATE of the whole row - COMMIT                            *)
(*   Remove  find - DELETE by id, each in a transaction of its own         *)
(*                                                                         *)
(* The database is READ COMMITTED: a statement reads what is committed     *)
(* when it runs, a unique index makes an INSERT wait for another           *)
(* transaction's uncommitted row with the same key, and a row lock is held *)
(* until its transaction ends.                                             *)
(***************************************************************************)
EXTENDS WatchlistData

CONSTANTS
    Ids,   \* primary keys
    NoId   \* a request that has not found or inserted a row

VARIABLES
    items,    \* [Ids -> committed row or Absent]
    lock,     \* [Ids -> the request holding the row lock, or NoOne]
    catalog,  \* committed rows of the content table
    stage,    \* [Requests -> the statement a request runs next]
    call,     \* [Requests -> its call, or Unset while idle]
    target,   \* [Requests -> the row it works on]
    draft,    \* [Requests -> the row it is about to commit, or Absent]
    answer,   \* [Requests -> the last answer]
    seen      \* history, for WatchlistSpec: what a request's key has been

vars == <<items, lock, catalog, stage, call, target, draft, answer, seen>>
request == <<stage, call, target, draft, answer>>

Row == [profile : Profiles, content : Contents,
        priority : Priorities, notes : Notes]

ASSUME IdAssumption == NoId \notin Ids /\ Absent \notin Row

Stages == {"idle", "find", "content", "insert", "lock", "write", "delete", "commit"}

-----------------------------------------------------------------------------
\* Queries

RowsFor(t, k) == {id \in Ids : t[id] # Absent /\ KeyOf(t[id]) = k}

\* Mutant of Matches: the query is not scoped by profile_id.
MatchesAnyProfile(k) == {id \in Ids : items[id] # Absent /\ items[id].content = k[2]}

\* FindFirst by profile_id and content_id: the rows it may return.
Matches(k) == RowsFor(items, k)

RowOf(c, e) == [profile |-> c.profile, content |-> c.content,
                priority |-> e.priority, notes |-> e.notes]

\* The watchlists a table t holds, as WatchlistSpec sees them.
BoardOf(t) ==
    [k \in Keys |->
       IF RowsFor(t, k) = {} THEN Absent
       ELSE NewEntry(t[CHOOSE id \in RowsFor(t, k) : TRUE])]

Board == BoardOf(items)

StatusOf(e) == IF e = Absent THEN "absent" ELSE "present"

Busy(r) == stage[r] # "idle"

-----------------------------------------------------------------------------
\* Transactions

Pending(q) == stage[q] = "commit" /\ call[q].op = "Add"

\* A uuid nobody has seen: not in the table, not in any request's hands.
Fresh(id) == items[id] = Absent /\ \A q \in Requests : target[q] # id

Updating(q) == stage[q] \in {"write", "commit"} /\ call[q].op = "Update"

Goto(r, s) == stage' = [stage EXCEPT ![r] = s]

\* Mutant of Finish: the transaction ends without giving its locks back.
FinishKeepsLocks(r, a) ==
    /\ Goto(r, "idle")
    /\ call' = [call EXCEPT ![r] = Unset]
    /\ target' = [target EXCEPT ![r] = NoId]
    /\ draft' = [draft EXCEPT ![r] = Absent]
    /\ answer' = [answer EXCEPT ![r] = a]
    /\ seen' = [seen EXCEPT ![r] = {}]
    /\ UNCHANGED <<catalog, lock>>

\* The end of a request: its transaction, if any, is over, its locks go, and
\* the history of every other request is brought up to date.
Finish(r, a) ==
    /\ Goto(r, "idle")
    /\ call' = [call EXCEPT ![r] = Unset]
    /\ target' = [target EXCEPT ![r] = NoId]
    /\ draft' = [draft EXCEPT ![r] = Absent]
    /\ answer' = [answer EXCEPT ![r] = a]
    /\ lock' = [id \in Ids |-> IF lock[id] = r THEN NoOne ELSE lock[id]]
    /\ seen' = [q \in Requests |->
                  IF q = r THEN {}
                  ELSE IF Busy(q) THEN seen[q] \cup {StatusOf(Board'[KeyOf(call[q])])}
                  ELSE seen[q]]
    /\ UNCHANGED catalog

\* A rollback: nothing the transaction wrote is left.
Refuse(r, a) ==
    /\ UNCHANGED items
    /\ Finish(r, a)

-----------------------------------------------------------------------------
Init ==
    /\ items = [id \in Ids |-> Absent]
    /\ lock = [id \in Ids |-> NoOne]
    /\ catalog \in SUBSET Contents
    /\ stage = [r \in Requests |-> "idle"]
    /\ call = [r \in Requests |-> Unset]
    /\ target = [r \in Requests |-> NoId]
    /\ draft = [r \in Requests |-> Absent]
    /\ answer = [r \in Requests |-> "None"]
    /\ seen = [r \in Requests |-> {}]

Begin(r, c) ==
    /\ stage[r] = "idle"
    /\ Goto(r, "find")
    /\ call' = [call EXCEPT ![r] = c]
    /\ answer' = [answer EXCEPT ![r] = "None"]
    /\ seen' = [seen EXCEPT ![r] = {StatusOf(Board[KeyOf(c)])}]
    /\ UNCHANGED <<items, lock, catalog, target, draft>>

\* ContentService.Search commits what it found; content rows are never deleted.
Ingest(c) ==
    /\ catalog' = catalog \cup {c}
    /\ UNCHANGED <<items, lock, seen, request>>

\* --- Add ---

AddFindExisting(r) ==
    /\ stage[r] = "find" /\ call[r].op = "Add"
    /\ \/ /\ Matches(KeyOf(call[r])) # {}
          /\ Refuse(r, "Conflict")
       \/ /\ Matches(KeyOf(call[r])) = {}
          /\ Goto(r, "content")
          /\ UNCHANGED <<items, lock, catalog, call, target, draft, answer, seen>>

AddFindContent(r) ==
    /\ stage[r] = "content"
    /\ \/ /\ call[r].content \notin catalog
          /\ Refuse(r, "NotFound")
       \/ /\ call[r].content \in catalog
          /\ Goto(r, "insert")
          /\ UNCHANGED <<items, lock, catalog, call, target, draft, answer, seen>>

\* Mutant of IndexFree: there is no unique index to wait for.
IndexMissing(r) == stage[r] = "insert"

\* The unique index on (profile_id, content_id): wait for an uncommitted row,
\* refuse a committed one.
IndexFree(r) ==
    \A q \in Requests \ {r} : Pending(q) => KeyOf(call[q]) # KeyOf(call[r])

AddInsert(r) ==
    /\ stage[r] = "insert"
    /\ IndexFree(r)
    /\ \/ /\ Matches(KeyOf(call[r])) # {}
          /\ Refuse(r, "DuplicateKey")
       \/ /\ Matches(KeyOf(call[r])) = {}
          /\ \E id \in Ids :
                /\ Fresh(id)
                /\ target' = [target EXCEPT ![r] = id]
          /\ draft' = [draft EXCEPT ![r] = RowOf(call[r], NewEntry(call[r]))]
          /\ Goto(r, "commit")
          /\ UNCHANGED <<items, lock, catalog, call, answer, seen>>

\* --- Update ---

UpdateFind(r) ==
    /\ stage[r] = "find" /\ call[r].op = "Update"
    /\ \/ /\ Matches(KeyOf(call[r])) = {}
          /\ Refuse(r, "NotFound")
       \/ /\ \E id \in Matches(KeyOf(call[r])) :
                target' = [target EXCEPT ![r] = id]
          /\ Goto(r, "lock")
          /\ UNCHANGED <<items, lock, catalog, call, draft, answer, seen>>

RowUnlocked(r) == lock[target[r]] = NoOne

\* Mutant of UpdateLock: the row is read without FOR UPDATE.
UpdateReadUnlocked(r) ==
    /\ stage[r] = "lock"
    /\ \/ /\ items[target[r]] = Absent
          /\ Refuse(r, "NotFound")
       \/ /\ items[target[r]] # Absent
          /\ draft' = [draft EXCEPT ![r] =
                         RowOf(items[target[r]], Patched(items[target[r]], call[r]))]
          /\ Goto(r, "write")
          /\ UNCHANGED <<items, lock, catalog, call, target, answer, seen>>

\* FOR UPDATE waits for the row it picked, then reads its latest version: a
\* row deleted in the meantime is skipped, and one added under another id is
\* not in the statement's snapshot.
UpdateLock(r) ==
    /\ stage[r] = "lock"
    /\ RowUnlocked(r)
    /\ \/ /\ items[target[r]] = Absent
          /\ Refuse(r, "NotFound")
       \/ /\ items[target[r]] # Absent
          /\ lock' = [lock EXCEPT ![target[r]] = r]
          /\ draft' = [draft EXCEPT ![r] =
                         RowOf(items[target[r]], Patched(items[target[r]], call[r]))]
          /\ Goto(r, "write")
          /\ UNCHANGED <<items, catalog, call, target, answer, seen>>

\* UPDATE of every column of the row; uncommitted, so nobody else sees it yet.
UpdateWrite(r) ==
    /\ stage[r] = "write"
    /\ Goto(r, "commit")
    /\ UNCHANGED <<items, lock, catalog, call, target, draft, answer, seen>>

\* --- Remove ---

RemoveFind(r) ==
    /\ stage[r] = "find" /\ call[r].op = "Remove"
    /\ \/ /\ Matches(KeyOf(call[r])) = {}
          /\ Refuse(r, "NotFound")
       \/ /\ \E id \in Matches(KeyOf(call[r])) :
                target' = [target EXCEPT ![r] = id]
          /\ Goto(r, "delete")
          /\ UNCHANGED <<items, lock, catalog, call, draft, answer, seen>>

\* DELETE ... WHERE id waits for an Update that holds the row, and deleting no
\* row is no error.  It commits by itself; its answer may be lost.
RemoveDelete(r) ==
    /\ stage[r] = "delete"
    /\ RowUnlocked(r)
    /\ items' = [items EXCEPT ![target[r]] = Absent]
    /\ \E a \in {"OK", "Failed"} : Finish(r, a)

\* --- The end of a transaction ---

\* COMMIT makes the draft the row; its answer may be lost.
Commit(r) ==
    /\ stage[r] = "commit"
    /\ items' = [items EXCEPT ![target[r]] = draft[r]]
    /\ \E a \in {"OK", "Failed"} : Finish(r, a)

\* A statement or the COMMIT fails, the client goes away, the server dies: the
\* transaction is rolled back.
Fail(r) ==
    /\ Busy(r)
    /\ Refuse(r, "Failed")

Step(r) ==
    \/ AddFindExisting(r) \/ AddFindContent(r) \/ AddInsert(r)
    \/ UpdateFind(r) \/ UpdateLock(r) \/ UpdateWrite(r)
    \/ RemoveFind(r) \/ RemoveDelete(r)
    \/ Commit(r)

Next ==
    \/ \E r \in Requests, c \in Calls : Begin(r, c)
    \/ \E r \in Requests : Step(r) \/ Fail(r)
    \/ \E c \in Contents : Ingest(c)

Spec == Init /\ [][Next]_vars

\* PostgreSQL grants a contended lock in the order it was asked for, so a
\* request that waits for one again and again gets it: strong fairness.
FairSpec == Spec /\ \A r \in Requests : SF_vars(Step(r))

-----------------------------------------------------------------------------
\* Properties

\* Every variable has its type, and a busy request has a call.
TypeOK ==
    /\ items \in [Ids -> Row \cup {Absent}]
    /\ lock \in [Ids -> Requests \cup {NoOne}]
    /\ catalog \in SUBSET Contents
    /\ stage \in [Requests -> Stages]
    /\ call \in [Requests -> Calls \cup {Unset}]
    /\ target \in [Requests -> Ids \cup {NoId}]
    /\ draft \in [Requests -> Row \cup {Absent}]
    /\ answer \in [Requests -> Answers]
    /\ seen \in [Requests -> SUBSET {"absent", "present"}]
    /\ \A r \in Requests : IF Busy(r) THEN call[r] \in Calls ELSE call[r] = Unset

OneRowPerKey(t) ==
    \A i, j \in Ids :
       t[i] # Absent /\ t[j] # Absent /\ KeyOf(t[i]) = KeyOf(t[j]) => i = j

\* A title is on a profile's watchlist at most once, and no two transactions
\* are about to commit it twice: Add's own check reads before it inserts, only
\* the unique index closes the window between the two.
OneRowPerTitle ==
    /\ OneRowPerKey(items)
    /\ \A r \in Requests : Pending(r) =>
          /\ Matches(KeyOf(call[r])) = {}
          /\ \A q \in Requests \ {r} : Pending(q) => KeyOf(call[q]) # KeyOf(call[r])

\* Update writes back every column of the row it read.  Whatever happened to
\* the row since that read, the fields the PATCH leaves out keep the value they
\* have at the moment the row changes: a priority-only and a notes-only update
\* that overlap both survive.
UpdatesLoseNothing ==
    [][\A id \in Ids :
          items[id] # Absent /\ items'[id] # Absent /\ items'[id] # items[id] =>
             \E r \in Requests :
                /\ Busy(r) /\ call[r].op = "Update" /\ target[r] = id
                /\ items'[id] = RowOf(items[id], Patched(items[id], call[r]))]_vars

\* The table and its transactions implement the watchlist of WatchlistSpec:
\* requests take effect in one step, only on their own caller's entry, failed
\* ones not at all, and every refusal was true at some moment of the request.
Contract == INSTANCE WatchlistSpec
    WITH board <- Board, busy <- [r \in Requests |-> Busy(r)]

ContractSpec == Contract!Spec

\* An INSERT waits for the index entry of another, FOR UPDATE and DELETE for its
\* row lock.
WaitsFor(r, q) ==
    \/ stage[r] = "insert" /\ q # r /\ Pending(q) /\ KeyOf(call[q]) = KeyOf(call[r])
    \/ stage[r] \in {"lock", "delete"} /\ lock[target[r]] = q

\* Whoever is waited for waits for nobody, so no circle of them can form: a
\* transaction takes one lock or one index entry and asks for no other.
NoWaitsInTurn ==
    \A r, q, s \in Requests : WaitsFor(r, q) => ~WaitsFor(q, s)

\* A request ends: no transaction waits for ever for another's row or index
\* entry, however many others come and go.
EveryRequestEnds == \A r \in Requests : Busy(r) ~> ~Busy(r)

-----------------------------------------------------------------------------
\* Why the properties hold: what a transaction may count on between two of its
\* statements.

\* Which statements belong to which operation; the content an Add has looked up
\* stays there for its row to refer to.
StageInv(r) ==
    /\ stage[r] \in {"content", "insert"} => call[r].op = "Add"
    /\ stage[r] \in {"lock", "write"} => call[r].op = "Update"
    /\ stage[r] = "delete" => call[r].op = "Remove"
    /\ stage[r] = "commit" => call[r].op \in {"Add", "Update"}
    /\ stage[r] = "insert" \/ Pending(r) => call[r].content \in catalog

\* A lock belongs to an Update between its SELECT and its COMMIT.
LockInv(id) ==
    lock[id] # NoOne =>
       /\ Updating(lock[id])
       /\ target[lock[id]] = id

\* What such an Update is about to write is its patch of the row as it is now.
UpdateInv(r) ==
    Updating(r) =>
       /\ target[r] \in Ids
       /\ lock[target[r]] = r
       /\ items[target[r]] # Absent
       /\ KeyOf(items[target[r]]) = KeyOf(call[r])
       /\ draft[r] = RowOf(items[target[r]], Patched(items[target[r]], call[r]))

\* An uncommitted row is its inserter's alone, and nothing committed or
\* uncommitted has its key.
InsertInv(r) ==
    Pending(r) =>
       /\ target[r] \in Ids
       /\ items[target[r]] = Absent
       /\ draft[r] = RowOf(call[r], NewEntry(call[r]))
       /\ Matches(KeyOf(call[r])) = {}
       /\ \A q \in Requests \ {r} :
             /\ target[q] # target[r]
             /\ Pending(q) => KeyOf(call[q]) # KeyOf(call[r])

\* A row found earlier is still there under its key, or the request has lived
\* through a moment without it.
FoundInv(r) ==
    stage[r] \in {"lock", "delete"} =>
       /\ target[r] \in Ids
       /\ IF items[target[r]] = Absent THEN "absent" \in seen[r]
          ELSE KeyOf(items[target[r]]) = KeyOf(call[r])

\* The history is up to date.
SeenInv(r) == Busy(r) => StatusOf(Board[KeyOf(call[r])]) \in seen[r]

\* The inductive invariant, TypeOK apart.
TransactionInv ==
    /\ OneRowPerKey(items)
    /\ \A id \in Ids : LockInv(id)
    /\ \A r \in Requests :
          /\ StageInv(r)
          /\ UpdateInv(r)
          /\ InsertInv(r)
          /\ FoundInv(r)
          /\ SeenInv(r)

\* The types and the transactions together are inductive.
WatchlistInv == TypeOK /\ TransactionInv
=============================================================================
