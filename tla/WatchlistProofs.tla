---- MODULE WatchlistProofs ----
(***************************************************************************)
(* Theorems about Watchlist, for any number of requests, profiles,         *)
(* contents and ids.                                                       *)
(***************************************************************************)
EXTENDS Watchlist, TLAPS

USE DEF Answers, Stages

-----------------------------------------------------------------------------
(* Operators on rows and entries *)

\* A patch of an entry is an entry: PATCH keeps what it does not name.
LEMMA PatchedType ==
    ASSUME NEW e, NEW c \in Calls,
           e.priority \in Priorities, e.notes \in Notes
    PROVE  Patched(e, c) \in Entry
BY DEF Calls, Call, Entry, Patched

\* The entry an Add stores.
LEMMA NewEntryType ==
    ASSUME NEW c \in Calls, c.op = "Add"
    PROVE  NewEntry(c) \in Entry
BY DataAssumption DEF Calls, Call, WellFormed, Entry, NewEntry

\* A row built from a call's key, or from a row's, and an entry is a row.
LEMMA RowOfType ==
    ASSUME NEW c, c.profile \in Profiles, c.content \in Contents, NEW e \in Entry
    PROVE  RowOf(c, e) \in Row
BY DEF RowOf, Row, Entry

\* Statuses are statuses.
LEMMA StatusType == \A e : StatusOf(e) \in {"absent", "present"}
BY DEF StatusOf

-----------------------------------------------------------------------------
(* Type correctness *)

\* Finishing a request keeps every type.
LEMMA FinishType ==
    ASSUME TypeOK, items' \in [Ids -> Row \cup {Absent}],
           NEW r \in Requests, NEW a \in Answers, Finish(r, a)
    PROVE  TypeOK'
<1> USE DEF TypeOK, Finish, Goto, Busy
<1>1. lock' \in [Ids -> Requests \cup {NoOne}]
  OBVIOUS
<1>2. /\ catalog' \in SUBSET Contents
      /\ stage' \in [Requests -> {"idle", "find", "content", "insert", "lock",
                                  "write", "delete", "commit"}]
      /\ call' \in [Requests -> Calls \cup {Unset}]
      /\ target' \in [Requests -> Ids \cup {NoId}]
      /\ draft' \in [Requests -> Row \cup {Absent}]
      /\ answer' \in [Requests -> Answers]
  OBVIOUS
<1>3. seen' \in [Requests -> SUBSET {"absent", "present"}]
  BY StatusType
<1>4. \A q \in Requests : IF stage'[q] # "idle" THEN call'[q] \in Calls ELSE call'[q] = Unset
  OBVIOUS
<1> QED BY <1>1, <1>2, <1>3, <1>4

\* Found rows are ids.
LEMMA MatchesType == \A k : Matches(k) \subseteq Ids
BY DEF Matches, RowsFor

\* The row an Update drafts is a row.
LEMMA PatchedRowType ==
    ASSUME NEW row \in Row, NEW c \in Calls
    PROVE  RowOf(row, Patched(row, c)) \in Row
<1>1. Patched(row, c) \in Entry
  BY PatchedType DEF Row
<1> QED BY <1>1, RowOfType DEF Row

\* One step keeps every type.
LEMMA TypeStep == TypeOK /\ TransactionInv /\ [Next]_vars => TypeOK'
<1> SUFFICES ASSUME TypeOK, TransactionInv, [Next]_vars PROVE TypeOK'
  OBVIOUS
<1>1. CASE UNCHANGED vars
  BY <1>1 DEF TypeOK, vars, Busy
<1>2. ASSUME NEW r \in Requests, NEW c \in Calls, Begin(r, c) PROVE TypeOK'
  BY <1>2, StatusType DEF TypeOK, Begin, Goto, Busy
<1>3. ASSUME NEW c \in Contents, Ingest(c) PROVE TypeOK'
  BY <1>3 DEF TypeOK, Ingest, request, Busy
<1>4. ASSUME NEW r \in Requests, NEW a \in Answers, Refuse(r, a) PROVE TypeOK'
  BY <1>4, FinishType DEF Refuse, TypeOK
<1>5. ASSUME NEW r \in Requests, AddFindExisting(r) PROVE TypeOK'
  BY <1>5, <1>4 DEF AddFindExisting, TypeOK, Goto, Busy
<1>6. ASSUME NEW r \in Requests, AddFindContent(r) PROVE TypeOK'
  BY <1>6, <1>4 DEF AddFindContent, TypeOK, Goto, Busy
<1>7. ASSUME NEW r \in Requests, AddInsert(r) PROVE TypeOK'
  <2>1. CASE Refuse(r, "DuplicateKey")
    BY <2>1, <1>4
  <2>2. CASE ~Refuse(r, "DuplicateKey")
    <3>1. call[r] \in Calls /\ call[r].op = "Add"
      BY <1>7 DEF AddInsert, TypeOK, Busy, TransactionInv, StageInv
    <3>2. RowOf(call[r], NewEntry(call[r])) \in Row
      BY <3>1, NewEntryType, RowOfType DEF Calls, Call
    <3> QED BY <1>7, <2>2, <3>1, <3>2 DEF AddInsert, TypeOK, Goto, Busy
  <2> QED BY <2>1, <2>2
<1>8. ASSUME NEW r \in Requests, UpdateFind(r) PROVE TypeOK'
  BY <1>8, <1>4, MatchesType DEF UpdateFind, TypeOK, Goto, Busy
<1>9. ASSUME NEW r \in Requests, UpdateLock(r) PROVE TypeOK'
  <2>1. CASE Refuse(r, "NotFound")
    BY <2>1, <1>4
  <2>2. CASE ~Refuse(r, "NotFound")
    <3>1. call[r] \in Calls /\ target[r] \in Ids
      BY <1>9 DEF UpdateLock, TypeOK, Busy, TransactionInv, FoundInv
    <3>2. items[target[r]] \in Row
      BY <1>9, <2>2, <3>1 DEF UpdateLock, TypeOK
    <3>3. RowOf(items[target[r]], Patched(items[target[r]], call[r])) \in Row
      BY <3>1, <3>2, PatchedRowType
    <3> QED BY <1>9, <2>2, <3>1, <3>3 DEF UpdateLock, TypeOK, Goto, Busy
  <2> QED BY <2>1, <2>2
<1>10. ASSUME NEW r \in Requests, UpdateWrite(r) PROVE TypeOK'
  BY <1>10 DEF UpdateWrite, TypeOK, Goto, Busy
<1>11. ASSUME NEW r \in Requests, RemoveFind(r) PROVE TypeOK'
  BY <1>11, <1>4, MatchesType DEF RemoveFind, TypeOK, Goto, Busy
<1>12. ASSUME NEW r \in Requests, RemoveDelete(r) PROVE TypeOK'
  BY <1>12, FinishType DEF RemoveDelete, TypeOK
<1>13. ASSUME NEW r \in Requests, Commit(r) PROVE TypeOK'
  BY <1>13, FinishType DEF Commit, TypeOK
<1>14. ASSUME NEW r \in Requests, Fail(r) PROVE TypeOK'
  BY <1>14, <1>4 DEF Fail
<1> QED
  BY <1>1, <1>2, <1>3, <1>5, <1>6, <1>7, <1>8, <1>9, <1>10, <1>11, <1>12,
     <1>13, <1>14 DEF Next, Step

-----------------------------------------------------------------------------
(* The watchlists a table holds *)

\* Boards are functions on the keys: they are equal when they agree on each.
LEMMA BoardFunction == \A t : BoardOf(t) = [k \in Keys |-> BoardOf(t)[k]]
BY DEF BoardOf

\* A key without a row has no entry.
LEMMA BoardAbsent ==
    ASSUME NEW t, NEW k \in Keys, RowsFor(t, k) = {}
    PROVE  BoardOf(t)[k] = Absent
BY DEF BoardOf

\* A key with one row has that row's entry.
LEMMA BoardPresent ==
    ASSUME NEW t, OneRowPerKey(t),
           NEW id \in Ids, t[id] # Absent, KeyOf(t[id]) \in Keys
    PROVE  BoardOf(t)[KeyOf(t[id])] = NewEntry(t[id])
<1> DEFINE k == KeyOf(t[id])
<1>1. id \in RowsFor(t, k)
  BY DEF RowsFor
<1>2. \A i \in RowsFor(t, k) : i = id
  BY DEF RowsFor, OneRowPerKey
<1>3. (CHOOSE i \in RowsFor(t, k) : TRUE) = id
  BY <1>1, <1>2
<1>4. BoardOf(t)[k] = NewEntry(t[CHOOSE i \in RowsFor(t, k) : TRUE])
  BY <1>1 DEF BoardOf
<1> QED BY <1>3, <1>4

\* The entry of a row is an entry, and so not the absence of one.
LEMMA RowEntry ==
    ASSUME NEW row \in Row
    PROVE  /\ NewEntry(row) \in Entry
           /\ NewEntry(row) # Absent
           /\ KeyOf(row) \in Keys
BY DataAssumption DEF NewEntry, Entry, Row, KeyOf, Keys

\* A call names a key.
LEMMA CallKey == \A c \in Calls : KeyOf(c) \in Keys
BY DEF KeyOf, Keys, Calls, Call

\* After its only row is deleted, a key has no entry.
LEMMA BoardDeleted ==
    ASSUME NEW t \in [Ids -> Row \cup {Absent}], OneRowPerKey(t),
           NEW id \in Ids, t[id] # Absent
    PROVE  BoardOf([t EXCEPT ![id] = Absent])[KeyOf(t[id])] = Absent
<1> DEFINE u == [t EXCEPT ![id] = Absent]
<1>1. RowsFor(u, KeyOf(t[id])) = {}
  BY DEF RowsFor, OneRowPerKey
<1>2. KeyOf(t[id]) \in Keys
  BY RowEntry
<1> QED BY <1>1, <1>2, BoardAbsent

\* Tables t and u differ at most in row id, which is under key k in each.
DifferAt(t, u, id, k) ==
    /\ \A i \in Ids : i # id => u[i] = t[i]
    /\ t[id] = Absent \/ KeyOf(t[id]) = k
    /\ u[id] = Absent \/ KeyOf(u[id]) = k

\* Changing a row under one key, or deleting it, leaves every other key's entry.
LEMMA BoardElsewhere ==
    ASSUME NEW t, NEW u, OneRowPerKey(t), NEW id \in Ids, NEW k,
           DifferAt(t, u, id, k), NEW j \in Keys, j # k
    PROVE  BoardOf(u)[j] = BoardOf(t)[j]
<1>1. RowsFor(u, j) = RowsFor(t, j)
  BY DEF RowsFor, DifferAt
<1>2. CASE RowsFor(t, j) = {}
  BY <1>1, <1>2, BoardAbsent
<1>3. CASE RowsFor(t, j) # {}
  <2>1. PICK i \in Ids : t[i] # Absent /\ KeyOf(t[i]) = j
    BY <1>3 DEF RowsFor
  <2>2. i # id /\ u[i] = t[i]
    BY <2>1 DEF DifferAt
  <2>3. \A h \in RowsFor(t, j) : h = i
    BY <2>1 DEF RowsFor, OneRowPerKey
  <2>4. (CHOOSE h \in RowsFor(t, j) : TRUE) = i
    BY <1>3, <2>3
  <2>5. BoardOf(t)[j] = NewEntry(t[CHOOSE h \in RowsFor(t, j) : TRUE])
    BY <1>3 DEF BoardOf
  <2>6. BoardOf(u)[j] = NewEntry(u[CHOOSE h \in RowsFor(u, j) : TRUE])
    BY <1>1, <1>3 DEF BoardOf
  <2> QED BY <1>1, <2>2, <2>4, <2>5, <2>6
<1> QED BY <1>2, <1>3

-----------------------------------------------------------------------------
(* The inductive invariant *)

\* A rollback leaves everybody else's transaction as it was.
LEMMA RefuseInv ==
    ASSUME TypeOK, TransactionInv, NEW r \in Requests, NEW a, Busy(r), Refuse(r, a)
    PROVE  TransactionInv'
<1> USE DEF Refuse, Finish, Goto, Busy, Updating, Pending
<1>1. OneRowPerKey(items)'
  BY DEF TransactionInv, OneRowPerKey
<1>2. \A id \in Ids : LockInv(id)'
  BY DataAssumption DEF TypeOK, TransactionInv, LockInv
<1>3. ASSUME NEW q \in Requests PROVE StageInv(q)'
  BY DEF TypeOK, TransactionInv, StageInv
<1>4. ASSUME NEW q \in Requests PROVE UpdateInv(q)'
  BY DEF TypeOK, TransactionInv, UpdateInv
<1>5. ASSUME NEW q \in Requests PROVE InsertInv(q)'
  BY IdAssumption DEF TypeOK, TransactionInv, InsertInv, Matches, RowsFor
<1>6. ASSUME NEW q \in Requests PROVE FoundInv(q)'
  BY DEF TypeOK, TransactionInv, FoundInv
<1>7. ASSUME NEW q \in Requests PROVE SeenInv(q)'
  BY DEF TypeOK, SeenInv
<1> QED BY <1>1, <1>2, <1>3, <1>4, <1>5, <1>6, <1>7 DEF TransactionInv

\* So does a statement that only reads: it moves its request on and writes down
\* at most which row it found.
LEMMA ReadInv ==
    ASSUME TypeOK, TransactionInv, NEW r \in Requests,
           NEW s \in {"content", "insert", "lock", "delete"},
           Busy(r), ~Updating(r), ~Pending(r), Goto(r, s),
           s \in {"content", "insert"} => call[r].op = "Add" /\ UNCHANGED target,
           s = "insert" => call[r].content \in catalog,
           s = "lock" => call[r].op = "Update",
           s = "delete" => call[r].op = "Remove",
           s \in {"lock", "delete"} =>
              \E id \in Matches(KeyOf(call[r])) : target' = [target EXCEPT ![r] = id],
           UNCHANGED <<items, lock, catalog, call, draft, answer, seen>>
    PROVE  TransactionInv'
<1> USE DEF Goto, Busy, Updating, Pending
<1>1. OneRowPerKey(items)'
  BY DEF TransactionInv, OneRowPerKey
<1>2. \A q \in Requests : q # r => stage'[q] = stage[q] /\ target'[q] = target[q]
  BY DEF TypeOK
<1>3. stage'[r] = s
  BY DEF TypeOK
<1>4. ASSUME NEW id \in Ids PROVE LockInv(id)'
  BY <1>2, DataAssumption DEF TypeOK, TransactionInv, LockInv
<1>5. ASSUME NEW q \in Requests PROVE StageInv(q)'
  BY <1>2, <1>3 DEF TransactionInv, StageInv
<1>6. ASSUME NEW q \in Requests PROVE UpdateInv(q)'
  BY <1>2, <1>3 DEF TransactionInv, UpdateInv
<1>7. ASSUME NEW q \in Requests PROVE InsertInv(q)'
  <2> SUFFICES ASSUME Pending(q)' PROVE InsertInv(q)'
    BY DEF InsertInv
  <2>1. q # r /\ Pending(q) /\ InsertInv(q)
    BY <1>2, <1>3 DEF TransactionInv
  <2>2. target'[r] # target[q]
    BY <2>1 DEF TypeOK, InsertInv, Matches, RowsFor
  <2>3. Matches(KeyOf(call[q]))' = Matches(KeyOf(call[q]))
    BY DEF Matches, RowsFor
  <2> QED BY <1>2, <1>3, <2>1, <2>2, <2>3 DEF InsertInv
<1>8. ASSUME NEW q \in Requests PROVE FoundInv(q)'
  <2>1. CASE q # r
    BY <2>1, <1>2 DEF TransactionInv, FoundInv
  <2>2. CASE q = r
    BY <2>2, <1>3 DEF TypeOK, FoundInv, Matches, RowsFor
  <2> QED BY <2>1, <2>2
<1>9. ASSUME NEW q \in Requests PROVE SeenInv(q)'
  BY <1>2, <1>3 DEF TransactionInv, SeenInv, Board
<1> QED BY <1>1, <1>4, <1>5, <1>6, <1>7, <1>8, <1>9 DEF TransactionInv

\* A new call has no transaction yet.
LEMMA BeginInv ==
    ASSUME TypeOK, TransactionInv, NEW r \in Requests, NEW c \in Calls, Begin(r, c)
    PROVE  TransactionInv'
<1> USE DEF Begin, Goto, Busy, Updating, Pending
<1>1. OneRowPerKey(items)'
  BY DEF TransactionInv, OneRowPerKey
<1>2. \A q \in Requests : q # r => stage'[q] = stage[q] /\ call'[q] = call[q] /\ seen'[q] = seen[q]
  BY DEF TypeOK
<1>3. stage'[r] = "find" /\ call'[r] = c /\ seen'[r] = {StatusOf(Board[KeyOf(c)])}
  BY DEF TypeOK
<1>4. ASSUME NEW id \in Ids PROVE LockInv(id)'
  BY <1>2, DataAssumption DEF TypeOK, TransactionInv, LockInv
<1>5. ASSUME NEW q \in Requests PROVE StageInv(q)'
  BY <1>2, <1>3 DEF TransactionInv, StageInv
<1>6. ASSUME NEW q \in Requests PROVE UpdateInv(q)'
  BY <1>2, <1>3 DEF TransactionInv, UpdateInv
<1>7. ASSUME NEW q \in Requests PROVE InsertInv(q)'
  BY <1>2, <1>3 DEF TransactionInv, InsertInv, Matches, RowsFor
<1>8. ASSUME NEW q \in Requests PROVE FoundInv(q)'
  BY <1>2, <1>3 DEF TransactionInv, FoundInv
<1>9. ASSUME NEW q \in Requests PROVE SeenInv(q)'
  BY <1>2, <1>3 DEF TransactionInv, SeenInv, Board
<1> QED BY <1>1, <1>4, <1>5, <1>6, <1>7, <1>8, <1>9 DEF TransactionInv

\* The unique index: an INSERT that goes through has the key to itself.
LEMMA AddInsertInv ==
    ASSUME TypeOK, TransactionInv, NEW r \in Requests, AddInsert(r),
           ~Refuse(r, "DuplicateKey")
    PROVE  TransactionInv'
<1> USE DEF AddInsert, Goto, Busy, Updating, Pending
<1>1. OneRowPerKey(items)'
  BY DEF TransactionInv, OneRowPerKey
<1>2. \A q \in Requests : q # r =>
         stage'[q] = stage[q] /\ target'[q] = target[q] /\ draft'[q] = draft[q]
  BY DEF TypeOK
<1>3. /\ stage'[r] = "commit" /\ call[r].op = "Add"
      /\ draft'[r] = RowOf(call[r], NewEntry(call[r]))
  BY DEF TypeOK, TransactionInv, StageInv
<1>4. target'[r] \in Ids /\ Fresh(target'[r])
  BY DEF TypeOK
<1>5. ASSUME NEW id \in Ids PROVE LockInv(id)'
  BY <1>2, DataAssumption DEF TypeOK, TransactionInv, LockInv
<1>6. ASSUME NEW q \in Requests PROVE StageInv(q)'
  BY <1>2, <1>3 DEF TransactionInv, StageInv
<1>7. ASSUME NEW q \in Requests PROVE UpdateInv(q)'
  BY <1>2, <1>3 DEF TransactionInv, UpdateInv
<1>8. ASSUME NEW q \in Requests PROVE InsertInv(q)'
  <2>1. \A k : Matches(k)' = Matches(k)
    BY DEF Matches, RowsFor
  <2>2. CASE q # r
    BY <1>2, <1>3, <1>4, <2>1, <2>2 DEF TransactionInv, InsertInv, IndexFree, Fresh
  <2>3. CASE q = r
    BY <1>2, <1>3, <1>4, <2>1, <2>3 DEF InsertInv, IndexFree, Fresh
  <2> QED BY <2>2, <2>3
<1>9. ASSUME NEW q \in Requests PROVE FoundInv(q)'
  BY <1>2, <1>3 DEF TransactionInv, FoundInv
<1>10. ASSUME NEW q \in Requests PROVE SeenInv(q)'
  BY <1>2, <1>3 DEF TransactionInv, SeenInv, Board
<1> QED BY <1>1, <1>5, <1>6, <1>7, <1>8, <1>9, <1>10 DEF TransactionInv

\* SELECT ... FOR UPDATE: the row it returns is locked and current.
LEMMA UpdateLockInv ==
    ASSUME TypeOK, TransactionInv, NEW r \in Requests, UpdateLock(r),
           ~Refuse(r, "NotFound")
    PROVE  TransactionInv'
<1> USE DEF UpdateLock, Goto, Busy, Updating, Pending
<1>1. OneRowPerKey(items)'
  BY DEF TransactionInv, OneRowPerKey
<1>2. \A q \in Requests : q # r => stage'[q] = stage[q] /\ draft'[q] = draft[q]
  BY DEF TypeOK
<1>3. /\ stage'[r] = "write" /\ call[r].op = "Update" /\ target[r] \in Ids
      /\ draft'[r] = RowOf(items[target[r]], Patched(items[target[r]], call[r]))
      /\ lock[target[r]] = NoOne /\ items[target[r]] # Absent
      /\ lock' = [lock EXCEPT ![target[r]] = r]
      /\ KeyOf(items[target[r]]) = KeyOf(call[r])
  BY DEF TypeOK, TransactionInv, StageInv, FoundInv, RowUnlocked
<1>4. ASSUME NEW id \in Ids PROVE LockInv(id)'
  BY <1>2, <1>3, DataAssumption DEF TypeOK, TransactionInv, LockInv
<1>5. ASSUME NEW q \in Requests PROVE StageInv(q)'
  BY <1>2, <1>3 DEF TransactionInv, StageInv
<1>6. ASSUME NEW q \in Requests PROVE UpdateInv(q)'
  <2>1. CASE q # r
    BY <1>2, <1>3, <2>1, DataAssumption DEF TypeOK, TransactionInv, UpdateInv
  <2>2. CASE q = r
    BY <1>3, <2>2 DEF TypeOK, UpdateInv
  <2> QED BY <2>1, <2>2
<1>7. ASSUME NEW q \in Requests PROVE InsertInv(q)'
  BY <1>2, <1>3 DEF TransactionInv, InsertInv, Matches, RowsFor
<1>8. ASSUME NEW q \in Requests PROVE FoundInv(q)'
  BY <1>2, <1>3 DEF TransactionInv, FoundInv
<1>9. ASSUME NEW q \in Requests PROVE SeenInv(q)'
  BY <1>2, <1>3 DEF TransactionInv, SeenInv, Board
<1> QED BY <1>1, <1>4, <1>5, <1>6, <1>7, <1>8, <1>9 DEF TransactionInv

\* The UPDATE statement of a transaction that holds its row.
LEMMA UpdateWriteInv ==
    ASSUME TypeOK, TransactionInv, NEW r \in Requests, UpdateWrite(r)
    PROVE  TransactionInv'
<1> USE DEF UpdateWrite, Goto, Busy, Updating, Pending
<1>1. OneRowPerKey(items)'
  BY DEF TransactionInv, OneRowPerKey
<1>2. \A q \in Requests : q # r => stage'[q] = stage[q]
  BY DEF TypeOK
<1>3. stage'[r] = "commit" /\ call[r].op = "Update"
  BY DEF TypeOK, TransactionInv, StageInv
<1>4. ASSUME NEW id \in Ids PROVE LockInv(id)'
  BY <1>2, <1>3, DataAssumption DEF TypeOK, TransactionInv, LockInv
<1>5. ASSUME NEW q \in Requests PROVE StageInv(q)'
  BY <1>2, <1>3 DEF TransactionInv, StageInv
<1>6. ASSUME NEW q \in Requests PROVE UpdateInv(q)'
  BY <1>2, <1>3 DEF TransactionInv, UpdateInv
<1>7. ASSUME NEW q \in Requests PROVE InsertInv(q)'
  BY <1>2, <1>3 DEF TransactionInv, InsertInv, Matches, RowsFor
<1>8. ASSUME NEW q \in Requests PROVE FoundInv(q)'
  BY <1>2, <1>3 DEF TransactionInv, FoundInv
<1>9. ASSUME NEW q \in Requests PROVE SeenInv(q)'
  BY <1>2, <1>3 DEF TransactionInv, SeenInv, Board
<1> QED BY <1>1, <1>4, <1>5, <1>6, <1>7, <1>8, <1>9 DEF TransactionInv

\* A DELETE takes away a row no Update holds; whoever found it earlier has now
\* seen the key without one.
LEMMA RemoveDeleteInv ==
    ASSUME TypeOK, TransactionInv, NEW r \in Requests, RemoveDelete(r)
    PROVE  TransactionInv'
<1> DEFINE d == target[r]
<1> USE DEF RemoveDelete, Finish, Goto, Busy, Updating, Pending
<1>1. d \in Ids /\ lock[d] = NoOne /\ items' = [items EXCEPT ![d] = Absent]
  BY DEF TransactionInv, FoundInv, RowUnlocked
<1>2. \A id \in Ids : items'[id] = IF id = d THEN Absent ELSE items[id]
  BY <1>1 DEF TypeOK
<1>3. \A q \in Requests : q # r =>
         stage'[q] = stage[q] /\ call'[q] = call[q] /\ target'[q] = target[q] /\ draft'[q] = draft[q]
  BY DEF TypeOK
<1>4. stage'[r] = "idle"
  BY DEF TypeOK
<1>5. OneRowPerKey(items)'
  BY <1>2 DEF TransactionInv, OneRowPerKey
<1>6. \A id \in Ids : LockInv(id)'
  BY <1>3, DataAssumption DEF TypeOK, TransactionInv, LockInv
<1>7. ASSUME NEW q \in Requests PROVE StageInv(q)'
  BY <1>3, <1>4 DEF TransactionInv, StageInv
<1>8. ASSUME NEW q \in Requests PROVE UpdateInv(q)'
  <2> SUFFICES ASSUME Updating(q)' PROVE UpdateInv(q)'
    BY DEF UpdateInv
  <2>1. q # r /\ UpdateInv(q) /\ Updating(q)
    BY <1>3, <1>4 DEF TransactionInv
  <2>2. target[q] # d
    BY <1>1, <2>1, DataAssumption DEF UpdateInv
  <2>3. lock'[target[q]] = q
    BY <2>1 DEF UpdateInv
  <2> QED BY <1>2, <1>3, <2>1, <2>2, <2>3 DEF UpdateInv
<1>9. ASSUME NEW q \in Requests PROVE InsertInv(q)'
  <2> SUFFICES ASSUME Pending(q)' PROVE InsertInv(q)'
    BY DEF InsertInv
  <2>1. q # r /\ InsertInv(q) /\ Pending(q)
    BY <1>3, <1>4 DEF TransactionInv
  <2>2. Matches(KeyOf(call[q]))' = {}
    BY <1>2, <1>3, <2>1 DEF InsertInv, Matches, RowsFor
  <2>3. target'[r] = NoId
    BY DEF TypeOK
  <2> QED BY <1>2, <1>3, <1>4, <2>1, <2>2, <2>3, IdAssumption DEF InsertInv
<1>10. ASSUME NEW q \in Requests PROVE FoundInv(q)'
  <2> SUFFICES ASSUME stage'[q] \in {"lock", "delete"} PROVE FoundInv(q)'
    BY DEF FoundInv
  <2>1. q # r /\ FoundInv(q) /\ stage[q] \in {"lock", "delete"}
    BY <1>3, <1>4 DEF TransactionInv
  <2>2. seen'[q] = seen[q] \cup {StatusOf(Board'[KeyOf(call[q])])}
    BY <2>1 DEF TypeOK
  <2>3. CASE target[q] # d \/ items[d] = Absent
    BY <1>2, <1>3, <2>1, <2>2, <2>3 DEF FoundInv
  <2>4. CASE target[q] = d /\ items[d] # Absent
    <3>1. KeyOf(call[q]) = KeyOf(items[d])
      BY <2>1, <2>4 DEF FoundInv
    <3>2. Board'[KeyOf(call[q])] = Absent
      <4>1. items \in [Ids -> Row \cup {Absent}] /\ OneRowPerKey(items)
        BY DEF TypeOK, TransactionInv
      <4>2. BoardOf([items EXCEPT ![d] = Absent])[KeyOf(items[d])] = Absent
        BY <1>1, <2>4, <4>1, BoardDeleted
      <4> QED BY <1>1, <3>1, <4>2 DEF Board
    <3>3. StatusOf(Board'[KeyOf(call[q])]) = "absent"
      BY <3>2 DEF StatusOf
    <3>4. "absent" \in seen'[q]
      BY <2>2, <3>3
    <3>5. target'[q] \in Ids /\ items'[target'[q]] = Absent
      BY <1>1, <1>2, <1>3, <2>1, <2>4
    <3> QED BY <3>4, <3>5 DEF FoundInv
  <2> QED BY <2>3, <2>4
<1>11. ASSUME NEW q \in Requests PROVE SeenInv(q)'
  BY <1>3, <1>4 DEF TypeOK, SeenInv
<1> QED BY <1>5, <1>6, <1>7, <1>8, <1>9, <1>10, <1>11 DEF TransactionInv

\* What a COMMIT writes: a row under its request's key, on a row id that is free
\* for an Add and holds the same key for an Update.
LEMMA CommitRow ==
    ASSUME TypeOK, TransactionInv, NEW r \in Requests, stage[r] = "commit"
    PROVE  /\ target[r] \in Ids
           /\ draft[r] \in Row /\ draft[r] # Absent
           /\ KeyOf(draft[r]) = KeyOf(call[r])
           /\ items[target[r]] = Absent => call[r].op = "Add" /\ Matches(KeyOf(call[r])) = {}
           /\ items[target[r]] # Absent =>
                 /\ call[r].op = "Update"
                 /\ KeyOf(items[target[r]]) = KeyOf(call[r])
<1>1. call[r] \in Calls /\ call[r].op \in {"Add", "Update"}
  BY DEF TypeOK, Busy, TransactionInv, StageInv
<1>2. \A c, e : KeyOf(RowOf(c, e)) = KeyOf(c)
  BY DEF KeyOf, RowOf
<1>3. CASE call[r].op = "Add"
  <2>1. InsertInv(r) /\ Pending(r)
    BY <1>3 DEF TransactionInv, Pending
  <2>2. RowOf(call[r], NewEntry(call[r])) \in Row
    BY <1>1, <1>3, NewEntryType, RowOfType DEF Calls, Call
  <2> QED BY <1>2, <1>3, <2>1, <2>2, IdAssumption DEF InsertInv
<1>4. CASE call[r].op = "Update"
  <2>1. UpdateInv(r) /\ Updating(r)
    BY <1>4 DEF TransactionInv, Updating
  <2>2. items[target[r]] \in Row
    BY <2>1 DEF UpdateInv, TypeOK
  <2>3. draft[r] \in Row
    BY <1>1, <2>1, <2>2, PatchedRowType DEF UpdateInv
  <2> QED BY <1>2, <1>4, <2>1, <2>3, IdAssumption DEF UpdateInv
<1> QED BY <1>1, <1>3, <1>4

\* COMMIT of an Add puts a row where there was none; COMMIT of an Update puts a
\* row with the same key in place of the one it holds.
LEMMA CommitInv ==
    ASSUME TypeOK, TransactionInv, NEW r \in Requests, Commit(r)
    PROVE  TransactionInv'
<1> DEFINE d == target[r]
<1> USE DEF Commit, Finish, Goto, Busy, Updating, Pending
<1>1. /\ d \in Ids /\ KeyOf(draft[r]) = KeyOf(call[r]) /\ draft[r] # Absent
      /\ items[d] = Absent => call[r].op = "Add" /\ Matches(KeyOf(call[r])) = {}
      /\ items[d] # Absent => call[r].op = "Update" /\ KeyOf(items[d]) = KeyOf(call[r])
  BY CommitRow
<1>2. \A id \in Ids : items'[id] = IF id = d THEN draft[r] ELSE items[id]
  BY <1>1 DEF TypeOK
<1>3. \A q \in Requests : q # r =>
         stage'[q] = stage[q] /\ call'[q] = call[q] /\ target'[q] = target[q] /\ draft'[q] = draft[q]
  BY DEF TypeOK
<1>4. stage'[r] = "idle"
  BY DEF TypeOK
<1>5. OneRowPerKey(items)'
  BY <1>1, <1>2 DEF TransactionInv, OneRowPerKey, Matches, RowsFor
<1>6. \A id \in Ids : LockInv(id)'
  BY <1>3, DataAssumption DEF TypeOK, TransactionInv, LockInv
<1>7. ASSUME NEW q \in Requests PROVE StageInv(q)'
  BY <1>3, <1>4 DEF TransactionInv, StageInv
<1>8. \A q \in Requests : q # r /\ (Updating(q) \/ Pending(q)) => target[q] # d
  BY <1>1 DEF TransactionInv, StageInv, UpdateInv, InsertInv
<1>9. ASSUME NEW q \in Requests PROVE UpdateInv(q)'
  <2> SUFFICES ASSUME Updating(q)' PROVE UpdateInv(q)'
    BY DEF UpdateInv
  <2>1. q # r /\ UpdateInv(q) /\ Updating(q)
    BY <1>3, <1>4 DEF TransactionInv
  <2>2. lock'[target[q]] = q
    BY <2>1 DEF UpdateInv
  <2> QED BY <1>2, <1>3, <1>8, <2>1, <2>2 DEF UpdateInv
<1>10. ASSUME NEW q \in Requests PROVE InsertInv(q)'
  <2> SUFFICES ASSUME Pending(q)' PROVE InsertInv(q)'
    BY DEF InsertInv
  <2>1. q # r /\ InsertInv(q) /\ Pending(q)
    BY <1>3, <1>4 DEF TransactionInv
  <2>2. KeyOf(call[r]) # KeyOf(call[q])
    <3>1. CASE call[r].op = "Add"
      BY <2>1, <3>1 DEF TransactionInv, InsertInv
    <3>2. CASE call[r].op # "Add"
      BY <1>1, <2>1, <3>2 DEF InsertInv, Matches, RowsFor
    <3> QED BY <3>1, <3>2
  <2>3. Matches(KeyOf(call[q]))' = {}
    BY <1>1, <1>2, <1>3, <2>1, <2>2 DEF InsertInv, Matches, RowsFor
  <2>4. target'[r] = NoId
    BY DEF TypeOK
  <2> QED BY <1>2, <1>3, <1>4, <1>8, <2>1, <2>3, <2>4, IdAssumption DEF InsertInv
<1>11. ASSUME NEW q \in Requests PROVE FoundInv(q)'
  <2> SUFFICES ASSUME stage'[q] \in {"lock", "delete"} PROVE FoundInv(q)'
    BY DEF FoundInv
  <2>1. q # r /\ FoundInv(q) /\ stage[q] \in {"lock", "delete"}
    BY <1>3, <1>4 DEF TransactionInv
  <2>2. seen'[q] = seen[q] \cup {StatusOf(Board'[KeyOf(call[q])])}
    BY <2>1 DEF TypeOK
  <2>3. target[q] = d => items[d] # Absent
    BY <1>1, <2>1 DEF TransactionInv, InsertInv
  <2> QED BY <1>1, <1>2, <1>3, <2>1, <2>2, <2>3 DEF FoundInv
<1>12. ASSUME NEW q \in Requests PROVE SeenInv(q)'
  BY <1>3, <1>4 DEF TypeOK, SeenInv
<1> QED BY <1>5, <1>6, <1>7, <1>9, <1>10, <1>11, <1>12 DEF TransactionInv

\* One step keeps the invariant.
LEMMA InvStep == TypeOK /\ TransactionInv /\ [Next]_vars => TransactionInv'
<1> SUFFICES ASSUME TypeOK, TransactionInv, [Next]_vars PROVE TransactionInv'
  OBVIOUS
<1>1. CASE UNCHANGED vars
  <2> USE <1>1 DEF vars, Busy, Updating, Pending
  <2>1. OneRowPerKey(items)'
    BY DEF TransactionInv, OneRowPerKey
  <2>2. ASSUME NEW id \in Ids PROVE LockInv(id)'
    BY DEF TransactionInv, LockInv
  <2>3. ASSUME NEW r \in Requests
        PROVE  StageInv(r)' /\ UpdateInv(r)' /\ FoundInv(r)'
    BY DEF TransactionInv, StageInv, UpdateInv, FoundInv
  <2>4. ASSUME NEW r \in Requests PROVE InsertInv(r)'
    BY DEF TransactionInv, InsertInv, Matches, RowsFor
  <2>5. ASSUME NEW r \in Requests PROVE SeenInv(r)'
    BY DEF TransactionInv, SeenInv, Board
  <2> QED BY <2>1, <2>2, <2>3, <2>4, <2>5 DEF TransactionInv
<1>2. ASSUME NEW r \in Requests, NEW c \in Calls, Begin(r, c) PROVE TransactionInv'
  BY <1>2, BeginInv
<1>3. ASSUME NEW c \in Contents, Ingest(c) PROVE TransactionInv'
  <2> USE <1>3 DEF Ingest, request, Busy, Updating, Pending
  <2>1. OneRowPerKey(items)'
    BY DEF TransactionInv, OneRowPerKey
  <2>2. ASSUME NEW id \in Ids PROVE LockInv(id)'
    BY DEF TransactionInv, LockInv
  <2>3. ASSUME NEW r \in Requests
        PROVE  StageInv(r)' /\ UpdateInv(r)' /\ FoundInv(r)'
    BY DEF TransactionInv, StageInv, UpdateInv, FoundInv
  <2>4. ASSUME NEW r \in Requests PROVE InsertInv(r)'
    BY DEF TransactionInv, InsertInv, Matches, RowsFor
  <2>5. ASSUME NEW r \in Requests PROVE SeenInv(r)'
    BY DEF TransactionInv, SeenInv, Board
  <2> QED BY <2>1, <2>2, <2>3, <2>4, <2>5 DEF TransactionInv
<1>4. ASSUME NEW r \in Requests, NEW a, Busy(r), Refuse(r, a) PROVE TransactionInv'
  BY <1>4, RefuseInv
<1>5. ASSUME NEW r \in Requests, AddFindExisting(r) PROVE TransactionInv'
  BY <1>5, <1>4, ReadInv DEF AddFindExisting, Busy, Updating, Pending
<1>6. ASSUME NEW r \in Requests, AddFindContent(r) PROVE TransactionInv'
  BY <1>6, <1>4, ReadInv DEF AddFindContent, Busy, Updating, Pending, TransactionInv, StageInv
<1>7. ASSUME NEW r \in Requests, AddInsert(r) PROVE TransactionInv'
  BY <1>7, <1>4, AddInsertInv DEF AddInsert, Busy
<1>8. ASSUME NEW r \in Requests, UpdateFind(r) PROVE TransactionInv'
  BY <1>8, <1>4, ReadInv DEF UpdateFind, Busy, Updating, Pending
<1>9. ASSUME NEW r \in Requests, UpdateLock(r) PROVE TransactionInv'
  BY <1>9, <1>4, UpdateLockInv DEF UpdateLock, Busy
<1>10. ASSUME NEW r \in Requests, UpdateWrite(r) PROVE TransactionInv'
  BY <1>10, UpdateWriteInv
<1>11. ASSUME NEW r \in Requests, RemoveFind(r) PROVE TransactionInv'
  BY <1>11, <1>4, ReadInv DEF RemoveFind, Busy, Updating, Pending
<1>12. ASSUME NEW r \in Requests, RemoveDelete(r) PROVE TransactionInv'
  BY <1>12, RemoveDeleteInv
<1>13. ASSUME NEW r \in Requests, Commit(r) PROVE TransactionInv'
  BY <1>13, CommitInv
<1>14. ASSUME NEW r \in Requests, Fail(r) PROVE TransactionInv'
  BY <1>14, <1>4 DEF Fail
<1> QED
  BY <1>1, <1>2, <1>3, <1>5, <1>6, <1>7, <1>8, <1>9, <1>10, <1>11, <1>12,
     <1>13, <1>14 DEF Next, Step

-----------------------------------------------------------------------------
(* What follows for every behaviour *)

\* The two halves of the invariant need each other.
LEMMA TransactionsHold == Spec => [](TypeOK /\ TransactionInv)
<1>1. Init => TypeOK
  BY DEF Init, TypeOK, Busy
<1>2. Init => TransactionInv
  BY DEF Init, TransactionInv, OneRowPerKey, LockInv, StageInv, UpdateInv,
         InsertInv, FoundInv, SeenInv, Busy, Updating, Pending
<1>3. TypeOK /\ TransactionInv /\ [Next]_vars => (TypeOK /\ TransactionInv)'
  BY TypeStep, InvStep
<1> QED BY <1>1, <1>2, <1>3, PTL DEF Spec

\* Locks, uncommitted drafts and found rows are what Add, Update and Remove take
\* them for, however the statements of any number of requests interleave.
THEOREM WatchlistHolds == Spec => []WatchlistInv
BY TransactionsHold, PTL DEF WatchlistInv

\* No title is ever listed twice for a profile, nor about to be.
THEOREM TitlesUnique == Spec => []OneRowPerTitle
<1>1. TransactionInv => OneRowPerTitle
  BY DEF TransactionInv, InsertInv, OneRowPerTitle
<1> QED BY <1>1, TransactionsHold, PTL

\* Only a DELETE or a COMMIT changes the table.
LEMMA ItemsStep ==
    ASSUME [Next]_vars, items' # items
    PROVE  \E r \in Requests : RemoveDelete(r) \/ Commit(r)
BY DEF Next, Step, vars, Begin, Ingest, Fail, Refuse, AddFindExisting,
       AddFindContent, AddInsert, UpdateFind, UpdateLock, UpdateWrite, RemoveFind

\* No update is lost, however many overlap.
THEOREM NoLostUpdate == Spec => UpdatesLoseNothing
<1> DEFINE Kept ==
      \A id \in Ids :
         items[id] # Absent /\ items'[id] # Absent /\ items'[id] # items[id] =>
            \E r \in Requests :
               /\ Busy(r) /\ call[r].op = "Update" /\ target[r] = id
               /\ items'[id] = RowOf(items[id], Patched(items[id], call[r]))
<1>1. TypeOK /\ TransactionInv /\ [Next]_vars => [Kept]_vars
  <2> SUFFICES ASSUME TypeOK, TransactionInv, [Next]_vars,
                      NEW id \in Ids, items[id] # Absent,
                      items'[id] # Absent, items'[id] # items[id]
               PROVE  \E r \in Requests :
                         /\ Busy(r) /\ call[r].op = "Update" /\ target[r] = id
                         /\ items'[id] = RowOf(items[id], Patched(items[id], call[r]))
    OBVIOUS
  <2>1. PICK r \in Requests : RemoveDelete(r) \/ Commit(r)
    BY ItemsStep
  <2>2. CASE RemoveDelete(r)
    BY <2>2 DEF RemoveDelete, TypeOK
  <2>3. CASE Commit(r)
    <3>1. target[r] = id /\ items'[id] = draft[r] /\ stage[r] = "commit"
      BY <2>3 DEF Commit, TypeOK
    <3>2. Updating(r) /\ call[r].op = "Update"
      BY <3>1, CommitRow DEF Updating
    <3>3. UpdateInv(r)
      BY DEF TransactionInv
    <3> QED BY <3>1, <3>2, <3>3 DEF UpdateInv, Busy
  <2> QED BY <2>1, <2>2, <2>3
<1> QED BY <1>1, TransactionsHold, PTL DEF Spec, UpdatesLoseNothing

-----------------------------------------------------------------------------
(* Watchlist implements WatchlistSpec *)

\* Both specifications speak of the same data.
LEMMA SameData ==
    /\ Contract!Calls = Calls
    /\ Contract!Keys = Keys
    /\ \A c : Contract!KeyOf(c) = KeyOf(c)
    /\ \A c : Contract!NewEntry(c) = NewEntry(c)
    /\ \A e, c : Contract!Patched(e, c) = Patched(e, c)
    /\ \A e : Contract!StatusOf(e) = StatusOf(e)
BY DEF Contract!Calls, Calls, Contract!Call, Call, Contract!WellFormed, WellFormed,
       Contract!Keys, Keys, Contract!KeyOf, KeyOf, Contract!NewEntry, NewEntry,
       Contract!Patched, Patched, Contract!StatusOf, StatusOf

\* The abstract answer of a concrete one.
LEMMA FinishMaps ==
    ASSUME TypeOK, NEW r \in Requests, NEW a, Finish(r, a)
    PROVE  Contract!Finish(r, a)
BY SameData DEF Contract!Finish, Finish, Goto, Busy, TypeOK

\* An answer that was true at some moment of the request is one WatchlistSpec
\* may give.
LEMMA RefusalMaps ==
    ASSUME TypeOK, NEW r \in Requests, NEW a, Busy(r), Finish(r, a), UNCHANGED items,
           \/ call[r].op = "Add" /\ "present" \in seen[r] /\ a \in {"Conflict", "DuplicateKey"}
           \/ call[r].op = "Add" /\ call[r].content \notin catalog /\ a = "NotFound"
           \/ call[r].op \in {"Update", "Remove"} /\ "absent" \in seen[r] /\ a = "NotFound"
           \/ call[r].op = "Remove" /\ "absent" \in seen[r] /\ a = "OK"
           \/ a = "Failed"
    PROVE  Contract!Next
<1>1. Contract!Finish(r, a)
  BY FinishMaps
<1>2. UNCHANGED Board
  BY DEF Board
<1>3. Contract!Refuse(r)
  BY <1>1, <1>2 DEF Contract!Refuse
<1> QED BY <1>3 DEF Contract!Next

\* A query that finds no row for the key has seen it absent, one that finds a
\* row has seen it present.
LEMMA QuerySees ==
    ASSUME TypeOK, TransactionInv, NEW r \in Requests, Busy(r)
    PROVE  /\ Matches(KeyOf(call[r])) = {} => "absent" \in seen[r]
           /\ Matches(KeyOf(call[r])) # {} => "present" \in seen[r]
<1> DEFINE k == KeyOf(call[r])
<1>1. k \in Keys /\ StatusOf(Board[k]) \in seen[r]
  BY CallKey DEF TypeOK, TransactionInv, SeenInv
<1>2. CASE Matches(k) = {}
  BY <1>1, <1>2, BoardAbsent DEF Matches, Board, StatusOf
<1>3. CASE Matches(k) # {}
  <2>1. PICK id \in Ids : items[id] # Absent /\ KeyOf(items[id]) = k
    BY <1>3 DEF Matches, RowsFor
  <2>2. items[id] \in Row
    BY <2>1 DEF TypeOK
  <2>3. Board[k] = NewEntry(items[id])
    BY <1>1, <2>1, BoardPresent DEF Board, TransactionInv
  <2> QED BY <1>1, <1>3, <2>2, <2>3, RowEntry DEF StatusOf
<1> QED BY <1>2, <1>3

\* A DELETE is the abstract removal, or finds that someone else did it.
LEMMA RemoveDeleteMaps ==
    ASSUME TypeOK, TransactionInv, NEW r \in Requests, RemoveDelete(r)
    PROVE  Contract!Next
<1> DEFINE d == target[r]
           k == KeyOf(call[r])
<1>1. PICK a \in {"OK", "Failed"} : Finish(r, a)
  BY DEF RemoveDelete
<1>2. /\ d \in Ids /\ call[r].op = "Remove" /\ call[r] \in Calls /\ Busy(r)
      /\ items' = [items EXCEPT ![d] = Absent]
  BY DEF RemoveDelete, TransactionInv, FoundInv, StageInv, TypeOK, Busy
<1>3. CASE items[d] = Absent
  <2>1. "absent" \in seen[r]
    BY <1>3 DEF RemoveDelete, TransactionInv, FoundInv
  <2>2. items' = items
    BY <1>2, <1>3 DEF TypeOK
  <2> QED BY <1>1, <1>2, <2>1, <2>2, RefusalMaps
<1>4. CASE items[d] # Absent
  <2>1. KeyOf(items[d]) = k /\ k \in Keys /\ items[d] \in Row
    BY <1>2, <1>4, CallKey DEF RemoveDelete, TransactionInv, FoundInv, TypeOK
  <2>2. items \in [Ids -> Row \cup {Absent}] /\ OneRowPerKey(items)
    BY DEF TypeOK, TransactionInv
  <2>3. Board[k] # Absent
    BY <1>2, <1>4, <2>1, <2>2, BoardPresent, RowEntry DEF Board
  <2>4. Board' = [Board EXCEPT ![k] = Absent]
    <3>1. BoardOf([items EXCEPT ![d] = Absent])[k] = Absent
      BY <1>2, <1>4, <2>1, <2>2, BoardDeleted
    <3>2. items'[d] = Absent /\ \A i \in Ids : i # d => items'[i] = items[i]
      BY <1>2, <2>2
    <3>3. DifferAt(items, items', d, k)
      BY <2>1, <3>2 DEF DifferAt
    <3>4. \A j \in Keys : j # k => BoardOf(items')[j] = BoardOf(items)[j]
      BY <1>2, <2>2, <3>3, BoardElsewhere
    <3> QED BY <1>2, <2>1, <3>1, <3>4, BoardFunction DEF Board
  <2>5. Contract!Finish(r, a)
    BY <1>1, FinishMaps
  <2>6. Contract!RemoveEntry(r)
    BY <1>2, <2>3, <2>4, <2>5, SameData
       DEF Contract!RemoveEntry, Contract!Current, Contract!Apply
  <2> QED BY <1>2, <2>6 DEF Contract!Next
<1> QED BY <1>3, <1>4

\* A COMMIT is the abstract addition or update.
LEMMA CommitMaps ==
    ASSUME TypeOK, TransactionInv, TransactionInv', NEW r \in Requests, Commit(r)
    PROVE  Contract!Next
<1> DEFINE d == target[r]
           k == KeyOf(call[r])
<1>1. PICK a \in {"OK", "Failed"} : Finish(r, a)
  BY DEF Commit
<1>2. /\ call[r] \in Calls /\ Busy(r) /\ k \in Keys /\ stage[r] = "commit"
      /\ call[r].op \in {"Add", "Update"}
  BY CallKey DEF Commit, TypeOK, Busy, TransactionInv, StageInv
<1>3. /\ d \in Ids /\ draft[r] \in Row /\ draft[r] # Absent /\ KeyOf(draft[r]) = k
      /\ items[d] = Absent => call[r].op = "Add" /\ Matches(k) = {}
      /\ items[d] # Absent => call[r].op = "Update" /\ KeyOf(items[d]) = k
  BY <1>2, CommitRow
<1>4. items'[d] = draft[r] /\ \A i \in Ids : i # d => items'[i] = items[i]
  BY <1>3 DEF Commit, TypeOK
<1>5. OneRowPerKey(items) /\ OneRowPerKey(items')
  BY DEF TransactionInv
<1>6. Board' = [Board EXCEPT ![k] = NewEntry(draft[r])]
  <2>1. DifferAt(items, items', d, k)
    BY <1>3, <1>4 DEF DifferAt
  <2>2. \A j \in Keys : j # k => BoardOf(items')[j] = BoardOf(items)[j]
    BY <1>3, <1>5, <2>1, BoardElsewhere
  <2>3. BoardOf(items')[k] = NewEntry(draft[r])
    <3>1. items'[d] # Absent /\ KeyOf(items'[d]) = k
      BY <1>3, <1>4
    <3>2. BoardOf(items')[KeyOf(items'[d])] = NewEntry(items'[d])
      BY <1>2, <1>3, <1>5, <3>1, BoardPresent
    <3> QED BY <1>4, <3>1, <3>2
  <2> QED BY <1>2, <2>2, <2>3, BoardFunction DEF Board
<1>7. Contract!Finish(r, a)
  BY <1>1, FinishMaps
<1>8. CASE call[r].op = "Add"
  <2>1. /\ Matches(k) = {} /\ draft[r] = RowOf(call[r], NewEntry(call[r]))
        /\ call[r].content \in catalog
    BY <1>2, <1>8 DEF TransactionInv, InsertInv, StageInv, Pending
  <2>2. Board[k] = Absent
    BY <1>2, <2>1, BoardAbsent DEF Board, Matches
  <2>3. NewEntry(draft[r]) = NewEntry(call[r])
    BY <2>1 DEF NewEntry, RowOf
  <2>4. Contract!AddEntry(r)
    BY <1>6, <1>7, <1>8, <2>1, <2>2, <2>3, SameData
       DEF Contract!AddEntry, Contract!Current, Contract!Apply
  <2> QED BY <1>2, <2>4 DEF Contract!Next
<1>9. CASE call[r].op = "Update"
  <2>1. /\ items[d] # Absent /\ KeyOf(items[d]) = k
        /\ draft[r] = RowOf(items[d], Patched(items[d], call[r]))
    BY <1>2, <1>9 DEF TransactionInv, UpdateInv, Updating
  <2>2. items[d] \in Row
    BY <1>3, <2>1 DEF TypeOK
  <2>3. Board[k] = NewEntry(items[d])
    BY <1>2, <1>3, <1>5, <2>1, BoardPresent DEF Board
  <2>4. Board[k] # Absent
    BY <2>2, <2>3, RowEntry
  <2>5. NewEntry(draft[r]) = Patched(Board[k], call[r])
    BY <2>1, <2>3 DEF NewEntry, RowOf, Patched
  <2>6. Contract!UpdateEntry(r)
    BY <1>6, <1>7, <1>9, <2>4, <2>5, SameData
       DEF Contract!UpdateEntry, Contract!Current, Contract!Apply
  <2> QED BY <1>2, <2>6 DEF Contract!Next
<1> QED BY <1>2, <1>8, <1>9

\* The service over its table implements the abstract watchlist: every statement
\* is one of its steps or invisible to it.
THEOREM WatchlistImplementsSpec == Spec => ContractSpec
<1>1. Init => Contract!Init
  <2> SUFFICES ASSUME Init PROVE Contract!Init
    OBVIOUS
  <2>1. Board = [k \in Keys |-> Absent]
    <3>1. \A k \in Keys : RowsFor(items, k) = {}
      BY DEF Init, RowsFor
    <3> QED BY <3>1 DEF Board, BoardOf
  <2> QED BY <2>1, SameData DEF Init, Contract!Init, Busy
<1>2. ASSUME TypeOK, TransactionInv, TransactionInv', [Next]_vars
      PROVE  [Contract!Next]_(Contract!vars)
  <2> USE <1>2
  <2>1. CASE UNCHANGED vars
    BY <2>1 DEF vars, Contract!vars, Board, Busy
  <2>2. ASSUME NEW r \in Requests, NEW c \in Calls, Begin(r, c)
        PROVE  Contract!Next
    <3>1. UNCHANGED Board
      BY <2>2 DEF Begin, Board
    <3>2. Contract!Begin(r, c)
      BY <2>2, <3>1, SameData DEF Begin, Goto, Busy, Contract!Begin, TypeOK
    <3> QED BY <3>2, SameData DEF Contract!Next
  <2>3. ASSUME NEW c \in Contents, Ingest(c) PROVE Contract!Next
    <3>1. Contract!Ingest(c)
      BY <2>3 DEF Ingest, Contract!Ingest, request, Board, Busy
    <3> QED BY <3>1 DEF Contract!Next
  <2>4. ASSUME NEW r \in Requests, NEW s \in Stages \ {"idle"}, Busy(r), Goto(r, s),
               UNCHANGED <<items, catalog, call, answer, seen>>
        PROVE  UNCHANGED Contract!vars
    <3>1. \A q \in Requests : Busy(q)' = Busy(q)
      BY <2>4 DEF Goto, Busy, TypeOK
    <3> QED BY <2>4, <3>1 DEF Contract!vars, Board
  <2>5. ASSUME NEW r \in Requests, AddFindExisting(r)
        PROVE  Contract!Next \/ UNCHANGED Contract!vars
    BY <2>4, <2>5, QuerySees, RefusalMaps DEF AddFindExisting, Refuse, Busy
  <2>6. ASSUME NEW r \in Requests, AddFindContent(r)
        PROVE  Contract!Next \/ UNCHANGED Contract!vars
    <3>1. call[r].op = "Add"
      BY <2>6 DEF AddFindContent, TransactionInv, StageInv
    <3> QED BY <2>4, <2>6, <3>1, RefusalMaps DEF AddFindContent, Refuse, Busy
  <2>7. ASSUME NEW r \in Requests, AddInsert(r)
        PROVE  Contract!Next \/ UNCHANGED Contract!vars
    <3>1. call[r].op = "Add"
      BY <2>7 DEF AddInsert, TransactionInv, StageInv
    <3> QED BY <2>4, <2>7, <3>1, QuerySees, RefusalMaps DEF AddInsert, Refuse, Busy
  <2>8. ASSUME NEW r \in Requests, UpdateFind(r)
        PROVE  Contract!Next \/ UNCHANGED Contract!vars
    BY <2>4, <2>8, QuerySees, RefusalMaps DEF UpdateFind, Refuse, Busy
  <2>9. ASSUME NEW r \in Requests, UpdateLock(r)
        PROVE  Contract!Next \/ UNCHANGED Contract!vars
    <3>1. /\ call[r].op = "Update" /\ Busy(r)
          /\ items[target[r]] = Absent => "absent" \in seen[r]
      BY <2>9 DEF UpdateLock, TransactionInv, StageInv, FoundInv, Busy
    <3> QED BY <2>4, <2>9, <3>1, RefusalMaps DEF UpdateLock, Refuse
  <2>10. ASSUME NEW r \in Requests, UpdateWrite(r)
         PROVE  Contract!Next \/ UNCHANGED Contract!vars
    BY <2>4, <2>10 DEF UpdateWrite, Busy
  <2>11. ASSUME NEW r \in Requests, RemoveFind(r)
         PROVE  Contract!Next \/ UNCHANGED Contract!vars
    BY <2>4, <2>11, QuerySees, RefusalMaps DEF RemoveFind, Refuse, Busy
  <2>12. ASSUME NEW r \in Requests, RemoveDelete(r) PROVE Contract!Next
    BY <2>12, RemoveDeleteMaps
  <2>13. ASSUME NEW r \in Requests, Commit(r) PROVE Contract!Next
    BY <2>13, CommitMaps
  <2>14. ASSUME NEW r \in Requests, Fail(r) PROVE Contract!Next
    BY <2>14, RefusalMaps DEF Fail, Refuse
  <2> QED
    BY <2>1, <2>2, <2>3, <2>5, <2>6, <2>7, <2>8, <2>9, <2>10, <2>11, <2>12,
       <2>13, <2>14 DEF Next, Step
<1> QED BY <1>1, <1>2, TransactionsHold, PTL DEF Spec, ContractSpec, Contract!Spec

-----------------------------------------------------------------------------
\* No request of the watchlist waits for one that waits: whoever holds a lock or
\* an index entry has only its own row to write and its COMMIT before it.
THEOREM WatchlistNoWaitsInTurn == Spec => []NoWaitsInTurn
<1>1. ASSUME WatchlistInv
      PROVE  NoWaitsInTurn
  <2> SUFFICES ASSUME NEW r \in Requests, NEW q \in Requests, NEW s \in Requests,
                      WaitsFor(r, q), WaitsFor(q, s)
               PROVE  FALSE
    BY DEF NoWaitsInTurn
  <2>1. stage[q] \in {"insert", "lock", "delete"}
    BY DEF WaitsFor
  <2>2. ~Pending(q)
    BY <2>1 DEF Pending
  <2>3. stage[r] \in {"lock", "delete"} /\ lock[target[r]] = q
    BY <2>2 DEF WaitsFor
  <2>4. target[r] \in Ids
    BY <1>1, <2>3 DEF WatchlistInv, TransactionInv, FoundInv
  <2>5. Updating(q)
    BY <1>1, <2>3, <2>4, DataAssumption DEF WatchlistInv, TransactionInv, LockInv
  <2>6. QED BY <2>1, <2>5 DEF Updating
<1>2. WatchlistInv => NoWaitsInTurn
  BY <1>1
<1>3. QED BY <1>2, WatchlistHolds, PTL
=============================================================================
