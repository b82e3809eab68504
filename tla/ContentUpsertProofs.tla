---- MODULE ContentUpsertProofs ----
(***************************************************************************)
(* Proofs about ContentUpsert, for every number of searches, every set of  *)
(* result lists TMDB may answer with and every supply of uuids.            *)
(***************************************************************************)
EXTENDS ContentUpsert, FiniteSetTheorems, WellFoundedInduction, TLAPS

-----------------------------------------------------------------------------
\* The batches

\* A batch is a sequence of titles that Keys and Titles know.
LEMMA BatchType ==
    ASSUME NEW b \in Batches \cup {<< >>}
    PROVE  /\ Len(b) \in Nat /\ DOMAIN b = 1..Len(b)
           /\ \A n \in DOMAIN b : b[n].key \in Keys /\ b[n].title \in Titles
  <1>1. CASE b = << >>
    BY <1>1
  <1>2. CASE b \in Batches
    <2>1. PICK body \in Bodies : b = MapResults(body)
      BY <1>2 DEF Batches
    <2>2. Cardinality(Kept(body)) \in Nat
      <3>1. IsFiniteSet(DOMAIN body)
        BY BodiesAssumption
      <3>2. IsFiniteSet(Kept(body))
        BY <3>1, FS_Subset DEF Kept
      <3> QED  BY <3>2, FS_CardinalityType
    <2>3. Len(b) \in Nat /\ DOMAIN b = 1..Len(b)
      BY <2>1, <2>2 DEF MapResults
    <2>4. \A n \in DOMAIN b : b[n].key \in Keys
      BY <1>2 DEF Keys, KeysIn
    <2>5. \A n \in DOMAIN b : b[n].title \in Titles
      BY <1>2 DEF Titles, TitlesIn
    <2> QED  BY <2>3, <2>4, <2>5
  <1> QED  BY <1>1, <1>2

\* Ids made for different titles differ.
LEMMA IdsApart ==
    ASSUME NEW v \in Row, NEW w \in Row, v.id = w.id
    PROVE  v.key = w.key
  BY IdsAssumption DEF Row

\* The statement has come to a title of its batch.
LEMMA HereType ==
    ASSUME TypeOK, NEW r \in Searches, Upserting(r)
    PROVE  /\ Len(wrote[r]) \in Nat
           /\ Len(wrote[r]) + 1 \in DOMAIN batch[r]
           /\ Here(r).key \in Keys /\ Here(r).title \in Titles
  <1>1. wrote[r] \in Seq(Row) /\ batch[r] \in Batches \cup {<< >>}
    BY DEF TypeOK
  <1>2. Len(wrote[r]) \in Nat
    BY <1>1
  <1>3. Len(batch[r]) \in Nat /\ DOMAIN batch[r] = 1..Len(batch[r])
    BY <1>1, BatchType
  <1>4. Len(wrote[r]) + 1 \in DOMAIN batch[r]
    BY <1>2, <1>3 DEF Upserting
  <1>5. Here(r).key \in Keys /\ Here(r).title \in Titles
    BY <1>1, <1>4, BatchType DEF Here
  <1> QED  BY <1>2, <1>4, <1>5

\* Nobody else has the title the statement writes next.
LEMMA HereIsFree ==
    ASSUME TypeOK, NEW r \in Searches, Upserting(r), ~Blocked(r), ~Holds(r, Here(r).key),
           NEW q \in Searches, NEW w \in InFlight(q)
    PROVE  w.key # Here(r).key
  BY DEF Blocked, WaitsFor, Holds, KeysIn, InFlight, ToSet

\* The row it makes has the title's key and name.  Its id is the id of the
\* committed row if there is one, and one that nobody has if there is none.
LEMMA RowForType ==
    ASSUME TypeOK, NEW r \in Searches, Upserting(r), ~Blocked(r), ~Holds(r, Here(r).key)
    PROVE  /\ RowFor(Here(r)) \in Row
           /\ RowFor(Here(r)).key = Here(r).key /\ RowFor(Here(r)).title = Here(r).title
           /\ \/ /\ RowsOf(Here(r).key) = {}
                 /\ Unused(RowFor(Here(r)).id)
              \/ \E row \in rows : row.key = Here(r).key /\ row.id = RowFor(Here(r)).id
  <1> DEFINE k == Here(r).key
             new == RowFor(Here(r))
  <1>0. k \in Keys /\ Here(r).title \in Titles
    BY HereType
  <1>1. new.key = k /\ new.title = Here(r).title
    BY DEF RowFor
  <1>2. CASE RowsOf(k) = {}
    <2>1. IdsFor(k) # {}
      BY <1>0, IdsAssumption
    <2>2. \A id \in IdsFor(k) : Unused(id)
      <3>1. \A row \in rows : row.key # k
        BY <1>2 DEF RowsOf
      <3>2. \A row \in Row : row.key # k => row.id \notin IdsFor(k)
        BY <1>0, IdsAssumption DEF Row
      <3>3. \A row \in rows : row.id \notin IdsFor(k)
        BY <3>1, <3>2 DEF TypeOK
      <3>4. \A q \in Searches : \A n \in DOMAIN wrote[q] : wrote[q][n].id \notin IdsFor(k)
        <4>1. SUFFICES ASSUME NEW q \in Searches, NEW n \in DOMAIN wrote[q]
                       PROVE  wrote[q][n].id \notin IdsFor(k)
          OBVIOUS
        <4>2. wrote[q][n] \in Row
          BY DEF TypeOK
        <4>3. wrote[q][n] \in InFlight(q)
          BY DEF InFlight, ToSet
        <4> QED  BY <3>2, <4>2, <4>3, HereIsFree
      <3> QED  BY <3>3, <3>4 DEF Unused
    <2>3. new.id \in IdsFor(k) /\ Unused(new.id)
      BY <1>2, <2>1, <2>2 DEF RowFor
    <2>4. new \in Row
      <3>1. new = [id |-> new.id, key |-> k, title |-> Here(r).title]
        BY DEF RowFor
      <3>2. new.id \in Ids
        BY <1>0, <2>3 DEF Ids
      <3> QED  BY <1>0, <1>1, <2>3, <3>1, <3>2 DEF Row
    <2> QED  BY <1>1, <1>2, <2>3, <2>4
  <1>3. CASE RowsOf(k) # {}
    <2>1. PICK row \in RowsOf(k) : row = CHOOSE x \in RowsOf(k) : TRUE
      BY <1>3
    <2>2. new.id = row.id
      BY <1>3, <2>1 DEF RowFor
    <2>3. row \in rows /\ row.key = k
      BY DEF RowsOf
    <2>4. row \in Row
      BY <2>3 DEF TypeOK
    <2>5. new \in Row
      <3>1. new = [id |-> new.id, key |-> k, title |-> Here(r).title]
        BY DEF RowFor
      <3>2. new.id \in Ids /\ new.id \in IdsFor(k)
        BY <2>2, <2>3, <2>4 DEF Row
      <3> QED  BY <1>0, <3>1, <3>2 DEF Row
    <2> QED  BY <1>1, <2>2, <2>3, <2>5
  <1> QED  BY <1>2, <1>3

-----------------------------------------------------------------------------
\* The invariant, operation by operation

LEMMA InitHolds == Init => ContentInv
  <1> SUFFICES ASSUME Init  PROVE ContentInv
    OBVIOUS
  <1>1. TypeOK
    BY DEF Init, TypeOK
  <1>2. TransactionInv
    BY DEF Init, TransactionInv, WritesItsBatch, WritesApart, OneRowPerKey, InFlight, ToSet
  <1>3. AnsweredIdsStand
    BY DEF Init, AnsweredIdsStand
  <1> QED  BY <1>1, <1>2, <1>3 DEF ContentInv

\* The end of a request leaves nothing of it in flight.
LEMMA FinishWrites ==
    ASSUME ContentInv, NEW r \in Searches, NEW a, NEW s, Finish(r, a, s)
    PROVE  /\ InFlight(r)' = {}
           /\ \A p \in Searches \ {r} : InFlight(p)' = InFlight(p)
           /\ \A p \in Searches : WritesItsBatch(p)'
  <1>1. wrote'[r] = << >> /\ batch'[r] = << >> /\ busy'[r] = FALSE
    BY DEF Finish, ContentInv, TypeOK
  <1>2. \A p \in Searches \ {r} :
           wrote'[p] = wrote[p] /\ batch'[p] = batch[p] /\ busy'[p] = busy[p]
    BY DEF Finish, ContentInv, TypeOK
  <1>3. \A p \in Searches : WritesItsBatch(p)
    BY DEF ContentInv, TransactionInv
  <1>4. WritesItsBatch(r)'
    BY <1>1 DEF WritesItsBatch
  <1>5. \A p \in Searches \ {r} : WritesItsBatch(p)'
    BY <1>2, <1>3 DEF WritesItsBatch
  <1> QED  BY <1>1, <1>2, <1>4, <1>5 DEF InFlight, ToSet

LEMMA RefuseKeeps ==
    ASSUME ContentInv, NEW r \in Searches, Refuse(r)
    PROVE  ContentInv'
  <1>1. TypeOK'
    BY DEF ContentInv, TypeOK, Refuse, Finish
  <1>2. TransactionInv'
    <2>1. OneRowPerKey(rows) /\ \A p \in Searches : WritesApart(p)
      BY DEF ContentInv, TransactionInv
    <2>2. /\ InFlight(r)' = {}
          /\ \A p \in Searches \ {r} : InFlight(p)' = InFlight(p)
          /\ \A p \in Searches : WritesItsBatch(p)'
      BY FinishWrites DEF Refuse
    <2>3. rows' = rows
      BY DEF Refuse
    <2>4. ASSUME NEW p \in Searches  PROVE WritesApart(p)'
      BY <2>1, <2>2, <2>3 DEF WritesApart, OneRowPerKey
    <2> QED  BY <2>1, <2>2, <2>3, <2>4 DEF TransactionInv, OneRowPerKey
  <1>3. AnsweredIdsStand'
    BY DEF AnsweredIdsStand, Refuse, Finish
  <1> QED  BY <1>1, <1>2, <1>3 DEF ContentInv

LEMMA AskKeeps ==
    ASSUME ContentInv, NEW r \in Searches, Ask(r)
    PROVE  ContentInv'
  <1>1. CASE Refuse(r)
    BY <1>1, RefuseKeeps
  <1>2. CASE /\ busy' = [busy EXCEPT ![r] = TRUE]
             /\ \E b \in Batches : batch' = [batch EXCEPT ![r] = b]
             /\ UNCHANGED <<rows, wrote, reply>>
    <2>1. TypeOK'
      BY <1>2 DEF ContentInv, TypeOK
    <2>2. \A p \in Searches : WritesItsBatch(p)'
      <3>1. \A p \in Searches : WritesItsBatch(p)
        BY DEF ContentInv, TransactionInv
      <3>2. wrote[r] = << >>
        BY <3>1 DEF Ask, WritesItsBatch
      <3>3. busy'[r] = TRUE /\ wrote'[r] = << >> /\ Len(batch'[r]) \in Nat
        BY <1>2, <3>2, BatchType DEF ContentInv, TypeOK
      <3>4. WritesItsBatch(r)'
        BY <3>3 DEF WritesItsBatch
      <3>5. \A p \in Searches \ {r} :
               wrote'[p] = wrote[p] /\ batch'[p] = batch[p] /\ busy'[p] = busy[p]
        BY <1>2 DEF ContentInv, TypeOK
      <3>6. \A p \in Searches \ {r} : WritesItsBatch(p)'
        BY <3>1, <3>5 DEF WritesItsBatch
      <3> QED  BY <3>4, <3>6
    <2>3. TransactionInv'
      BY <1>2, <2>2 DEF ContentInv, TransactionInv, WritesApart, OneRowPerKey, InFlight
    <2>4. AnsweredIdsStand'
      BY <1>2 DEF ContentInv, AnsweredIdsStand
    <2> QED  BY <2>1, <2>3, <2>4 DEF ContentInv
  <1> QED  BY <1>1, <1>2 DEF Ask

\* The row a statement writes collides with nothing committed or in flight.
LEMMA RowForApart ==
    ASSUME ContentInv, NEW r \in Searches, Upserting(r), ~Blocked(r), ~Holds(r, Here(r).key)
    PROVE  /\ \A row \in rows : RowFor(Here(r)).key = row.key <=> RowFor(Here(r)).id = row.id
           /\ \A q \in Searches : \A w \in InFlight(q) :
                 RowFor(Here(r)).key # w.key /\ RowFor(Here(r)).id # w.id
  <1> DEFINE new == RowFor(Here(r))
  <1>0. TypeOK /\ OneRowPerKey(rows) /\ \A q \in Searches : WritesApart(q)
    BY DEF ContentInv, TransactionInv
  <1>1. new.key = Here(r).key
    BY <1>0, RowForType
  <1>2. \A q \in Searches : \A w \in InFlight(q) : new.key # w.key
    BY <1>0, <1>1, HereIsFree
  <1>3. CASE RowsOf(new.key) = {} /\ Unused(new.id)
    <2>1. \A row \in rows : new.key # row.key /\ new.id # row.id
      BY <1>3 DEF RowsOf, Unused
    <2>2. \A q \in Searches : \A w \in InFlight(q) : new.id # w.id
      BY <1>3 DEF Unused, InFlight, ToSet
    <2> QED  BY <1>2, <2>1, <2>2
  <1>4. CASE \E row \in rows : row.key = new.key /\ row.id = new.id
    <2>1. PICK old \in rows : old.key = new.key /\ old.id = new.id
      BY <1>4
    <2>2. \A row \in rows : new.key = row.key <=> new.id = row.id
      BY <1>0, <2>1 DEF OneRowPerKey
    <2>3. \A q \in Searches : \A w \in InFlight(q) : new.id # w.id
      BY <1>0, <1>2, <2>1 DEF WritesApart
    <2> QED  BY <1>2, <2>2, <2>3
  <1> QED  BY <1>0, <1>1, <1>3, <1>4, RowForType

LEMMA UpsertRowKeeps ==
    ASSUME ContentInv, NEW r \in Searches, UpsertRow(r)
    PROVE  ContentInv'
  <1> DEFINE new == RowFor(Here(r))
  <1>0. /\ Upserting(r) /\ ~Blocked(r) /\ ~Holds(r, Here(r).key)
        /\ wrote' = [wrote EXCEPT ![r] = Append(@, new)]
        /\ UNCHANGED <<rows, busy, batch, reply>>
    BY DEF UpsertRow
  <1>t. /\ TypeOK /\ OneRowPerKey(rows)
        /\ \A p \in Searches : WritesItsBatch(p)
        /\ \A p \in Searches : WritesApart(p)
    BY DEF ContentInv, TransactionInv
  <1>1. /\ new \in Row
        /\ new.key = Here(r).key /\ new.title = Here(r).title
    BY <1>0, <1>t, RowForType
  <1>2. TypeOK'
    BY <1>0, <1>1, <1>t DEF TypeOK
  <1>3. wrote'[r] = Append(wrote[r], new) /\ \A p \in Searches \ {r} : wrote'[p] = wrote[p]
    BY <1>0, <1>t DEF TypeOK
  <1>4. wrote[r] \in Seq(Row)
    BY <1>t DEF TypeOK
  <1>5. InFlight(r)' = InFlight(r) \cup {new}
    <2>1. InFlight(r) = {wrote[r][n] : n \in DOMAIN wrote[r]}
      BY DEF InFlight, ToSet
    <2>2. InFlight(r)' = {wrote'[r][n] : n \in DOMAIN wrote'[r]}
      BY DEF InFlight, ToSet
    <2> HIDE DEF new
    <2> QED  BY <1>1, <1>3, <1>4, <2>1, <2>2
  <1>6. \A p \in Searches \ {r} : InFlight(p)' = InFlight(p)
    BY <1>3 DEF InFlight, ToSet
  <1>7. /\ \A row \in rows : new.key = row.key <=> new.id = row.id
        /\ \A q \in Searches : \A w \in InFlight(q) : new.key # w.key /\ new.id # w.id
    BY <1>0, RowForApart
  <1>8. \A p \in Searches : WritesItsBatch(p)'
    <2>1. WritesItsBatch(r)'
      <3>1. /\ Len(wrote[r]) \in Nat /\ Len(wrote'[r]) = Len(wrote[r]) + 1
            /\ DOMAIN wrote'[r] = 1..Len(wrote[r]) + 1
        BY <1>1, <1>3, <1>4
      <3>2. Len(batch[r]) \in Nat
        BY <1>t, BatchType DEF TypeOK
      <3>3. Len(wrote'[r]) <= Len(batch'[r])
        BY <1>0, <3>1, <3>2 DEF Upserting
      <3>4. busy'[r]
        BY <1>0 DEF Upserting
      <3>5. ASSUME NEW n \in DOMAIN wrote'[r]
            PROVE  wrote'[r][n].key = batch'[r][n].key /\ wrote'[r][n].title = batch'[r][n].title
        <4>1. CASE n = Len(wrote[r]) + 1
          <5>1. wrote'[r][n] = new
            BY <1>1, <1>3, <1>4, <4>1
          <5>2. Here(r) = batch'[r][n]
            BY <1>0, <4>1 DEF Here
          <5> QED  BY <1>1, <5>1, <5>2
        <4>2. CASE n \in 1..Len(wrote[r])
          <5>1. n \in DOMAIN wrote[r] /\ wrote'[r][n] = wrote[r][n]
            BY <1>1, <1>3, <1>4, <4>2
          <5> QED  BY <1>0, <1>t, <5>1 DEF WritesItsBatch
        <4> QED  BY <3>1, <4>1, <4>2
      <3> QED  BY <3>3, <3>4, <3>5 DEF WritesItsBatch
    <2>2. \A p \in Searches \ {r} : WritesItsBatch(p)'
      BY <1>0, <1>3, <1>t DEF WritesItsBatch
    <2> QED  BY <2>1, <2>2
  <1>9. ASSUME NEW p \in Searches  PROVE WritesApart(p)'
    <2> HIDE DEF new
    <2>1. rows' = rows
      BY <1>0
    <2>2. OneRowPerKey(InFlight(p)')
      <3>1. OneRowPerKey(InFlight(p))
        BY <1>t DEF WritesApart
      <3> QED  BY <1>5, <1>6, <1>7, <3>1 DEF OneRowPerKey
    <2>3. ASSUME NEW w \in InFlight(p)', NEW row \in rows
          PROVE  w.key = row.key <=> w.id = row.id
      BY <1>5, <1>6, <1>7, <1>t DEF WritesApart
    <2>4. ASSUME NEW q \in Searches \ {p}, NEW v \in InFlight(p)', NEW w \in InFlight(q)'
          PROVE  v.key # w.key /\ v.id # w.id
      BY <1>5, <1>6, <1>7, <1>t DEF WritesApart
    <2> QED  BY <2>1, <2>2, <2>3, <2>4 DEF WritesApart, OneRowPerKey
  <1>10. TransactionInv'
    BY <1>0, <1>8, <1>9, <1>t DEF TransactionInv, OneRowPerKey
  <1>11. AnsweredIdsStand'
    BY <1>0 DEF ContentInv, AnsweredIdsStand
  <1> QED  BY <1>2, <1>10, <1>11 DEF ContentInv

\* What a commit leaves of the table and adds to it.
LEMMA CommitRows ==
    ASSUME NEW r \in Searches, Commit(r)
    PROVE  \A row : row \in rows' <=>
              \/ row \in rows /\ \A w \in InFlight(r) : w.id # row.id
              \/ row \in InFlight(r)
  BY DEF Commit, InFlight, ToSet

\* A commit replaces the rows of its batch and takes no row away.
LEMMA CommitReplaces ==
    ASSUME ContentInv, NEW r \in Searches, Commit(r)
    PROVE  /\ OneRowPerKey(rows')
           /\ \A old \in rows : \E new \in rows' :
                 /\ new.id = old.id /\ new.key = old.key
                 /\ new # old => new \in InFlight(r)
  <1>0. OneRowPerKey(rows) /\ WritesApart(r)
    BY DEF ContentInv, TransactionInv
  <1>1. OneRowPerKey(rows')
    <2>1. SUFFICES ASSUME NEW a \in rows', NEW b \in rows', a.key = b.key \/ a.id = b.id
                   PROVE  a = b
      BY DEF OneRowPerKey
    <2>2. CASE a \in rows /\ b \in rows
      BY <1>0, <2>1, <2>2 DEF OneRowPerKey
    <2>3. CASE a \in InFlight(r) /\ b \in InFlight(r)
      BY <1>0, <2>1, <2>3 DEF WritesApart, OneRowPerKey
    <2>4. CASE a \in InFlight(r) /\ b \in rows /\ \A w \in InFlight(r) : w.id # b.id
      BY <1>0, <2>1, <2>4 DEF WritesApart
    <2>5. CASE b \in InFlight(r) /\ a \in rows /\ \A w \in InFlight(r) : w.id # a.id
      BY <1>0, <2>1, <2>5 DEF WritesApart
    <2> QED  BY <2>2, <2>3, <2>4, <2>5, CommitRows
  <1>2. ASSUME NEW old \in rows
        PROVE  \E new \in rows' : /\ new.id = old.id /\ new.key = old.key
                                  /\ new # old => new \in InFlight(r)
    <2>1. CASE \A w \in InFlight(r) : w.id # old.id
      BY <2>1, CommitRows
    <2>2. CASE \E w \in InFlight(r) : w.id = old.id
      <3>1. PICK w \in InFlight(r) : w.id = old.id
        BY <2>2
      <3>2. w.key = old.key
        BY <1>0, <3>1 DEF WritesApart
      <3> QED  BY <3>1, <3>2, CommitRows
    <2> QED  BY <2>1, <2>2
  <1> QED  BY <1>1, <1>2

LEMMA CommitKeeps ==
    ASSUME ContentInv, NEW r \in Searches, Commit(r)
    PROVE  ContentInv'
  <1>0. /\ TypeOK
        /\ \A p \in Searches : WritesApart(p)
    BY DEF ContentInv, TransactionInv
  <1>1. PICK a \in {"OK", "Error"} :
           \E s \in {wrote[r], << >>} : Finish(r, a, s)
    BY DEF Commit
  <1>2. PICK s \in {wrote[r], << >>} : Finish(r, a, s)
    BY <1>1
  <1>3. wrote[r] \in Seq(Row)
    BY <1>0 DEF TypeOK
  <1>4. TypeOK'
    <2>1. InFlight(r) \subseteq Row
      BY <1>3 DEF InFlight, ToSet
    <2>2. rows' \subseteq Row
      BY <1>0, <2>1, CommitRows DEF TypeOK
    <2>3. s \in Seq(Row)
      <3>1. << >> \in Seq(Row)
        OBVIOUS
      <3> QED  BY <1>3, <3>1
    <2>4. reply' \in [to : SUBSET Searches, answer : {"None", "OK", "Error"}, rows : Seq(Row)]
      BY <1>2, <2>3 DEF Finish
    <2> QED  BY <1>0, <1>2, <2>2, <2>4 DEF TypeOK, Finish
  <1>5. TransactionInv'
    <2>1. /\ InFlight(r)' = {}
          /\ \A p \in Searches \ {r} : InFlight(p)' = InFlight(p)
          /\ \A p \in Searches : WritesItsBatch(p)'
      BY <1>2, FinishWrites
    <2>2. OneRowPerKey(rows)'
      BY CommitReplaces DEF OneRowPerKey
    <2>3. ASSUME NEW p \in Searches  PROVE WritesApart(p)'
      <3>1. CASE p = r
        BY <2>1, <3>1 DEF WritesApart, OneRowPerKey
      <3>2. CASE p # r
        <4>1. InFlight(p)' = InFlight(p)
          BY <2>1, <3>2
        <4>2. OneRowPerKey(InFlight(p))'
          BY <1>0, <4>1 DEF WritesApart, OneRowPerKey
        <4>3. ASSUME NEW w \in InFlight(p), NEW row \in rows'
              PROVE  w.key = row.key <=> w.id = row.id
          <5>1. CASE row \in rows
            BY <1>0, <5>1 DEF WritesApart
          <5>2. CASE row \in InFlight(r)
            BY <1>0, <3>2, <5>2 DEF WritesApart
          <5> QED  BY <5>1, <5>2, CommitRows
        <4>4. \A q \in Searches \ {p} : \A v \in InFlight(p), w \in InFlight(q)' :
                 v.key # w.key /\ v.id # w.id
          BY <1>0, <2>1 DEF WritesApart
        <4> QED  BY <4>1, <4>2, <4>3, <4>4 DEF WritesApart
      <3> QED  BY <3>1, <3>2
    <2> QED  BY <2>1, <2>2, <2>3 DEF TransactionInv
  <1>6. AnsweredIdsStand'
    <2>1. reply'.rows = s
      BY <1>2 DEF Finish
    <2>2. \A n \in DOMAIN s : s[n] \in InFlight(r)
      BY DEF InFlight, ToSet
    <2>3. \A n \in DOMAIN s : s[n] \in rows'
      BY <2>2, CommitRows
    <2> QED  BY <2>1, <2>3 DEF AnsweredIdsStand
  <1> QED  BY <1>4, <1>5, <1>6 DEF ContentInv

LEMMA NextKeeps == ContentInv /\ [Next]_vars => ContentInv'
  <1> SUFFICES ASSUME ContentInv, [Next]_vars  PROVE ContentInv'
    OBVIOUS
  <1>1. ASSUME NEW r \in Searches, Ask(r)  PROVE ContentInv'
    BY <1>1, AskKeeps
  <1>2. ASSUME NEW r \in Searches, UpsertRow(r)  PROVE ContentInv'
    BY <1>2, UpsertRowKeeps
  <1>3. ASSUME NEW r \in Searches, RepeatedTitle(r)  PROVE ContentInv'
    BY <1>3, RefuseKeeps DEF RepeatedTitle
  <1>4. ASSUME NEW r \in Searches, DeadlockVictim(r)  PROVE ContentInv'
    BY <1>4, RefuseKeeps DEF DeadlockVictim
  <1>5. ASSUME NEW r \in Searches, Commit(r)  PROVE ContentInv'
    BY <1>5, CommitKeeps
  <1>6. ASSUME NEW r \in Searches, Fail(r)  PROVE ContentInv'
    BY <1>6, RefuseKeeps DEF Fail
  <1>7. CASE UNCHANGED vars
    BY <1>7 DEF vars, ContentInv, TypeOK, TransactionInv, WritesItsBatch, WritesApart,
                OneRowPerKey, InFlight, AnsweredIdsStand
  <1> QED  BY <1>1, <1>2, <1>3, <1>4, <1>5, <1>6, <1>7 DEF Next, Step

\* Whatever searches run at once and wherever they stop, a title has one row
\* and one id, an uncommitted page collides with nothing, and the ids of the
\* last answer stand.
THEOREM ContentHolds == Spec => []ContentInv
  BY InitHolds, NextKeeps, PTL DEF Spec

-----------------------------------------------------------------------------
\* Circles of waiting searches

\* Who holds the title another waits for took it before the one it waits for
\* itself.
LEMMA WaitsDownwards ==
    ASSUME ContentInv, NEW q \in Searches, NEW p \in Searches, WaitsFor(p, q), Upserting(q),
           NEW rank \in [Keys -> Nat],
           \A r \in Searches : \A m, n \in DOMAIN batch[r] :
              m < n => rank[batch[r][m].key] < rank[batch[r][n].key]
    PROVE  rank[Here(p).key] < rank[Here(q).key]
  <1>0. TypeOK /\ WritesItsBatch(q)
    BY DEF ContentInv, TransactionInv
  <1>1. PICK n \in DOMAIN wrote[q] : wrote[q][n].key = Here(p).key
    BY DEF WaitsFor, Holds, KeysIn
  <1>2. batch[q][n].key = Here(p).key
    BY <1>0, <1>1 DEF WritesItsBatch
  <1>3. Len(wrote[q]) \in Nat /\ Len(wrote[q]) + 1 \in DOMAIN batch[q]
    BY <1>0, HereType
  <1>4. n \in 1..Len(wrote[q])
    BY <1>0 DEF TypeOK
  <1>5. DOMAIN batch[q] = 1..Len(batch[q]) /\ Len(batch[q]) \in Nat
    BY <1>0, BatchType DEF TypeOK
  <1>6. n \in DOMAIN batch[q] /\ n < Len(wrote[q]) + 1
    BY <1>3, <1>4, <1>5
  <1> QED  BY <1>2, <1>3, <1>6 DEF Here

LEMMA NoCircleInOrder == ContentInv => OnlyRankingsCollide
  <1> SUFFICES ASSUME ContentInv, InOrder, NEW r \in Searches, OnCircle(r)
               PROVE  FALSE
    BY DEF OnlyRankingsCollide
  <1>1. PICK rank \in [Keys -> 1..Cardinality(Keys)] :
           \A q \in Searches : \A m, n \in DOMAIN batch[q] :
              m < n => rank[batch[q][m].key] < rank[batch[q][n].key]
    BY DEF InOrder
  <1>2. rank \in [Keys -> Nat]
    BY <1>1
  <1>3. PICK S \in SUBSET Searches :
           /\ r \in S
           /\ \A q \in S : (\E p \in S : WaitsFor(q, p)) /\ (\E p \in S : WaitsFor(p, q))
    BY DEF OnCircle
  <1>4. \A q \in S : Upserting(q)
    BY <1>3 DEF WaitsFor
  <1>5. \A q \in S : rank[Here(q).key] \in Nat
    BY <1>2, <1>4, HereType DEF ContentInv
  <1> DEFINE T == {rank[Here(q).key] : q \in S}
  <1>6. PICK x \in T : \A y \in T : ~(<<y, x>> \in OpToRel(<, Nat))
    <2>1. T \subseteq Nat /\ T # {}
      BY <1>3, <1>5
    <2> QED  BY <2>1, WFMin, NatLessThanWellFounded
  <1>7. PICK q \in S : x = rank[Here(q).key]
    BY <1>6
  <1>8. PICK p \in S : WaitsFor(p, q)
    BY <1>3
  <1>9. rank[Here(p).key] < rank[Here(q).key]
    BY <1>1, <1>2, <1>4, <1>8, WaitsDownwards
  <1>10. <<rank[Here(p).key], x>> \in OpToRel(<, Nat)
    BY <1>5, <1>7, <1>9 DEF OpToRel
  <1> QED  BY <1>6, <1>10

\* Searches whose pages agree with one order of all titles never make a victim.
THEOREM OnlyRankingsCollideHolds == Spec => []OnlyRankingsCollide
  BY ContentHolds, NoCircleInOrder, PTL

-----------------------------------------------------------------------------
\* The catalogue

LEMMA RefuseIsPromised ==
    ASSUME NEW r \in Searches, Refuse(r)
    PROVE  Promise!Refuse(r)
  BY DEF Refuse, Finish, Promise!Refuse, Promise!End

\* A commit brings in the whole page, and answers with the rows it became.
LEMMA CommitIsPromised ==
    ASSUME ContentInv, NEW r \in Searches, Commit(r)
    PROVE  busy[r] /\ Promise!Search(r)
  <1>0. TypeOK /\ WritesItsBatch(r)
    BY DEF ContentInv, TransactionInv
  <1>1. DOMAIN wrote[r] = DOMAIN batch[r]
    <2>1. wrote[r] \in Seq(Row)
      BY <1>0 DEF TypeOK
    <2>2. DOMAIN wrote[r] = 1..Len(wrote[r]) /\ Len(wrote[r]) \in Nat
      BY <2>1
    <2>3. DOMAIN batch[r] = 1..Len(batch[r]) /\ Len(batch[r]) \in Nat
      BY <1>0, BatchType DEF TypeOK
    <2>4. Len(wrote[r]) = Len(batch[r])
      BY <1>0, <2>2, <2>3 DEF Commit, Upserting, WritesItsBatch
    <2> QED  BY <2>2, <2>3, <2>4
  <1>2. \A n \in DOMAIN batch[r] :
           /\ wrote[r][n] \in rows' /\ wrote[r][n].key = batch[r][n].key
           /\ wrote[r][n].title = batch[r][n].title
    BY <1>0, <1>1, CommitRows DEF InFlight, ToSet, WritesItsBatch
  <1>3. \A w \in InFlight(r) : w.key \in Promise!KeysIn(batch[r])
    BY <1>1, <1>2 DEF InFlight, ToSet, Promise!KeysIn
  <1>4. Promise!Upserted(batch[r])
    <2>1. Promise!OneRowPerKey(rows')
      BY CommitReplaces DEF OneRowPerKey, Promise!OneRowPerKey
    <2>2. \A n \in DOMAIN batch[r] :
             \E new \in rows' : new.key = batch[r][n].key /\ new.title = batch[r][n].title
      BY <1>2
    <2>3. \A new \in rows' : new.key \in Promise!KeysIn(batch[r]) \/ new \in rows
      BY <1>3, CommitRows
    <2>4. \A old \in rows : \E new \in rows' :
             /\ new.id = old.id /\ new.key = old.key
             /\ old.key \in Promise!KeysIn(batch[r]) \/ new = old
      BY <1>3, CommitReplaces
    <2> QED  BY <2>1, <2>2, <2>3, <2>4 DEF Promise!Upserted
  <1>5. CASE Finish(r, "OK", wrote[r])
    <2>1. reply'.rows = wrote[r]
      BY <1>5 DEF Finish
    <2>2. Promise!End(r, "OK", reply'.rows)
      BY <1>5, <2>1 DEF Finish, Promise!End
    <2> QED  BY <1>1, <1>2, <1>4, <2>1, <2>2 DEF Commit, Promise!Search
  <1>6. CASE Finish(r, "Error", << >>)
    BY <1>4, <1>6 DEF Commit, Finish, Promise!Search, Promise!End
  <1> QED  BY <1>5, <1>6 DEF Commit

LEMMA StepIsPromised == ContentInv /\ [Next]_vars => [Promise!Next]_(Promise!vars)
  <1> SUFFICES ASSUME ContentInv, [Next]_vars  PROVE [Promise!Next]_(Promise!vars)
    OBVIOUS
  <1>1. ASSUME NEW r \in Searches, Refuse(r)  PROVE Promise!Next
    BY <1>1, RefuseIsPromised DEF Promise!Next
  <1>2. ASSUME NEW r \in Searches, Ask(r)  PROVE Promise!Next
    <2>1. CASE Refuse(r)
      BY <1>1, <2>1
    <2>2. CASE /\ busy' = [busy EXCEPT ![r] = TRUE]
               /\ \E b \in Batches : batch' = [batch EXCEPT ![r] = b]
               /\ UNCHANGED <<rows, wrote, reply>>
      <3>1. batch' = [batch EXCEPT ![r] = batch'[r]]
        BY <2>2 DEF ContentInv, TypeOK
      <3>2. Promise!Begin(r)
        BY <1>2, <2>2, <3>1 DEF Ask, Promise!Begin
      <3> QED  BY <3>2 DEF Promise!Next
    <2> QED  BY <1>2, <2>1, <2>2 DEF Ask
  <1>3. ASSUME NEW r \in Searches, Commit(r)  PROVE Promise!Next
    BY <1>3, CommitIsPromised DEF Promise!Next
  <1>4. ASSUME NEW r \in Searches, UpsertRow(r)  PROVE UNCHANGED Promise!vars
    BY <1>4 DEF UpsertRow, Promise!vars
  <1>5. CASE UNCHANGED vars
    BY <1>5 DEF vars, Promise!vars
  <1> QED
    BY <1>1, <1>2, <1>3, <1>4, <1>5 DEF Next, Step, RepeatedTitle, DeadlockVictim, Fail

\* The table, its row locks and its victims implement the catalogue: a page
\* goes in as a whole or not at all, the answer is the rows that went in, and
\* a title keeps its row.
THEOREM CatalogueHolds == Spec => CatalogueSpec
  <1>1. Init => Promise!Init
    BY DEF Init, Promise!Init
  <1> QED  BY <1>1, StepIsPromised, ContentHolds, PTL DEF Spec, CatalogueSpec, Promise!Spec
====
