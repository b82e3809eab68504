---- MODULE ContentUpsert ----
(***************************************************************************)
(* ContentService.Search (internal/domain/service/content_service.go) over *)
(* the content table:                                                      *)
(*                                                                         *)
(*   ask TMDB (domain/client/tmdb_client.go) - one INSERT of the whole     *)
(*   page ... ON CONFLICT (source, source_id, content_type) DO UPDATE -    *)
(*   COMMIT                                                                *)
(*                                                                         *)
(* The statement locks its rows one after another, in the order TMDB ranks *)
(* the titles, and keeps them locked until its transaction ends.  Two      *)
(* searches may therefore wait for each other; PostgreSQL then aborts one. *)
(* Nothing deletes a content row.                                          *)
(***************************************************************************)
EXTENDS SequencesExt

CONSTANTS
    Searches,  \* requests in flight
    Bodies,    \* the result lists TMDB may answer with
    IdsFor(_)  \* the uuids PostgreSQL may make for a title's row

VARIABLES
    rows,    \* committed rows of the content table
    busy,    \* [Searches -> BOOLEAN]: TMDB has answered, the request has not
    batch,   \* [Searches -> the titles it is to upsert]
    wrote,   \* [Searches -> the rows its transaction has written and locked]
    reply    \* the last answer of any: whose it is, what it says, its rows

vars == <<rows, busy, batch, wrote, reply>>

-----------------------------------------------------------------------------
\* The TMDB client

\* A show has its name in another field than a film.
TitleOf(item) == IF item.media = "tv" THEN item.name ELSE item.title

\* TMDB numbers movies and shows separately, so the key holds both.
Result(item) == [key |-> <<item.id, item.media>>, title |-> TitleOf(item)]

\* mapTMDBResults: what does not decode is skipped, and so are people.
Kept(body) == {n \in DOMAIN body : body[n].decodes /\ body[n].media # "person"}

\* The n-th of its results is made of the n-th item it keeps.
MapResults(body) ==
    [n \in 1..Cardinality(Kept(body)) |->
        Result(body[CHOOSE k \in Kept(body) :
                       Cardinality({j \in Kept(body) : j <= k}) = n])]

Batches == {MapResults(body) : body \in Bodies}

KeysIn(s) == {s[n].key : n \in DOMAIN s}

Keys == UNION {KeysIn(b) : b \in Batches}

\* TMDB answers with lists.
ASSUME BodiesAssumption == \A body \in Bodies : IsFiniteSet(DOMAIN body)

\* uuids do not run out, and none is ever made for two titles.
ASSUME IdsAssumption ==
    \A k \in Keys :
       /\ IdsFor(k) # {}
       /\ \A j \in Keys \ {k} : IdsFor(j) \cap IdsFor(k) = {}

-----------------------------------------------------------------------------
\* Row locks

Upserting(r) == busy[r] /\ Len(wrote[r]) < Len(batch[r])

RowsOf(k) == {row \in rows : row.key = k}

\* Mutant of Here: what is in the table already is updated first.
HereKnownFirst(r) ==
    LET left == SelectSeq(batch[r], LAMBDA title : title.key \notin KeysIn(wrote[r]))
        known == SelectSeq(left, LAMBDA title : RowsOf(title.key) # {})
    IN IF known # << >> THEN Head(known)
       ELSE IF left # << >> THEN Head(left) ELSE Last(batch[r])

\* The title the statement has come to.
Here(r) == batch[r][Len(wrote[r]) + 1]

Holds(r, k) == k \in KeysIn(wrote[r])

WaitsFor(r, q) == r # q /\ Upserting(r) /\ Holds(q, Here(r).key)

Blocked(r) == \E q \in Searches : WaitsFor(r, q)

\* Every search waits for at most one other, so a set in which each waits and
\* each is waited for is made of circles.
OnCircle(r) ==
    /\ Blocked(r)
    /\ \E S \in SUBSET Searches :
          /\ r \in S
          /\ \A q \in S : (\E p \in S : WaitsFor(q, p)) /\ (\E p \in S : WaitsFor(p, q))

-----------------------------------------------------------------------------
Init ==
    /\ rows = {}
    /\ busy = [r \in Searches |-> FALSE]
    /\ batch = [r \in Searches |-> << >>]
    /\ wrote = [r \in Searches |-> << >>]
    /\ reply = [to |-> {}, answer |-> "None", rows |-> << >>]

\* The end of a request: its transaction is over and its row locks go.
Finish(r, a, s) ==
    /\ busy' = [busy EXCEPT ![r] = FALSE]
    /\ batch' = [batch EXCEPT ![r] = << >>]
    /\ wrote' = [wrote EXCEPT ![r] = << >>]
    /\ reply' = [to |-> {r}, answer |-> a, rows |-> s]

\* A rollback: none of its rows has been written.
Refuse(r) == Finish(r, "Error", << >>) /\ UNCHANGED rows

\* Until TMDB has answered a search touches nothing the others see.  TMDB may
\* refuse, be too slow or answer what does not decode, and the client's own
\* rate limit may make the request too late.
Ask(r) ==
    /\ ~busy[r]
    /\ \/ /\ busy' = [busy EXCEPT ![r] = TRUE]
          /\ \E b \in Batches : batch' = [batch EXCEPT ![r] = b]
          /\ UNCHANGED <<rows, wrote, reply>>
       \/ Refuse(r)

\* A uuid nobody has: no committed row, no row about to be.
Unused(id) ==
    /\ \A row \in rows : row.id # id
    /\ \A q \in Searches : \A n \in DOMAIN wrote[q] : wrote[q][n].id # id

\* The row the statement makes of a title: a conflicting row keeps what the DO
\* UPDATE list leaves out, its id (and created_at).
RowFor(title) ==
    [id |-> IF RowsOf(title.key) = {} THEN CHOOSE id \in IdsFor(title.key) : Unused(id)
            ELSE (CHOOSE row \in RowsOf(title.key) : TRUE).id,
     key |-> title.key, title |-> title.title]

\* Mutant of UpsertRow: the statement does not wait for another's row.
UpsertRowUnlocked(r) ==
    /\ Upserting(r)
    /\ ~Holds(r, Here(r).key)
    /\ wrote' = [wrote EXCEPT ![r] = Append(@, RowFor(Here(r)))]
    /\ UNCHANGED <<rows, busy, batch, reply>>

\* One row of the INSERT.  It waits while another transaction has the row, be
\* it inserted or updated there.
UpsertRow(r) ==
    /\ Upserting(r)
    /\ ~Blocked(r) /\ ~Holds(r, Here(r).key)
    /\ wrote' = [wrote EXCEPT ![r] = Append(@, RowFor(Here(r)))]
    /\ UNCHANGED <<rows, busy, batch, reply>>

\* ON CONFLICT DO UPDATE cannot affect a row a second time.
RepeatedTitle(r) ==
    /\ Upserting(r)
    /\ Holds(r, Here(r).key)
    /\ Refuse(r)

\* Mutant of DeadlockVictim: nobody looks for circles.
DeadlockIgnored(r) == FALSE /\ UNCHANGED vars

\* PostgreSQL aborts one search of a circle, whichever looked first.
DeadlockVictim(r) ==
    /\ OnCircle(r)
    /\ Refuse(r)

\* Mutant of Commit: what has been written so far is committed.
CommitInPart(r) ==
    /\ busy[r]
    /\ rows' = {row \in rows : \A n \in DOMAIN wrote[r] : wrote[r][n].id # row.id}
               \cup ToSet(wrote[r])
    /\ \/ Finish(r, "OK", wrote[r])
       \/ Finish(r, "Error", << >>)

\* COMMIT, of an empty transaction when nothing was found; its answer may be
\* lost.  gorm fills the ids into the batch in its order.
Commit(r) ==
    /\ busy[r] /\ ~Upserting(r)
    /\ rows' = {row \in rows : \A n \in DOMAIN wrote[r] : wrote[r][n].id # row.id}
               \cup ToSet(wrote[r])
    /\ \/ Finish(r, "OK", wrote[r])
       \/ Finish(r, "Error", << >>)

\* A statement fails, the client goes away, the server dies.
Fail(r) == busy[r] /\ Refuse(r)

Step(r) == UpsertRow(r) \/ RepeatedTitle(r) \/ DeadlockVictim(r) \/ Commit(r)

Next == \E r \in Searches : Ask(r) \/ Step(r) \/ Fail(r)

Spec == Init /\ [][Next]_vars

\* A row that is wanted again and again is granted in the order it was asked
\* for, and PostgreSQL looks for circles after deadlock_timeout.
FairSpec == Spec /\ \A r \in Searches : SF_vars(Step(r))

-----------------------------------------------------------------------------
\* Properties

Ids == UNION {IdsFor(k) : k \in Keys}

TitlesIn(s) == {s[n].title : n \in DOMAIN s}

Titles == UNION {TitlesIn(b) : b \in Batches}

\* A row has the uuid it was made with.
Row == {row \in [id : Ids, key : Keys, title : Titles] : row.id \in IdsFor(row.key)}

\* Every variable has its type.
TypeOK ==
    /\ rows \subseteq Row
    /\ busy \in [Searches -> BOOLEAN]
    /\ batch \in [Searches -> Batches \cup {<< >>}]
    /\ wrote \in [Searches -> Seq(Row)]
    /\ reply \in [to : SUBSET Searches, answer : {"None", "OK", "Error"}, rows : Seq(Row)]

OneRowPerKey(t) ==
    \A a, b \in t : a.key = b.key \/ a.id = b.id => a = b

InFlight(r) == ToSet(wrote[r])

\* What a transaction has written is its batch so far.
WritesItsBatch(r) ==
    /\ ~busy[r] => wrote[r] = << >> /\ batch[r] = << >>
    /\ Len(wrote[r]) <= Len(batch[r])
    /\ \A n \in DOMAIN wrote[r] :
          wrote[r][n].key = batch[r][n].key /\ wrote[r][n].title = batch[r][n].title

\* It is its alone, and no second row for a title that has one.
WritesApart(r) ==
    /\ OneRowPerKey(InFlight(r))
    /\ \A w \in InFlight(r), row \in rows : w.key = row.key <=> w.id = row.id
    /\ \A q \in Searches \ {r} : \A v \in InFlight(r), w \in InFlight(q) :
          v.key # w.key /\ v.id # w.id

\* Committed rows and everybody's uncommitted ones, put together, hold no title
\* twice and no id twice.
TransactionInv ==
    /\ OneRowPerKey(rows)
    /\ \A r \in Searches : WritesItsBatch(r) /\ WritesApart(r)

\* What was answered stands whatever is searched for or rolled back after it:
\* the watchlists that take these ids refer to what their users have chosen.
AnsweredIdsStand ==
    \A n \in DOMAIN reply.rows :
       \E row \in rows : row.id = reply.rows[n].id /\ row.key = reply.rows[n].key

\* With the types it is inductive.
ContentInv == TypeOK /\ TransactionInv /\ AnsweredIdsStand

\* The table and its transactions implement the catalogue: a page goes in as a
\* whole or not at all, and the answer is the rows that went in.
Promise == INSTANCE Catalogue

CatalogueSpec == Promise!Spec

InOrder ==
    \E rank \in [Keys -> 1..Cardinality(Keys)] :
       \A r \in Searches : \A m, n \in DOMAIN batch[r] :
          m < n => rank[batch[r][m].key] < rank[batch[r][n].key]

\* It takes pages that rank common titles in different orders, over two
\* searches or more, to make a victim: searches whose pages agree with one
\* order of all titles never wait in a circle.
OnlyRankingsCollide == (\E r \in Searches : OnCircle(r)) => ~InOrder

\* Every search is answered, those that wait for each other included.
EveryRequestEnds == \A r \in Searches : busy[r] ~> ~busy[r]

=============================================================================
