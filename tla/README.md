# Album: a TLA+ model of its server

Album is the backend of a shared watchlist: people search titles, keep
watchlists, form groups and look at the merged watchlist of a group. It is one
Go server (`cmd/http`) over PostgreSQL and NATS and a migration job (`cmd/job`).
These modules model the parts of it that keep state, as far as TLC can check
them, and prove with TLAPS what matters most for any number of users, rows and
requests.

Everything is translated from the Go source and the SQL migrations. What is not
in the repository (go-crud, go-authkit, gorm, x/time/rate, sentinel-go,
PostgreSQL, NATS) is modelled from how the code uses it; the assumptions made
about it are listed below.

## 1. The system

| component | state it keeps | operations |
|---|---|---|
| Watchlist service (`domain/service/watchlist_service.go`) | rows of `watchlist_items`, unique on (profile, content) | Add, Update, Remove, List |
| Group service (`group_service.go`) | `groups`, `group_members`, unique on (group, profile) | Create, Join, Get, List, GetMergedWatchlist |
| Content service and TMDB client (`content_service.go`, `domain/client/tmdb_client.go`) | `content`, unique on (source, id, type), upserted a page at a time | Search |
| User store, profile service (`adapters/auth/user_store.go`, `profile_service.go`) | `users` (e-mail unique), `user_profiles` (not unique on the user) | Create, CreateOAuth, SetVerified, UpdatePassword; Create, Update, lookups |
| Session store and cache (`session_store.go`, `core/cache/cache.go`, `cache_adapter.go`) | `sessions`; a `sync.Map` with expiry and a cleanup goroutine | Create, Touch, Delete; Get with loader, Delete, Shutdown |
| Refresh and reset token stores, weekly clean-up (`refresh_token_store.go`, `reset_token_store.go`, the cron migration) | `refresh_tokens` (cascade from `sessions`), `password_reset_tokens` | Create, FindByHash, FindBySelector, Delete, DeleteBySession, DeleteByUser; the job |
| OAuth account store | `oauth_accounts`, unique on (provider, id) | insert, find |
| OAuth state store (`core/store`) | a `sync.Map` with a goroutine, or a NATS bucket | Store, VerifyAndDelete, Shutdown |
| E-mail limiter (`middlewares/ratelimit.go`) | a map of token buckets under a mutex, a cleanup goroutine | Allow, Stop |
| Start-up and shutdown (`cmd`, `provider`, `adapters/http`, `adapters/job`, `core/otel`) | the pool, the connection, the goroutines | Setup, Run, Shutdown |
| Routing, handlers, mappers, configuration, mail, Turnstile | none | binding and formatting, calls to the above |

How they interact. A handler takes the caller's profile id from the token and
calls one service operation; services run their statements in a transaction of
go-crud or one by one, and nothing else synchronises two requests: PostgreSQL's
READ COMMITTED snapshots, row locks and unique indexes do. The merged watchlist
reads what the group and watchlist services write; Add reads what Search has
ingested. authkit, an external library, calls the stores in `adapters/auth`, the
session cache and the state store through interfaces, and its claims hook calls
the profile service. Goroutines (cache, in-memory state store, limiter) share a
map with the requests. `provider` builds all of it and takes it down.

What is hard, and which properties make a component correct:

* two requests between each other's statements: one row per title, one
  membership per profile, no lost update, replies that agree with each other
  (watchlist, groups, accounts);
* reads that are stale when they are used: membership checks, loaders that
  store what has been deleted since, whole-row writes (merged watchlist,
  sessions, accounts);
* one statement of several failing (all of them), and the same at start-up;
* single use of a state across goroutines, processes and lost messages;
* cleanup that must not be observable, must happen and must stop (limiter, state
  stores, sessions), or must take only what nobody uses while people sign in and
  out (tokens);
* row locks taken in an order that data decides on: two pages of search results,
  or the weekly job and a logout (content, tokens).

`PROJECT.json` lists every hazard at its line with the properties aimed at it.

## 2. Modules

### Watchlist: `WatchlistData`, `WatchlistSpec`, `Watchlist`, `WatchlistProofs`

`WatchlistSpec` is the contract: a board of at most one entry per profile and
title, every request taking effect in one step, refusals that were true at some
moment of the request. `Watchlist` is the code: an action per statement.
`AddFindExisting`, `AddFindContent`, `AddInsert` and `Commit` are Add's
transaction; `UpdateFind`, `UpdateLock`, `UpdateWrite`, `Commit` are Update's,
where `SELECT ... FOR UPDATE` first picks a row and then waits for its lock and
reads it again; `RemoveFind` and `RemoveDelete` are two transactions. `items`
holds committed rows, `draft` a transaction's uncommitted one, `lock` the row
locks. `IndexFree` is the unique index, which makes an INSERT wait for a rival's
uncommitted row. `Fail` ends a request at any statement. `List` changes nothing
and is left out.

`ContractSpec` is the refinement: the board is read off the committed rows, and
the step in which the contract takes effect is the COMMIT or the DELETE. An Add
whose title is there is refused as `Conflict` or `DuplicateKey`: the first if its own
check has found the entry, the second if the index has, which is what the loser of
a race is told. The contract does not ask for the same words, only for the truth.

### Groups: `Rosters`, `Groups`, `GroupsProofs`

`Rosters` is the contract: a group is the set of its members, a Create or a Join
puts its caller there in one step or not at all, nobody leaves, a NotFound is
true, and a request is told what was so at some moment while it ran. `Groups` is
the code, an action per statement, with rows, transactions and rivals.
`members[g]` is the sequence of a group's rows in the order of their ids, which
are drawn when an INSERT starts and not when it commits, each with its writer
(or `Committed`). `Sees` is what a statement sees: committed rows and those of its
own transaction. `JoinIndex` is `INSERT ... ON CONFLICT DO NOTHING`
meeting the index: it waits for a rival's row, and does nothing if the rival
commits. Get and List check and read in separate statements, as in the code.
A request may be told that it failed only when something has (`Fail`, a lost
COMMIT); `Error` is the foreign key's refusal of a profile that does not exist, so
that a Join which loses a race and gets an error for it breaks the contract.
`RosterSpec` is the refinement: `rosters` are the committed rows, `told` what the
replies list, and the COMMIT is the step in which somebody enters. The order of a
reply is no part of the contract; `RepliesAgree`, `FirstMemberFixed` and
`RepliesHaveCaller` are about it.

### Merged watchlist: `MergedWatchlist`, `MergedWatchlistProofs`

`Require` and `Query` are the two statements, between which `Edit` and `Join`
change the tables; `Merge` is one round of the loop of `mergeRows` over the rows
in an arbitrary order; `Sort` puts every item at the place that as many items go
before as it is large (`Rank`), which is what a stable sort does. After the
query the loop touches only local data and commutes with everything else, so the
tables stand still until the reply and the properties can compare with them.

### Content search: `Catalogue`, `ContentUpsert`, `ContentUpsertProofs`

`Catalogue` is the promise: a page of results goes into the table as a whole or
not at all, the answer is the rows that went in, and a title keeps its id.
`ContentUpsert` is the code. `MapResults` is `mapTMDBResults`: what does not
decode and people are skipped, and the key holds the media type because TMDB
numbers films and shows separately. `Ask` is the call to TMDB, `UpsertRow` one
row of the multi-row `INSERT ... ON CONFLICT DO UPDATE`: it waits while another
transaction has the row, and keeps it locked until `Commit`. `RepeatedTitle` is
the error PostgreSQL raises when the statement meets its own row again.
`OnCircle` is what the deadlock detector looks for, `DeadlockVictim` whom it
aborts. Two things the code allows are not denied: a page that names one title
twice fails as a whole, and so does a search that is the victim of another whose
page ranks the same titles the other way round. `OnlyRankingsCollide` says that
nothing else makes victims: pages that agree with one order of all titles never
wait in a circle, whatever is in them, so a batch sorted by key would have none.

### E-mail limiter: `TokenBucket`, `ValueLimiter`, `RateWindow`, `ServerProofs`

`TokenBucket` is the promise: a bucket per address, never forgotten.
`ValueLimiter` is the code: the map, the age of each entry, the sweep and Stop.
`BucketSpec` shows that forgetting is not observable, which needs that the time
to live is at least the time a bucket takes to fill (an assumption of the
module; the code has 3 tokens, 3 per hour, 1 hour). `RateWindow` puts an observer
beside the limiter who starts counting at any moment: `Ledger` bounds what is
let through by the burst and what has been earned since, evictions included.

### OAuth state store: `StateStoreData`, `SingleUse`, `InMemoryStateStore`, `NatsStateStore`, `StateStores`, `StateStoresProofs`

`SingleUse` is the promise of the `StateStore` interface. `InMemoryStateStore`
has LoadAndDelete and the look at the clock as two steps, the sweep that reads
the clock once and deletes entry by entry, Shutdown and restarts of the process.
`NatsStateStore` has Get and Delete-by-revision as two messages and a revision for
each key, which every write increases, a delete and the server's expiry included:
`Delete` takes effect if the key's last revision is the one `Get` has read. Answers
are lost, and a Delete may arrive after its sender has given up. `StateStores` is
`NewStateStore`, which makes one or the other. Both implement `SingleUse`
(`PromiseSpec`, `BucketPromiseSpec`).

### Sessions: `Sessions`, `ServerProofs`

The table and the cache in front of it. A Get loads an entry, looks at the clock
(two steps, as in `getValue`), deletes an expired one by key, asks the loader and
stores what it found, whatever has happened in between. Logout's row delete and
cache delete are independent actions, since authkit decides on their order. The
weekly job of the cron migration deletes rows and knows of no cache. `Touch`
writes back the row it read; if the row is gone go-crud's Update may or may not
put it back, and both are in the model.

A logout that evicts the entry before a loader stores it leaves a session that
is still let in: the module does not deny that, it bounds it. `StaleBounded`
says no request is let in later than `Flight + Expiry` after the row went (the
request timeout plus the life of an entry), and `GoneForGood` that a session of
which no row, entry or in-flight copy is left stays gone. It does not exclude that
a Touch in flight brings the row back, which go-crud decides.

### Refresh and reset tokens: `Tokens`, `TokensProofs`

The rows under the sessions. `InsertToken` meets the foreign key, which waits for
whoever is deleting the session and fails if it is gone; `CommitToken` makes the
row visible. `FindToken` and `FindTokens` followed by `RemoveTokens` are Delete,
DeleteBySession and DeleteByUser, which delete by primary key what an earlier
statement found. `FindSession` is followed by `TouchSession` or by `LockSession`
and `DropSession`, the DELETE of a session and its cascade. The job is
`JobTokens` (the first DELETE), `JobScan` (the snapshot the second one's
conditions are evaluated on), `JobDelete` (one session, once its lock is free:
PostgreSQL looks again at a row that was updated, but not at the NOT EXISTS) and
`JobCommit`. The job runs where it is scheduled (`scheduled`, true or false at the
start). `Migrate` is the cron migration, applied at any moment and once: it
reschedules the job that is there, or, because unscheduling a job that does not
exist raises, or pg_cron is missing, or scheduling fails, leaves everything as it
is. Instead of clocks, `Expire` and `Age` turn a token or a session
stale at any moment. Reset tokens hang on users, whom nothing deletes, and
nobody cleans them up.

One thing the code allows is named by the property instead of denied: a refresh
token inserted for a session unused for a week, between the job's look and its
lock, goes with that session (`OnlyTheForgottenGo`). What may not happen is that
it stays without one (`TokensHaveOwners`). The job takes tokens before sessions
and a logout a session before its tokens, so the two may wait for each other;
PostgreSQL aborts one (`DeadlockVictim`), and both get to their end
(`JobForgets`, `EveryRequestEnds`). `JobForgets` is about a database that has the
schedule: where it is missing the migration does not make one, nothing is ever
cleaned up (`NoScheduleNoJob`), and the other properties hold all the same.

### Accounts: `Accounts`, `AccountsProofs`

Users and profiles. `InsertUser` is Create and CreateOAuth's first statement;
`Find`, `Preload`, `FindProfile`, `InsertProfile`, `Refetch`, `Write` and `Commit`
are SetVerified's, UpdatePassword's and the profile service's; `LockProfile` and
`Rename` are the profile service's Update. Two things the code allows are in the
model and not denied by the properties: two overlapping requests may give one
user two profiles (the index on `user_id` is not unique), and of two overlapping
whole-row writes one undoes the other's field. The properties say how far that
goes: only requests that overlap (`NoLateProfile`, `OwnFieldOnly`), and never as
far as a verified user without a profile (`AccountInv`), whose tokens could not
be built by the claims hook.

### Start-up and shutdown: `Lifecycle`, `ServerProofs`

Both programs, step by step; each step may fail. `Fail(s)` releases `s`, what
the functions on the way up release themselves, and then what `run` has
deferred. A release may report an error, which is logged or joined and stops
nothing. `LifecycleInv` says that everything opened is released exactly once on
every one of these paths but for two orphans, which the code leaves: the pool
whose Ping fails and the cache of an authkit that could not be made (both
programs exit then). `UsersFirst` is the order of the releases.

## 3. What is checked

| run | bounds | states | what it shows |
|---|---|---|---|
| `watchlist` | 3 requests, 1 profile, 1 title, 3 row ids, 2 priorities | 93,099 | one row per title, no lost update |
| `watchlist_live` | 2 requests, 2 profiles, 1 title, 3 ids | 64,373 | the contract: no request touches another profile's entry; every request ends |
| `groups` | 3 requests, 4 profiles (one without a row), 1 group | 181,869 | unique membership, creator first, replies agree |
| `groups_live` | 2 requests, 2 profiles, 2 groups | 118,444 | the contract; every request ends; replies contain their caller, once; List over several groups |
| `merged_watchlist` | 2 profiles, 3 titles (two of one name), 2 priorities | 145,183 | the reply is the members' lists, each once, in order |
| `content_upsert` | 3 searches, 5 pages over 3 titles, 2 ids a title | 84,216 | pages go in whole, ids stand, victims only of contrary rankings, every search answered |
| `rate_window` | 2 addresses, burst 2, 2 ticks per token, ttl 4, windows to 5 ticks | 320,872 | burst plus earnings bound every window, eviction unobservable, entries forgotten, goroutine returns |
| `state_stores` | 2 states, 3 callbacks, expiry 1 tick, both stores | 125,648 | single use with sweeps, restarts, lost and late messages; Shutdown |
| `sessions` | 1 session, 2 requests, expiry 1, flight 1, clock to 4 | 170,642 | staleness bounded, gone for good, entries forgotten |
| `tokens` | 2 requests, 1 session, 1 user, 2 hashes, 1 rollback of the job | 173,812 | no token without its session, only the unused goes, a job that is scheduled forgets, every request ends |
| `accounts` | 3 requests, 1 user, 2 hashes, 2 names, 3 ids | 526,731 | verified users have profiles, own field only |
| `lifecycle` | all configurations | 11,886 | nothing leaks but the orphans, order of release |

The states are distinct states, up to symmetry where the configuration says so
(requests, profiles, ids and other interchangeable values, in runs without
liveness). With two workers no run takes more than about two minutes.

Why these bounds. The races are between two requests on one key; the third
request is the one that comes after (a second Add after a Remove, a rival that
waits and then wins, a lost update seen by a reader). Different keys do not meet
but in the index of row ids, which is why one profile and one title suffice where
there are three requests, and why `watchlist_live` has two profiles: there the
question is whether keys stay apart. Row ids are as many as requests: each
inserts at most one. Sessions need one session, since the code never relates
two, a clock that runs past `Flight + Expiry` from any deletion, and two requests
(one in flight with an old copy, one that deletes or reloads). Counting in ticks
keeps the relations between burst, rate and time to live, not their sizes.
`ContentUpsert` needs three searches for a circle of three, and pages that
contradict each other in pairs and in a circle, name a title twice, or hold what
is skipped; uuids are tagged with the title they are drawn for, and two for each
title are enough because at most one is committed and one in flight. `Tokens`
needs a session to be deleted from two sides, one token that expires under it and
one inserted meanwhile; safety also holds for two sessions (1.6 million states,
too many for the liveness check, so not among the runs). `Lifecycle` has no
bound: TLC sees every path of both programs.

Each property has a mutant, defined beside the definition it mutates (an index
missing, a lock not taken, a transaction split), under which TLC finds it
violated in the same run.

Names of bounds: `MaxTime` in `Sessions` stops the clock; ages in `ValueLimiter`
and `InMemoryStateStore` stop at `Ttl + 1` and `Expiry + 1`, past which the code
cannot tell them apart; `Window` in `RateWindow` is how long the observer counts;
`MaxRollbacks` in `Tokens` how often the job is rolled back.

### Fairness

* `Watchlist`, `Groups`, `ContentUpsert`: strong fairness of each request's own steps. A handler
  has its goroutine, the database answers or the request fails, and PostgreSQL
  grants a contended lock in the order of the requests for it, so one that waits
  again and again gets it. A deadlock lasts until the detector finds it, after
  `deadlock_timeout`: aborting a victim is a step that is taken.
* `Tokens`: the same for requests and for the job. The job's fairness does not say
  that it is scheduled: without a schedule it is never enabled and the fairness
  asks nothing. Where there is one it fires every week, and a job that has begun
  goes on.
* `ValueLimiter`, `InMemoryStateStore`, `Sessions`: weak fairness of the cleanup
  goroutine (the ticker fires, the scheduler runs it) and of time. A `select`
  with a closed stop channel and a tick both ready chooses at random, so the
  return of the goroutine is strongly fair in `InMemoryStateStore`.
* Nothing is assumed of callers: no fairness for Add, Join, Allow, Store, Ask,
  Get, Touch or a shutdown's being asked for.

`lifecycle` turns deadlock checking off, since a program that has exited stops.

## 4. What is proved

Every safety property a run checks, invariants, action properties and
refinements alike, is a theorem for every value of the constants: any number of
requests, profiles, groups, titles, pages, sessions, addresses. `PROJECT.json`
lists the theorems with the properties they state. They rest on the assumptions
named in the modules and on nothing else: sentinel values such as `Absent`,
`Free` or `NoId` are not rows, requests or ids (`GroupsAssumption`,
`IdAssumption`, `DataAssumption`, `AccountsAssumption`, `StoreAssumption`,
`MergeAssumption`); times and bounds are natural numbers; a limiter's time to
live is at least the time it takes to fill (`TtlAssumption`); a page of TMDB has
finitely many results (`BodiesAssumption`) and no uuid is drawn for two titles
(`IdsAssumption`).

Each proof has the same frame: the invariant the run checks is the inductive
one, a lemma for each action shows that its step keeps it, and the theorem
follows by temporal logic. What is not routine:

* **`WatchlistProofs`**: `WatchlistHolds`, `TitlesUnique`, `NoLostUpdate`,
  `WatchlistNoWaitsInTurn`, `WatchlistImplementsSpec`. Uniqueness is not inductive
  by itself: an INSERT is checked when it starts and counts when it commits.
  `TransactionInv` adds what a transaction may rely on in between: an uncommitted
  row has a key nobody else has (`InsertInv`), the draft of an Update is the patch
  of the row as it is now because it holds the lock (`UpdateInv`, `LockInv`), and
  a row found without a lock is still there or the request has seen its key
  absent (`FoundInv`). The refinement maps COMMIT and DELETE to the contract's
  step and everything else to a stutter or the matching call.
* **`GroupsProofs`**: `GroupsHold`, `FirstMemberStays`, `RepliesAgreeHold`,
  `RepliesHaveCallerOnce`, `GroupsNoWaitsInTurn`, `RostersHold`. The rows of a
  group are a sequence in which rows are appended, taken out again by a rollback
  or a lost race, and settled where they are; the first lemmas say so row by row
  (`WithoutRows`, `InsertRows`, `PublishRows`, `IndexedRows`). From them come two
  facts every step keeps: what a request sees stays in the order it has
  (`Keeps`), and its own row stays (`RowStays`). `RowInv` ties a row nobody has
  committed to the one request that is inserting it; `FirstInv` says that a
  committed group starts with a committed row, which is why the creator's place
  does not move; `ReplyInv` compares a reply with the table as it is now, and two
  replies that agree with one table agree with each other. `RegisteredInv` and
  `ToldInv` are there for the refinement, which needs the caller of a COMMIT to
  exist and its reply to be made. The theorem then goes statement by statement: a
  step is a stutter, or the step of `Rosters` that its comment names.
* **`MergedWatchlistProofs`**: `LoopHolds`, `RepliesFaithful`, `RepliesOrdered`.
  The invariant splits the rows of the query into those not visited and those
  counted, so that the count of a title only grows by the row that is visited.
  That `Sort` loses and repeats nothing is a counting argument: ranks of
  different items differ, they lie between 1 and the number of items, so every
  place is taken exactly once (`RankIsPlace`).
* **`ContentUpsertProofs`**: `ContentHolds`, `OnlyRankingsCollideHolds`,
  `CatalogueHolds`. Two transactions never have uncommitted rows of one title
  because the second waits; hence a commit replaces rows and never doubles them.
  If all pages agree with one ranking, a search stands at a title ranked below
  the one at which the search it waits for stands (`WaitsDownwards`); so in a
  circle the one that stands lowest would be waited for by one lower still. The
  refinement of `Catalogue` takes the whole page at the COMMIT.
* **`ServerProofs`**, the parts of one process. Limiter: an unused entry's bucket
  is full when its time to live is over (`LimiterInvariant`), hence
  `EvictionInvisible`; what was let through plus what is left is at most what was
  there plus what was earned (`LedgerHolds`), hence `RateHolds`. Sessions:
  everything the cache or a request holds of a session expires within a bound
  from when its row was last there, copies in flight included (`AgeInv`); hence
  `StalenessBounded` and `SessionsStayGone`. Life cycle: the list of what is still
  to be released is in the order in which users come before what they use, at
  every step up and down (`LifecycleHolds`); hence `UsersGoFirst`.
* **`StateStoresProofs`**: in memory, a live state is in the map or in exactly one
  caller's hands, and a sweep holds only expired ones (`StoreHolds`); in NATS, a
  revision somebody has read is the key's last one as long as the key is live and
  an earlier one ever after, so a Delete by it finds the live key or fails, however
  late it comes (`BucketHolds`). Hence both
  stores implement `SingleUse`, and so does the one `NewStateStore` makes
  (`EitherStoreIsSingleUse`). `ShutdownComplete`: Shutdown does not return before
  the goroutine.
* **`TokensProofs`**: `TokensHold`, `ForgottenOnly`, `NoScheduleNoJob`. That a token has its session
  is kept by two locks: a session whose token is about to be committed is neither
  being dropped nor doomed by the job, and what one of them has locked the other
  waits for. What the job has found stays as it found it (`JobInv`) because
  hashes are new (`HashesAreNew`): a token that appears later is not one of those
  it looked at. `OnlyTheForgottenGo` follows action by action.
* **`AccountsProofs`**: `AccountsHold`, `NoLateProfiles`, `OwnField`,
  `VerifiedHaveProfiles`. The heart is `CopyInv` and `FreshInv`: a copy that says
  verified belongs to a user who has a profile or gets one in the same commit,
  so that writing a stale row back cannot verify a user without one; and a copy
  nobody overtook is the row. The proof has a lemma for the requests that do not
  move (`BystanderStep`), one for the one that does (`ActorStep`), and one for
  each relation between requests.

### Only model-checked

Liveness: `EveryRequestEnds`, `ExpiredForgotten`, `EntriesForgotten`,
`CleanupReturns`, `ShutdownEnds`, `JobForgets`. Each rests on fairness, and the
provers do neither fairness nor ENABLED. For the watchlist and the groups half of
why requests end is proved: nobody waits for somebody who waits
(`NoWaitsInTurn`), so no transaction can be stuck in a circle. In `ContentUpsert`
and `Tokens` circles do exist, and what ends them is a victim.

## 5. What is assumed of code outside the repository

* PostgreSQL runs at READ COMMITTED: a statement sees what is committed when it
  runs and its own transaction's writes; a unique index makes an INSERT wait for
  an uncommitted rival; `FOR UPDATE` reads the row again once it has the lock.
* go-crud: `Update` writes every column of the row by its primary key;
  `WithinTransaction` inside a transaction joins it; a returned error rolls back.
* pg_cron: `unschedule` by name raises where there is no such job, and `schedule`
  of a name that is there replaces it. PostgreSQL undoes what a block with an
  exception handler has done before it raised.
* authkit calls the stores in any order and any number at a time. It is given the
  transactor (`service_provider.go:99`), so it may put several calls into one
  transaction; whether it does cannot be seen from here. `Tokens`, `Sessions` and
  `Accounts` take each call for a transaction of its own, as it is without one:
  locks held from one call to the next, a rollback of several calls, and the
  circles of waiting that might come of them are not in the models. Its
  `Shutdown` shuts the session cache down, once.
* sentinel-go's timeout cancels a request's context, which bounds how long a
  loader may take; `ListenAndServe` returns when it has stopped serving.
* NATS: every write to a key has a greater revision than the last one, the markers
  of a delete and of an expiry included; `LastRevision` makes a Delete fail unless
  the key's last revision is the one named.
* `rate.Limiter` is a token bucket; `sync.Map` operations are atomic and `Range`
  may or may not see what changes while it runs.
* uuidv7 ids are unique and grow with the time they are drawn.

## 6. What is not modelled

* OAuth accounts: one INSERT under a unique constraint and one lookup, each a
  single statement.
* FindByHash, FindBySelector, GetByID and List where they only read: what their
  callers in authkit do with what they read is outside the repository.
* Single statements other than the upsert and the job's second DELETE take their
  row locks at once in the models; that two multi-row DELETEs meet half way is
  left out.
* Routing, binding, validation, mapping, mail, Turnstile calls, logging and
  configuration: no state, or state no property is about. The group name's
  fallback and the links of a group are formatting.
* Unscheduling by hand, and the migration's Down: `Tokens` has the migration's Up,
  and that a schedule may be missing, but nobody else who touches schedules.
* The per-address HTTP rate limit, which is sentinel-go's.

## 7. Plan

Done, in this order: watchlist with its contract and proofs; groups; merged
watchlist; limiter; state stores; sessions; accounts; life cycle; content upsert
with its catalogue; tokens with the weekly job; proofs of every safety property;
the contract of the groups.

Next, most important first:

1. Which circles there can be in `Tokens` (the job and one logout, and no other)
   and in `Accounts`, as theorems next to `NoWaitsInTurn`.
2. A contract for the merged watchlist that does not stand still between query
   and reply: what the reply lists was on the members' lists when it was read.
3. Composition of `Sessions`, `Tokens` and `Accounts` with an abstract authkit,
   if its call order can be taken from tests or documentation in the repository.
