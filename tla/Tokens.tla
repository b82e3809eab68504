---- MODULE Tokens ----
(***************************************************************************)
(* Refresh tokens and password reset tokens (adapters/auth/                *)
(* refresh_token_store.go, reset_token_store.go), the session rows that    *)
(* refresh tokens hang on (session_store.go) and the weekly clean-up job   *)
(* (the cron migration), statement by statement.                           *)
(*                                                                         *)
(*   Create     INSERT, locks the session's key - COMMIT                   *)
(*   Delete     find the token - delete it by id                           *)
(*   DeleteAll  find the owner's tokens - delete these by id               *)
(*   Touch      find the session - write it back                           *)
(*   Drop       find the session - lock it - delete its tokens, then it    *)
(*   the job    delete expired tokens - look for sessions without tokens   *)
(*              and unused for a week - lock one after another - COMMIT    *)
(*                                                                         *)
(* Instead of clocks, a token or a session turns stale at some moment.     *)
(***************************************************************************)
EXTENDS Naturals

CONSTANTS
    Requests, Sessions, Users,
    Hashes,       \* token hashes and selectors: random, so never the same twice
    None,         \* no owner
    MaxRollbacks  \* bound: how often the job may be rolled back

ASSUME TokenAssumption == MaxRollbacks \in Nat

Owners == Sessions \cup Users

VARIABLES
    tokens,      \* committed rows: [hash, owner, expired]
    sessions,    \* committed rows of the sessions table
    idle,        \* those unused for more than seven days
    stage,       \* [Requests -> what it does next]
    owner,       \* [Requests -> the session or user it is about]
    held,        \* [Requests -> the hashes it is to insert or to delete]
    job,         \* off, scan or delete: what the job does next
    swept,       \* tokens it has deleted and not committed
    condemned,   \* sessions it has found and not come to
    doomed,      \* sessions it has deleted and not committed
    listed,      \* history: hashes of the tokens there were when it looked
    rollbacks,   \* how often it has been rolled back
    scheduled,   \* pg_cron has the job
    migrated     \* the cron migration has been applied

table == <<tokens, sessions, idle>>
request == <<stage, owner, held>>
schedule == <<scheduled, migrated>>
cron == <<job, swept, condemned, doomed, listed, rollbacks, schedule>>
vars == <<table, request, cron>>

-----------------------------------------------------------------------------
TokensOf(o) == {t \in tokens : t.owner = o}

HashesOf(s) == {t.hash : t \in s}

Busy(r) == stage[r] \notin {"done", "failed"}

Init ==
    /\ tokens = {} /\ sessions = {} /\ idle = {}
    /\ stage = [r \in Requests |-> "done"]
    /\ owner = [r \in Requests |-> None]
    /\ held = [r \in Requests |-> {}]
    /\ job = "off" /\ swept = {} /\ condemned = {} /\ doomed = {} /\ listed = {}
    /\ rollbacks = 0
    /\ scheduled \in BOOLEAN /\ migrated = FALSE

\* A request gets to its statement st with what it knows.
Begin(r, st, o, hashes) ==
    /\ ~Busy(r)
    /\ stage' = [stage EXCEPT ![r] = st]
    /\ owner' = [owner EXCEPT ![r] = o]
    /\ held' = [held EXCEPT ![r] = hashes]
    /\ UNCHANGED <<table, cron>>

Goto(r, st) == stage' = [stage EXCEPT ![r] = st] /\ UNCHANGED <<owner, held>>

\* The request is answered: done, or failed.
End(r, a) ==
    /\ stage' = [stage EXCEPT ![r] = a]
    /\ owner' = [owner EXCEPT ![r] = None]
    /\ held' = [held EXCEPT ![r] = {}]

-----------------------------------------------------------------------------
\* Row locks

\* An INSERT of a token holds the key of its session until it commits.
KeyShared(s) == \E r \in Requests : stage[r] = "commit" /\ owner[r] = s

Dropping(s) == \E r \in Requests : stage[r] = "cascade" /\ owner[r] = s

Locked(s) == s \in doomed \/ Dropping(s)

-----------------------------------------------------------------------------
\* The stores

\* SessionStore.Create; the id is new.
NewSession(s) ==
    /\ s \notin sessions \cup condemned \cup doomed
    /\ \A r \in Requests : owner[r] # s
    /\ sessions' = sessions \cup {s}
    /\ UNCHANGED <<tokens, idle, request, cron>>

\* A new hash is nobody's: no row has it and nobody has ever seen it.
Create(r, o, h) ==
    /\ h \notin HashesOf(tokens) \cup swept \cup listed
    /\ \A q \in Requests : h \notin held[q]
    /\ Begin(r, "insert", o, {h})

\* Mutant of InsertToken: a missing owner is tried again.
InsertTokenRetried(r) ==
    /\ stage[r] = "insert" /\ ~Locked(owner[r])
    /\ owner[r] \in sessions \cup Users
    /\ Goto(r, "commit")
    /\ UNCHANGED <<table, cron>>

\* The foreign key: the owner must be there, and is waited for while somebody
\* is deleting it.
InsertToken(r) ==
    /\ stage[r] = "insert" /\ ~Locked(owner[r])
    /\ \/ /\ owner[r] \in sessions \cup Users
          /\ Goto(r, "commit")
       \/ /\ owner[r] \notin sessions \cup Users
          /\ End(r, "failed")
    /\ UNCHANGED <<table, cron>>

CommitToken(r) ==
    /\ stage[r] = "commit"
    /\ tokens' = tokens \cup {[hash |-> h, owner |-> owner[r], expired |-> FALSE] : h \in held[r]}
    /\ End(r, "done")
    /\ UNCHANGED <<sessions, idle, cron>>

\* Delete's FindFirst.  Nothing found is success, and leaves no trace here.
FindToken(r, s, h) ==
    /\ h \in HashesOf(TokensOf(s))
    /\ Begin(r, "remove", s, {h})

\* DeleteBySession's and DeleteByUser's FindAll.
FindTokens(r, o) ==
    /\ TokensOf(o) # {}
    /\ Begin(r, "remove", o, HashesOf(TokensOf(o)))

\* Delete or DeleteMany, by primary key; a row the job has deleted is waited for.
RemoveTokens(r) ==
    /\ stage[r] = "remove" /\ held[r] \cap swept = {}
    /\ tokens' = {t \in tokens : t.hash \notin held[r]}
    /\ End(r, "done")
    /\ UNCHANGED <<sessions, idle, cron>>

\* findByID, for Touch or for Delete.
FindSession(r, s, st) ==
    /\ s \in sessions
    /\ Begin(r, st, s, {})

\* Update by primary key.  When the row has been deleted meanwhile, go-crud may
\* do nothing or put it back: both are possible here.
TouchSession(r) ==
    /\ stage[r] = "touch" /\ ~Locked(owner[r])
    /\ \/ UNCHANGED sessions
       \/ sessions' = sessions \cup {owner[r]}
    /\ idle' = idle \ {owner[r]}
    /\ End(r, "done")
    /\ UNCHANGED <<tokens, cron>>

\* DELETE of the session row; it locks the row and turns to its tokens.
LockSession(r) ==
    /\ stage[r] = "drop" /\ ~Locked(owner[r]) /\ ~KeyShared(owner[r])
    /\ \/ owner[r] \notin sessions /\ End(r, "done")
       \/ owner[r] \in sessions /\ Goto(r, "cascade")
    /\ UNCHANGED <<table, cron>>

\* Mutant of DropSession: the tokens stay.
DropSessionAlone(r) ==
    /\ stage[r] = "cascade" /\ HashesOf(TokensOf(owner[r])) \cap swept = {}
    /\ sessions' = sessions \ {owner[r]}
    /\ idle' = idle \ {owner[r]}
    /\ End(r, "done")
    /\ UNCHANGED <<tokens, cron>>

\* ON DELETE CASCADE.
DropSession(r) ==
    /\ stage[r] = "cascade" /\ HashesOf(TokensOf(owner[r])) \cap swept = {}
    /\ tokens' = tokens \ TokensOf(owner[r])
    /\ sessions' = sessions \ {owner[r]}
    /\ idle' = idle \ {owner[r]}
    /\ End(r, "done")
    /\ UNCHANGED cron

\* A statement fails, the client goes away, the server dies.  What was done is
\* done even when its answer is lost; that is as good as done here.
Fail(r) == Busy(r) /\ End(r, "failed") /\ UNCHANGED <<table, cron>>

-----------------------------------------------------------------------------
\* The job

\* expires_at passes.
Expire(t) ==
    /\ ~t.expired
    /\ tokens' = (tokens \ {t}) \cup {[t EXCEPT !.expired = TRUE]}
    /\ UNCHANGED <<sessions, idle, request, cron>>

\* A week since last_used_at, by the job's now(), which is when it started.
Age(s) ==
    /\ job = "off" /\ s \in sessions \ idle
    /\ idle' = idle \cup {s}
    /\ UNCHANGED <<tokens, sessions, request, cron>>

\* The migration's block: the job is unscheduled and scheduled again, or one of
\* the two raises, which undoes the block, and the handler swallows it.  To
\* unschedule a job that does not exist raises like a missing pg_cron does, so
\* where there was no schedule there is none afterwards.
Migrate ==
    /\ ~migrated /\ migrated' = TRUE
    /\ \/ scheduled /\ scheduled' = TRUE
       \/ UNCHANGED scheduled
    /\ UNCHANGED <<table, request, job, swept, condemned, doomed, listed, rollbacks>>

\* Mutant of JobTokens: < for >.
JobTokensValid ==
    /\ scheduled /\ job = "off"
    /\ job' = "scan"
    /\ swept' = HashesOf({t \in tokens : ~t.expired /\ t.owner \in Sessions})
    /\ UNCHANGED <<table, request, condemned, doomed, listed, rollbacks, schedule>>

\* The schedule fires and the first statement is executed.  Reset tokens are
\* in another table, which nobody cleans up.
JobTokens ==
    /\ scheduled /\ job = "off"
    /\ job' = "scan"
    /\ swept' = HashesOf({t \in tokens : t.expired /\ t.owner \in Sessions})
    /\ UNCHANGED <<table, request, condemned, doomed, listed, rollbacks, schedule>>

\* Its own deletions are gone for the job, though for nobody else.
Tokenless(s) == HashesOf(TokensOf(s)) \subseteq swept

\* The second statement's snapshot.
JobScan ==
    /\ job = "scan"
    /\ job' = "delete"
    /\ condemned' = {s \in idle : Tokenless(s)}
    /\ listed' = HashesOf(tokens)
    /\ UNCHANGED <<table, request, swept, doomed, rollbacks, schedule>>

\* Mutant of JobDelete: a row that has changed is deleted as it was found.
JobDeleteUnchecked(s) ==
    /\ s \in condemned /\ ~Dropping(s) /\ ~KeyShared(s)
    /\ condemned' = condemned \ {s}
    /\ doomed' = doomed \cup ({s} \cap sessions)
    /\ UNCHANGED <<table, request, job, swept, listed, rollbacks, schedule>>

\* One row: it is waited for while somebody else has it, and looked at again if
\* it was updated; the NOT EXISTS is not.
JobDelete(s) ==
    /\ s \in condemned /\ ~Dropping(s) /\ ~KeyShared(s)
    /\ condemned' = condemned \ {s}
    /\ doomed' = doomed \cup ({s} \cap idle)
    /\ UNCHANGED <<table, request, job, swept, listed, rollbacks, schedule>>

JobOver ==
    job' = "off" /\ swept' = {} /\ condemned' = {} /\ doomed' = {} /\ listed' = {}

JobCommit ==
    /\ job = "delete" /\ condemned = {}
    /\ tokens' = {t \in tokens : t.hash \notin swept /\ t.owner \notin doomed}
    /\ sessions' = sessions \ doomed /\ idle' = idle \ doomed
    /\ JobOver
    /\ UNCHANGED <<request, rollbacks, schedule>>

JobRollback ==
    /\ job # "off" /\ rollbacks < MaxRollbacks
    /\ rollbacks' = rollbacks + 1
    /\ JobOver
    /\ UNCHANGED <<table, request, schedule>>

\* The job waits for the session, the one who drops it for a token of it: once
\* the job may not be rolled back again the other is PostgreSQL's victim.
DeadlockVictim(r) ==
    /\ stage[r] = "cascade" /\ owner[r] \in condemned
    /\ HashesOf(TokensOf(owner[r])) \cap swept # {}
    /\ \/ Fail(r)
       \/ JobRollback

Start(r) ==
    \/ \E o \in Owners : FindTokens(r, o) \/ \E h \in Hashes : Create(r, o, h)
    \/ \E s \in Sessions :
          \/ FindSession(r, s, "touch") \/ FindSession(r, s, "drop")
          \/ \E h \in Hashes : FindToken(r, s, h)

Step(r) ==
    \/ InsertToken(r) \/ CommitToken(r)
    \/ RemoveTokens(r)
    \/ TouchSession(r) \/ LockSession(r) \/ DropSession(r)
    \/ DeadlockVictim(r)

Job == JobTokens \/ JobScan \/ (\E s \in Sessions : JobDelete(s)) \/ JobCommit

Next ==
    \/ \E s \in Sessions : NewSession(s) \/ Age(s)
    \/ \E r \in Requests : Start(r) \/ Step(r) \/ Fail(r)
    \/ \E t \in tokens : Expire(t)
    \/ Job \/ JobRollback \/ Migrate

Spec == Init /\ [][Next]_vars

\* A schedule, where there is one, fires every week and a job that has begun goes
\* on; whoever waits for a row gets its turn, and nobody waits in a circle for
\* ever.
FairSpec == Spec /\ SF_vars(Job) /\ \A r \in Requests : SF_vars(Step(r))

-----------------------------------------------------------------------------
\* Properties

Stages == {"done", "failed", "insert", "commit", "remove", "touch", "drop", "cascade"}

\* Every variable has its type.
TypeOK ==
    /\ tokens \subseteq [hash : Hashes, owner : Owners, expired : BOOLEAN]
    /\ sessions \subseteq Sessions /\ idle \subseteq sessions
    /\ stage \in [Requests -> Stages]
    /\ owner \in [Requests -> Owners \cup {None}]
    /\ \A r \in Requests : stage[r] \in {"touch", "drop", "cascade"} => owner[r] \in Sessions
    /\ held \in [Requests -> SUBSET Hashes]
    /\ job \in {"off", "scan", "delete"}
    /\ swept \subseteq Hashes /\ listed \subseteq Hashes
    /\ condemned \subseteq Sessions /\ doomed \subseteq Sessions
    /\ rollbacks \in 0..MaxRollbacks
    /\ scheduled \in BOOLEAN /\ migrated \in BOOLEAN

\* A refresh token has its session, one about to be committed included: whether
\* a sign-out or the job deletes it, no token is left behind or comes after.
TokensHaveOwners ==
    /\ \A t \in tokens : t.owner \in sessions \cup Users
    /\ \A t, u \in tokens : t.hash = u.hash => t = u
    /\ \A r \in Requests : stage[r] = "commit" =>
          owner[r] \in sessions \cup Users /\ ~Locked(owner[r])

\* A hash that is about to be inserted is nobody else's, the job's included, so
\* what is looked for by hash is found or gone, but never another's.
HashesAreNew ==
    \A r \in Requests : stage[r] \in {"insert", "commit"} =>
        /\ held[r] \cap (HashesOf(tokens) \cup swept \cup listed) = {}
        /\ \A q \in Requests \ {r} : held[r] \cap held[q] = {}

\* What the job is about to delete is still as it was when the job looked: the
\* tokens expired, the sessions unused and without a token but new ones.
JobInv ==
    /\ \A t \in tokens : t.hash \in swept => t.expired
    /\ doomed \subseteq idle /\ \A s \in doomed : ~Dropping(s)
    /\ \A s \in condemned \cup doomed : HashesOf(TokensOf(s)) \cap listed \subseteq swept
    /\ job = "off" => swept = {} /\ listed = {}
    /\ job # "delete" => condemned = {} /\ doomed = {}

TokenInv == TypeOK /\ TokensHaveOwners /\ HashesAreNew /\ JobInv

By(r, st) == stage[r] = st /\ stage'[r] = "done"

JobEnds == job = "delete" /\ job' = "off"

\* Nobody is signed out by another's request or while the session is in use.  A
\* session or token goes when it is dropped or deleted, a token when it has
\* expired, a session when nobody has used it for a week.  Only a token that is
\* inserted while the job is at its session goes with it before its time.
OnlyTheForgottenGo ==
    [][/\ \A s \in sessions \ sessions' :
             \/ \E r \in Requests : By(r, "cascade") /\ owner[r] = s
             \/ JobEnds /\ s \in idle
       /\ \A t \in tokens : t.hash \notin HashesOf(tokens') =>
             \/ \E r \in Requests :
                   \/ By(r, "remove") /\ t.hash \in held[r]
                   \/ By(r, "cascade") /\ owner[r] = t.owner
             \/ JobEnds /\ (t.expired \/ (t.owner \notin sessions' /\ t.hash \notin listed))]_vars

Expired(h) == \E t \in tokens : t.hash = h /\ t.expired /\ t.owner \in Sessions

Unused(s) == s \in idle /\ TokensOf(s) = {} /\ \A r \in Requests : owner[r] # s

\* Where the job is scheduled, expired refresh tokens and sessions nobody uses are
\* forgotten, whatever sign-outs and sign-ins the job meets and has to wait or
\* start over for, and though the migration is applied meanwhile.
JobForgets ==
    /\ \A h \in Hashes : (scheduled /\ Expired(h)) ~> ~Expired(h)
    /\ \A s \in Sessions : (scheduled /\ Unused(s)) ~> ~Unused(s)

\* Requests wait for the job and for each other, but not for ever.
EveryRequestEnds == \A r \in Requests : Busy(r) ~> ~Busy(r)

=============================================================================
