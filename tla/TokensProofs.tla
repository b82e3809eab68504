---- MODULE TokensProofs ----
(***************************************************************************)
(* Proofs about Tokens, for any numbers of requests, sessions, users and   *)
(* hashes.                                                                 *)
(***************************************************************************)
EXTENDS Tokens, TLAPS

-----------------------------------------------------------------------------
\* Every action keeps the invariant.
LEMMA Inv_NewSession ==
    ASSUME TokenInv, NEW s \in Sessions, NewSession(s)
    PROVE  TokenInv'
BY DEF TokenInv, TypeOK, TokensHaveOwners, HashesAreNew, JobInv, NewSession, request, cron, schedule,
       HashesOf, TokensOf, Dropping, Locked, Owners

LEMMA Inv_Age ==
    ASSUME TokenInv, NEW s \in Sessions, Age(s)
    PROVE  TokenInv'
BY DEF TokenInv, TypeOK, TokensHaveOwners, HashesAreNew, JobInv, Age, request, cron, schedule, HashesOf,
       TokensOf, Dropping, Locked, Owners

LEMMA Inv_Create ==
    ASSUME TokenInv, NEW r \in Requests, NEW o \in Owners, NEW h \in Hashes, Create(r, o, h)
    PROVE  TokenInv'
BY DEF TokenInv, TypeOK, TokensHaveOwners, HashesAreNew, JobInv, Create, Begin, Busy, Stages,
       table, cron, schedule, HashesOf, TokensOf, Dropping, Locked, Owners

LEMMA Inv_InsertToken ==
    ASSUME TokenInv, NEW r \in Requests, InsertToken(r)
    PROVE  TokenInv'
BY DEF TokenInv, TypeOK, TokensHaveOwners, HashesAreNew, JobInv, InsertToken, Goto, End,
       Stages, table, cron, schedule, HashesOf, TokensOf, Dropping, Locked, Owners

LEMMA Inv_CommitToken ==
    ASSUME TokenInv, NEW r \in Requests, CommitToken(r)
    PROVE  TokenInv'
<1> DEFINE new == {[hash |-> h, owner |-> owner[r], expired |-> FALSE] : h \in held[r]}
<1>1. /\ tokens' = tokens \cup new
      /\ stage' = [stage EXCEPT ![r] = "done"]
      /\ owner' = [owner EXCEPT ![r] = None]
      /\ held' = [held EXCEPT ![r] = {}]
      /\ UNCHANGED <<sessions, idle, job, swept, condemned, doomed, listed, rollbacks, schedule>>
  BY DEF CommitToken, End, cron, schedule
<1>2. owner[r] \in sessions \cup Users /\ owner[r] \notin doomed /\ ~Dropping(owner[r])
  BY DEF CommitToken, TokenInv, TokensHaveOwners, Locked
<1>3. /\ new \subseteq [hash : Hashes, owner : Owners, expired : BOOLEAN]
      /\ \A t \in new : t.hash \in held[r] /\ t.owner = owner[r]
      /\ \A t, u \in new : t.hash = u.hash => t = u
  <2>1. held[r] \subseteq Hashes /\ owner[r] \in Owners
    BY <1>2 DEF TokenInv, TypeOK, Owners
  <2>2. ASSUME NEW t \in new
        PROVE  /\ t \in [hash : Hashes, owner : Owners, expired : BOOLEAN]
               /\ t = [hash |-> t.hash, owner |-> owner[r], expired |-> FALSE]
               /\ t.hash \in held[r] /\ t.owner = owner[r]
    <3>1. PICK h \in held[r] : t = [hash |-> h, owner |-> owner[r], expired |-> FALSE]
      OBVIOUS
    <3>2. t.hash = h /\ t.owner = owner[r]
      BY <3>1
    <3>3. QED BY <3>1, <3>2, <2>1
  <2>3. QED BY <2>2
<1>4. /\ \A h \in held[r] : h \notin HashesOf(tokens) \cup swept \cup listed
      /\ \A q \in Requests \ {r} : stage[q] \in {"insert", "commit"} => held[r] \cap held[q] = {}
  BY DEF CommitToken, TokenInv, HashesAreNew
<1> HIDE DEF new
<1>5. TypeOK'
  BY <1>1, <1>3 DEF TokenInv, TypeOK, Stages, schedule
<1>6. TokensHaveOwners'
  BY <1>1, <1>2, <1>3, <1>4 DEF TokenInv, TypeOK, TokensHaveOwners, Dropping, Locked, HashesOf
<1>7. HashesAreNew'
  BY <1>1, <1>3, <1>4 DEF TokenInv, TypeOK, HashesAreNew, HashesOf
<1>8. JobInv'
  BY <1>1, <1>3, <1>4 DEF TokenInv, TypeOK, JobInv, Dropping, HashesOf, TokensOf
<1>9. QED BY <1>5, <1>6, <1>7, <1>8 DEF TokenInv

LEMMA Inv_RemoveTokens ==
    ASSUME TokenInv, NEW r \in Requests, RemoveTokens(r)
    PROVE  TokenInv'
BY DEF TokenInv, TypeOK, TokensHaveOwners, HashesAreNew, JobInv, RemoveTokens, End, Stages,
       table, cron, schedule, HashesOf, TokensOf, Dropping, Locked, Owners

LEMMA Inv_TouchSession ==
    ASSUME TokenInv, NEW r \in Requests, TouchSession(r)
    PROVE  TokenInv'
BY DEF TokenInv, TypeOK, TokensHaveOwners, HashesAreNew, JobInv, TouchSession, End, Stages,
       table, cron, schedule, HashesOf, TokensOf, Dropping, Locked, Owners

LEMMA Inv_LockSession ==
    ASSUME TokenInv, NEW r \in Requests, LockSession(r)
    PROVE  TokenInv'
BY DEF TokenInv, TypeOK, TokensHaveOwners, HashesAreNew, JobInv, LockSession, KeyShared, Goto,
       End, Stages, table, cron, schedule, HashesOf, TokensOf, Dropping, Locked, Owners

LEMMA Inv_DropSession ==
    ASSUME TokenInv, NEW r \in Requests, DropSession(r)
    PROVE  TokenInv'
BY DEF TokenInv, TypeOK, TokensHaveOwners, HashesAreNew, JobInv, DropSession, End, Stages,
       table, cron, schedule, HashesOf, TokensOf, Dropping, Locked, Owners

LEMMA Inv_Fail ==
    ASSUME TokenInv, NEW r \in Requests, Fail(r)
    PROVE  TokenInv'
BY DEF TokenInv, TypeOK, TokensHaveOwners, HashesAreNew, JobInv, Fail, End, Stages, table,
       cron, schedule, HashesOf, TokensOf, Dropping, Locked, Owners

LEMMA Inv_Expire ==
    ASSUME TokenInv, NEW t \in tokens, Expire(t)
    PROVE  TokenInv'
<1> DEFINE u == [t EXCEPT !.expired = TRUE]
<1>1. /\ tokens' = (tokens \ {t}) \cup {u}
      /\ UNCHANGED <<sessions, idle, stage, owner, held, job, swept, condemned, doomed, listed, rollbacks, schedule>>
  BY DEF Expire, request, cron, schedule
<1>2. /\ u \in [hash : Hashes, owner : Owners, expired : BOOLEAN]
      /\ u.hash = t.hash /\ u.owner = t.owner /\ u.expired
  BY DEF TokenInv, TypeOK
<1> HIDE DEF u
<1>3. HashesOf(tokens') = HashesOf(tokens)
  BY <1>1, <1>2 DEF HashesOf
<1>4. \A s : HashesOf(TokensOf(s))' = HashesOf(TokensOf(s))
  BY <1>1, <1>2 DEF HashesOf, TokensOf
<1>5. TypeOK'
  BY <1>1, <1>2 DEF TokenInv, TypeOK, schedule
<1>6. TokensHaveOwners'
  BY <1>1, <1>2 DEF TokenInv, TokensHaveOwners, Dropping, Locked
<1>7. HashesAreNew'
  BY <1>1, <1>3 DEF TokenInv, HashesAreNew
<1>8. JobInv'
  BY <1>1, <1>2, <1>4 DEF TokenInv, JobInv, Dropping
<1>9. QED BY <1>5, <1>6, <1>7, <1>8 DEF TokenInv

LEMMA Inv_JobTokens ==
    ASSUME TokenInv, JobTokens
    PROVE  TokenInv'
BY DEF TokenInv, TypeOK, TokensHaveOwners, schedule, HashesAreNew, JobInv, JobTokens, table, request,
       HashesOf, TokensOf, Dropping, Locked, Owners

LEMMA Inv_JobScan ==
    ASSUME TokenInv, JobScan
    PROVE  TokenInv'
BY DEF TokenInv, TypeOK, TokensHaveOwners, schedule, HashesAreNew, JobInv, JobScan, Tokenless, table,
       request, HashesOf, TokensOf, Dropping, Locked, Owners

LEMMA Inv_JobDelete ==
    ASSUME TokenInv, NEW s \in Sessions, JobDelete(s)
    PROVE  TokenInv'
BY DEF TokenInv, TypeOK, TokensHaveOwners, schedule, HashesAreNew, JobInv, JobDelete, KeyShared, table,
       request, HashesOf, TokensOf, Dropping, Locked, Owners

LEMMA Inv_JobCommit ==
    ASSUME TokenInv, JobCommit
    PROVE  TokenInv'
BY DEF TokenInv, TypeOK, TokensHaveOwners, schedule, HashesAreNew, JobInv, JobCommit, JobOver, request,
       HashesOf, TokensOf, Dropping, Locked, Owners

LEMMA Inv_JobRollback ==
    ASSUME TokenInv, JobRollback
    PROVE  TokenInv'
BY TokenAssumption
DEF TokenInv, TypeOK, TokensHaveOwners, schedule, HashesAreNew, JobInv, JobRollback, JobOver, table,
    request, HashesOf, TokensOf, Dropping, Locked, Owners

LEMMA Inv_Migrate ==
    ASSUME TokenInv, Migrate
    PROVE  TokenInv'
<1>1. scheduled' = scheduled /\ migrated' = TRUE
  BY Zenon DEF Migrate, TokenInv, TypeOK
<1>2. scheduled' \in BOOLEAN /\ migrated' \in BOOLEAN
  BY <1>1, Zenon DEF TokenInv, TypeOK
<1>3. UNCHANGED <<tokens, sessions, idle, stage, owner, held, job, swept, condemned, doomed,
                  listed, rollbacks>>
  BY DEF Migrate, table, request
<1>4. QED
  BY <1>2, <1>3
  DEF TokenInv, TypeOK, TokensHaveOwners, HashesAreNew, JobInv, HashesOf, TokensOf, Dropping,
      Locked

LEMMA Inv_Init == Init => TokenInv
<1> SUFFICES ASSUME Init PROVE TokenInv
  OBVIOUS
<1>1. scheduled \in BOOLEAN /\ migrated \in BOOLEAN
  BY Zenon DEF Init
<1>2. TypeOK
  BY <1>1, TokenAssumption DEF Init, TypeOK, Stages
<1>3. TokensHaveOwners /\ HashesAreNew /\ JobInv
  BY DEF Init, TokensHaveOwners, HashesAreNew, JobInv, HashesOf, TokensOf, Dropping, Locked
<1>4. QED BY <1>2, <1>3 DEF TokenInv

LEMMA Inv_Find ==
    ASSUME TokenInv, NEW r \in Requests, NEW o \in Owners, NEW hashes \in SUBSET HashesOf(tokens),
           Begin(r, "remove", o, hashes)
    PROVE  TokenInv'
BY DEF TokenInv, TypeOK, TokensHaveOwners, HashesAreNew, JobInv, Begin, Busy, Stages, table,
       cron, schedule, HashesOf, TokensOf, Dropping, Locked, Owners

LEMMA Inv_FindSession ==
    ASSUME TokenInv, NEW r \in Requests, NEW s \in Sessions, NEW st \in {"touch", "drop"},
           FindSession(r, s, st)
    PROVE  TokenInv'
BY DEF TokenInv, TypeOK, TokensHaveOwners, HashesAreNew, JobInv, FindSession, Begin, Busy,
       Stages, table, cron, schedule, HashesOf, TokensOf, Dropping, Locked, Owners

LEMMA Inv_Start ==
    ASSUME TokenInv, NEW r \in Requests, Start(r)
    PROVE  TokenInv'
<1>1. CASE \E o \in Owners : FindTokens(r, o)
  <2>1. PICK o \in Owners : Begin(r, "remove", o, HashesOf(TokensOf(o)))
    BY <1>1 DEF FindTokens
  <2>2. HashesOf(TokensOf(o)) \in SUBSET HashesOf(tokens)
    BY DEF HashesOf, TokensOf
  <2>3. QED BY <2>1, <2>2, Inv_Find
<1>2. CASE \E o \in Owners, h \in Hashes : Create(r, o, h)
  BY <1>2, Inv_Create
<1>3. CASE \E s \in Sessions : FindSession(r, s, "touch") \/ FindSession(r, s, "drop")
  BY <1>3, Inv_FindSession
<1>4. CASE \E s \in Sessions, h \in Hashes : FindToken(r, s, h)
  <2>1. PICK s \in Sessions, h \in Hashes : FindToken(r, s, h)
    BY <1>4
  <2>2. s \in Owners /\ {h} \in SUBSET HashesOf(tokens)
    BY <2>1 DEF FindToken, HashesOf, TokensOf, Owners
  <2>3. QED BY <2>1, <2>2, Inv_Find DEF FindToken
<1>5. QED BY <1>1, <1>2, <1>3, <1>4 DEF Start

LEMMA Inv_Step ==
    ASSUME TokenInv, NEW r \in Requests, Step(r)
    PROVE  TokenInv'
BY Inv_InsertToken, Inv_CommitToken, Inv_RemoveTokens, Inv_TouchSession, Inv_LockSession,
   Inv_DropSession, Inv_Fail, Inv_JobRollback
DEF Step, DeadlockVictim

LEMMA Inv_Next == TokenInv /\ [Next]_vars => TokenInv'
<1> SUFFICES ASSUME TokenInv, [Next]_vars PROVE TokenInv'
  OBVIOUS
<1>1. CASE \E s \in Sessions : NewSession(s) \/ Age(s)
  BY <1>1, Inv_NewSession, Inv_Age
<1>2. CASE \E r \in Requests : Start(r) \/ Step(r) \/ Fail(r)
  BY <1>2, Inv_Start, Inv_Step, Inv_Fail
<1>3. CASE \E t \in tokens : Expire(t)
  BY <1>3, Inv_Expire
<1>4. CASE Job \/ JobRollback \/ Migrate
  BY <1>4, Inv_JobTokens, Inv_JobScan, Inv_JobDelete, Inv_JobCommit, Inv_JobRollback,
     Inv_Migrate
  DEF Job
<1>5. CASE UNCHANGED vars
  BY <1>5
  DEF TokenInv, TypeOK, TokensHaveOwners, HashesAreNew, JobInv, vars, table, request, cron, schedule,
      HashesOf, TokensOf, Dropping, Locked
<1>6. QED BY <1>1, <1>2, <1>3, <1>4, <1>5 DEF Next

\* The inductive invariant: refresh tokens have their session whatever deletes
\* it, hashes are never taken for another's, and what the weekly job deletes was
\* expired or unused when it looked (cron migration; both token stores).
THEOREM TokensHold == Spec => []TokenInv
BY Inv_Init, Inv_Next, PTL DEF Spec

-----------------------------------------------------------------------------
\* What goes in one step had its reason to.
LEMMA ForgottenStep ==
    TokenInv /\ [Next]_vars =>
        [/\ \A s \in sessions \ sessions' :
              \/ \E r \in Requests : By(r, "cascade") /\ owner[r] = s
              \/ JobEnds /\ s \in idle
         /\ \A t \in tokens : t.hash \notin HashesOf(tokens') =>
              \/ \E r \in Requests :
                    \/ By(r, "remove") /\ t.hash \in held[r]
                    \/ By(r, "cascade") /\ owner[r] = t.owner
              \/ JobEnds /\ (t.expired \/ (t.owner \notin sessions' /\ t.hash \notin listed))]_vars
<1> DEFINE SessionsGo == \A s \in sessions \ sessions' :
              \/ \E r \in Requests : By(r, "cascade") /\ owner[r] = s
              \/ JobEnds /\ s \in idle
           TokensGo == \A t \in tokens : t.hash \notin HashesOf(tokens') =>
              \/ \E r \in Requests :
                    \/ By(r, "remove") /\ t.hash \in held[r]
                    \/ By(r, "cascade") /\ owner[r] = t.owner
              \/ JobEnds /\ (t.expired \/ (t.owner \notin sessions' /\ t.hash \notin listed))
<1> SUFFICES ASSUME TokenInv, Next PROVE SessionsGo /\ TokensGo
  OBVIOUS
<1>1. ASSUME sessions \subseteq sessions', tokens \subseteq tokens' PROVE SessionsGo /\ TokensGo
  BY <1>1 DEF HashesOf
<1>2. ASSUME NEW r \in Requests, RemoveTokens(r) PROVE SessionsGo /\ TokensGo
  BY <1>2 DEF RemoveTokens, End, By, HashesOf, TokenInv, TypeOK
<1>3. ASSUME NEW r \in Requests, DropSession(r) PROVE SessionsGo /\ TokensGo
  BY <1>3 DEF DropSession, End, By, HashesOf, TokensOf, TokenInv, TypeOK
<1>4. ASSUME NEW t \in tokens, Expire(t) PROVE SessionsGo /\ TokensGo
  <2>1. [t EXCEPT !.expired = TRUE].hash = t.hash
    BY DEF TokenInv, TypeOK
  <2>2. HashesOf(tokens) \subseteq HashesOf(tokens') /\ sessions' = sessions
    BY <1>4, <2>1 DEF Expire, HashesOf
  <2>3. QED BY <2>2 DEF HashesOf
<1>5. ASSUME JobCommit PROVE SessionsGo /\ TokensGo
  <2>1. ASSUME NEW t \in tokens, t.hash \notin HashesOf(tokens')
        PROVE  t.hash \in swept \/ t.owner \in doomed
    BY <1>5, <2>1 DEF JobCommit, HashesOf
  <2>2. ASSUME NEW t \in tokens, t.owner \in doomed, t.hash \in listed PROVE t.hash \in swept
    BY <2>2 DEF TokenInv, JobInv, HashesOf, TokensOf
  <2>3. QED BY <1>5, <2>1, <2>2 DEF JobCommit, JobOver, JobEnds, TokenInv, JobInv
<1>6. ASSUME NEW r \in Requests, Start(r) \/ Step(r) \/ Fail(r) PROVE SessionsGo /\ TokensGo
  <2>1. CASE RemoveTokens(r) \/ DropSession(r)
    BY <2>1, <1>2, <1>3
  <2>2. CASE ~(RemoveTokens(r) \/ DropSession(r))
    BY <1>6, <2>2, <1>1
    DEF Start, Step, FindTokens, Create, FindSession, FindToken, Begin, InsertToken, CommitToken,
        TouchSession, LockSession, DeadlockVictim, Fail, JobRollback, table
  <2>3. QED BY <2>1, <2>2
<1>7. CASE (\E s \in Sessions : NewSession(s) \/ Age(s) \/ JobDelete(s)) \/ JobTokens \/ JobScan \/ JobRollback \/ Migrate
  BY <1>7, <1>1 DEF NewSession, Age, JobDelete, JobTokens, JobScan, JobRollback, Migrate, table
<1>8. QED BY <1>4, <1>5, <1>6, <1>7 DEF Next, Job

\* Sessions and tokens go for the reasons there are and no other, whoever
\* overlaps with the job (cron migration, lines 5-12).
THEOREM ForgottenOnly == Spec => OnlyTheForgottenGo
BY TokensHold, ForgottenStep, PTL DEF Spec, OnlyTheForgottenGo

-----------------------------------------------------------------------------
\* The schedule

\* A database whose pg_cron has no such job never gets it: the migration that is
\* to schedule it gives up when it finds none to unschedule (cron migration,
\* lines 5-12), and then nothing is ever cleaned up.
THEOREM NoScheduleNoJob == Spec => (~scheduled => [](~scheduled /\ job = "off"))
<1> DEFINE Off == ~scheduled /\ job = "off"
<1>1. Init /\ ~scheduled => Off
  BY DEF Init
<1>2. Off /\ [Next]_vars => Off'
  <2> SUFFICES ASSUME Off, [Next]_vars PROVE Off'
    OBVIOUS
  <2>1. CASE Migrate
    BY <2>1 DEF Migrate
  <2>2. CASE Job \/ JobRollback
    BY <2>2 DEF Job, JobTokens, JobScan, JobDelete, JobCommit, JobRollback, JobOver, schedule
  <2>3. ASSUME NEW r \in Requests, Step(r) PROVE Off'
    BY <2>3 DEF Step, InsertToken, CommitToken, RemoveTokens, TouchSession, LockSession,
                DropSession, DeadlockVictim, Fail, JobRollback, JobOver, cron, schedule
  <2>4. ASSUME NEW r \in Requests, Start(r) \/ Fail(r) PROVE Off'
    BY <2>4 DEF Start, FindTokens, Create, FindSession, FindToken, Begin, Fail, cron, schedule
  <2>5. CASE (\E s \in Sessions : NewSession(s) \/ Age(s)) \/ \E t \in tokens : Expire(t)
    BY <2>5 DEF NewSession, Age, Expire, cron, schedule
  <2>6. CASE UNCHANGED vars
    BY <2>6 DEF vars, cron, schedule
  <2> QED BY <2>1, <2>2, <2>3, <2>4, <2>5, <2>6 DEF Next
<1> QED BY <1>1, <1>2, PTL DEF Spec

=============================================================================
