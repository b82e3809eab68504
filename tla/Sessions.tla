---- MODULE Sessions ----
(***************************************************************************)
(* Sessions: the rows of the sessions table (adapters/auth/                *)
(* session_store.go) and the cache of them that every request of a signed- *)
(* in user goes through (core/cache/cache.go, adapters/auth/               *)
(* cache_adapter.go).  authkit, which is outside the repository, calls     *)
(* both; in which order a logout deletes the row and the cache entry is    *)
(* left open, so here they are independent calls.                          *)
(*                                                                         *)
(*   Get      load the entry - look at the clock - (delete an expired one) *)
(*            - the loader reads the row - store what it found             *)
(*   Touch    find the row - write it back                                 *)
(*   Drop     SessionStore.Delete: find the row - delete it by id          *)
(*   Evict    Cache.Delete                                                 *)
(*   cleanup  read the clock - Range: look at one entry, delete it by key  *)
(***************************************************************************)
EXTENDS Naturals

CONSTANTS
    Sessions, Workers,  \* session ids, requests in flight
    Nobody,             \* no session
    Expiry,             \* how long an entry lives, in ticks
    Flight,             \* how long a loader may take: the request timeout
    MaxTime             \* bound: the clock stops here

ASSUME SessionsAssumption ==
    Expiry \in Nat /\ Flight \in Nat /\ MaxTime \in Nat /\ Nobody \notin Sessions

VARIABLES
    now,        \* the clock
    created,    \* the session ids ever created
    rows,       \* the ids in the sessions table
    cached,     \* the keys of the cache
    expires,    \* [Sessions -> expiresAt of its entry, 0 without one]
    stage,      \* [Workers -> what the request does next]
    want,       \* [Workers -> the session it is about]
    held,       \* [Workers -> expiresAt of the entry it loaded]
    readAt,     \* [Workers -> when its loader read the row]
    cleaner,    \* the goroutine: select, range or returned
    sweepAt,    \* the time cleanup read
    left,       \* keys Range has still to visit
    doomed,     \* the key it found expired and deletes next, or Nobody
    shutdown,   \* Shutdown: no, wait or returned
    lastSeen    \* history: when a session's row was last in the table

table == <<created, rows, lastSeen>>
entries == <<cached, expires>>
requests == <<stage, want, held, readAt>>
sweeper == <<cleaner, sweepAt, left, doomed, shutdown>>
svars == <<now, table, entries, requests, sweeper>>

Stages == {"idle", "held", "expired", "miss", "store", "touch", "drop"}

-----------------------------------------------------------------------------
SInit ==
    /\ now = 0
    /\ created = {} /\ rows = {} /\ lastSeen = [s \in Sessions |-> 0]
    /\ cached = {} /\ expires = [s \in Sessions |-> 0]
    /\ stage = [w \in Workers |-> "idle"]
    /\ want = [w \in Workers |-> Nobody]
    /\ held = [w \in Workers |-> 0]
    /\ readAt = [w \in Workers |-> 0]
    /\ cleaner = "select" /\ sweepAt = 0 /\ left = {} /\ doomed = Nobody
    /\ shutdown = "no"

\* A request that its timeout has cancelled gets no row from its loader; one
\* that has its row stores it before the timeout.
STick ==
    /\ now < MaxTime
    /\ \A w \in Workers : stage[w] = "store" => now < readAt[w] + Flight
    /\ now' = now + 1
    /\ lastSeen' = [s \in Sessions |-> IF s \in rows THEN now + 1 ELSE lastSeen[s]]
    /\ UNCHANGED <<created, rows, entries, requests, sweeper>>

Goto(w, st) == stage' = [stage EXCEPT ![w] = st]

\* The request returns, and its locals go with it.
Finish(w) ==
    /\ Goto(w, "idle")
    /\ want' = [want EXCEPT ![w] = Nobody]
    /\ held' = [held EXCEPT ![w] = 0]
    /\ readAt' = [readAt EXCEPT ![w] = 0]

Uncache(s) ==
    /\ cached' = cached \ {s}
    /\ expires' = [expires EXCEPT ![s] = 0]

-----------------------------------------------------------------------------
\* Cache.Get

\* getValue's Load.
Get(w, s) ==
    /\ stage[w] = "idle"
    /\ want' = [want EXCEPT ![w] = s]
    /\ \/ /\ s \notin cached
          /\ Goto(w, "miss")
          /\ UNCHANGED held
       \/ /\ s \in cached
          /\ Goto(w, "held")
          /\ held' = [held EXCEPT ![w] = expires[s]]
    /\ UNCHANGED <<now, table, entries, readAt, sweeper>>

\* Mutant of Check: an entry is served however old it is.
CheckNothing(w) ==
    /\ stage[w] = "held"
    /\ Finish(w)
    /\ UNCHANGED <<now, table, entries, sweeper>>

\* The look at the clock: time.Now().After(entry.expiresAt).
Check(w) ==
    /\ stage[w] = "held"
    /\ \/ /\ now > held[w]
          /\ Goto(w, "expired")
          /\ UNCHANGED <<want, held, readAt>>
       \/ /\ now <= held[w]
          /\ Finish(w)
    /\ UNCHANGED <<now, table, entries, sweeper>>

\* The expired entry goes, by key: a newer one goes with it.
Forget(w) ==
    /\ stage[w] = "expired"
    /\ Uncache(want[w])
    /\ Goto(w, "miss")
    /\ UNCHANGED <<now, table, want, held, readAt, sweeper>>

\* Mutant of Load: the loader's verdict is not looked at.
LoadAnything(w) ==
    /\ stage[w] = "miss"
    /\ Goto(w, "store")
    /\ readAt' = [readAt EXCEPT ![w] = now]
    /\ UNCHANGED <<now, table, entries, want, held, sweeper>>

\* The fallback: the loader reads the row.
Load(w) ==
    /\ stage[w] = "miss"
    /\ \/ /\ want[w] \in rows
          /\ Goto(w, "store")
          /\ readAt' = [readAt EXCEPT ![w] = now]
          /\ UNCHANGED <<want, held>>
       \/ /\ want[w] \notin rows
          /\ Finish(w)
    /\ UNCHANGED <<now, table, entries, sweeper>>

\* The loader fails: its query does, or the request has timed out.
LoadFails(w) ==
    /\ stage[w] = "miss"
    /\ Finish(w)
    /\ UNCHANGED <<now, table, entries, sweeper>>

\* Mutant of StoreEntry: an entry lives one tick too long.
StoreEntryLonger(w) ==
    /\ stage[w] = "store"
    /\ cached' = cached \cup {want[w]}
    /\ expires' = [expires EXCEPT ![want[w]] = now + Expiry + 1]
    /\ Finish(w)
    /\ UNCHANGED <<now, table, sweeper>>

\* What the loader found is stored, whatever happened to it since.
StoreEntry(w) ==
    /\ stage[w] = "store"
    /\ cached' = cached \cup {want[w]}
    /\ expires' = [expires EXCEPT ![want[w]] = now + Expiry]
    /\ Finish(w)
    /\ UNCHANGED <<now, table, sweeper>>

\* Cache.Delete.
Evict(s) ==
    /\ s \in cached
    /\ Uncache(s)
    /\ UNCHANGED <<now, table, requests, sweeper>>

-----------------------------------------------------------------------------
\* The session store

Create(s) ==
    /\ s \notin created
    /\ created' = created \cup {s}
    /\ rows' = rows \cup {s}
    /\ lastSeen' = [lastSeen EXCEPT ![s] = now]
    /\ UNCHANGED <<now, entries, requests, sweeper>>

\* findByID of Touch and of Delete; without a row both are done.
Find(w, s, next) ==
    /\ stage[w] = "idle"
    /\ s \in rows
    /\ Goto(w, next)
    /\ want' = [want EXCEPT ![w] = s]
    /\ UNCHANGED <<now, table, entries, held, readAt, sweeper>>

\* Update by primary key.  When another request has deleted the row, go-crud
\* may do nothing or put the row back: both are possible here.
TouchWrite(w) ==
    /\ stage[w] = "touch"
    /\ \/ UNCHANGED <<rows, lastSeen>>
       \/ /\ want[w] \notin rows
          /\ rows' = rows \cup {want[w]}
          /\ lastSeen' = [lastSeen EXCEPT ![want[w]] = now]
    /\ Finish(w)
    /\ UNCHANGED <<now, created, entries, sweeper>>

Drop(w) ==
    /\ stage[w] = "drop"
    /\ rows' = rows \ {want[w]}
    /\ Finish(w)
    /\ UNCHANGED <<now, created, lastSeen, entries, sweeper>>

\* The weekly job deletes sessions without tokens, and knows of no cache.
Cron(s) ==
    /\ s \in rows
    /\ rows' = rows \ {s}
    /\ UNCHANGED <<now, created, lastSeen, entries, requests, sweeper>>

-----------------------------------------------------------------------------
\* The cleanup goroutine

SweepStart ==
    /\ cleaner = "select"
    /\ cleaner' = "range" /\ sweepAt' = now /\ left' = Sessions
    /\ UNCHANGED <<now, table, entries, requests, doomed, shutdown>>

\* Mutant of SweepVisit: the comparison is the other way round.
SweepVisitLive(s) ==
    /\ cleaner = "range" /\ doomed = Nobody /\ s \in left
    /\ left' = left \ {s}
    /\ doomed' = IF s \in cached /\ ~(sweepAt > expires[s]) THEN s ELSE Nobody
    /\ UNCHANGED <<now, table, entries, requests, cleaner, sweepAt, shutdown>>

SweepVisit(s) ==
    /\ cleaner = "range" /\ doomed = Nobody /\ s \in left
    /\ left' = left \ {s}
    /\ doomed' = IF s \in cached /\ sweepAt > expires[s] THEN s ELSE Nobody
    /\ UNCHANGED <<now, table, entries, requests, cleaner, sweepAt, shutdown>>

SweepDelete ==
    /\ cleaner = "range" /\ doomed # Nobody
    /\ Uncache(doomed)
    /\ doomed' = Nobody
    /\ UNCHANGED <<now, table, requests, cleaner, sweepAt, left, shutdown>>

SweepEnd ==
    /\ cleaner = "range" /\ doomed = Nobody /\ left = {}
    /\ cleaner' = "select" /\ sweepAt' = 0
    /\ UNCHANGED <<now, table, entries, requests, left, doomed, shutdown>>

CleanerReturns ==
    /\ cleaner = "select" /\ shutdown # "no"
    /\ cleaner' = "returned"
    /\ UNCHANGED <<now, table, entries, requests, sweepAt, left, doomed, shutdown>>

ShutdownCall ==
    /\ shutdown = "no"
    /\ shutdown' = "wait"
    /\ UNCHANGED <<now, table, entries, requests, cleaner, sweepAt, left, doomed>>

ShutdownReturn ==
    /\ shutdown = "wait" /\ cleaner = "returned"
    /\ shutdown' = "returned"
    /\ UNCHANGED <<now, table, entries, requests, cleaner, sweepAt, left, doomed>>

Cleanup ==
    \/ SweepStart \/ (\E s \in Sessions : SweepVisit(s)) \/ SweepDelete
    \/ SweepEnd \/ CleanerReturns

Request(w) ==
    \/ Check(w) \/ Forget(w) \/ Load(w) \/ LoadFails(w) \/ StoreEntry(w)
    \/ TouchWrite(w) \/ Drop(w)

SNext ==
    \/ STick
    \/ \E s \in Sessions : Create(s) \/ Evict(s) \/ Cron(s)
    \/ \E w \in Workers, s \in Sessions :
         Get(w, s) \/ Find(w, s, "touch") \/ Find(w, s, "drop")
    \/ \E w \in Workers : Request(w)
    \/ Cleanup \/ ShutdownCall \/ ShutdownReturn

SSpec == SInit /\ [][SNext]_svars

\* The ticker fires every minute and the goroutine is scheduled.
FairSSpec == SSpec /\ WF_svars(Cleanup)

-----------------------------------------------------------------------------
\* Properties

STypeOK ==
    /\ now \in Nat
    /\ created \subseteq Sessions /\ rows \subseteq created
    /\ cached \subseteq Sessions
    /\ expires \in [Sessions -> Nat] /\ lastSeen \in [Sessions -> Nat]
    /\ stage \in [Workers -> Stages]
    /\ want \in [Workers -> Sessions \cup {Nobody}]
    /\ held \in [Workers -> Nat] /\ readAt \in [Workers -> Nat]
    /\ cleaner \in {"select", "range", "returned"}
    /\ sweepAt \in Nat /\ left \subseteq Sessions
    /\ doomed \in Sessions \cup {Nobody}
    /\ shutdown \in {"no", "wait", "returned"}

\* The longest a request can be served a session after its row has gone.
Staleness == Flight + Expiry

\* Whatever a request or the cache holds of a session is as old as the last
\* moment the session had a row, plus what it took to get there.
AgeInv ==
    /\ \A s \in created : lastSeen[s] <= now /\ (s \in rows => lastSeen[s] = now)
    /\ \A s \in cached : s \in created /\ expires[s] <= lastSeen[s] + Staleness
    /\ \A w \in Workers : stage[w] # "idle" =>
         /\ want[w] \in Sessions
         /\ stage[w] \in {"held", "store", "touch", "drop"} => want[w] \in created
         /\ stage[w] = "held" => held[w] <= lastSeen[want[w]] + Staleness
         /\ stage[w] = "store" =>
              readAt[w] <= lastSeen[want[w]] /\ now <= readAt[w] + Flight

SessionInv == STypeOK /\ AgeInv

\* Get answers yes.
Grants(w) == stage[w] \in {"held", "store"} /\ stage'[w] = "idle"

\* No request is let in for a session whose row went longer ago than an entry
\* lives and a loader takes, although logout's Evict can come too early for a
\* loader in flight, and the job that deletes rows never evicts.
StaleBounded ==
    [][\A w \in Workers : Grants(w) => now <= lastSeen[want[w]] + Staleness]_svars

\* Nothing is left of the session: no row, no entry, no request that has
\* either in hand.
Gone(s) ==
    /\ s \in created \ rows /\ s \notin cached
    /\ \A w \in Workers : want[w] = s => stage[w] \notin {"held", "store", "touch"}

\* A session of which nothing is left never comes back.
GoneForGood == [][\A s \in Sessions : Gone(s) => Gone(s)']_svars

\* The cache does not keep the entries of sessions nobody asks for again.
EntriesForgotten ==
    \A s \in Sessions :
      (s \in cached /\ now > expires[s]) ~>
        (s \notin cached \/ now <= expires[s] \/ shutdown # "no")
=============================================================================
