---- MODULE ValueLimiter ----
(***************************************************************************)
(* ValueLimiter (internal/adapters/http/middlewares/ratelimit.go): a map   *)
(* from rate keys to golang.org/x/time/rate limiters under one mutex, and  *)
(* a goroutine that forgets the entries nobody has used for a TTL.  Allow  *)
(* and one sweep each hold the mutex from start to end: an action each.    *)
(*                                                                         *)
(* Times are ages in ticks.  An age stops growing at Ttl + 1: past that    *)
(* the code's comparison and a full bucket cannot tell the difference.     *)
(***************************************************************************)
EXTENDS Naturals

CONSTANTS
    Values,  \* rate keys
    Cost,    \* ticks it takes to earn one token (1 / limit)
    Burst,   \* burst
    Ttl      \* ttl, in ticks

VARIABLES
    known,       \* the keys of vl.entries
    credit,      \* [Values -> units left by the entry's last granted event]
    since,       \* [Values -> age of that event]
    unused,      \* [Values -> age of lastAccess]
    phase,       \* ticks since the ticker last fired
    fired,       \* the ticker's channel holds a tick
    stopping,    \* vl.stop is closed
    running,     \* the cleanup goroutine has not returned
    verdict      \* the last answer of Allow

entry == <<known, credit, since, unused>>
ticker == <<phase, fired>>
vars == <<entry, ticker, stopping, running, verdict>>

Full == Burst * Cost

ASSUME LimiterAssumption ==
    /\ Cost \in Nat \ {0}
    /\ Burst \in Nat \ {0}
    /\ Ttl \in Nat \ {0}

\* The constructor's caller keeps an entry at least as long as an empty bucket
\* takes to fill: limit 3/3600 per second, burst 3, ttl one hour.
ASSUME TtlAssumption == Ttl >= Burst * Cost

Lesser(a, b) == IF a < b THEN a ELSE b

Older(age) == Lesser(age + 1, Ttl + 1)

\* rate.Limiter: what an entry holds now.  A refused event leaves the limiter
\* as it was, a granted one records the level it leaves and the time.
Level(v) == Lesser(credit[v] + since[v], Full)

-----------------------------------------------------------------------------
Init ==
    /\ known = {}
    /\ credit = [v \in Values |-> Full]
    /\ since = [v \in Values |-> 0]
    /\ unused = [v \in Values |-> 0]
    /\ phase = 0
    /\ fired = FALSE
    /\ stopping = FALSE
    /\ running = TRUE
    /\ verdict = {}

\* Mutant of Tick: a timer instead of a ticker fires only once.
TickOnce ==
    /\ since' = [v \in Values |-> IF v \in known THEN Older(since[v]) ELSE since[v]]
    /\ unused' = [v \in Values |-> IF v \in known THEN Older(unused[v]) ELSE unused[v]]
    /\ IF running
       THEN /\ phase' = Lesser(phase + 1, Ttl)
            /\ fired' = (fired \/ (phase < Ttl /\ phase + 1 = Ttl))
       ELSE UNCHANGED ticker
    /\ UNCHANGED <<known, credit, stopping, running, verdict>>

\* Time passes.  A ticker that fires while its last tick is still unread drops
\* the new one.
Tick ==
    /\ since' = [v \in Values |-> IF v \in known THEN Older(since[v]) ELSE since[v]]
    /\ unused' = [v \in Values |-> IF v \in known THEN Older(unused[v]) ELSE unused[v]]
    /\ IF running
       THEN /\ phase' = (phase + 1) % Ttl
            /\ fired' = (fired \/ phase + 1 = Ttl)
       ELSE UNCHANGED ticker
    /\ UNCHANGED <<known, credit, stopping, running, verdict>>

\* Mutant of Allow: lastAccess is set when the entry is created and never again.
AllowKeepsLastAccess(v) ==
    LET allowed == Level(v) >= Cost IN
    /\ known' = known \cup {v}
    /\ credit' = [credit EXCEPT ![v] = IF allowed THEN Level(v) - Cost ELSE @]
    /\ since' = [since EXCEPT ![v] = IF allowed THEN 0 ELSE @]
    /\ verdict' = {[value |-> v, answer |-> IF allowed THEN "allow" ELSE "refuse"]}
    /\ UNCHANGED <<unused, ticker, stopping, running>>

\* A key without an entry has the fields of the new, full limiter it gets here.
Allow(v) ==
    LET allowed == Level(v) >= Cost IN
    /\ known' = known \cup {v}
    /\ credit' = [credit EXCEPT ![v] = IF allowed THEN Level(v) - Cost ELSE @]
    /\ since' = [since EXCEPT ![v] = IF allowed THEN 0 ELSE @]
    /\ unused' = [unused EXCEPT ![v] = 0]
    /\ verdict' = {[value |-> v, answer |-> IF allowed THEN "allow" ELSE "refuse"]}
    /\ UNCHANGED <<ticker, stopping, running>>

\* Mutant of Expired: an entry is forgotten before its bucket has filled up.
ExpiredEarly(v) == unused[v] > Ttl \div 2

Expired(v) == unused[v] > Ttl

\* One round of cleanup.
Sweep ==
    /\ running /\ fired
    /\ fired' = FALSE
    /\ known' = {v \in known : ~Expired(v)}
    /\ credit' = [v \in Values |-> IF v \in known' THEN credit[v] ELSE Full]
    /\ since' = [v \in Values |-> IF v \in known' THEN since[v] ELSE 0]
    /\ unused' = [v \in Values |-> IF v \in known' THEN unused[v] ELSE 0]
    /\ UNCHANGED <<phase, stopping, running, verdict>>

\* Stop closes the channel; a second call would panic, so it is called once.
Stop ==
    /\ ~stopping
    /\ stopping' = TRUE
    /\ UNCHANGED <<entry, ticker, running, verdict>>

\* Mutant of Return: the stop channel is polled only when a tick has come.
ReturnOnTick ==
    /\ running /\ stopping /\ fired
    /\ running' = FALSE
    /\ phase' = 0 /\ fired' = FALSE
    /\ UNCHANGED <<entry, stopping, verdict>>

\* The goroutine's select sees the closed channel.
Return ==
    /\ running /\ stopping
    /\ running' = FALSE
    /\ phase' = 0 /\ fired' = FALSE
    /\ UNCHANGED <<entry, stopping, verdict>>

Next ==
    \/ Tick
    \/ \E v \in Values : Allow(v)
    \/ Sweep
    \/ Stop
    \/ Return

Spec == Init /\ [][Next]_vars

\* Time goes on and the cleanup goroutine is scheduled.  With both a tick and a
\* closed stop channel ready, select picks either.
FairSpec == Spec /\ WF_vars(Tick) /\ WF_vars(Sweep) /\ WF_vars(Return)

-----------------------------------------------------------------------------
\* Properties

\* Every variable has its type; a key without an entry has a full limiter.
TypeOK ==
    /\ known \subseteq Values
    /\ credit \in [Values -> 0..Full]
    /\ since \in [Values -> 0..(Ttl + 1)]
    /\ unused \in [Values -> 0..(Ttl + 1)]
    /\ phase \in 0..(Ttl - 1)
    /\ fired \in BOOLEAN /\ stopping \in BOOLEAN /\ running \in BOOLEAN
    /\ \A v \in Values \ known : credit[v] = Full /\ since[v] = 0

\* lastAccess is never older than the last event the entry's limiter granted,
\* so an entry unused for a TTL has had that long to fill up.
UnusedIsYounger == \A v \in known : unused[v] <= since[v]

\* With the types it is inductive.
LimiterInv == TypeOK /\ UnusedIsYounger

\* Forgetting entries cannot be observed: every decision is the one a bucket
\* that is never forgotten would take.  Waiting for the eviction of one's entry
\* does not buy a single request.
Bucket == INSTANCE TokenBucket WITH level <- [v \in Values |-> Level(v)]

BucketSpec == Bucket!Spec

\* The map does not grow with every address ever seen: while the limiter runs,
\* an entry past its TTL is forgotten unless its key is used again.
ExpiredForgotten ==
    \A v \in Values : (v \in known /\ Expired(v)) ~> (v \notin known \/ unused[v] = 0 \/ stopping)

\* After Stop the cleanup goroutine returns, even between two ticks.
CleanupReturns == stopping ~> ~running

=============================================================================
