---- MODULE InMemoryStateStore ----
(***************************************************************************)
(* inMemoryStateStore (internal/core/store/in_memory_state_store.go): a    *)
(* sync.Map of states and a goroutine that sweeps out expired ones.        *)
(*                                                                         *)
(*   VerifyAndDelete  LoadAndDelete - look at the clock                    *)
(*   cleanup          read the clock - Range: Delete one entry after       *)
(*                    another, by key                                      *)
(*   Shutdown         close stopCh once - wait for the goroutine           *)
(***************************************************************************)
EXTENDS StateStoreData, Naturals

CONSTANT Expiry  \* ticks a state lives

ASSUME ExpiryAssumption == Expiry \in Nat

VARIABLES
    data,      \* the states in the map
    age,       \* [States -> ticks since it was stored, up to Expiry + 1]
    stored,    \* the states ever stored
    spent,     \* history: the states redeemed
    asking,    \* [Callers -> the state it presents, or Nothing]
    loaded,    \* callers that hold the entry they took out of the map
    answer,    \* [Callers -> the last answer]
    doomed,    \* states cleanup found expired and has still to delete
    cleaner,   \* the goroutine: select, sweep or returned
    shutdown   \* Shutdown: no, wait or returned

vars == <<data, age, stored, spent, asking, loaded, answer, doomed, cleaner, shutdown>>
request == <<asking, loaded, answer>>
sweeper == <<doomed, cleaner, shutdown>>

Expired(s) == age[s] > Expiry

-----------------------------------------------------------------------------
Init ==
    /\ data = {} /\ stored = {} /\ spent = {}
    /\ age = [s \in States |-> 0]
    /\ asking = [c \in Callers |-> Nothing]
    /\ loaded = {}
    /\ answer = [c \in Callers |-> "None"]
    /\ doomed = {} /\ cleaner = "select" /\ shutdown = "no"

Tick ==
    /\ age' = [s \in States |-> IF s \in stored /\ ~Expired(s) THEN age[s] + 1 ELSE age[s]]
    /\ UNCHANGED <<data, stored, spent, request, sweeper>>

\* Store, at the start of a login: the state is a new random one.
Store(s) ==
    /\ s \notin stored
    /\ data' = data \cup {s}
    /\ stored' = stored \cup {s}
    /\ UNCHANGED <<age, spent, request, sweeper>>

Ask(c, s) ==
    /\ asking[c] = Nothing
    /\ asking' = [asking EXCEPT ![c] = s]
    /\ answer' = [answer EXCEPT ![c] = "None"]
    /\ UNCHANGED <<data, age, stored, spent, loaded, sweeper>>

Answer(c, a) ==
    /\ asking' = [asking EXCEPT ![c] = Nothing]
    /\ loaded' = loaded \ {c}
    /\ answer' = [answer EXCEPT ![c] = a]

\* Mutant of Take: Load, and a Delete left for later.
TakeLoadsOnly(c) ==
    /\ asking[c] # Nothing /\ c \notin loaded
    /\ \/ /\ asking[c] \notin data
          /\ Answer(c, "Invalid")
          /\ UNCHANGED data
       \/ /\ asking[c] \in data
          /\ loaded' = loaded \cup {c}
          /\ UNCHANGED <<data, asking, answer>>
    /\ UNCHANGED <<age, stored, spent, sweeper>>

\* LoadAndDelete.
Take(c) ==
    /\ asking[c] # Nothing /\ c \notin loaded
    /\ \/ /\ asking[c] \notin data
          /\ Answer(c, "Invalid")
          /\ UNCHANGED data
       \/ /\ asking[c] \in data
          /\ data' = data \ {asking[c]}
          /\ loaded' = loaded \cup {c}
          /\ UNCHANGED <<asking, answer>>
    /\ UNCHANGED <<age, stored, spent, sweeper>>

\* The look at the clock.
Check(c) ==
    /\ c \in loaded
    /\ IF Expired(asking[c]) THEN Answer(c, "Invalid") /\ UNCHANGED spent
       ELSE Answer(c, "OK") /\ spent' = spent \cup {asking[c]}
    /\ UNCHANGED <<data, age, stored, sweeper>>

-----------------------------------------------------------------------------
\* Mutant of SweepStart: an entry is dropped in the last tick of its life.
SweepStartEarly ==
    /\ cleaner = "select"
    /\ doomed' = {s \in data : age[s] >= Expiry}
    /\ cleaner' = "sweep"
    /\ UNCHANGED <<data, age, stored, spent, request, shutdown>>

\* The ticker fires, cleanup reads the clock once.
SweepStart ==
    /\ cleaner = "select"
    /\ doomed' = {s \in data : Expired(s)}
    /\ cleaner' = "sweep"
    /\ UNCHANGED <<data, age, stored, spent, request, shutdown>>

SweepDelete(s) ==
    /\ cleaner = "sweep" /\ s \in doomed
    /\ data' = data \ {s}
    /\ doomed' = doomed \ {s}
    /\ UNCHANGED <<age, stored, spent, request, cleaner, shutdown>>

\* Mutant of SweepEnd: the goroutine cleans up once.
SweepEndReturns ==
    /\ cleaner = "sweep" /\ doomed = {}
    /\ cleaner' = "returned"
    /\ UNCHANGED <<data, age, stored, spent, request, doomed, shutdown>>

SweepEnd ==
    /\ cleaner = "sweep" /\ doomed = {}
    /\ cleaner' = "select"
    /\ UNCHANGED <<data, age, stored, spent, request, doomed, shutdown>>

\* Mutant of CleanerReturns: the goroutine outlives Shutdown.
CleanerStays ==
    /\ cleaner = "select" /\ shutdown = "returned"
    /\ cleaner' = "returned"
    /\ UNCHANGED <<data, age, stored, spent, request, doomed, shutdown>>

CleanerReturns ==
    /\ cleaner = "select" /\ shutdown # "no"
    /\ cleaner' = "returned"
    /\ UNCHANGED <<data, age, stored, spent, request, doomed, shutdown>>

\* once.Do(close): a second Shutdown changes nothing and waits like the first.
ShutdownCall ==
    /\ shutdown = "no"
    /\ shutdown' = "wait"
    /\ UNCHANGED <<data, age, stored, spent, request, doomed, cleaner>>

ShutdownReturn ==
    /\ shutdown = "wait" /\ cleaner = "returned"
    /\ shutdown' = "returned"
    /\ UNCHANGED <<data, age, stored, spent, request, doomed, cleaner>>

\* The process dies and starts again with an empty map; the logins under way
\* have to be started over, as if their states had expired.
Restart ==
    /\ data' = {}
    /\ age' = [s \in States |-> IF s \in stored THEN Expiry + 1 ELSE age[s]]
    /\ asking' = [c \in Callers |-> Nothing]
    /\ loaded' = {}
    /\ answer' = [c \in Callers |-> IF asking[c] = Nothing THEN answer[c] ELSE "Error"]
    /\ doomed' = {} /\ cleaner' = "select" /\ shutdown' = "no"
    /\ UNCHANGED <<stored, spent>>

Clean == SweepStart \/ (\E s \in States : SweepDelete(s)) \/ SweepEnd \/ CleanerReturns

Next ==
    \/ Tick
    \/ \E s \in States : Store(s) \/ \E c \in Callers : Ask(c, s)
    \/ \E c \in Callers : Take(c) \/ Check(c)
    \/ Clean
    \/ ShutdownCall \/ ShutdownReturn
    \/ Restart

Spec == Init /\ [][Next]_vars

\* The ticker fires and the goroutine is scheduled.  Once stopCh is closed and
\* a tick is waiting too, select picks either, but not the tick for ever.
FairSpec ==
    /\ Spec
    /\ WF_vars(Clean) /\ SF_vars(CleanerReturns) /\ WF_vars(ShutdownReturn)

-----------------------------------------------------------------------------
\* Properties

\* Every variable has its type.
TypeOK ==
    /\ data \subseteq States /\ stored \subseteq States /\ spent \subseteq States
    /\ age \in [States -> 0..(Expiry + 1)]
    /\ asking \in [Callers -> States \cup {Nothing}]
    /\ loaded \subseteq Callers
    /\ answer \in [Callers -> {"None", "OK", "Invalid", "Error"}]
    /\ doomed \subseteq States
    /\ cleaner \in {"select", "sweep", "returned"}
    /\ shutdown \in {"no", "wait", "returned"}

Status(s) ==
    IF s \notin stored THEN "new"
    ELSE IF s \in spent THEN "spent"
    ELSE IF Expired(s) THEN "gone" ELSE "live"

\* The map, its clock checks and its sweeps implement single use: one login per
\* state, never after it expired, and no live state lost to a sweep or refused
\* unless another callback has it in hand.
Promise == INSTANCE SingleUse WITH status <- [s \in States |-> Status(s)]

PromiseSpec == Promise!Spec

\* Where a state that is still good is: in the map, or in the hands of the one
\* caller who took it out.
InHand(s) == {c \in loaded : asking[c] = s}

EntryInv(s) ==
    /\ s \notin stored => age[s] = 0 /\ s \notin spent
    /\ s \in data => s \in stored /\ s \notin spent /\ InHand(s) = {}
    /\ InHand(s) # {} => s \in stored /\ s \notin spent
    /\ \A c, d \in InHand(s) : c = d
    /\ s \in stored /\ s \notin spent /\ ~Expired(s) => s \in data \/ InHand(s) # {}

\* A sweep only ever deletes what has expired.
SweepInv ==
    /\ \A s \in doomed : s \in stored /\ Expired(s)
    /\ cleaner # "sweep" => doomed = {}

LoadedInv == \A c \in loaded : asking[c] # Nothing

\* When Shutdown returns no sweep is left running.
ShutdownWaits == shutdown = "returned" => cleaner = "returned" /\ doomed = {}

\* A state that is still good is in the map or in one caller's hands, a sweep
\* deletes only what has expired, and Shutdown outlasts it.  Inductive.
StoreInv ==
    /\ TypeOK
    /\ \A s \in States : EntryInv(s)
    /\ SweepInv
    /\ LoadedInv
    /\ ShutdownWaits

\* The map does not keep abandoned logins: an expired state is taken out.
ExpiredForgotten ==
    \A s \in States : (s \in data /\ Expired(s)) ~> (s \notin data \/ shutdown # "no")

\* Shutdown returns, in the middle of a sweep or not, unless the process dies.
ShutdownEnds == (shutdown = "wait") ~> (shutdown # "wait")

=============================================================================
