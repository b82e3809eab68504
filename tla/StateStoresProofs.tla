---- MODULE StateStoresProofs ----
(***************************************************************************)
(* Theorems about the two state stores, for any number of states and       *)
(* callers and any lifetime of a state.                                    *)
(***************************************************************************)
EXTENDS StateStores, TLAPS

USE StoreAssumption, ExpiryAssumption

\* One step keeps every live state in the map or in one caller's hands.
LEMMA StoreStep == StoreInv /\ [Next]_vars => StoreInv'
<1> SUFFICES ASSUME StoreInv, [Next]_vars PROVE StoreInv'
  OBVIOUS
<1> USE DEF StoreInv, TypeOK, EntryInv, InHand, SweepInv, LoadedInv, ShutdownWaits, Expired
<1>1. CASE Tick
  BY <1>1 DEF Tick, request, sweeper
<1>2. ASSUME NEW s \in States, Store(s) PROVE StoreInv'
  BY <1>2 DEF Store, request, sweeper
<1>3. ASSUME NEW s \in States, NEW c \in Callers, Ask(c, s) PROVE StoreInv'
  <2>1. c \notin loaded
    BY <1>3 DEF Ask
  <2>2. \A d \in loaded : asking'[d] = asking[d]
    BY <1>3, <2>1 DEF Ask
  <2> QED BY <1>3, <2>2 DEF Ask, sweeper
<1>4. ASSUME NEW c \in Callers, Take(c) PROVE StoreInv'
  BY <1>4 DEF Take, Answer, sweeper
<1>5. ASSUME NEW c \in Callers, Check(c) PROVE StoreInv'
  BY <1>5 DEF Check, Answer, sweeper
<1>6. CASE SweepStart
  BY <1>6 DEF SweepStart, request
<1>7. ASSUME NEW s \in States, SweepDelete(s) PROVE StoreInv'
  BY <1>7 DEF SweepDelete, request
<1>8. CASE SweepEnd \/ CleanerReturns \/ ShutdownCall \/ ShutdownReturn
  BY <1>8 DEF SweepEnd, CleanerReturns, ShutdownCall, ShutdownReturn, request
<1>9. CASE Restart
  BY <1>9 DEF Restart
<1>10. CASE UNCHANGED vars
  BY <1>10 DEF vars
<1> QED BY <1>1, <1>2, <1>3, <1>4, <1>5, <1>6, <1>7, <1>8, <1>9, <1>10 DEF Next, Clean

\* A live state is in the map or in one caller's hands, and sweeps only delete
\* what has expired.
THEOREM StoreHolds == Spec => []StoreInv
<1>1. Init => StoreInv
  BY DEF Init, StoreInv, TypeOK, EntryInv, InHand, SweepInv, LoadedInv, ShutdownWaits, Expired
<1> QED BY <1>1, StoreStep, PTL DEF Spec

\* Shutdown does not return before the cleanup goroutine has.
THEOREM ShutdownComplete == Spec => []ShutdownWaits
<1>1. Init => ShutdownWaits
  BY DEF Init, ShutdownWaits
<1>2. StoreInv /\ ShutdownWaits /\ [Next]_vars => ShutdownWaits'
  <2> SUFFICES ASSUME StoreInv, ShutdownWaits, [Next]_vars PROVE ShutdownWaits'
    OBVIOUS
  <2> USE DEF ShutdownWaits, StoreInv, SweepInv
  <2>1. CASE SweepStart \/ SweepEnd \/ CleanerReturns \/ ShutdownCall \/ ShutdownReturn \/ Restart
    BY <2>1 DEF SweepStart, SweepEnd, CleanerReturns, ShutdownCall, ShutdownReturn, Restart
  <2>2. ASSUME NEW s \in States, SweepDelete(s) PROVE ShutdownWaits'
    BY <2>2 DEF SweepDelete
  <2>3. CASE UNCHANGED sweeper
    BY <2>3 DEF sweeper
  <2>4. CASE Tick \/ \E s \in States : Store(s) \/ \E c \in Callers : Ask(c, s)
    BY <2>3, <2>4 DEF Tick, Store, Ask
  <2>5. CASE \E c \in Callers : Take(c) \/ Check(c)
    BY <2>3, <2>5 DEF Take, Check
  <2>6. CASE UNCHANGED vars
    BY <2>3, <2>6 DEF vars, sweeper
  <2> QED BY <2>1, <2>2, <2>4, <2>5, <2>6 DEF Next, Clean
<1> QED BY <1>1, <1>2, StoreHolds, PTL DEF Spec

\* The map, its clock checks and its sweeps implement single use.
THEOREM InMemoryImplementsSingleUse == Spec => PromiseSpec
<1>1. Init => Promise!Init
  BY DEF Init, Promise!Init, Status
<1>2. StoreInv /\ StoreInv' /\ [Next]_vars => [Promise!Next]_(Promise!vars)
  <2> SUFFICES ASSUME StoreInv, StoreInv', [Next]_vars
               PROVE  Promise!Next \/ UNCHANGED Promise!vars
    BY DEF Promise!vars
  <2> USE DEF StoreInv, TypeOK
  <2>0. ASSUME UNCHANGED <<age, stored, spent>>
        PROVE  [s \in States |-> Status(s)]' = [s \in States |-> Status(s)]
    BY <2>0 DEF Status, Expired
  <2>1. CASE UNCHANGED <<age, stored, spent, asking, answer>>
    BY <2>0, <2>1 DEF Promise!vars
  <2>2. ASSUME \A s \in States : age'[s] = age[s] \/ (s \in stored /\ age'[s] \in Nat /\ age'[s] >= age[s]),
               UNCHANGED <<stored, spent>>
        PROVE  Promise!Fade
    <3> DEFINE Gone == {s \in States : Status(s) = "live" /\ age'[s] > Expiry}
    <3>1. Gone \in SUBSET {s \in States : [u \in States |-> Status(u)][s] = "live"}
      OBVIOUS
    <3>2. ASSUME NEW s \in States
          PROVE  Status(s)' = IF s \in Gone THEN "gone" ELSE Status(s)
      BY <2>2 DEF Status, Expired
    <3>3. [s \in States |-> Status(s)]'
            = [s \in States |-> IF s \in Gone THEN "gone" ELSE [u \in States |-> Status(u)][s]]
      BY <3>2
    <3> QED BY <3>1, <3>3 DEF Promise!Fade
  <2>3. CASE Tick
    <3>1. Promise!Fade
      BY <2>2, <2>3 DEF Tick, Expired
    <3> QED BY <2>3, <3>1 DEF Tick, request, Promise!Lapse, Promise!Next
  <2>4. CASE Restart
    <3>1. Promise!Fade
      BY <2>2, <2>4 DEF Restart
    <3> QED BY <2>4, <3>1 DEF Restart, Promise!Restart, Promise!Next
  <2>5. ASSUME NEW s \in States, Store(s) PROVE Promise!Store(s)
    <3>1. s \notin spent /\ age[s] = 0 /\ ~Expired(s)
      BY <2>5 DEF Store, EntryInv, Expired
    <3>2. Status(s) = "new" /\ Status(s)' = "live"
      BY <2>5, <3>1 DEF Store, Status, Expired
    <3>3. \A t \in States : t # s => Status(t)' = Status(t)
      BY <2>5 DEF Store, Status, Expired
    <3> QED BY <2>5, <3>2, <3>3 DEF Store, request, Promise!Store
  <2>6. ASSUME NEW s \in States, NEW c \in Callers, Ask(c, s) PROVE Promise!Ask(c, s)
    BY <2>0, <2>6 DEF Ask, Promise!Ask
  <2>7. ASSUME NEW c \in Callers, Take(c) PROVE Promise!Next \/ UNCHANGED Promise!vars
    <3>1. CASE asking[c] \in data
      BY <2>1, <2>7, <3>1 DEF Take, Answer
    <3>2. CASE asking[c] \notin data
      <4>1. asking[c] \in States
        BY <2>7 DEF Take
      <4>2. \/ Status(asking[c]) # "live"
            \/ \E d \in Callers \ {c} : asking[d] = asking[c]
        BY <2>7, <3>2, <4>1 DEF Take, Status, EntryInv, InHand
      <4>3. Promise!Refuse(c)
        BY <2>0, <2>7, <3>2, <4>1, <4>2 DEF Take, Answer, Promise!Refuse, Promise!Answer
      <4> QED BY <2>7, <4>3 DEF Take, Promise!Next
    <3> QED BY <3>1, <3>2
  <2>8. ASSUME NEW c \in Callers, Check(c) PROVE Promise!Next
    <3>1. asking[c] # Nothing /\ asking[c] \in States /\ asking[c] \in stored /\ asking[c] \notin spent
      BY <2>8 DEF Check, LoadedInv, EntryInv, InHand
    <3>2. CASE Expired(asking[c])
      <4>1. Status(asking[c]) # "live"
        BY <3>1, <3>2 DEF Status
      <4>2. Promise!Refuse(c)
        BY <2>0, <2>8, <3>1, <3>2, <4>1 DEF Check, Answer, Promise!Refuse, Promise!Answer
      <4> QED BY <3>1, <4>2 DEF Promise!Next
    <3>3. CASE ~Expired(asking[c])
      <4>1. Status(asking[c]) = "live"
        BY <3>1, <3>3 DEF Status
      <4>2. [s \in States |-> Status(s)]'
              = [[s \in States |-> Status(s)] EXCEPT ![asking[c]] = "spent"]
        BY <2>8, <3>1, <3>3 DEF Check, Status, Expired
      <4>3. Promise!Redeem(c)
        BY <2>8, <3>1, <3>3, <4>1, <4>2 DEF Check, Answer, Promise!Redeem, Promise!Answer
      <4> QED BY <3>1, <4>3 DEF Promise!Next
    <3> QED BY <3>2, <3>3
  <2>9. CASE Clean \/ ShutdownCall \/ ShutdownReturn \/ UNCHANGED vars
    BY <2>1, <2>9 DEF Clean, SweepStart, SweepDelete, SweepEnd, CleanerReturns,
                      ShutdownCall, ShutdownReturn, request, vars
  <2> QED BY <2>3, <2>4, <2>5, <2>6, <2>7, <2>8, <2>9 DEF Next, Promise!Next
<1> QED BY <1>1, <1>2, StoreHolds, PTL DEF Spec, PromiseSpec, Promise!Spec


-----------------------------------------------------------------------------
(***************************************************************************)
(* The store in NATS.                                                      *)
(***************************************************************************)
\* A write to a key leaves every revision that was read of it behind, and those
\* of other keys as they are.
LEMMA RemoveOutdates ==
    ASSUME BucketInv, NEW s \in States, Remove(s)
    PROVE  /\ bucket' \subseteq States /\ revision' \in [States -> Nat]
           /\ \A t \in States : revision[t] <= revision'[t]
           /\ \A t \in States, n \in Nat \ {0} : ReadOnce(t, n) => ReadOnce(t, n)'
BY DEF BucketInv, BucketTypeOK, Remove, Written, ReadOnce

\* A key that is created is new to everybody.
LEMMA CreateIsNew ==
    ASSUME BucketInv, NEW s \in States, Create(s)
    PROVE  /\ bucket' \subseteq States /\ revision' \in [States -> Nat]
           /\ \A t \in States : revision[t] <= revision'[t]
           /\ \A t \in States, n \in Nat \ {0} : ReadOnce(t, n) => ReadOnce(t, n)'
           /\ s \notin redeemed
BY DEF BucketInv, BucketTypeOK, Create, Written, ReadOnce

\* One step keeps revisions growing and what was read of them true.
LEMMA BucketStep == BucketInv /\ [BucketNext]_bucketVars => BucketInv'
<1> SUFFICES ASSUME BucketInv, [BucketNext]_bucketVars PROVE BucketInv'
  OBVIOUS
<1> USE DEF BucketInv, BucketTypeOK
<1>1. ASSUME NEW s \in States, Create(s) PROVE BucketInv'
  BY <1>1, CreateIsNew DEF Create, Written, ReadOnce
<1>2. ASSUME NEW s \in States, Expire(s) PROVE BucketInv'
  BY <1>2, RemoveOutdates DEF Expire, Remove, Written, ReadOnce
<1>3. ASSUME NEW d \in late, LateDelete(d) PROVE BucketInv'
  <2>1. CASE Remove(d.key)
    BY <1>3, <2>1, RemoveOutdates DEF LateDelete, Remove, Written, ReadOnce
  <2>2. CASE UNCHANGED <<bucket, revision>>
    BY <1>3, <2>2 DEF LateDelete, ReadOnce
  <2> QED BY <1>3, <2>1, <2>2 DEF LateDelete
<1>4. ASSUME NEW s \in States, NEW c \in Callers, Present(c, s) PROVE BucketInv'
  <2>1. read[c] = 0
    BY <1>4 DEF Present
  <2> QED BY <1>4, <2>1 DEF Present, ReadOnce
<1>5. ASSUME NEW c \in Callers, Get(c) PROVE BucketInv'
  BY <1>5 DEF Get, Reply, ReadOnce
<1>6. ASSUME NEW c \in Callers, Delete(c) PROVE BucketInv'
  <2>1. presented[c] \in States /\ ReadOnce(presented[c], read[c])
    BY <1>6 DEF Delete
  <2>2. CASE read[c] = revision[presented[c]]
    <3>1. /\ Remove(presented[c]) /\ Redeem(c) /\ late' = late
      BY <1>6, <2>2 DEF Delete
    <3>2. presented[c] \in bucket
      BY <2>1, <2>2 DEF ReadOnce
    <3>3. PICK a \in {"OK", "Error"} : Reply(c, a)
      BY <3>1 DEF Redeem
    <3>4. BucketTypeOK'
      BY <2>1, <3>1, <3>3, RemoveOutdates DEF Redeem, Reply
    <3>5. /\ \A s \in bucket' \cup redeemed' : revision'[s] # 0
          /\ bucket' \cap redeemed' = {}
      BY <2>1, <3>1, <3>2 DEF Redeem, Remove, Written
    <3>6. /\ \A e \in Callers : read'[e] # 0 =>
                presented'[e] # Nothing /\ ReadOnce(presented[e], read[e])'
          /\ \A d \in late : ReadOnce(d.key, d.revision)'
      BY <2>1, <3>1, <3>3, RemoveOutdates DEF Reply, ReadOnce
    <3> QED BY <3>1, <3>4, <3>5, <3>6 DEF ReadOnce
  <2>3. CASE read[c] # revision[presented[c]]
    BY <1>6, <2>3 DEF Delete, Reply, ReadOnce
  <2> QED BY <2>2, <2>3
<1>7. ASSUME NEW c \in Callers, Break(c) PROVE BucketInv'
  BY <1>7 DEF Break, Reply, ReadOnce
<1>8. CASE UNCHANGED bucketVars
  BY <1>8 DEF bucketVars, ReadOnce
<1> QED BY <1>1, <1>2, <1>3, <1>4, <1>5, <1>6, <1>7, <1>8 DEF BucketNext

\* The revision a callback read is the key's last one while the key is live and is
\* outdated from then on, for its late Deletes too; what was spent stays out of
\* the bucket (nats_kv_state_store.go, line 47).
THEOREM BucketHolds == BucketSpec => []BucketInv
<1>1. BucketInit => BucketInv
  BY DEF BucketInit, BucketInv, BucketTypeOK
<1> QED BY <1>1, BucketStep, PTL DEF BucketSpec

\* The bucket implements single use.
THEOREM NatsImplementsSingleUse == BucketSpec => BucketPromiseSpec
<1>1. BucketInit => BucketPromise!Init
  BY DEF BucketInit, BucketPromise!Init, KeyStatus
<1>2. BucketInv /\ BucketInv' /\ [BucketNext]_bucketVars => [BucketPromise!Next]_(BucketPromise!vars)
  <2> SUFFICES ASSUME BucketInv, BucketInv', [BucketNext]_bucketVars
               PROVE  BucketPromise!Next \/ UNCHANGED BucketPromise!vars
    BY DEF BucketPromise!vars
  <2> USE DEF BucketInv, BucketTypeOK
  <2>0. ASSUME \A s \in States : KeyStatus(s)' = KeyStatus(s)
        PROVE  [s \in States |-> KeyStatus(s)]' = [s \in States |-> KeyStatus(s)]
    BY <2>0
  <2>1. ASSUME NEW s \in States, Create(s) PROVE BucketPromise!Store(s)
    <3>1. KeyStatus(s) = "new" /\ KeyStatus(s)' = "live"
      BY <2>1 DEF Create, Written, KeyStatus
    <3>2. \A t \in States : t # s => KeyStatus(t)' = KeyStatus(t)
      BY <2>1 DEF Create, Written, KeyStatus
    <3> QED BY <2>1, <3>1, <3>2 DEF Create, BucketPromise!Store
  <2>2. ASSUME NEW s \in States,
               s \in bucket, Remove(s), UNCHANGED <<redeemed, presented, replied>>
        PROVE  BucketPromise!Lapse
    <3>1. KeyStatus(s) = "live" /\ KeyStatus(s)' = "gone"
      BY <2>2 DEF Remove, Written, KeyStatus
    <3>2. \A t \in States : t # s => KeyStatus(t)' = KeyStatus(t)
      BY <2>2 DEF Remove, Written, KeyStatus
    <3>3. {s} \in SUBSET {t \in States : [u \in States |-> KeyStatus(u)][t] = "live"}
      BY <3>1
    <3>4. [t \in States |-> KeyStatus(t)]'
            = [t \in States |-> IF t \in {s} THEN "gone" ELSE [u \in States |-> KeyStatus(u)][t]]
      BY <3>1, <3>2
    <3>5. BucketPromise!Fade
      BY <3>3, <3>4 DEF BucketPromise!Fade
    <3> QED BY <2>2, <3>5 DEF BucketPromise!Lapse
  <2>3. ASSUME NEW s \in States, Expire(s) PROVE BucketPromise!Lapse
    BY <2>2, <2>3 DEF Expire
  <2>4. ASSUME NEW d \in late, LateDelete(d) PROVE BucketPromise!Lapse \/ UNCHANGED BucketPromise!vars
    <3>1. CASE d.revision = revision[d.key]
      BY <2>2, <2>4, <3>1 DEF LateDelete, ReadOnce
    <3>2. CASE d.revision # revision[d.key]
      <4>1. bucket' = bucket /\ revision' = revision
        BY <2>4, <3>2 DEF LateDelete
      <4>2. \A t \in States : KeyStatus(t)' = KeyStatus(t)
        BY <2>4, <4>1 DEF LateDelete, KeyStatus
      <4> QED BY <2>0, <2>4, <4>2 DEF LateDelete, BucketPromise!vars
    <3> QED BY <3>1, <3>2
  <2>5. ASSUME NEW s \in States, NEW c \in Callers, Present(c, s) PROVE BucketPromise!Ask(c, s)
    <3>1. \A t \in States : KeyStatus(t)' = KeyStatus(t)
      BY <2>5 DEF Present, KeyStatus
    <3> QED BY <2>0, <2>5, <3>1 DEF Present, BucketPromise!Ask
  <2>6. ASSUME NEW c \in Callers, presented[c] # Nothing,
               UNCHANGED <<bucket, revision, redeemed>>, Reply(c, "Error")
        PROVE  BucketPromise!Next
    <3>1. \A t \in States : KeyStatus(t)' = KeyStatus(t)
      BY <2>6 DEF KeyStatus
    <3>2. BucketPromise!Break(c)
      BY <2>0, <2>6, <3>1 DEF Reply, BucketPromise!Break, BucketPromise!Answer
    <3> QED BY <2>6, <3>2 DEF BucketPromise!Next
  <2>7. ASSUME NEW c \in Callers, Get(c) PROVE BucketPromise!Next \/ UNCHANGED BucketPromise!vars
    <3>1. \A t \in States : KeyStatus(t)' = KeyStatus(t)
      BY <2>7 DEF Get, KeyStatus
    <3>2. CASE presented[c] \in bucket
      BY <2>0, <2>7, <3>1, <3>2 DEF Get, BucketPromise!vars
    <3>3. CASE presented[c] \notin bucket
      <4>1. presented[c] \in States /\ KeyStatus(presented[c]) # "live"
        BY <2>7, <3>3 DEF Get, KeyStatus
      <4>2. BucketPromise!Refuse(c)
        BY <2>0, <2>7, <3>1, <3>3, <4>1 DEF Get, Reply, BucketPromise!Refuse, BucketPromise!Answer
      <4> QED BY <2>7, <4>2 DEF Get, BucketPromise!Next
    <3> QED BY <3>2, <3>3
  <2>8. ASSUME NEW c \in Callers, Delete(c) PROVE BucketPromise!Next
    <3>1. presented[c] # Nothing /\ presented[c] \in States /\ ReadOnce(presented[c], read[c])
      BY <2>8 DEF Delete
    <3>2. CASE read[c] = revision[presented[c]]
      <4>1. PICK s \in States : s = presented[c]
        BY <3>1
      <4>2. s \in bucket /\ Remove(s) /\ redeemed' = redeemed \cup {s}
        BY <2>8, <3>1, <3>2, <4>1 DEF Delete, ReadOnce, Redeem
      <4>3. KeyStatus(s) = "live" /\ KeyStatus(s)' = "spent"
        BY <4>2 DEF KeyStatus, Remove, Written
      <4>4. \A t \in States : t # s => KeyStatus(t)' = KeyStatus(t)
        BY <4>2 DEF KeyStatus, Remove, Written
      <4>5. [t \in States |-> KeyStatus(t)]'
              = [[t \in States |-> KeyStatus(t)] EXCEPT ![s] = "spent"]
        BY <4>3, <4>4
      <4>6. BucketPromise!Redeem(c)
        BY <2>8, <3>2, <4>1, <4>3, <4>5
        DEF Delete, Redeem, Reply, BucketPromise!Redeem, BucketPromise!Answer
      <4> QED BY <3>1, <4>6 DEF BucketPromise!Next
    <3>3. CASE read[c] # revision[presented[c]]
      BY <2>6, <2>8, <3>1, <3>3 DEF Delete
    <3> QED BY <3>2, <3>3
  <2>9. ASSUME NEW c \in Callers, Break(c) PROVE BucketPromise!Next
    BY <2>6, <2>9 DEF Break
  <2>10. CASE UNCHANGED bucketVars
    <3>1. \A t \in States : KeyStatus(t)' = KeyStatus(t)
      BY <2>10 DEF bucketVars, KeyStatus
    <3> QED BY <2>0, <2>10, <3>1 DEF bucketVars, BucketPromise!vars
  <2> QED BY <2>1, <2>3, <2>4, <2>5, <2>7, <2>8, <2>9, <2>10 DEF BucketNext, BucketPromise!Next
<1> QED BY <1>1, <1>2, BucketHolds, PTL DEF BucketSpec, BucketPromiseSpec, BucketPromise!Spec

-----------------------------------------------------------------------------
(***************************************************************************)
(* A server with either of them.                                           *)
(***************************************************************************)

\* Whichever store a server is configured with, a state is consumed at most once
\* and never after it expired.
THEOREM EitherStoreIsSingleUse ==
    NewStateStore /\ [][StoresNext]_storeVars =>
       [](StoreInv /\ BucketInv) /\ PromiseSpec /\ BucketPromiseSpec
<1>1. NewStateStore => Init /\ BucketInit
  BY DEF NewStateStore
<1>2. [StoresNext]_storeVars => [Next]_vars /\ [BucketNext]_bucketVars
  BY DEF StoresNext, InMemory, Nats, storeVars
<1>3. QED
  BY <1>1, <1>2, StoreHolds, BucketHolds, InMemoryImplementsSingleUse,
     NatsImplementsSingleUse, PTL DEF Spec, BucketSpec
=============================================================================
