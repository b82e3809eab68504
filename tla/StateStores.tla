---- MODULE StateStores ----
(***************************************************************************)
(* NewStateStore (internal/core/store/state_store.go): a server runs with  *)
(* the one store its configuration names, for as long as it is up.  The    *)
(* other store stays as it would begin.                                    *)
(***************************************************************************)
EXTENDS InMemoryStateStore, NatsStateStore

VARIABLE backend  \* AUTH_STATE_STORE

storeVars == <<backend, vars, bucketVars>>

NewStateStore ==
    /\ backend \in {"inmemory", "nats"}
    /\ Init /\ BucketInit

InMemory == backend = "inmemory" /\ UNCHANGED <<backend, bucketVars>>

Nats == backend = "nats" /\ UNCHANGED <<backend, vars>>

StoresNext == (InMemory /\ Next) \/ (Nats /\ BucketNext)

\* FairSpec of InMemoryStateStore, where that is the store.
FairStoresSpec ==
    /\ NewStateStore /\ [][StoresNext]_storeVars
    /\ WF_storeVars(InMemory /\ Clean)
    /\ SF_storeVars(InMemory /\ CleanerReturns)
    /\ WF_storeVars(InMemory /\ ShutdownReturn)

=============================================================================
