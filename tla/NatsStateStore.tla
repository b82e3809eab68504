---- MODULE NatsStateStore ----
(***************************************************************************)
(* natsKVStateStore (internal/core/store/nats_kv_state_store.go): states   *)
(* in a NATS key-value bucket shared by every server process.              *)
(*                                                                         *)
(*   Store            Create with a TTL                                    *)
(*   VerifyAndDelete  Get - Delete, if the key's last revision is still    *)
(*                    the one that was read                                *)
(*                                                                         *)
(* Messages to the bucket may be lost, answered too late, or take effect   *)
(* after their sender has given up.  Every write to a key, the marker of a *)
(* deleted or expired one included, has a greater revision than the last;  *)
(* only revisions of one key are compared, so they are counted key by key. *)
(***************************************************************************)

EXTENDS StateStoreData, Naturals

VARIABLES
    bucket,     \* the live keys of the bucket
    revision,   \* [States -> the key's last revision, 0 before it is created]
    redeemed,   \* history: states deleted by the caller that presented them
    presented,  \* [Callers -> the state it presents, or Nothing]
    read,       \* [Callers -> the revision its Get returned, or 0]
    late,       \* Deletes sent by callers that have given up
    replied     \* [Callers -> the last answer]

bucketVars == <<bucket, revision, redeemed, presented, read, late, replied>>

-----------------------------------------------------------------------------
BucketInit ==
    /\ bucket = {} /\ redeemed = {} /\ late = {}
    /\ revision = [s \in States |-> 0]
    /\ presented = [c \in Callers |-> Nothing]
    /\ read = [c \in Callers |-> 0]
    /\ replied = [c \in Callers |-> "None"]

Written(s) == revision' = [revision EXCEPT ![s] = @ + 1]

\* Store; states are random.  A Create that fails leaves nothing or, its answer
\* lost, a state nobody will present.
Create(s) ==
    /\ revision[s] = 0
    /\ bucket' = bucket \cup {s} /\ Written(s)
    /\ UNCHANGED <<redeemed, presented, read, late, replied>>

\* A delete or the server's marker for a key whose TTL is over.
Remove(s) == bucket' = bucket \ {s} /\ Written(s)

Expire(s) ==
    /\ s \in bucket
    /\ Remove(s)
    /\ UNCHANGED <<redeemed, presented, read, late, replied>>

Present(c, s) ==
    /\ presented[c] = Nothing
    /\ presented' = [presented EXCEPT ![c] = s]
    /\ replied' = [replied EXCEPT ![c] = "None"]
    /\ UNCHANGED <<bucket, revision, redeemed, read, late>>

Reply(c, a) ==
    /\ presented' = [presented EXCEPT ![c] = Nothing]
    /\ read' = [read EXCEPT ![c] = 0]
    /\ replied' = [replied EXCEPT ![c] = a]

Get(c) ==
    /\ presented[c] # Nothing /\ read[c] = 0
    /\ \/ /\ presented[c] \in bucket
          /\ read' = [read EXCEPT ![c] = revision[presented[c]]]
          /\ UNCHANGED <<presented, replied>>
       \/ presented[c] \notin bucket /\ Reply(c, "Invalid")
    /\ UNCHANGED <<bucket, revision, redeemed, late>>

Redeem(c) ==
    /\ redeemed' = redeemed \cup {presented[c]}
    /\ \E a \in {"OK", "Error"} : Reply(c, a)

\* Mutant of Delete: without LastRevision, deleting what is gone succeeds.
DeleteAnyRevision(c) ==
    /\ read[c] # 0
    /\ Remove(presented[c]) /\ Redeem(c)
    /\ UNCHANGED late

\* Mutant of Delete: the entry is read and not deleted.
DeleteForgotten(c) ==
    /\ read[c] # 0
    /\ Redeem(c)
    /\ UNCHANGED <<bucket, revision, late>>

\* Whoever is second to delete a key gets an error; the first may miss the
\* answer, and then nobody logs in with this state.
Delete(c) ==
    /\ read[c] # 0
    /\ \/ /\ read[c] = revision[presented[c]]
          /\ Remove(presented[c]) /\ Redeem(c)
       \/ /\ read[c] # revision[presented[c]]
          /\ Reply(c, "Error")
          /\ UNCHANGED <<bucket, revision, redeemed>>
    /\ UNCHANGED late

\* A message is lost, the client disconnects, the server process dies; a Delete
\* already sent may still arrive.
Break(c) ==
    /\ presented[c] # Nothing
    /\ \/ UNCHANGED late
       \/ read[c] # 0 /\ late' = late \cup {[key |-> presented[c], revision |-> read[c]]}
    /\ Reply(c, "Error")
    /\ UNCHANGED <<bucket, revision, redeemed>>

LateDelete(d) ==
    /\ late' = late \ {d}
    /\ \/ d.revision = revision[d.key] /\ Remove(d.key)
       \/ d.revision # revision[d.key] /\ UNCHANGED <<bucket, revision>>
    /\ UNCHANGED <<redeemed, presented, read, replied>>

BucketNext ==
    \/ \E s \in States : Create(s) \/ Expire(s) \/ \E c \in Callers : Present(c, s)
    \/ \E c \in Callers : Get(c) \/ Delete(c) \/ Break(c)
    \/ \E d \in late : LateDelete(d)

BucketSpec == BucketInit /\ [][BucketNext]_bucketVars

-----------------------------------------------------------------------------
\* Properties

\* Every variable has its type.
BucketTypeOK ==
    /\ bucket \subseteq States /\ redeemed \subseteq States
    /\ revision \in [States -> Nat]
    /\ presented \in [Callers -> States \cup {Nothing}]
    /\ read \in [Callers -> Nat]
    /\ late \subseteq [key : States, revision : Nat \ {0}]
    /\ replied \in [Callers -> {"None", "OK", "Invalid", "Error"}]

\* A revision that was read is the key's last one as long as the key is live,
\* and an earlier one ever after.
ReadOnce(s, n) ==
    /\ n <= revision[s]
    /\ s \in bucket <=> n = revision[s]

\* A Delete by the revision that was read, however late it comes and whoever else
\* has read it, finds a live key or fails; a key that has been spent is out of the
\* bucket for good.
BucketInv ==
    /\ BucketTypeOK
    /\ \A s \in bucket \cup redeemed : revision[s] # 0
    /\ bucket \cap redeemed = {}
    /\ \A c \in Callers : read[c] # 0 =>
          presented[c] # Nothing /\ ReadOnce(presented[c], read[c])
    /\ \A d \in late : ReadOnce(d.key, d.revision)

KeyStatus(s) ==
    IF revision[s] = 0 THEN "new"
    ELSE IF s \in bucket THEN "live"
    ELSE IF s \in redeemed THEN "spent" ELSE "gone"

\* The bucket implements single use across any number of server processes: of
\* two callbacks that both read the state, one logs in.
BucketPromise == INSTANCE SingleUse WITH
    status <- [s \in States |-> KeyStatus(s)], asking <- presented, answer <- replied

BucketPromiseSpec == BucketPromise!Spec

=============================================================================
