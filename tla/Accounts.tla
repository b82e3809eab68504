---- MODULE Accounts ----
(***************************************************************************)
(* Accounts: users and their profiles, as adapters/auth/user_store.go and  *)
(* domain/service/profile_service.go write them, one action per statement. *)
(* A user is known by its e-mail address, which is unique; nothing deletes *)
(* a user or a profile.                                                    *)
(*                                                                         *)
(*   register   Create          insert the user                            *)
(*   oauth      CreateOAuth     insert the user - find and insert the      *)
(*                              profile - commit                           *)
(*   verify     SetVerified     find the user - load its profile - (find   *)
(*                              and insert one - find the user again) -    *)
(*                              write the whole row - commit               *)
(*   password   UpdatePassword  find the user - write the whole row        *)
(*   rename     Update          find the profile FOR UPDATE - write it -   *)
(*                              commit                                     *)
(***************************************************************************)
EXTENDS Naturals, FiniteSets

CONSTANTS
    Requests,   \* requests in flight
    Users,      \* e-mail addresses
    Passwords,  \* password hashes
    Names,      \* profile names
    Ids,        \* profile ids
    Absent,     \* no row
    NoHash,     \* the empty password hash of an OAuth user
    NoCall      \* no request

ASSUME AccountsAssumption ==
    /\ NoHash \notin Passwords
    /\ Absent \notin [password : Passwords \cup {NoHash}, verified : BOOLEAN]
    /\ Absent \notin [id : Ids, user : Users, name : Names]
    /\ NoCall \notin [op : {"register", "password"}, user : Users, password : Passwords]
    /\ NoCall \notin [op : {"oauth", "verify", "rename"}, user : Users, name : Names]

VARIABLES
    users,     \* [Users -> committed row or Absent]
    profiles,  \* committed rows of user_profiles
    call,      \* [Requests -> its arguments]
    stage,     \* [Requests -> its next statement]
    copy,      \* [Requests -> the user as it read or inserted it]
    writes,    \* requests with an uncommitted user row: they hold it locked
    draft,     \* [Requests -> its uncommitted profile]
    had,       \* history: requests whose user had a profile when they began
    fresh      \* history: requests whose user nobody else has written since

tables == <<users, profiles>>
history == <<had, fresh>>
vars == <<tables, call, stage, copy, writes, draft, history>>

UserRow == [password : Passwords \cup {NoHash}, verified : BOOLEAN]
ProfileRow == [id : Ids, user : Users, name : Names]
Calls ==
    [op : {"register", "password"}, user : Users, password : Passwords]
      \cup [op : {"oauth", "verify", "rename"}, user : Users, name : Names]

Stages ==
    {"idle", "insertUser", "find", "preload", "findProfile", "insertProfile",
     "refetch", "write", "commit", "lockProfile", "rename"}

User(r) == call[r].user
ProfilesOf(u) == {p \in profiles : p.user = u}
Drafts == {draft[q] : q \in {q \in Requests : draft[q] # Absent}}
Unused(i) == \A p \in profiles \cup Drafts : p.id # i

FirstStage(op) ==
    CASE op \in {"register", "oauth"} -> "insertUser"
      [] op \in {"verify", "password"} -> "find"
      [] op = "rename" -> "lockProfile"

-----------------------------------------------------------------------------
Init ==
    /\ users = [u \in Users |-> Absent]
    /\ profiles = {}
    /\ call = [r \in Requests |-> NoCall]
    /\ stage = [r \in Requests |-> "idle"]
    /\ copy = [r \in Requests |-> Absent]
    /\ writes = {}
    /\ draft = [r \in Requests |-> Absent]
    /\ had = {} /\ fresh = {}

Begin(r, c) ==
    /\ stage[r] = "idle"
    /\ call' = [call EXCEPT ![r] = c]
    /\ stage' = [stage EXCEPT ![r] = FirstStage(c.op)]
    /\ had' = IF ProfilesOf(c.user) = {} THEN had ELSE had \cup {r}
    /\ fresh' = fresh \cup {r}
    /\ UNCHANGED <<tables, copy, writes, draft>>

Goto(r, st) ==
    /\ stage' = [stage EXCEPT ![r] = st]
    /\ UNCHANGED <<call, history>>

\* The request is over; if W it wrote its user, and others may be out of date.
End(r, W) ==
    /\ call' = [call EXCEPT ![r] = NoCall]
    /\ stage' = [stage EXCEPT ![r] = "idle"]
    /\ copy' = [copy EXCEPT ![r] = Absent]
    /\ writes' = writes \ {r}
    /\ draft' = [draft EXCEPT ![r] = Absent]
    /\ had' = had \ {r}
    /\ fresh' = {q \in fresh \ {r} : ~(W /\ User(q) = User(r))}

\* Not found, a unique violation, or a statement that fails: roll back.
Rollback(r) == End(r, FALSE) /\ UNCHANGED tables

\* The user's row, or its entry in the unique index, is not locked by another.
RowFree(r) == \A q \in writes : q # r => User(q) # User(r)

-----------------------------------------------------------------------------
\* Mutant of InsertUser: CreateOAuth without its transaction.
InsertUserAtOnce(r) ==
    /\ stage[r] = "insertUser" /\ RowFree(r)
    /\ \/ /\ users[User(r)] # Absent
          /\ Rollback(r)
       \/ /\ users[User(r)] = Absent /\ call[r].op = "register"
          /\ users' = [users EXCEPT ![User(r)] =
                         [password |-> call[r].password, verified |-> FALSE]]
          /\ End(r, TRUE)
          /\ UNCHANGED profiles
       \/ /\ users[User(r)] = Absent /\ call[r].op = "oauth"
          /\ users' = [users EXCEPT ![User(r)] = [password |-> NoHash, verified |-> TRUE]]
          /\ copy' = [copy EXCEPT ![r] = [password |-> NoHash, verified |-> TRUE]]
          /\ Goto(r, "findProfile")
          /\ UNCHANGED <<profiles, writes, draft>>

\* Create, and the first statement of CreateOAuth.
InsertUser(r) ==
    /\ stage[r] = "insertUser" /\ RowFree(r)
    /\ \/ /\ users[User(r)] # Absent
          /\ Rollback(r)
       \/ /\ users[User(r)] = Absent /\ call[r].op = "register"
          /\ users' = [users EXCEPT ![User(r)] =
                         [password |-> call[r].password, verified |-> FALSE]]
          /\ End(r, TRUE)
          /\ UNCHANGED profiles
       \/ /\ users[User(r)] = Absent /\ call[r].op = "oauth"
          /\ copy' = [copy EXCEPT ![r] = [password |-> NoHash, verified |-> TRUE]]
          /\ writes' = writes \cup {r}
          /\ Goto(r, "findProfile")
          /\ UNCHANGED <<tables, draft>>

\* SetVerified and UpdatePassword read the user, without a lock.
Find(r) ==
    /\ stage[r] = "find"
    /\ \/ /\ users[User(r)] = Absent
          /\ Rollback(r)
       \/ /\ users[User(r)] # Absent
          /\ copy' = [copy EXCEPT ![r] = users[User(r)]]
          /\ Goto(r, IF call[r].op = "verify" THEN "preload" ELSE "write")
          /\ UNCHANGED <<tables, writes, draft>>

\* Mutant of Preload: SetVerified inserts a profile without looking for one.
PreloadNothing(r) ==
    /\ stage[r] = "preload"
    /\ Goto(r, "insertProfile")
    /\ UNCHANGED <<tables, copy, writes, draft>>

\* SetVerified's PreloadRelations: the profile is a query of its own.
Preload(r) ==
    /\ stage[r] = "preload"
    /\ Goto(r, IF ProfilesOf(User(r)) = {} THEN "findProfile" ELSE "write")
    /\ UNCHANGED <<tables, copy, writes, draft>>

AfterProfile(r) == IF call[r].op = "verify" THEN "refetch" ELSE "commit"

\* ProfileService.Create, in the transaction of its caller.
FindProfile(r) ==
    /\ stage[r] = "findProfile"
    /\ Goto(r, IF ProfilesOf(User(r)) = {} THEN "insertProfile" ELSE AfterProfile(r))
    /\ UNCHANGED <<tables, copy, writes, draft>>

\* No unique index stands in the way of a second one.
InsertProfile(r, i) ==
    /\ stage[r] = "insertProfile" /\ Unused(i)
    /\ draft' = [draft EXCEPT ![r] = [id |-> i, user |-> User(r), name |-> call[r].name]]
    /\ Goto(r, AfterProfile(r))
    /\ UNCHANGED <<tables, copy, writes>>

\* SetVerified reads the user again once it has a profile.
Refetch(r) ==
    /\ stage[r] = "refetch"
    /\ copy' = [copy EXCEPT ![r] = users[User(r)]]
    /\ Goto(r, "write")
    /\ UNCHANGED <<tables, writes, draft>>

\* Mutant of Write: UpdatePassword writes a row of its own making.
WriteBlank(r) ==
    /\ stage[r] = "write" /\ RowFree(r)
    /\ \/ /\ call[r].op = "verify"
          /\ copy' = [copy EXCEPT ![r].verified = TRUE]
          /\ writes' = writes \cup {r}
          /\ Goto(r, "commit")
          /\ UNCHANGED <<tables, draft>>
       \/ /\ call[r].op = "password"
          /\ users' = [users EXCEPT ![User(r)] =
                         [password |-> call[r].password, verified |-> FALSE]]
          /\ End(r, TRUE)
          /\ UNCHANGED profiles

\* Update of the whole row: SetVerified in its transaction, UpdatePassword
\* in a transaction of one statement.
Write(r) ==
    /\ stage[r] = "write" /\ RowFree(r)
    /\ \/ /\ call[r].op = "verify"
          /\ copy' = [copy EXCEPT ![r].verified = TRUE]
          /\ writes' = writes \cup {r}
          /\ Goto(r, "commit")
          /\ UNCHANGED <<tables, draft>>
       \/ /\ call[r].op = "password"
          /\ users' = [users EXCEPT ![User(r)] =
                         [copy[r] EXCEPT !.password = call[r].password]]
          /\ End(r, TRUE)
          /\ UNCHANGED profiles

Commit(r) ==
    /\ stage[r] = "commit"
    /\ users' = [users EXCEPT ![User(r)] = copy[r]]
    /\ profiles' = profiles \cup ({draft[r]} \ {Absent})
    /\ End(r, TRUE)

\* ProfileService.Update: the row is locked by the draft of its new version.
LockProfile(r) ==
    /\ stage[r] = "lockProfile"
    /\ \/ /\ ProfilesOf(User(r)) = {}
          /\ Rollback(r)
       \/ \E p \in ProfilesOf(User(r)) :
            /\ \A q \in Requests : stage[q] = "rename" => draft[q].id # p.id
            /\ draft' = [draft EXCEPT ![r] = [p EXCEPT !.name = call[r].name]]
            /\ Goto(r, "rename")
            /\ UNCHANGED <<tables, copy, writes>>

Rename(r) ==
    /\ stage[r] = "rename"
    /\ profiles' = {p \in profiles : p.id # draft[r].id} \cup {draft[r]}
    /\ End(r, FALSE)
    /\ UNCHANGED users

\* A statement fails, the request times out, the connection breaks.
Fail(r) == stage[r] # "idle" /\ Rollback(r)

Step(r) ==
    \/ InsertUser(r) \/ Find(r) \/ Preload(r) \/ FindProfile(r)
    \/ (\E i \in Ids : InsertProfile(r, i))
    \/ Refetch(r) \/ Write(r) \/ Commit(r) \/ LockProfile(r) \/ Rename(r) \/ Fail(r)

Next == \E r \in Requests : (\E c \in Calls : Begin(r, c)) \/ Step(r)

Spec == Init /\ [][Next]_vars

-----------------------------------------------------------------------------
\* Properties

\* The statements of each operation.
StagesOf(op) ==
    CASE op = "register" -> {"insertUser"}
      [] op = "oauth"    -> {"insertUser", "findProfile", "insertProfile", "commit"}
      [] op = "verify"   -> {"find", "preload", "findProfile", "insertProfile", "refetch",
                             "write", "commit"}
      [] op = "password" -> {"find", "write"}
      [] op = "rename"   -> {"lockProfile", "rename"}

TypeOK ==
    /\ users \in [Users -> UserRow \cup {Absent}]
    /\ profiles \subseteq ProfileRow
    /\ call \in [Requests -> Calls \cup {NoCall}]
    /\ stage \in [Requests -> Stages]
    /\ \A r \in Requests :
         stage[r] # "idle" => call[r] \in Calls /\ stage[r] \in StagesOf(call[r].op)
    /\ copy \in [Requests -> UserRow \cup {Absent}]
    /\ writes \subseteq Requests /\ had \subseteq Requests /\ fresh \subseteq Requests
    /\ draft \in [Requests -> ProfileRow \cup {Absent}]

\* A verified user has a profile: the claims of its tokens, which need one,
\* can always be built.  It takes the transactions of CreateOAuth and of
\* SetVerified, and that no stale row is written back verified.
VerifiedHasProfile ==
    \A u \in Users : users[u] # Absent /\ users[u].verified => ProfilesOf(u) # {}

\* The request's user has a profile, or will have when the request commits.
Served(r) == ProfilesOf(User(r)) # {} \/ (draft[r] # Absent /\ draft[r].user = User(r))

\* A request never carries a verified user to a commit without a profile.
CopyInv(r) ==
    /\ stage[r] \in {"preload", "findProfile", "insertProfile", "refetch", "write", "commit"}
         => copy[r] # Absent
    /\ copy[r] # Absent => (users[User(r)] # Absent <=> call[r].op # "oauth")
    /\ stage[r] = "commit" \/ (call[r].op = "oauth" /\ copy[r] # Absent) => r \in writes
    /\ stage[r] \in {"refetch", "commit"} \/ (stage[r] = "write" /\ call[r].op = "verify")
         => Served(r)
    /\ stage[r] \in {"preload", "write"} /\ copy[r].verified => Served(r)

\* Until the request has written it, the copy is the row if nobody else has.
FreshInv(r) ==
    r \in fresh /\ call[r].op \in {"verify", "password"} /\ copy[r] # Absent =>
      copy[r] = IF stage[r] = "commit" THEN [users[User(r)] EXCEPT !.verified = TRUE]
                ELSE users[User(r)]

\* A profile about to be inserted has an id of its own; one about to be renamed
\* is a row of the same user.
DraftInv(r) ==
    /\ draft[r] # Absent => stage[r] \in {"refetch", "write", "commit", "rename"}
    /\ draft[r] # Absent /\ stage[r] # "rename" =>
         /\ call[r].op \in {"oauth", "verify"} /\ draft[r].user = User(r)
         /\ \A p \in profiles : p.id # draft[r].id
         /\ \A q \in Requests \ {r} : draft[q] # Absent => draft[q].id # draft[r].id
    /\ stage[r] = "rename" =>
         /\ draft[r] # Absent
         /\ \E p \in profiles : p.id = draft[r].id /\ p.user = draft[r].user

RequestInv(r) ==
    \/ /\ stage[r] = "idle" /\ call[r] = NoCall
       /\ copy[r] = Absent /\ draft[r] = Absent
       /\ r \notin writes \cup had \cup fresh
    \/ /\ stage[r] # "idle"
       /\ CopyInv(r) /\ FreshInv(r) /\ DraftInv(r)
       /\ r \in had =>
            /\ ProfilesOf(User(r)) # {} /\ stage[r] # "insertProfile"
            /\ stage[r] # "rename" => draft[r] = Absent

\* Together, and with the types, these are inductive.
AccountInv ==
    /\ TypeOK
    /\ \A p, q \in profiles : p.id = q.id => p = q
    /\ \A r \in Requests : RequestInv(r)
    /\ \A r, q \in writes : User(r) = User(q) => r = q
    /\ VerifiedHasProfile

\* Only a request that began before its user had a profile may insert one:
\* a user has two profiles only if two such requests overlap.
NoLateProfile ==
    \A r \in had : stage[r] \notin {"idle", "rename"} => draft[r] = Absent

\* While nobody else writes the user, a request changes the one field it is
\* about: a lost update needs two requests that overlap.
OwnFieldOnly ==
    [][\A r \in fresh :
         stage[r] \in {"write", "commit"} /\ stage'[r] = "idle" /\ users' # users
           /\ users[User(r)] # Absent =>
             users' = [users EXCEPT ![User(r)] =
                         IF call[r].op = "verify" THEN [@ EXCEPT !.verified = TRUE]
                         ELSE [@ EXCEPT !.password = call[r].password]]]_vars
=============================================================================
