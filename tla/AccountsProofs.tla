---- MODULE AccountsProofs ----
(***************************************************************************)
(* Theorems about Accounts, for any number of requests, users, passwords,  *)
(* names and profile ids.                                                  *)
(***************************************************************************)
EXTENDS Accounts, TLAPS

\* What the arguments of a request are.
LEMMA CallFields ==
  ASSUME NEW c \in Calls
  PROVE  /\ c.user \in Users
         /\ c.op \in {"register", "oauth", "verify", "password", "rename"}
         /\ c.op \in {"register", "password"} => c.password \in Passwords
         /\ c.op \in {"oauth", "verify", "rename"} => c.name \in Names
BY DEF Calls

\* Typing the end of a request comes down to typing the tables.
LEMMA EndTypes ==
  ASSUME TypeOK, NEW r \in Requests, NEW W \in BOOLEAN, End(r, W),
         users' \in [Users -> UserRow \cup {Absent}], profiles' \subseteq ProfileRow
  PROVE  TypeOK'
<1>1. \A q \in Requests : q # r => call'[q] = call[q] /\ stage'[q] = stage[q]
  BY DEF TypeOK, End
<1>2. stage'[r] = "idle" /\ stage' \in [Requests -> Stages]
  BY DEF TypeOK, End, Stages
<1>3. \A q \in Requests :
        stage'[q] # "idle" => call'[q] \in Calls /\ stage'[q] \in StagesOf(call'[q].op)
  BY <1>1, <1>2 DEF TypeOK
<1>4. /\ call' \in [Requests -> Calls \cup {NoCall}]
      /\ copy' \in [Requests -> UserRow \cup {Absent}]
      /\ draft' \in [Requests -> ProfileRow \cup {Absent}]
      /\ writes' \subseteq Requests /\ had' \subseteq Requests /\ fresh' \subseteq Requests
  BY DEF TypeOK, End
<1> QED BY <1>2, <1>3, <1>4 DEF TypeOK

\* Typing a statement comes down to typing the row it read or wrote.
LEMMA GotoTypes ==
  ASSUME TypeOK, NEW r \in Requests, stage[r] # "idle", Goto(r, stage'[r]),
         stage'[r] \in Stages, stage'[r] \in StagesOf(call[r].op),
         UNCHANGED tables, writes' \subseteq Requests,
         copy' \in [Requests -> UserRow \cup {Absent}],
         draft' \in [Requests -> ProfileRow \cup {Absent}]
  PROVE  TypeOK'
BY DEF TypeOK, Goto, tables, history

\* A new value of the stage is the one Goto names.
LEMMA GotoStage ==
  ASSUME TypeOK, NEW r \in Requests, NEW st, Goto(r, st)
  PROVE  stage'[r] = st /\ Goto(r, stage'[r])
BY DEF TypeOK, Goto

\* One step keeps the types.
LEMMA TypeStep == AccountInv /\ [Next]_vars => TypeOK'
<1> SUFFICES ASSUME AccountInv, [Next]_vars PROVE TypeOK'
  OBVIOUS
<1>t. TypeOK
  BY DEF AccountInv
<1>0. ASSUME NEW r \in Requests, stage[r] # "idle"
      PROVE  call[r] \in Calls /\ User(r) \in Users
  BY <1>t, <1>0, CallFields DEF TypeOK, User
<1>1. ASSUME NEW r \in Requests, NEW c \in Calls, Begin(r, c) PROVE TypeOK'
  <2>1. FirstStage(c.op) \in StagesOf(c.op) /\ FirstStage(c.op) \in Stages
    BY CallFields DEF FirstStage, StagesOf, Stages
  <2>2. call' \in [Requests -> Calls \cup {NoCall}] /\ stage' \in [Requests -> Stages]
    BY <1>t, <1>1, <2>1 DEF Begin, TypeOK
  <2>3. \A q \in Requests :
          stage'[q] # "idle" => call'[q] \in Calls /\ stage'[q] \in StagesOf(call'[q].op)
    BY <1>t, <1>1, <2>1 DEF Begin, TypeOK
  <2> QED BY <1>t, <1>1, <2>2, <2>3 DEF Begin, tables, TypeOK
<1>2. ASSUME NEW r \in Requests, Rollback(r) PROVE TypeOK'
  BY <1>t, <1>2, EndTypes DEF Rollback, tables, TypeOK
<1>3. ASSUME NEW r \in Requests, InsertUser(r) PROVE TypeOK'
  <2>1. User(r) \in Users /\ call[r] \in Calls
    BY <1>0, <1>3 DEF InsertUser
  <2>2. CASE End(r, TRUE) /\ UNCHANGED profiles /\ call[r].op = "register"
             /\ users' = [users EXCEPT ![User(r)] =
                            [password |-> call[r].password, verified |-> FALSE]]
    <3>1. [password |-> call[r].password, verified |-> FALSE] \in UserRow
      BY <2>1, <2>2, CallFields DEF UserRow
    <3>2. users' \in [Users -> UserRow \cup {Absent}]
      BY <1>t, <2>1, <2>2, <3>1 DEF TypeOK
    <3>3. profiles' \subseteq ProfileRow
      BY <1>t, <2>2 DEF TypeOK
    <3>4. End(r, TRUE)
      BY <2>2
    <3> QED BY <1>t, <3>2, <3>3, <3>4, EndTypes
  <2>3. CASE /\ copy' = [copy EXCEPT ![r] = [password |-> NoHash, verified |-> TRUE]]
             /\ writes' = writes \cup {r} /\ Goto(r, "findProfile")
             /\ UNCHANGED <<tables, draft>> /\ call[r].op = "oauth"
    <3>1. [password |-> NoHash, verified |-> TRUE] \in UserRow
      BY DEF UserRow
    <3>2. copy' \in [Requests -> UserRow \cup {Absent}]
      BY <1>t, <2>3, <3>1 DEF TypeOK
    <3>3. /\ stage'[r] = "findProfile" /\ stage'[r] \in StagesOf(call[r].op)
          /\ Goto(r, stage'[r])
      BY <1>t, <2>3, GotoStage DEF StagesOf
    <3> QED BY <1>t, <1>3, <2>3, <3>2, <3>3, GotoTypes DEF TypeOK, InsertUser, Stages
  <2> QED BY <1>2, <1>3, <2>2, <2>3 DEF InsertUser
<1>4. ASSUME NEW r \in Requests, Find(r) \/ Refetch(r) PROVE TypeOK'
  <2>1. User(r) \in Users /\ call[r] \in Calls
    BY <1>0, <1>4 DEF Find, Refetch
  <2>2. CASE copy' = [copy EXCEPT ![r] = users[User(r)]] /\ ~Rollback(r)
    <3>1. copy' \in [Requests -> UserRow \cup {Absent}]
      BY <1>t, <2>1, <2>2 DEF TypeOK
    <3>2. call[r].op = "verify" \/ (Find(r) /\ call[r].op = "password")
      BY <1>t, <1>4, <2>1, CallFields DEF Find, Refetch, TypeOK, StagesOf
    <3>3. /\ stage'[r] \in {"preload", "write"} /\ stage'[r] \in StagesOf(call[r].op)
          /\ Goto(r, stage'[r])
      BY <1>t, <1>4, <2>2, <3>2, GotoStage DEF Find, Refetch, StagesOf
    <3> QED BY <1>t, <1>4, <2>2, <3>1, <3>3, GotoTypes DEF TypeOK, Find, Refetch, Stages
  <2> QED BY <1>2, <1>4, <2>2 DEF Find, Refetch
<1>5. ASSUME NEW r \in Requests, Preload(r) \/ FindProfile(r) PROVE TypeOK'
  <2>1. call[r].op = "verify" \/ (FindProfile(r) /\ call[r].op = "oauth")
    BY <1>t, <1>0, <1>5, CallFields DEF Preload, FindProfile, TypeOK, StagesOf
  <2>2. /\ stage'[r] \in {"findProfile", "write", "insertProfile", "refetch", "commit"}
        /\ stage'[r] \in StagesOf(call[r].op)
        /\ Goto(r, stage'[r])
    BY <1>t, <1>5, <2>1, GotoStage DEF Preload, FindProfile, AfterProfile, StagesOf
  <2> QED BY <1>t, <1>5, <2>2, GotoTypes DEF Preload, FindProfile, TypeOK, Stages
<1>6. ASSUME NEW r \in Requests, NEW i \in Ids, InsertProfile(r, i) PROVE TypeOK'
  <2>1. User(r) \in Users /\ call[r] \in Calls
    BY <1>0, <1>6 DEF InsertProfile
  <2>2. call[r].op \in {"oauth", "verify"}
    BY <1>t, <1>6, <2>1, CallFields DEF InsertProfile, TypeOK, StagesOf
  <2>3. /\ stage'[r] \in {"refetch", "commit"} /\ stage'[r] \in StagesOf(call[r].op)
        /\ Goto(r, stage'[r])
    BY <1>t, <1>6, <2>2, GotoStage DEF InsertProfile, AfterProfile, StagesOf
  <2>4. [id |-> i, user |-> User(r), name |-> call[r].name] \in ProfileRow
    BY <2>1, <2>2, CallFields DEF ProfileRow
  <2>5. draft' \in [Requests -> ProfileRow \cup {Absent}]
    BY <1>t, <1>6, <2>4 DEF InsertProfile, TypeOK
  <2> QED BY <1>t, <1>6, <2>3, <2>5, GotoTypes DEF InsertProfile, TypeOK, Stages
<1>7. ASSUME NEW r \in Requests, Write(r) PROVE TypeOK'
  <2>1. User(r) \in Users /\ call[r] \in Calls /\ call[r].op \in {"verify", "password"}
    BY <1>t, <1>0, <1>7, CallFields DEF Write, TypeOK, StagesOf
  <2>2. copy[r] \in UserRow
    BY <1>7, <1>t DEF Write, AccountInv, RequestInv, CopyInv, TypeOK
  <2>3. CASE call[r].op = "verify" /\ ~End(r, TRUE)
    <3>1. [copy[r] EXCEPT !.verified = TRUE] \in UserRow
      BY <2>2 DEF UserRow
    <3>2. copy' \in [Requests -> UserRow \cup {Absent}]
      BY <1>7, <1>t, <2>3, <3>1 DEF Write, TypeOK
    <3>3. /\ stage'[r] = "commit" /\ stage'[r] \in StagesOf(call[r].op)
          /\ Goto(r, stage'[r])
      BY <1>7, <1>t, <2>3, GotoStage DEF Write, StagesOf
    <3> QED BY <1>7, <1>t, <2>3, <3>2, <3>3, GotoTypes DEF Write, TypeOK, Stages
  <2>4. CASE call[r].op = "password" /\ ~Goto(r, "commit")
    <3>1. [copy[r] EXCEPT !.password = call[r].password] \in UserRow
      BY <2>1, <2>2, <2>4, CallFields DEF UserRow
    <3>2. users' \in [Users -> UserRow \cup {Absent}]
      BY <1>7, <1>t, <2>1, <2>4, <3>1 DEF Write, TypeOK
    <3>3. profiles' \subseteq ProfileRow
      BY <1>7, <1>t, <2>4 DEF Write, TypeOK
    <3>4. End(r, TRUE)
      BY <1>7, <2>4 DEF Write
    <3> QED BY <1>t, <3>2, <3>3, <3>4, EndTypes
  <2>5. ~(End(r, TRUE) /\ Goto(r, "commit"))
    <3>1. stage'[r] = "idle" \/ ~End(r, TRUE)
      BY <1>t DEF End, TypeOK
    <3>2. stage'[r] = "commit" \/ ~Goto(r, "commit")
      BY <1>t DEF Goto, TypeOK
    <3> QED BY <3>1, <3>2
  <2> QED BY <1>7, <2>1, <2>3, <2>4, <2>5 DEF Write
<1>8. ASSUME NEW r \in Requests, Commit(r) PROVE TypeOK'
  <2>1. User(r) \in Users
    BY <1>0, <1>8 DEF Commit
  <2>2. users' \in [Users -> UserRow \cup {Absent}]
    BY <1>t, <1>8, <2>1 DEF Commit, TypeOK
  <2>3. profiles' \subseteq ProfileRow
    BY <1>t, <1>8 DEF Commit, TypeOK
  <2>4. End(r, TRUE)
    BY <1>8 DEF Commit
  <2> QED BY <1>t, <2>2, <2>3, <2>4, EndTypes
<1>9. ASSUME NEW r \in Requests, LockProfile(r) PROVE TypeOK'
  <2>1. call[r] \in Calls /\ call[r].op = "rename"
    BY <1>t, <1>0, <1>9, CallFields DEF LockProfile, TypeOK, StagesOf
  <2>2. CASE ~Rollback(r)
    <3>1. PICK p \in profiles :
            draft' = [draft EXCEPT ![r] = [p EXCEPT !.name = call[r].name]]
      BY <1>9, <2>2 DEF LockProfile, ProfilesOf
    <3>2. [p EXCEPT !.name = call[r].name] \in ProfileRow
      BY <1>t, <2>1, CallFields DEF ProfileRow, TypeOK
    <3>3. draft' \in [Requests -> ProfileRow \cup {Absent}]
      BY <1>t, <3>1, <3>2 DEF TypeOK
    <3>4. /\ stage'[r] = "rename" /\ stage'[r] \in StagesOf(call[r].op)
          /\ Goto(r, stage'[r])
      BY <1>t, <1>9, <2>1, <2>2, GotoStage DEF LockProfile, StagesOf
    <3> QED BY <1>t, <1>9, <2>2, <3>3, <3>4, GotoTypes DEF LockProfile, TypeOK, Stages
  <2> QED BY <1>2, <2>2
<1>10. ASSUME NEW r \in Requests, Rename(r) PROVE TypeOK'
  <2>1. draft[r] \in ProfileRow
    BY <1>10, <1>t DEF Rename, AccountInv, RequestInv, DraftInv, TypeOK
  <2>2. profiles' \subseteq ProfileRow /\ users' \in [Users -> UserRow \cup {Absent}]
    BY <1>10, <1>t, <2>1 DEF Rename, TypeOK
  <2>3. End(r, FALSE)
    BY <1>10 DEF Rename
  <2> QED BY <1>t, <2>2, <2>3, EndTypes
<1>11. ASSUME NEW r \in Requests, Fail(r) PROVE TypeOK'
  BY <1>2, <1>11 DEF Fail
<1>12. CASE UNCHANGED vars
  BY <1>t, <1>12 DEF vars, tables, history, TypeOK
<1> QED BY <1>1, <1>3, <1>4, <1>5, <1>6, <1>7, <1>8, <1>9, <1>10, <1>11, <1>12 DEF Next, Step
\* The profiles of a user are never all lost.
LEMMA ProfilesStay ==
  ASSUME AccountInv, [Next]_vars, NEW u \in Users, ProfilesOf(u) # {}
  PROVE  ProfilesOf(u)' # {}
<1>t. TypeOK
  BY DEF AccountInv
<1>1. ASSUME NEW r \in Requests, Rename(r) PROVE ProfilesOf(u)' # {}
  <2>1. PICK p \in profiles : p.user = u
    BY DEF ProfilesOf
  <2>2. PICK q \in profiles : q.id = draft[r].id /\ q.user = draft[r].user
    BY <1>1 DEF Rename, AccountInv, RequestInv, DraftInv
  <2>3. CASE p.id = draft[r].id
    BY <1>1, <2>1, <2>2, <2>3 DEF Rename, ProfilesOf, AccountInv
  <2>4. CASE p.id # draft[r].id
    BY <1>1, <2>1, <2>4 DEF Rename, ProfilesOf
  <2> QED BY <2>3, <2>4
<1>2. CASE profiles \subseteq profiles'
  BY <1>2 DEF ProfilesOf
<1>3. ASSUME NEW r \in Requests, Step(r), ~Rename(r) PROVE profiles \subseteq profiles'
  BY <1>3 DEF Step, InsertUser, Find, Preload, FindProfile, InsertProfile, Refetch, Write,
              Commit, LockProfile, Fail, Rollback, tables
<1> QED BY <1>1, <1>2, <1>3 DEF Next, Begin, vars, tables
\* A step leaves the other requests where they are, and a user somebody else
\* writes is written under their eyes.
LEMMA Bystander ==
  ASSUME AccountInv, NEW r \in Requests, Step(r), NEW q \in Requests, q # r
  PROVE  /\ call'[q] = call[q] /\ stage'[q] = stage[q]
         /\ copy'[q] = copy[q] /\ draft'[q] = draft[q]
         /\ (q \in writes' <=> q \in writes) /\ (q \in had' <=> q \in had)
         /\ q \in fresh' => q \in fresh
         /\ q \in fresh' /\ stage[q] # "idle" => users'[User(q)] = users[User(q)]
<1>t. TypeOK
  BY DEF AccountInv
<1> USE <1>t DEF TypeOK
<1>1. CASE Rollback(r)
  BY <1>1 DEF Rollback, End, tables
<1>2. CASE UNCHANGED users /\ UNCHANGED history /\ UNCHANGED call
           /\ \E st : stage' = [stage EXCEPT ![r] = st]
    <2>1. stage'[q] = stage[q]
      BY <1>2
    <2>2. UNCHANGED <<had, fresh>>
      BY <1>2 DEF history
    <2>3. /\ copy'[q] = copy[q] /\ draft'[q] = draft[q]
          /\ (q \in writes' <=> q \in writes)
      BY <1>2 DEF Step, InsertUser, Find, Preload, FindProfile, InsertProfile, Refetch,
            Write, Commit, LockProfile, Rename, Fail, Rollback, End
    <2> QED BY <1>2, <2>1, <2>2, <2>3
<1>3. CASE End(r, TRUE)
  <2>1. \A u \in Users : u # User(r) => users'[u] = users[u]
    BY <1>3 DEF Step, InsertUser, Find, Preload, FindProfile, InsertProfile, Refetch,
            Write, Commit, LockProfile, Rename, Fail, Rollback, Goto, tables
  <2>2. stage[q] # "idle" => User(q) \in Users
    BY CallFields DEF User
  <2> QED BY <1>3, <2>1, <2>2 DEF End
<1>4. CASE End(r, FALSE) /\ UNCHANGED users
  BY <1>4 DEF End
<1> QED BY <1>1, <1>2, <1>3, <1>4 DEF Step, InsertUser, Find, Preload, FindProfile,
      InsertProfile, Refetch, Write, Commit, LockProfile, Rename, Fail, Goto, tables


\* A row that is written and not committed is nobody else's to write.
LEMMA LockedRow ==
  ASSUME AccountInv, NEW r \in Requests, Step(r), NEW q \in writes, q # r
  PROVE  users'[User(q)] = users[User(q)]
<1>t. TypeOK /\ q \in Requests
  BY DEF AccountInv, TypeOK
<1>0. User(q) \in Users
  <2>1. stage[q] # "idle"
    BY <1>t DEF AccountInv, RequestInv
  <2> QED BY <1>t, <2>1, CallFields DEF TypeOK, User
<1>1. User(q) # User(r) => users'[User(q)] = users[User(q)]
  BY <1>t, <1>0 DEF Step, InsertUser, Find, Preload, FindProfile, InsertProfile, Refetch,
        Write, Commit, LockProfile, Rename, Fail, Rollback, tables, TypeOK
<1>2. CASE InsertUser(r) \/ Write(r)
  BY <1>t, <1>1, <1>2 DEF InsertUser, Write, RowFree
<1>3. CASE Commit(r)
  <2>1. r \in writes
    BY <1>3 DEF AccountInv, RequestInv, CopyInv, Commit
  <2> QED BY <1>1, <2>1 DEF AccountInv
<1>4. CASE UNCHANGED users
  BY <1>4
<1> QED BY <1>2, <1>3, <1>4 DEF Step, Find, Preload, FindProfile, InsertProfile, Refetch,
      LockProfile, Rename, Fail, Rollback, tables

\* A user never goes away.
LEMMA UsersStay ==
  ASSUME AccountInv, [Next]_vars, NEW u \in Users, users[u] # Absent
  PROVE  users'[u] # Absent
<1>t. TypeOK
  BY DEF AccountInv
<1>1. ASSUME NEW r \in Requests, Commit(r) PROVE users'[u] # Absent
  BY <1>t, <1>1 DEF Commit, AccountInv, RequestInv, CopyInv, TypeOK
<1>2. ASSUME NEW r \in Requests, InsertUser(r) PROVE users'[u] # Absent
  BY <1>t, <1>2 DEF InsertUser, Rollback, tables, TypeOK
<1>3. ASSUME NEW r \in Requests, Write(r) PROVE users'[u] # Absent
  <2>1. call[r] \in Calls /\ copy[r] \in UserRow
    BY <1>t, <1>3 DEF Write, AccountInv, RequestInv, CopyInv, TypeOK
  <2>2. call[r].op = "password" =>
          [copy[r] EXCEPT !.password = call[r].password] \in UserRow
    BY <2>1, CallFields DEF UserRow
  <2> QED BY <1>t, <1>3, <2>2, AccountsAssumption DEF Write, tables, UserRow, TypeOK
<1>4. CASE UNCHANGED users
  BY <1>4
<1> QED BY <1>1, <1>2, <1>3, <1>4 DEF Next, Step, Begin, Find, Preload, FindProfile, InsertProfile,
      Refetch, LockProfile, Rename, Fail, Rollback, vars, tables

\* Profiles keep ids of their own, and a draft keeps clear of them.
LEMMA IdStep ==
  ASSUME AccountInv, NEW r \in Requests, Step(r)
  PROVE  \A p, q \in profiles' : p.id = q.id => p = q
<1>t. TypeOK
  BY DEF AccountInv
<1>1. CASE Commit(r)
  BY <1>t, <1>1 DEF Commit, AccountInv, RequestInv, DraftInv
<1>2. CASE Rename(r)
  BY <1>t, <1>2 DEF Rename, AccountInv
<1>3. CASE UNCHANGED profiles
  BY <1>3 DEF AccountInv
<1> QED BY <1>1, <1>2, <1>3 DEF Step, InsertUser, Find, Preload, FindProfile, InsertProfile,
      Refetch, Write, LockProfile, Fail, Rollback, tables

\* The requests that do not move keep their invariant.
LEMMA BystanderStep ==
  ASSUME AccountInv, NEW r \in Requests, Step(r), NEW q \in Requests, q # r
  PROVE  RequestInv(q)'
<1>t. TypeOK /\ RequestInv(q) /\ RequestInv(r)
  BY DEF AccountInv
<1>n. [Next]_vars
  BY DEF Next
<1>f. /\ call'[q] = call[q] /\ stage'[q] = stage[q]
      /\ copy'[q] = copy[q] /\ draft'[q] = draft[q]
      /\ (q \in writes' <=> q \in writes) /\ (q \in had' <=> q \in had)
      /\ q \in fresh' => q \in fresh
      /\ q \in fresh' /\ stage[q] # "idle" => users'[User(q)] = users[User(q)]
      /\ User(q)' = User(q)
  BY Bystander DEF User
<1>1. CASE stage[q] = "idle"
  BY <1>t, <1>f, <1>1 DEF RequestInv
<1>2. CASE stage[q] # "idle"
  <2>0. User(q) \in Users
    BY <1>t, <1>2, CallFields DEF TypeOK, User
  <2>s. Served(q) => Served(q)'
    BY <1>n, <1>f, <2>0, ProfilesStay DEF Served
  <2>1. CopyInv(q)'
    <3>1. copy[q] # Absent => (users'[User(q)] # Absent <=> call[q].op # "oauth")
      BY <1>t, <1>n, <1>2, <2>0, UsersStay, LockedRow DEF RequestInv, CopyInv
    <3> QED BY <1>t, <1>f, <1>2, <2>s, <3>1 DEF RequestInv, CopyInv
  <2>2. FreshInv(q)'
    BY <1>t, <1>f, <1>2 DEF RequestInv, FreshInv
  <2>3. DraftInv(q)'
    <3>1. ASSUME draft[q] # Absent, stage[q] # "rename"
          PROVE  /\ \A p \in profiles' : p.id # draft[q].id
                 /\ draft'[r] # Absent => draft'[r].id # draft[q].id
      <4>0. /\ \A p \in profiles : p.id # draft[q].id
            /\ draft[r] # Absent => draft[r].id # draft[q].id
        BY <1>t, <1>2, <3>1 DEF RequestInv, DraftInv
      <4>1. CASE /\ draft' = [draft EXCEPT ![r] = Absent]
                 /\ \/ UNCHANGED profiles
                    \/ profiles' \subseteq profiles \cup ({draft[r]} \ {Absent})
        BY <1>t, <4>0, <4>1 DEF TypeOK
      <4>2. CASE UNCHANGED <<profiles, draft>>
        BY <4>0, <4>2
      <4>3. ASSUME NEW i \in Ids, InsertProfile(r, i) PROVE draft'[r].id # draft[q].id
        BY <1>t, <3>1, <4>3 DEF InsertProfile, Unused, Drafts, TypeOK
      <4>4. CASE LockProfile(r) /\ ~Rollback(r)
        BY <1>t, <4>0, <4>4 DEF LockProfile, ProfilesOf, TypeOK, ProfileRow, tables
      <4>5. CASE Commit(r)
        BY <4>1, <4>5 DEF Commit, End
      <4>6. CASE Rename(r)
        <5>1. draft[r] # Absent
          BY <1>t, <4>6 DEF Rename, RequestInv, DraftInv
        <5> QED BY <4>1, <4>6, <5>1 DEF Rename, End
      <4>7. CASE Rollback(r)
        BY <4>1, <4>7 DEF Rollback, End, tables
      <4>8. CASE \E i \in Ids : InsertProfile(r, i)
        BY <4>0, <4>3, <4>8 DEF InsertProfile, tables
      <4> QED BY <4>1, <4>2, <4>4, <4>5, <4>6, <4>7, <4>8 DEF Step, InsertUser, Find, Preload,
            FindProfile, Refetch, Write, Fail, End, tables
    <3>2. ASSUME stage[q] = "rename" PROVE \E p \in profiles' : p.id = draft[q].id /\ p.user = draft[q].user
      <4>1. PICK p \in profiles : p.id = draft[q].id /\ p.user = draft[q].user
        BY <1>t, <3>2 DEF RequestInv, DraftInv
      <4>2. CASE Rename(r)
        <5>1. PICK p2 \in profiles : p2.id = draft[r].id /\ p2.user = draft[r].user
          BY <1>t, <4>2 DEF RequestInv, DraftInv, Rename
        <5>2. CASE draft[r].id = draft[q].id
          BY <4>1, <4>2, <5>1, <5>2 DEF Rename, AccountInv
        <5>3. CASE draft[r].id # draft[q].id
          BY <4>1, <4>2, <5>3 DEF Rename
        <5> QED BY <5>2, <5>3
      <4>3. CASE ~Rename(r)
        <5>1. profiles \subseteq profiles'
          BY <4>3 DEF Step, InsertUser, Find, Preload, FindProfile, InsertProfile, Refetch,
                      Write, Commit, LockProfile, Fail, Rollback, tables
        <5> QED BY <4>1, <5>1
      <4> QED BY <4>2, <4>3
    <3>3. \A q2 \in Requests \ {q, r} : draft'[q2] = draft[q2]
      BY Bystander
    <3> QED BY <1>t, <1>f, <1>2, <3>1, <3>2, <3>3 DEF RequestInv, DraftInv
  <2>4. q \in had' => /\ ProfilesOf(User(q))' # {} /\ stage'[q] # "insertProfile"
                      /\ stage'[q] # "rename" => draft'[q] = Absent
    BY <1>t, <1>n, <1>f, <1>2, <2>0, ProfilesStay DEF RequestInv
  <2> QED BY <1>f, <1>2, <2>1, <2>2, <2>3, <2>4 DEF RequestInv
<1> QED BY <1>1, <1>2
\* The request that moves keeps its invariant: when it ends nothing is left of
\* it, and else what it found and inserted carries it to its next statement.
LEMMA ActorStep ==
  ASSUME AccountInv, NEW r \in Requests, Step(r)
  PROVE  RequestInv(r)'
<1>t. TypeOK /\ RequestInv(r) /\ VerifiedHasProfile
  BY DEF AccountInv
<1>n. [Next]_vars
  BY DEF Next
<1>0. stage[r] # "idle" /\ call[r] \in Calls /\ User(r) \in Users /\ CopyInv(r)
      /\ FreshInv(r) /\ DraftInv(r)
  <2>1. stage[r] # "idle"
    BY DEF Step, InsertUser, Find, Preload, FindProfile, InsertProfile, Refetch, Write,
           Commit, LockProfile, Rename, Fail
  <2> QED BY <1>t, <2>1, CallFields DEF RequestInv, TypeOK, User
<1>1. ASSUME NEW W \in BOOLEAN, End(r, W) PROVE RequestInv(r)'
  BY <1>t, <1>1 DEF End, RequestInv, TypeOK
<1>2. CASE Rollback(r)
  BY <1>1, <1>2 DEF Rollback
<1>g. ASSUME NEW st, Goto(r, st)
      PROVE  /\ stage'[r] = st /\ call' = call /\ User(r)' = User(r)
             /\ had' = had /\ fresh' = fresh
  BY <1>t, <1>g DEF Goto, TypeOK, User, history
<1>3. CASE InsertUser(r)
  <2>1. CASE /\ copy' = [copy EXCEPT ![r] = [password |-> NoHash, verified |-> TRUE]]
             /\ Goto(r, "findProfile") /\ UNCHANGED <<tables, draft>>
             /\ call[r].op = "oauth" /\ users[User(r)] = Absent
             /\ writes' = writes \cup {r}
    <3>0. [password |-> NoHash, verified |-> TRUE] # Absent
      <4>1. [password |-> NoHash, verified |-> TRUE]
              \in [password : Passwords \cup {NoHash}, verified : BOOLEAN]
        OBVIOUS
      <4> QED BY <4>1, AccountsAssumption
    <3>1. copy'[r] # Absent
      BY <1>t, <2>1, <3>0 DEF TypeOK
    <3>2. stage'[r] = "findProfile" /\ call' = call
      BY <1>g, <2>1
    <3>3. CopyInv(r)'
      BY <1>g, <2>1, <3>1, <3>2 DEF CopyInv, tables
    <3>4. FreshInv(r)'
      BY <2>1, <3>2 DEF FreshInv
    <3>5. draft[r] = Absent /\ draft'[r] = Absent
      BY <1>0, <1>3, <2>1 DEF InsertUser, DraftInv
    <3>6. DraftInv(r)'
      BY <3>2, <3>5 DEF DraftInv
    <3> QED BY <1>t, <1>g, <1>3, <2>1, <3>2, <3>3, <3>4, <3>5, <3>6
            DEF RequestInv, ProfilesOf, tables, InsertUser
  <2> QED BY <1>1, <1>2, <1>3, <2>1 DEF InsertUser
<1>4. CASE Find(r) /\ ~Rollback(r)
  <2>1. /\ Goto(r, IF call[r].op = "verify" THEN "preload" ELSE "write")
        /\ copy'[r] = users[User(r)] /\ users[User(r)] # Absent
        /\ UNCHANGED <<users, profiles, draft>>
    BY <1>t, <1>4 DEF Find, TypeOK, tables
  <2>2. call[r].op \in {"verify", "password"}
    BY <1>t, <1>0, <1>4, CallFields DEF Find, TypeOK, StagesOf
  <2>3. draft[r] = Absent /\ draft'[r] = Absent
    BY <1>0, <1>4, <2>1 DEF Find, DraftInv
  <2>4. /\ stage'[r] \in {"preload", "write"} /\ (stage'[r] = "write" => call[r].op = "password")
        /\ call' = call /\ User(r)' = User(r)
    BY <1>g, <2>1, <2>2
  <2>5. copy'[r].verified => ProfilesOf(User(r)) # {}
    BY <1>t, <1>0, <2>1 DEF VerifiedHasProfile
  <2>6. CopyInv(r)'
    BY <2>1, <2>2, <2>4, <2>5 DEF CopyInv, Served, ProfilesOf
  <2>7. FreshInv(r)'
    BY <2>1, <2>4 DEF FreshInv
  <2>8. DraftInv(r)'
    BY <2>3, <2>4 DEF DraftInv
  <2> QED BY <1>t, <1>g, <1>0, <2>1, <2>3, <2>4, <2>6, <2>7, <2>8 DEF RequestInv, ProfilesOf
<1>5. CASE Preload(r) \/ FindProfile(r)
  <2>1. /\ UNCHANGED <<users, profiles, copy, writes, draft>>
        /\ Goto(r, stage'[r])
        /\ stage'[r] # "idle"
    BY <1>t, <1>5 DEF Preload, FindProfile, AfterProfile, tables, Goto, TypeOK
  <2>2. draft[r] = Absent
    BY <1>0, <1>5 DEF Preload, FindProfile, DraftInv
  <2>3. call[r].op = "verify" \/ (FindProfile(r) /\ call[r].op = "oauth")
    BY <1>t, <1>0, <1>5, CallFields DEF Preload, FindProfile, TypeOK, StagesOf
  <2>4. /\ stage'[r] \in {"findProfile", "insertProfile", "write", "refetch", "commit"}
        /\ stage'[r] \in {"findProfile", "insertProfile"} => ProfilesOf(User(r)) = {}
        /\ stage'[r] \in {"write", "refetch", "commit"} => ProfilesOf(User(r)) # {}
        /\ stage'[r] = "commit" => call[r].op = "oauth"
        /\ call' = call /\ User(r)' = User(r) /\ had' = had /\ fresh' = fresh
        /\ ProfilesOf(User(r))' = ProfilesOf(User(r))
    BY <1>t, <1>g, <1>5, <2>1, <2>3 DEF Preload, FindProfile, AfterProfile, ProfilesOf
  <2>5. copy[r] # Absent /\ UNCHANGED copy
    BY <1>0, <1>5, <2>1 DEF CopyInv, Preload, FindProfile
  <2>6. CopyInv(r)'
    BY <1>0, <2>1, <2>4, <2>5 DEF CopyInv, Served
  <2>7. FreshInv(r)'
    BY <1>0, <1>5, <2>1, <2>3, <2>4, <2>5 DEF FreshInv, Preload, FindProfile
  <2>8. DraftInv(r)'
    BY <2>1, <2>2, <2>4 DEF DraftInv
  <2> QED BY <1>t, <1>0, <2>1, <2>2, <2>4, <2>6, <2>7, <2>8 DEF RequestInv
<1>7. ASSUME NEW i \in Ids, InsertProfile(r, i) PROVE RequestInv(r)'
  <2>1. call[r].op \in {"oauth", "verify"}
    BY <1>t, <1>0, <1>7, CallFields DEF InsertProfile, TypeOK, StagesOf
  <2>2. /\ stage'[r] = AfterProfile(r) /\ call' = call /\ User(r)' = User(r)
        /\ had' = had /\ fresh' = fresh
    BY <1>7, <1>g DEF InsertProfile
  <2>3. stage'[r] = IF call[r].op = "verify" THEN "refetch" ELSE "commit"
    BY <2>2 DEF AfterProfile
  <2>4. /\ draft'[r] = [id |-> i, user |-> User(r), name |-> call[r].name]
        /\ \A q \in Requests \ {r} : draft'[q] = draft[q]
        /\ UNCHANGED <<users, profiles, copy, writes>>
    BY <1>t, <1>7 DEF InsertProfile, TypeOK, tables
  <2>5. draft'[r] # Absent
    <3>1. draft'[r] \in [id : Ids, user : Users, name : Names]
      BY <1>0, <2>1, <2>4, CallFields
    <3> QED BY <3>1, AccountsAssumption
  <2>6. CopyInv(r)'
    BY <1>0, <1>7, <2>1, <2>2, <2>3, <2>4, <2>5 DEF CopyInv, Served, InsertProfile
  <2>7. FreshInv(r)'
    BY <1>0, <1>7, <2>1, <2>2, <2>3, <2>4 DEF FreshInv, InsertProfile
  <2>8. DraftInv(r)'
    <3>1. /\ \A p \in profiles' : p.id # draft'[r].id
          /\ \A q \in Requests \ {r} : draft'[q] # Absent => draft'[q].id # draft'[r].id
      BY <1>7, <2>4 DEF InsertProfile, Unused, Drafts
    <3>2. draft'[r].user = User(r)' /\ stage'[r] \in {"refetch", "commit"}
      BY <2>2, <2>3, <2>4
    <3> QED BY <2>1, <2>2, <3>1, <3>2 DEF DraftInv
  <2> QED BY <1>t, <1>0, <1>7, <2>2, <2>3, <2>6, <2>7, <2>8 DEF RequestInv, InsertProfile
<1>8. CASE Refetch(r)
  <2>1. call[r].op = "verify"
    BY <1>t, <1>0, <1>8, CallFields DEF Refetch, TypeOK, StagesOf
  <2>2. /\ stage'[r] = "write" /\ call' = call /\ User(r)' = User(r)
        /\ had' = had /\ fresh' = fresh
    BY <1>8, <1>g DEF Refetch
  <2>3. copy'[r] = users[User(r)] /\ UNCHANGED <<users, profiles, writes, draft>>
    BY <1>t, <1>8 DEF Refetch, TypeOK, tables
  <2>4. users[User(r)] # Absent /\ Served(r)
    BY <1>0, <1>8, <2>1 DEF Refetch, CopyInv
  <2>5. CopyInv(r)'
    BY <2>1, <2>2, <2>3, <2>4 DEF CopyInv, Served, ProfilesOf
  <2>6. FreshInv(r)'
    BY <2>2, <2>3 DEF FreshInv
  <2>7. DraftInv(r)'
    BY <1>0, <1>8, <2>1, <2>2, <2>3 DEF DraftInv, Refetch
  <2> QED BY <1>t, <1>0, <1>8, <2>2, <2>3, <2>5, <2>6, <2>7 DEF RequestInv, Refetch, ProfilesOf
<1>9. CASE Write(r) /\ ~End(r, TRUE)
  <2>1. /\ call[r].op = "verify" /\ copy' = [copy EXCEPT ![r].verified = TRUE]
        /\ Goto(r, "commit") /\ UNCHANGED <<users, profiles, draft>>
        /\ writes' = writes \cup {r}
    BY <1>9 DEF Write, tables
  <2>2. /\ stage'[r] = "commit" /\ call' = call /\ User(r)' = User(r)
        /\ had' = had /\ fresh' = fresh
    BY <1>g, <2>1
  <2>3. stage[r] = "write" /\ copy[r] \in UserRow /\ users[User(r)] # Absent /\ Served(r)
    BY <1>t, <1>0, <1>9, <2>1 DEF Write, CopyInv, TypeOK
  <2>4. copy'[r] = [copy[r] EXCEPT !.verified = TRUE] /\ copy'[r] \in UserRow
    BY <1>t, <2>1, <2>3 DEF UserRow, TypeOK
  <2>5. copy'[r] # Absent
    BY <2>4, AccountsAssumption DEF UserRow
  <2>6. CopyInv(r)'
    BY <2>1, <2>2, <2>3, <2>5 DEF CopyInv, Served, ProfilesOf
  <2>7. FreshInv(r)'
    BY <1>0, <2>1, <2>2, <2>3, <2>4, AccountsAssumption DEF FreshInv, UserRow
  <2>8. DraftInv(r)'
    BY <1>0, <2>1, <2>2, <2>3 DEF DraftInv
  <2> QED BY <1>t, <1>0, <2>1, <2>2, <2>3, <2>6, <2>7, <2>8 DEF RequestInv, ProfilesOf
<1>10. CASE Commit(r) \/ Rename(r)
  BY <1>1, <1>10 DEF Commit, Rename
<1>11. CASE LockProfile(r) /\ ~Rollback(r)
  <2>1. PICK p \in ProfilesOf(User(r)) :
          /\ draft' = [draft EXCEPT ![r] = [p EXCEPT !.name = call[r].name]]
          /\ Goto(r, "rename") /\ UNCHANGED <<users, profiles, copy, writes>>
    BY <1>11 DEF LockProfile, tables
  <2>2. call[r].op = "rename" /\ stage[r] = "lockProfile"
    BY <1>t, <1>0, <1>11, CallFields DEF LockProfile, TypeOK, StagesOf
  <2>3. /\ stage'[r] = "rename" /\ call' = call /\ User(r)' = User(r)
        /\ had' = had /\ fresh' = fresh
    BY <1>g, <2>1
  <2>4. p \in ProfileRow /\ p \in profiles /\ p.user = User(r)
    BY <1>t, <2>1 DEF ProfilesOf, TypeOK
  <2>5. /\ draft'[r] = [p EXCEPT !.name = call[r].name] /\ draft'[r] \in ProfileRow
        /\ draft'[r].id = p.id /\ draft'[r].user = p.user
    BY <1>t, <1>0, <2>1, <2>2, <2>4, CallFields DEF ProfileRow, TypeOK
  <2>6. draft'[r] # Absent
    BY <2>5, AccountsAssumption DEF ProfileRow
  <2>7. CopyInv(r)'
    BY <1>0, <2>1, <2>2, <2>3 DEF CopyInv
  <2>8. FreshInv(r)'
    BY <2>2, <2>3 DEF FreshInv
  <2>9. DraftInv(r)'
    BY <2>1, <2>3, <2>4, <2>5, <2>6 DEF DraftInv
  <2> QED BY <1>t, <1>0, <2>1, <2>3, <2>4, <2>7, <2>8, <2>9 DEF RequestInv, ProfilesOf
<1> QED BY <1>1, <1>2, <1>3, <1>4, <1>5, <1>7, <1>8, <1>9, <1>10, <1>11 DEF Step, Fail

\* A new request has nothing yet.
LEMMA BeginStep ==
  ASSUME AccountInv, NEW r \in Requests, NEW c \in Calls, Begin(r, c)
  PROVE  /\ \A q \in Requests : RequestInv(q)'
         /\ \A q, s \in writes' : User(q)' = User(s)' => q = s
<1>t. TypeOK /\ r \notin writes /\ copy[r] = Absent /\ draft[r] = Absent /\ r \notin had
  BY DEF AccountInv, RequestInv, Begin
<1>1. \A q \in Requests \ {r} :
        /\ call'[q] = call[q] /\ stage'[q] = stage[q] /\ User(q)' = User(q)
        /\ (q \in had' <=> q \in had) /\ (q \in fresh' <=> q \in fresh)
  BY <1>t DEF Begin, TypeOK, User
<1>2. ASSUME NEW q \in Requests, q # r PROVE RequestInv(q)'
  BY <1>1, <1>2 DEF AccountInv, RequestInv, CopyInv, FreshInv, DraftInv, Served, ProfilesOf,
                    Begin, tables
<1>3. RequestInv(r)'
  <2>1. call'[r] = c /\ stage'[r] = FirstStage(c.op) /\ User(r)' = c.user
    BY <1>t DEF Begin, TypeOK, User
  <2>2. FirstStage(c.op) \in {"insertUser", "find", "lockProfile"}
    BY CallFields DEF FirstStage
  <2>3. r \in had' => ProfilesOf(c.user) # {}
    BY <1>t DEF Begin
  <2> QED BY <1>t, <2>1, <2>2, <2>3 DEF RequestInv, CopyInv, FreshInv, DraftInv, ProfilesOf,
                                        Begin, tables
<1> QED BY <1>t, <1>1, <1>2, <1>3 DEF Begin, AccountInv, TypeOK

\* A row has one writer at a time.
LEMMA LockStep ==
  ASSUME AccountInv, NEW r \in Requests, Step(r)
  PROVE  \A q, s \in writes' : User(q)' = User(s)' => q = s
<1>t. TypeOK
  BY DEF AccountInv
<1>1. \A q \in Requests \ {r} : (q \in writes' <=> q \in writes) /\ User(q)' = User(q)
  BY Bystander DEF User
<1>2. CASE r \notin writes'
  BY <1>t, <1>1, <1>2, TypeStep DEF AccountInv, TypeOK, Next
<1>3. CASE User(r)' = User(r) /\ (r \in writes \/ RowFree(r))
  BY <1>t, <1>1, <1>3, TypeStep DEF AccountInv, TypeOK, RowFree, Next
<1>4. ASSUME NEW W \in BOOLEAN, End(r, W) PROVE r \notin writes'
  BY <1>4 DEF End
<1>5. ASSUME NEW st, Goto(r, st) PROVE User(r)' = User(r)
  BY <1>5 DEF Goto, User
<1> QED BY <1>2, <1>3, <1>4, <1>5 DEF Step, InsertUser, Find, Preload, FindProfile, InsertProfile,
      Refetch, Write, Commit, LockProfile, Rename, Fail, Rollback

\* No step leaves a verified user without a profile: a row is written verified
\* only by a request whose user is served, and profiles stay.
LEMMA VerifiedStep ==
  ASSUME AccountInv, NEW r \in Requests, Step(r)
  PROVE  VerifiedHasProfile'
<1>t. TypeOK /\ RequestInv(r) /\ VerifiedHasProfile
  BY DEF AccountInv
<1>n. [Next]_vars
  BY DEF Next
<1>0. stage[r] # "idle" => User(r) \in Users /\ CopyInv(r) /\ DraftInv(r)
  BY <1>t, CallFields DEF RequestInv, TypeOK, User
<1>1. CASE UNCHANGED users
  BY <1>t, <1>n, <1>1, ProfilesStay DEF VerifiedHasProfile
<1>2. ASSUME NEW w \in Users, NEW row, users' = [users EXCEPT ![w] = row],
             row.verified => ProfilesOf(w)' # {}
      PROVE  VerifiedHasProfile'
  <2>1. ASSUME NEW u \in Users, users'[u] # Absent, users'[u].verified
        PROVE  ProfilesOf(u)' # {}
    <3>1. CASE u = w
      BY <1>t, <1>2, <2>1, <3>1 DEF TypeOK
    <3>2. CASE u # w
      BY <1>t, <1>n, <1>2, <2>1, <3>2, ProfilesStay DEF VerifiedHasProfile, TypeOK
    <3> QED BY <3>1, <3>2
  <2> QED BY <2>1 DEF VerifiedHasProfile
<1>3. CASE InsertUser(r)
  BY <1>0, <1>1, <1>2, <1>3 DEF InsertUser, Rollback, tables
<1>4. CASE Write(r)
  <2>1. ASSUME call[r].op = "password", ~UNCHANGED users
        PROVE  VerifiedHasProfile'
    <3>1. copy[r] \in UserRow /\ User(r) \in Users
      BY <1>t, <1>0, <1>4 DEF Write, CopyInv, TypeOK
    <3>2. [copy[r] EXCEPT !.password = call[r].password].verified = copy[r].verified
      BY <3>1 DEF UserRow
    <3>3. draft[r] = Absent
      BY <1>0, <1>4, <2>1 DEF Write, DraftInv
    <3>4. copy[r].verified => ProfilesOf(User(r)) # {}
      BY <1>0, <1>4, <3>3 DEF Write, CopyInv, Served
    <3>5. PICK w \in Users : w = User(r)
      BY <3>1
    <3>6. copy[r].verified => ProfilesOf(w)' # {}
      BY <1>n, <3>4, <3>5, ProfilesStay
    <3>7. users' = [users EXCEPT ![w] = [copy[r] EXCEPT !.password = call[r].password]]
      BY <1>4, <2>1, <3>5 DEF Write, tables
    <3> QED BY <1>2, <3>2, <3>6, <3>7
  <2>2. call[r].op = "password" \/ UNCHANGED users
    BY <1>4 DEF Write, tables
  <2> QED BY <1>1, <2>1, <2>2
<1>5. CASE Commit(r)
  <2>1. Served(r) /\ User(r) \in Users
    BY <1>0, <1>5 DEF Commit, CopyInv
  <2>2. PICK w \in Users : w = User(r)
    BY <2>1
  <2>3. ProfilesOf(w)' # {}
    <3>1. CASE draft[r] # Absent /\ draft[r].user = w
      BY <1>5, <3>1 DEF Commit, ProfilesOf
    <3> QED BY <1>n, <2>1, <2>2, <3>1, ProfilesStay DEF Served
  <2>4. users' = [users EXCEPT ![w] = copy[r]]
    BY <1>5, <2>2 DEF Commit
  <2> QED BY <1>2, <2>3, <2>4
<1> QED BY <1>1, <1>3, <1>4, <1>5 DEF Step, Find, Preload, FindProfile, InsertProfile, Refetch,
      LockProfile, Rename, Fail, Rollback, tables

\* AccountInv is inductive.
LEMMA AccountStep == AccountInv /\ [Next]_vars => AccountInv'
<1> SUFFICES ASSUME AccountInv, [Next]_vars PROVE AccountInv'
  OBVIOUS
<1>t. TypeOK'
  BY TypeStep
<1>1. ASSUME NEW r \in Requests, Step(r) PROVE AccountInv'
  <2>1. \A q \in Requests : RequestInv(q)'
    BY <1>1, ActorStep, BystanderStep
  <2> QED BY <1>t, <1>1, <2>1, IdStep, LockStep, VerifiedStep DEF AccountInv
<1>2. ASSUME NEW r \in Requests, NEW c \in Calls, Begin(r, c) PROVE AccountInv'
  BY <1>t, <1>2, BeginStep DEF AccountInv, VerifiedHasProfile, ProfilesOf, Begin, tables
<1>3. CASE UNCHANGED vars
  BY <1>t, <1>3 DEF vars, tables, history, AccountInv, RequestInv, CopyInv, FreshInv, DraftInv,
       Served, User, ProfilesOf, VerifiedHasProfile
<1> QED BY <1>1, <1>2, <1>3 DEF Next

\* It holds at the start.
LEMMA AccountStart == Init => AccountInv
BY DEF Init, AccountInv, TypeOK, RequestInv, VerifiedHasProfile, Stages

\* For any number of concurrent requests, however they fail and interleave,
\* every row is explained: no verified user lacks the profile its tokens are
\* made from, profile ids are unique, a row has one writer at a time, and a
\* copy nobody overtook is the row it was read from (CreateOAuth, SetVerified,
\* UpdatePassword, ProfileService.Create and Update).
THEOREM AccountsHold == Spec => []AccountInv
BY AccountStart, AccountStep, PTL DEF Spec

\* A request that began when its user had a profile never inserts another: the
\* check of SetVerified and of ProfileService.Create fails only for requests
\* that overlap.
THEOREM NoLateProfiles == Spec => []NoLateProfile
<1>1. AccountInv => NoLateProfile
  BY DEF AccountInv, RequestInv, NoLateProfile, TypeOK
<1> QED BY <1>1, AccountsHold, PTL

\* A request nobody overtook changes the one field it is about, though
\* SetVerified and UpdatePassword write back the whole row.
THEOREM OwnField == Spec => OwnFieldOnly
<1>1. ASSUME AccountInv, [Next]_vars, NEW r \in fresh,
             stage[r] \in {"write", "commit"}, stage'[r] = "idle", users' # users,
             users[User(r)] # Absent
      PROVE  users' = [users EXCEPT ![User(r)] =
                         IF call[r].op = "verify" THEN [@ EXCEPT !.verified = TRUE]
                         ELSE [@ EXCEPT !.password = call[r].password]]
  <2>t. TypeOK /\ r \in Requests /\ RequestInv(r)
    BY <1>1 DEF AccountInv, TypeOK
  <2>0. CopyInv(r) /\ FreshInv(r) /\ copy[r] # Absent
    BY <1>1, <2>t DEF RequestInv, CopyInv
  <2>1. call[r].op \in {"verify", "password"}
    BY <1>1, <2>t, <2>0, CallFields DEF CopyInv, TypeOK, StagesOf
  <2>2. PICK s \in Requests : (\E c \in Calls : Begin(s, c)) \/ Step(s)
    BY <1>1 DEF Next, vars, tables
  <2>3. Step(s) /\ s = r
    <3>1. Step(s)
      BY <1>1, <2>2 DEF Begin, tables
    <3> QED BY <1>1, <2>t, <3>1, Bystander
  <2>4. CASE Write(r)
    <3>1. call[r].op = "password" /\ stage[r] = "write"
      BY <1>1, <2>4 DEF Write, tables
    <3> QED BY <1>1, <2>0, <2>4, <3>1 DEF Write, FreshInv
  <2>5. CASE Commit(r)
    <3>1. call[r].op = "verify" /\ stage[r] = "commit"
      BY <2>t, <2>1, <2>5 DEF Commit, TypeOK, StagesOf
    <3> QED BY <1>1, <2>0, <2>5, <3>1 DEF Commit, FreshInv
  <2> QED BY <1>1, <2>3, <2>4, <2>5 DEF Step, InsertUser, Find, Preload, FindProfile,
        InsertProfile, Refetch, LockProfile, Rename, Fail, Rollback, tables
<1>2. AccountInv /\ [Next]_vars => 
        [\A r \in fresh :
           stage[r] \in {"write", "commit"} /\ stage'[r] = "idle" /\ users' # users
             /\ users[User(r)] # Absent =>
               users' = [users EXCEPT ![User(r)] =
                           IF call[r].op = "verify" THEN [@ EXCEPT !.verified = TRUE]
                           ELSE [@ EXCEPT !.password = call[r].password]]]_vars
  BY <1>1
<1> QED BY <1>2, AccountsHold, PTL DEF Spec, OwnFieldOnly

\* A verified user always has a profile.
THEOREM VerifiedHaveProfiles == Spec => []VerifiedHasProfile
<1>1. AccountInv => VerifiedHasProfile
  BY DEF AccountInv
<1> QED BY <1>1, AccountsHold, PTL
=============================================================================
