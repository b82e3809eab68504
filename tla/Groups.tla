---- MODULE Groups ----
(***************************************************************************)
(* GroupService (internal/domain/service/group_service.go) over the tables *)
(* groups and group_members, one action per database statement:            *)
(*                                                                         *)
(*   Create  INSERT group - find profile - INSERT member - COMMIT          *)
(*   Join    find group by token - find member - INSERT ... ON CONFLICT DO *)
(*           NOTHING (draw the id, then meet the index) - read members -   *)
(*           COMMIT                                                        *)
(*   Get     find membership - read members         (no transaction)       *)
(*   List    find memberships - read members of one group after another    *)
(*                                                                         *)
(* The members of a group are kept in the order of their ids.  An id is a  *)
(* uuidv7 drawn when its INSERT starts, so ids are ordered as INSERTs      *)
(* start, not as transactions commit.  No operation removes a member.      *)
(***************************************************************************)
EXTENDS SequencesExt

CONSTANTS
    Requests,    \* HTTP requests in flight
    Profiles,    \* profile ids a caller may present
    Registered,  \* those that have a user_profiles row
    GroupIds,    \* groups, each with its own invite token
    Committed,   \* the owner of a committed row
    Free,        \* the owner of a group id not in use
    Idle         \* no call

VARIABLES
    groups,   \* [GroupIds -> Free, the request inserting it, or Committed]
    members,  \* [GroupIds -> rows of group_members in id order]
    stage,    \* [Requests -> the statement a request runs next]
    call,     \* [Requests -> its call, or Idle]
    todo,     \* [Requests -> the groups a List has still to read]
    reply,    \* [Requests -> the members of each group it is about to return]
    answer    \* [Requests -> the last answer]

vars == <<groups, members, stage, call, todo, reply, answer>>

Call == [op : {"Create", "Join", "Get", "List"}, profile : Profiles, group : GroupIds]

ASSUME GroupsAssumption ==
    /\ Registered \subseteq Profiles
    /\ Committed \notin Requests
    /\ Free \notin Requests
    /\ Free # Committed
    /\ Idle \notin Call

Member == [profile : Profiles, by : Requests \cup {Committed}, written : BOOLEAN]

Stages == {"idle", "group", "profile", "creator", "token", "member", "insert",
           "index", "members", "require", "memberships", "summaries", "commit"}

\* An Error is the database's refusal of what the code asks for; a request has
\* Failed when a statement, its connection or its client went away.
Answers == {"None", "OK", "NotFound", "Error", "Failed"}

-----------------------------------------------------------------------------
\* What a statement of request r sees: committed rows and its own.

Sees(r, m) == m.by = Committed \/ (m.by = r /\ m.written)

\* membersOf: the group's members in id order, each at the place its row has.
MembersOf(r, g) ==
    [i \in {n \in 1..Len(members[g]) : Sees(r, members[g][n])} |-> members[g][i].profile]

IsMember(r, g, p) ==
    \E i \in 1..Len(members[g]) : Sees(r, members[g][i]) /\ members[g][i].profile = p

GroupVisible(r, g) == groups[g] \in {Committed, r}

-----------------------------------------------------------------------------
Busy(r) == stage[r] # "idle"

Goto(r, s) == stage' = [stage EXCEPT ![r] = s]

Answer(r, a) ==
    /\ Goto(r, "idle")
    /\ call' = [call EXCEPT ![r] = Idle]
    /\ todo' = [todo EXCEPT ![r] = {}]
    /\ answer' = [answer EXCEPT ![r] = a]

NoReply(r) == reply' = [reply EXCEPT ![r] = << >>]

\* Mutant of Rollback: the transaction stays open when its request is gone.
RollbackForgotten(r) == UNCHANGED <<groups, members>>

\* The rows of a group but r's.
Without(s, r) ==
    IF \E i \in 1..Len(s) : s[i].by = r
    THEN RemoveAt(s, CHOOSE i \in 1..Len(s) : s[i].by = r)
    ELSE s

Rollback(r) ==
    /\ groups' = [g \in GroupIds |-> IF groups[g] = r THEN Free ELSE groups[g]]
    /\ members' = [g \in GroupIds |-> Without(members[g], r)]

Refuse(r, a) == Rollback(r) /\ Answer(r, a) /\ NoReply(r)

Settled(m, r) == IF m.by = r THEN [m EXCEPT !.by = Committed] ELSE m

\* Mutant of Publish: members are listed in the order of their commits.
PublishLast(r) ==
    /\ groups' = [g \in GroupIds |-> IF groups[g] = r THEN Committed ELSE groups[g]]
    /\ members' = [g \in GroupIds |->
          IF Without(members[g], r) = members[g] THEN members[g]
          ELSE Append(Without(members[g], r),
                      [profile |-> call[r].profile, by |-> Committed, written |-> TRUE])]

\* What a COMMIT does to the tables.
Publish(r) ==
    /\ groups' = [g \in GroupIds |-> IF groups[g] = r THEN Committed ELSE groups[g]]
    /\ members' = [g \in GroupIds |->
          [i \in 1..Len(members[g]) |-> Settled(members[g][i], r)]]

-----------------------------------------------------------------------------
Init ==
    /\ groups = [g \in GroupIds |-> Free]
    /\ members = [g \in GroupIds |-> << >>]
    /\ stage = [r \in Requests |-> "idle"]
    /\ call = [r \in Requests |-> Idle]
    /\ todo = [r \in Requests |-> {}]
    /\ reply = [r \in Requests |-> << >>]
    /\ answer = [r \in Requests |-> "None"]

FirstStage(op) ==
    CASE op = "Create" -> "group"
      [] op = "Join" -> "token"
      [] op = "Get" -> "require"
      [] op = "List" -> "memberships"

\* A Create draws a group id and an invite token nobody else has.
Unclaimed(g) ==
    /\ groups[g] = Free
    /\ \A q \in Requests : call[q] # Idle => ~(call[q].op = "Create" /\ call[q].group = g)

Begin(r, c) ==
    /\ stage[r] = "idle"
    /\ c.op = "Create" => Unclaimed(c.group)
    /\ Goto(r, FirstStage(c.op))
    /\ call' = [call EXCEPT ![r] = c]
    /\ answer' = [answer EXCEPT ![r] = "None"]
    /\ NoReply(r)
    /\ UNCHANGED <<groups, members, todo>>

Proceed(r, s) == Goto(r, s) /\ UNCHANGED <<groups, members, call, todo, reply, answer>>

Insert(r, written) ==
    members' = [members EXCEPT ![call[r].group] =
                  Append(@, [profile |-> call[r].profile, by |-> r, written |-> written])]

\* --- Create ---

\* Mutant of CreateGroup: the group is inserted outside the transaction.
CreateGroupAtOnce(r) ==
    /\ stage[r] = "group"
    /\ groups' = [groups EXCEPT ![call[r].group] = Committed]
    /\ Goto(r, "profile")
    /\ UNCHANGED <<members, call, todo, reply, answer>>

CreateGroup(r) ==
    /\ stage[r] = "group"
    /\ groups' = [groups EXCEPT ![call[r].group] = r]
    /\ Goto(r, "profile")
    /\ UNCHANGED <<members, call, todo, reply, answer>>

CreateFindProfile(r) ==
    /\ stage[r] = "profile"
    /\ IF call[r].profile \in Registered THEN Proceed(r, "creator")
       ELSE Refuse(r, "NotFound")

CreateMember(r) ==
    /\ stage[r] = "creator"
    /\ Insert(r, TRUE)
    /\ reply' = [reply EXCEPT ![r] = [g \in {call[r].group} |-> <<call[r].profile>>]]
    /\ Goto(r, "commit")
    /\ UNCHANGED <<groups, call, todo, answer>>

\* --- Join ---

JoinFindGroup(r) ==
    /\ stage[r] = "token"
    /\ IF GroupVisible(r, call[r].group) THEN Proceed(r, "member")
       ELSE Refuse(r, "NotFound")

JoinFindMember(r) ==
    /\ stage[r] = "member"
    /\ IF IsMember(r, call[r].group, call[r].profile) THEN Proceed(r, "members")
       ELSE Proceed(r, "insert")

\* INSERT ... ON CONFLICT DO NOTHING starts: the row gets its id.
JoinInsert(r) ==
    /\ stage[r] = "insert"
    /\ Insert(r, FALSE)
    /\ Goto(r, "index")
    /\ UNCHANGED <<groups, call, todo, reply, answer>>

\* The rows the unique index on (group_id, profile_id) holds against r's.
Rivals(r) ==
    {m \in ToSet(members[call[r].group]) :
        m.by # r /\ m.profile = call[r].profile /\ m.written}

\* Mutant of IndexFree: there is no unique index.
IndexMissing(r) == TRUE

IndexFree(r) == Rivals(r) = {}

Indexed(m, r) == IF m.by = r THEN [m EXCEPT !.written = TRUE] ELSE m

\* Mutant of JoinIndex: an INSERT without ON CONFLICT, whose loser is refused.
JoinIndexStrict(r) ==
    /\ stage[r] = "index"
    /\ \/ /\ call[r].profile \notin Registered \/ \E m \in Rivals(r) : m.by = Committed
          /\ Refuse(r, "Error")
       \/ /\ call[r].profile \in Registered
          /\ IndexFree(r)
          /\ members' = [members EXCEPT ![call[r].group] =
                [i \in 1..Len(@) |-> Indexed(@[i], r)]]
          /\ Goto(r, "members")
          /\ UNCHANGED <<groups, call, todo, reply, answer>>

\* The INSERT waits for an uncommitted rival, gives way to a committed one, and
\* goes in when there is none.  A caller without a profile fails the foreign key.
JoinIndex(r) ==
    /\ stage[r] = "index"
    /\ \/ /\ call[r].profile \notin Registered
          /\ Refuse(r, "Error")
       \/ /\ call[r].profile \in Registered
          /\ IndexFree(r)
          /\ members' = [members EXCEPT ![call[r].group] =
                [i \in 1..Len(@) |-> Indexed(@[i], r)]]
          /\ Goto(r, "members")
          /\ UNCHANGED <<groups, call, todo, reply, answer>>
       \/ /\ call[r].profile \in Registered
          /\ \E m \in Rivals(r) : m.by = Committed
          /\ members' = [members EXCEPT ![call[r].group] = Without(@, r)]
          /\ Goto(r, "members")
          /\ UNCHANGED <<groups, call, todo, reply, answer>>

ReadMembers(r, g) ==
    reply' = [reply EXCEPT ![r] = [h \in DOMAIN @ \cup {g} |-> IF h = g THEN MembersOf(r, g) ELSE @[h]]]

JoinReadMembers(r) ==
    /\ stage[r] = "members" /\ call[r].op = "Join"
    /\ ReadMembers(r, call[r].group)
    /\ Goto(r, "commit")
    /\ UNCHANGED <<groups, members, call, todo, answer>>

\* --- Get ---

\* requireMembership: NotFound whether the group or the membership is missing.
GetRequireMembership(r) ==
    /\ stage[r] = "require"
    /\ IF IsMember(r, call[r].group, call[r].profile) THEN Proceed(r, "members")
       ELSE Refuse(r, "NotFound")

GetReadMembers(r) ==
    /\ stage[r] = "members" /\ call[r].op = "Get"
    /\ ReadMembers(r, call[r].group)
    /\ Answer(r, "OK")
    /\ UNCHANGED <<groups, members>>

\* --- List ---

\* Mutant of ListMemberships: the memberships of every profile are read.
ListEveryGroup(r) ==
    /\ stage[r] = "memberships"
    /\ todo' = [todo EXCEPT ![r] = {g \in GroupIds : \E p \in Profiles : IsMember(r, g, p)}]
    /\ Goto(r, "summaries")
    /\ UNCHANGED <<groups, members, call, reply, answer>>

ListMemberships(r) ==
    /\ stage[r] = "memberships"
    /\ todo' = [todo EXCEPT ![r] = {g \in GroupIds : IsMember(r, g, call[r].profile)}]
    /\ Goto(r, "summaries")
    /\ UNCHANGED <<groups, members, call, reply, answer>>

ListSummary(r) ==
    /\ stage[r] = "summaries"
    /\ \/ \E g \in todo[r] :
             /\ ReadMembers(r, g)
             /\ todo' = [todo EXCEPT ![r] = @ \ {g}]
             /\ UNCHANGED <<groups, members, stage, call, answer>>
       \/ /\ todo[r] = {}
          /\ Answer(r, "OK")
          /\ UNCHANGED <<groups, members, reply>>

\* --- The end of a transaction ---

\* The answer to a COMMIT may be lost.
Commit(r) ==
    /\ stage[r] = "commit"
    /\ Publish(r)
    /\ \/ Answer(r, "OK") /\ UNCHANGED reply
       \/ Answer(r, "Failed") /\ NoReply(r)

\* Any statement may fail, and the client or the server may go away.
Fail(r) == Busy(r) /\ Refuse(r, "Failed")

Step(r) ==
    \/ CreateGroup(r) \/ CreateFindProfile(r) \/ CreateMember(r)
    \/ JoinFindGroup(r) \/ JoinFindMember(r) \/ JoinInsert(r) \/ JoinIndex(r)
    \/ JoinReadMembers(r)
    \/ GetRequireMembership(r) \/ GetReadMembers(r)
    \/ ListMemberships(r) \/ ListSummary(r)
    \/ Commit(r)

Next ==
    \/ \E r \in Requests, c \in Call : Begin(r, c)
    \/ \E r \in Requests : Step(r) \/ Fail(r)

Spec == Init /\ [][Next]_vars

\* Statements are executed, and whoever waits for a transaction is woken up in
\* turn when it ends.
FairSpec == Spec /\ \A r \in Requests : SF_vars(Step(r))

-----------------------------------------------------------------------------
\* Properties

\* Every variable has its type.
TypeOK ==
    /\ groups \in [GroupIds -> Requests \cup {Free, Committed}]
    /\ members \in [GroupIds -> Seq(Member)]
    /\ stage \in [Requests -> Stages]
    /\ call \in [Requests -> Call \cup {Idle}]
    /\ todo \in [Requests -> SUBSET GroupIds]
    /\ DOMAIN reply = Requests
    /\ \A r \in Requests :
          /\ DOMAIN reply[r] \subseteq GroupIds
          /\ \A g \in DOMAIN reply[r] :
                /\ DOMAIN reply[r][g] \subseteq Nat
                /\ \A i \in DOMAIN reply[r][g] : reply[r][g][i] \in Profiles
    /\ answer \in [Requests -> Answers]

CommittedPlaces(g) == {i \in 1..Len(members[g]) : members[g][i].by = Committed}

FirstMember(g) == members[g][Min(CommittedPlaces(g))].profile

\* A profile is a member of a group at most once, whatever the number of Joins
\* in flight, and no two of them are about to commit the same membership.
OneMembership ==
    \A g \in GroupIds : \A i, j \in 1..Len(members[g]) :
       /\ members[g][i].written /\ members[g][j].written
       /\ members[g][i].profile = members[g][j].profile
       => i = j

\* A group anyone can find has a member: Create's two inserts commit together,
\* so a Create that fails half way leaves no group without its creator.
GroupHasMembers ==
    \A g \in GroupIds : groups[g] = Committed => CommittedPlaces(g) # {}

\* The creator stays the first member in join order: nobody can join before the
\* creator's own row has its id.  Unnamed groups are named after this order.
FirstMemberFixed ==
    [][\A g \in GroupIds : groups[g] = Committed /\ CommittedPlaces(g) # {} =>
          /\ CommittedPlaces(g)' # {}
          /\ FirstMember(g)' = FirstMember(g)]_vars

\* Whoever is told about a group is one of its members, listed exactly once: a
\* Join that loses the race for its own row still finds it in the reply, and Get
\* and List, which check and read in separate statements, never show a group to
\* someone outside it.
RepliesHaveCaller ==
    [][\A r \in Requests : Busy(r) /\ answer'[r] = "OK" =>
          \A g \in DOMAIN reply'[r] :
             Cardinality({i \in DOMAIN reply'[r][g] :
                            reply'[r][g][i] = call[r].profile}) = 1]_vars

Precedes(s, p, q) ==
    \E i, j \in DOMAIN s : i < j /\ s[i] = p /\ s[j] = q

\* Two replies about a group never disagree on who joined first.
RepliesAgree ==
    \A r, q \in Requests : ~Busy(r) /\ ~Busy(q) =>
       \A g \in DOMAIN reply[r] \cap DOMAIN reply[q] :
          \A p1, p2 \in Profiles :
             Precedes(reply[r][g], p1, p2) => ~Precedes(reply[q][g], p2, p1)

\* What the tables and the replies say: who is in a group, and who is told so.
rosters ==
    [g \in GroupIds |-> {members[g][i].profile : i \in CommittedPlaces(g)}]

settled == {r \in Requests : stage[r] = "summaries"}

told == [r \in Requests |-> [g \in DOMAIN reply[r] |-> ToSet(reply[r][g])]]

Promise == INSTANCE Rosters

\* The statements and transactions implement the contract of Rosters: what a
\* request does to a group it does at once or not at all, and what it is told
\* was so while it ran, however the statements of others come in between.
RosterSpec == Promise!Spec

\* A Join waits for the uncommitted rivals of its row.
WaitsFor(r, q) == stage[r] = "index" /\ \E m \in Rivals(r) : m.by = q

\* Whoever is waited for waits for nobody, so no circle of Joins can form: a
\* transaction inserts one membership and asks for nothing after it.
NoWaitsInTurn ==
    \A r, q, s \in Requests : WaitsFor(r, q) => ~WaitsFor(q, s)

\* A request ends: Joins of the same profile wait for each other's rows, never
\* in a circle and never for a transaction nobody will end.
EveryRequestEnds == \A r \in Requests : Busy(r) ~> ~Busy(r)

-----------------------------------------------------------------------------
\* Why the properties hold: what a request may count on between two of its
\* statements.

\* A row nobody has committed belongs to the Create or Join that is inserting
\* it, and to a group which is committed or made by the same request.
RowInv(g, i) ==
    /\ members[g][i].by = Committed => members[g][i].written
    /\ groups[g] \in {Committed, members[g][i].by}
    /\ \A r \in Requests : members[g][i].by = r =>
          /\ stage[r] \in {"index", "members", "commit"}
          /\ call[r].op \in {"Create", "Join"}
          /\ call[r].group = g /\ call[r].profile = members[g][i].profile
          /\ members[g][i].written <=> stage[r] # "index"
          /\ \A j \in 1..Len(members[g]) : members[g][j].by = r => i = j

\* Which statements belong to which operation.
StageInv(r) ==
    /\ Busy(r) <=> call[r] # Idle
    /\ stage[r] \in {"group", "profile", "creator"} => call[r].op = "Create"
    /\ stage[r] \in {"token", "member", "insert", "index"} => call[r].op = "Join"
    /\ stage[r] = "members" => call[r].op \in {"Join", "Get"}
    /\ stage[r] = "require" => call[r].op = "Get"
    /\ stage[r] \in {"memberships", "summaries"} => call[r].op = "List"
    /\ stage[r] = "commit" => call[r].op \in {"Create", "Join"}

\* A Create has its group for itself; a Join has seen its group committed.
GroupInv(r) ==
    /\ Busy(r) /\ call[r].op = "Create" =>
          /\ groups[call[r].group] = IF stage[r] = "group" THEN Free ELSE r
          /\ \A q \in Requests \ {r} :
                Busy(q) /\ call[q].op = "Create" => call[q].group # call[r].group
    /\ \A g \in GroupIds : groups[g] = r =>
          Busy(r) /\ call[r].op = "Create" /\ call[r].group = g
    /\ stage[r] \in {"member", "insert", "index", "members", "commit"} =>
          groups[call[r].group] \in {Committed, r}

\* Whoever has found or made a membership still has it.
MemberInv(r) ==
    /\ stage[r] = "index" =>
          \E i \in 1..Len(members[call[r].group]) : members[call[r].group][i].by = r
    /\ stage[r] \in {"members", "commit"} => IsMember(r, call[r].group, call[r].profile)
    /\ stage[r] = "summaries" => \A g \in todo[r] : IsMember(r, g, call[r].profile)

\* The first row of a group is its creator's, and stays.
FirstInv(g) ==
    groups[g] = Committed => Len(members[g]) > 0 /\ members[g][1].by = Committed

Ordered(r, g, p, q) ==
    \E i, j \in 1..Len(members[g]) :
       /\ i < j
       /\ Sees(r, members[g][i]) /\ members[g][i].profile = p
       /\ Sees(r, members[g][j]) /\ members[g][j].profile = q

\* A reply that is being made has its caller once, and a reply made is in the
\* order the table still has.
ReplyInv(r) ==
    \A g \in DOMAIN reply[r] :
       /\ Busy(r) => \E i \in DOMAIN reply[r][g] : \A j \in DOMAIN reply[r][g] :
             reply[r][g][j] = call[r].profile <=> i = j
       /\ \A i, j \in DOMAIN reply[r][g] :
             i < j => Ordered(r, g, reply[r][g][i], reply[r][g][j])

\* Together with what it is for: no Join, Create or lost race leaves a membership
\* twice or a group without one.
TablesInv ==
    /\ TypeOK
    /\ OneMembership
    /\ GroupHasMembers
    /\ \A g \in GroupIds : FirstInv(g) /\ \A i \in 1..Len(members[g]) : RowInv(g, i)
    /\ \A r \in Requests : StageInv(r) /\ GroupInv(r) /\ MemberInv(r) /\ ReplyInv(r)

\* Only profiles that exist become members.
RegisteredInv ==
    /\ \A g \in GroupIds : \A i \in 1..Len(members[g]) :
          members[g][i].written => members[g][i].profile \in Registered
    /\ \A r \in Requests : stage[r] = "creator" => call[r].profile \in Registered

\* A reply is begun by a List's summaries or just before a COMMIT, not earlier.
ToldInv(r) ==
    /\ stage[r] = "commit" => DOMAIN reply[r] = {call[r].group}
    /\ Busy(r) /\ stage[r] \notin {"commit", "summaries"} => DOMAIN reply[r] = {}

\* The inductive invariant.
GroupsInv ==
    /\ TablesInv
    /\ RegisteredInv
    /\ \A r \in Requests : ToldInv(r)

=============================================================================
