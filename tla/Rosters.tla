---- MODULE Rosters ----
(***************************************************************************)
(* What the group service promises: a group is the set of its members, a   *)
(* Create or a Join puts its caller there in one step or not at all, and   *)
(* nobody leaves.  A request is told what was so at some moment while it   *)
(* ran, a List of the groups its caller was in at one moment.  No rows, no *)
(* transactions, no rivals.                                                *)
(***************************************************************************)
CONSTANTS
    Requests,
    Profiles,
    Registered,  \* profiles that exist
    GroupIds,
    Idle         \* no call

VARIABLES
    rosters,  \* [GroupIds -> their members; a group without has not been made]
    call,     \* [Requests -> its call, or Idle]
    settled,  \* the Lists that know which groups to show
    todo,     \* [Requests -> those it has not shown yet]
    told,     \* [Requests -> the members of each group it is told of]
    answer    \* [Requests -> the last answer]

vars == <<rosters, call, settled, todo, told, answer>>

Call == [op : {"Create", "Join", "Get", "List"}, profile : Profiles, group : GroupIds]

Nothing == [g \in {} |-> {}]

Roster(r) == rosters[call[r].group]

Init ==
    /\ rosters = [g \in GroupIds |-> {}]
    /\ call = [r \in Requests |-> Idle]
    /\ settled = {}
    /\ todo = [r \in Requests |-> {}]
    /\ told = [r \in Requests |-> Nothing]
    /\ answer = [r \in Requests |-> "None"]

Begin(r, c) ==
    /\ call[r] = Idle
    /\ c.op = "Create" => rosters[c.group] = {}
    /\ call' = [call EXCEPT ![r] = c]
    /\ told' = [told EXCEPT ![r] = Nothing]
    /\ answer' = [answer EXCEPT ![r] = "None"]
    /\ UNCHANGED <<rosters, settled, todo>>

End(r, a) ==
    /\ call' = [call EXCEPT ![r] = Idle]
    /\ settled' = settled \ {r}
    /\ todo' = [todo EXCEPT ![r] = {}]
    /\ answer' = [answer EXCEPT ![r] = a]

\* A request that is refused changes nothing.  NotFound is true, an Error is for
\* a Join by nobody, and a request fails when something else has failed.
Refuse(r, a) ==
    /\ a = "NotFound" =>
          \/ call[r].op = "Create" /\ call[r].profile \notin Registered
          \/ call[r].op = "Join" /\ Roster(r) = {}
          \/ call[r].op = "Get" /\ call[r].profile \notin Roster(r)
    /\ a = "Error" => call[r].op = "Join" /\ call[r].profile \notin Registered
    /\ End(r, a)
    /\ told' = [told EXCEPT ![r] = Nothing]
    /\ UNCHANGED rosters

\* A Create or a Join is told who is there, itself included, ...
Foresee(r) ==
    /\ call[r].op \in {"Create", "Join"}
    /\ told' = [told EXCEPT ![r] =
                  [g \in {call[r].group} |-> Roster(r) \cup {call[r].profile}]]
    /\ UNCHANGED <<rosters, call, settled, todo, answer>>

\* ... and takes effect after that: a Create makes its group, a Join finds it
\* made, and being there already is no error.  Its answer may be lost.
Enter(r) ==
    /\ call[r].op = IF Roster(r) = {} THEN "Create" ELSE "Join"
    /\ call[r].profile \in Registered
    /\ DOMAIN told[r] = {call[r].group}
    /\ rosters' = [rosters EXCEPT ![call[r].group] = @ \cup {call[r].profile}]
    /\ \/ End(r, "OK") /\ UNCHANGED told
       \/ End(r, "Failed") /\ told' = [told EXCEPT ![r] = Nothing]

Get(r) ==
    /\ call[r].op = "Get"
    /\ call[r].profile \in Roster(r)
    /\ told' = [told EXCEPT ![r] = [g \in {call[r].group} |-> Roster(r)]]
    /\ End(r, "OK")
    /\ UNCHANGED rosters

\* List: which groups, then one after another, then the answer.
Settle(r) ==
    /\ call[r].op = "List" /\ r \notin settled
    /\ settled' = settled \cup {r}
    /\ todo' = [todo EXCEPT ![r] = {g \in GroupIds : call[r].profile \in rosters[g]}]
    /\ UNCHANGED <<rosters, call, told, answer>>

Show(r, g) ==
    /\ r \in settled /\ g \in todo[r]
    /\ todo' = [todo EXCEPT ![r] = @ \ {g}]
    /\ told' = [told EXCEPT ![r] =
                  [h \in DOMAIN @ \cup {g} |-> IF h = g THEN rosters[g] ELSE @[h]]]
    /\ UNCHANGED <<rosters, call, settled, answer>>

Listed(r) ==
    /\ r \in settled /\ todo[r] = {}
    /\ End(r, "OK")
    /\ UNCHANGED <<rosters, told>>

Next ==
    \E r \in Requests :
       \/ \E c \in Call : Begin(r, c)
       \/ /\ call[r] # Idle
          /\ \/ \E a \in {"NotFound", "Error", "Failed"} : Refuse(r, a)
             \/ Foresee(r) \/ Enter(r) \/ Get(r)
             \/ Settle(r) \/ Listed(r)
             \/ \E g \in GroupIds : Show(r, g)

Spec == Init /\ [][Next]_vars

====
