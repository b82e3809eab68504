---- MODULE MergedWatchlist ----
(***************************************************************************)
(* GroupService.GetMergedWatchlist and mergeRows (group_service.go): check *)
(* the membership, read the rows of all members in one query, then group   *)
(* them by content in a loop and sort.  Memberships and watchlists change  *)
(* between the two statements as Groups and WatchlistSpec let them.        *)
(*                                                                         *)
(* The loop and the sort touch nothing but the rows already read, so they  *)
(* commute with everything other requests do: nothing changes around them  *)
(* in this module, and the tables stay what the query saw until the reply. *)
(***************************************************************************)
EXTENDS SequencesExt

CONSTANTS
    Profiles,    \* profiles, members of the group or not
    Contents,    \* content rows
    Kind,        \* [Contents -> content_type]
    Title,       \* [Contents -> Nat]: titles by their place in the alphabet
    Priorities,
    Absent       \* not on the watchlist

Kinds == {"movie", "tv"}

ASSUME MergeAssumption ==
    /\ Kind \in [Contents -> Kinds]
    /\ Title \in [Contents -> Nat]
    /\ Absent \notin Priorities

VARIABLES
    board,    \* [Profiles \X Contents -> priority or Absent]: watchlist_items
    members,  \* the profiles with a group_members row
    stage,    \* the next step of the request
    caller,   \* its profile
    filter,   \* all, movie or tv
    rows,     \* rows the loop has not visited yet
    order,    \* contents in order of their first row
    found,    \* byContent: [contents met -> their members and priorities]
    items,    \* the reply
    answer

vars == <<board, members, stage, caller, filter, rows, order, found, items, answer>>
tables == <<board, members>>
loop == <<rows, order, found>>

Row == [content : Contents, profile : Profiles, priority : Priorities]

Selected(c) == filter = "all" \/ Kind[c] = filter

\* The join of group_members, watchlist_items and content.  Every item there is
\* has status active: nothing sets another.
QueryRows ==
    {[content |-> k[2], profile |-> k[1], priority |-> board[k]] :
       k \in {j \in members \X Contents : board[j] # Absent /\ Selected(j[2])}}

-----------------------------------------------------------------------------
Init ==
    /\ board = [k \in Profiles \X Contents |-> Absent]
    /\ members \in {{p} : p \in Profiles}
    /\ stage = "idle"
    /\ caller \in Profiles
    /\ filter = "all"
    /\ rows = {} /\ order = << >> /\ found = << >> /\ items = << >>
    /\ answer = "None"

\* Other requests: a committed Add, Update or Remove, a committed Join.
Edit(k, e) ==
    /\ stage \in {"idle", "require", "query"}
    /\ e # board[k]
    /\ board' = [board EXCEPT ![k] = e]
    /\ UNCHANGED <<members, stage, caller, filter, loop, items, answer>>

Join(p) ==
    /\ stage \in {"idle", "require", "query"}
    /\ members' = members \cup {p}
    /\ UNCHANGED <<board, stage, caller, filter, loop, items, answer>>

Begin(p, f) ==
    /\ stage = "idle"
    /\ stage' = "require"
    /\ caller' = p
    /\ filter' = f
    /\ answer' = "None"
    /\ UNCHANGED <<tables, loop, items>>

\* Mutant of Require: the membership is not checked.
RequireNothing ==
    /\ stage = "require"
    /\ stage' = "query"
    /\ UNCHANGED <<tables, caller, filter, loop, items, answer>>

\* requireMembership.
Require ==
    /\ stage = "require"
    /\ IF caller \in members THEN stage' = "query" /\ UNCHANGED answer
       ELSE stage' = "idle" /\ answer' = "NotFound"
    /\ UNCHANGED <<tables, caller, filter, loop, items>>

Query ==
    /\ stage = "query"
    /\ rows' = QueryRows
    /\ stage' = "merge"
    /\ UNCHANGED <<tables, caller, filter, order, found, items, answer>>

Known(c) == c \in DOMAIN found

Accumulator(c) == IF Known(c) THEN found[c] ELSE [members |-> << >>, priorities |-> << >>]

\* Go's m[k] = v.
Put(m, k, v) == [x \in DOMAIN m \cup {k} |-> IF x = k THEN v ELSE m[x]]

\* Mutant of Accumulate: the first row of a content opens its accumulator and
\* is not counted.
AccumulateSkipsFirst(row) ==
    [members |-> IF Known(row.content)
                 THEN Append(found[row.content].members, row.profile) ELSE << >>,
     priorities |-> Put(Accumulator(row.content).priorities, row.profile, row.priority)]

Accumulate(row) ==
    [members |-> Append(Accumulator(row.content).members, row.profile),
     priorities |-> Put(Accumulator(row.content).priorities, row.profile, row.priority)]

\* One round of the loop.  The query has no ORDER BY: the next row is any.
Merge(row) ==
    /\ stage = "merge"
    /\ rows' = rows \ {row}
    /\ order' = IF Known(row.content) THEN order ELSE Append(order, row.content)
    /\ found' = Put(found, row.content, Accumulate(row))
    /\ UNCHANGED <<tables, stage, caller, filter, items, answer>>

Item(c) ==
    [content |-> c, count |-> Len(found[c].members),
     members |-> found[c].members, priorities |-> found[c].priorities]

\* Mutant of Less: titles decide before counts do.
LessByTitle(a, b) ==
    \/ Title[a.content] < Title[b.content]
    \/ Title[a.content] = Title[b.content] /\ a.count > b.count

Less(a, b) ==
    \/ a.count > b.count
    \/ a.count = b.count /\ Title[a.content] < Title[b.content]

\* sort.SliceStable keeps equals in the order they had.
Before(s, j, i) == Less(s[j], s[i]) \/ (j < i /\ ~Less(s[i], s[j]))

Rank(s, i) == Cardinality({j \in 1..Len(s) : Before(s, j, i)})

StableSorted(s) == [n \in 1..Len(s) |-> s[CHOOSE i \in 1..Len(s) : Rank(s, i) = n - 1]]

Sort ==
    /\ stage = "merge"
    /\ rows = {}
    /\ items' = StableSorted([i \in 1..Len(order) |-> Item(order[i])])
    /\ stage' = "reply"
    /\ UNCHANGED <<tables, caller, filter, loop, answer>>

Reply ==
    /\ stage = "reply"
    /\ stage' = "idle"
    /\ answer' = "OK"
    /\ order' = << >> /\ found' = << >> /\ items' = << >>
    /\ UNCHANGED <<tables, caller, filter, rows>>

\* Either statement may fail.
Fail ==
    /\ stage \in {"require", "query"}
    /\ stage' = "idle"
    /\ answer' = "Error"
    /\ UNCHANGED <<tables, caller, filter, loop, items>>

Next ==
    \/ \E k \in Profiles \X Contents, e \in Priorities \cup {Absent} : Edit(k, e)
    \/ \E p \in Profiles : Join(p)
    \/ \E p \in Profiles, f \in Kinds \cup {"all"} : Begin(p, f)
    \/ Require \/ Query
    \/ \E row \in rows : Merge(row)
    \/ Sort \/ Reply \/ Fail

Spec == Init /\ [][Next]_vars

-----------------------------------------------------------------------------
\* Properties

\* Every variable has its type.
TypeOK ==
    /\ board \in [Profiles \X Contents -> Priorities \cup {Absent}]
    /\ members \subseteq Profiles
    /\ stage \in {"idle", "require", "query", "merge", "reply"}
    /\ caller \in Profiles
    /\ filter \in Kinds \cup {"all"}
    /\ rows \subseteq Row
    /\ order \in Seq(Contents)
    /\ DOMAIN found \subseteq Contents
    /\ \A i \in 1..Len(items) : items[i].content \in Contents /\ items[i].count \in Nat
    /\ answer \in {"None", "OK", "NotFound", "Error"}

Interested(c) == {p \in members : board[<<p, c>>] # Absent}

Listed(s) == {i.content : i \in ToSet(s)}

\* The merged watchlist is what the members' watchlists say: each title that
\* passes the filter and that some member wants, exactly once, with every member
\* who wants it, each counted once and at that member's own priority.  Being a
\* member is for good: whoever passed the check is one of them in the reply.
ReplyFaithful ==
    stage = "reply" =>
       /\ caller \in members
       /\ Listed(items) = {c \in Contents : Selected(c) /\ Interested(c) # {}}
       /\ Len(items) = Cardinality(Listed(items))
       /\ \A i \in ToSet(items) :
             /\ ToSet(i.members) = Interested(i.content)
             /\ i.count = Cardinality(Interested(i.content))
             /\ i.priorities = [p \in Interested(i.content) |-> board[<<p, i.content>>]]

\* Titles more members want come first, and equally wanted ones by title,
\* whatever order the database returned the rows in.
ReplyOrdered ==
    stage = "reply" =>
       \A i, j \in 1..Len(items) : i < j =>
          \/ items[i].count > items[j].count
          \/ /\ items[i].count = items[j].count
             /\ Title[items[i].content] <= Title[items[j].content]

Pending(c) == {r.profile : r \in {q \in rows : q.content = c}}

Counted(c) == IF Known(c) THEN ToSet(found[c].members) ELSE {}

Wanted(c) == IF Selected(c) THEN Interested(c) ELSE {}

\* What an accumulator holds of a content are members, each once, at their own
\* priority.
AccumulatorInv(c) ==
    /\ found[c].members \in Seq(Profiles) \ {<< >>}
    /\ IsInjective(found[c].members)
    /\ found[c].priorities = [p \in ToSet(found[c].members) |-> board[<<p, c>>]]

\* The loop has met the contents in order, and still has rows of the query.
MergeInv ==
    /\ ToSet(order) = DOMAIN found /\ IsInjective(order)
    /\ \A c \in DOMAIN found : AccumulatorInv(c)
    /\ \A r \in rows : r.priority = board[<<r.profile, r.content>>]
    /\ \A c \in Contents :
          Pending(c) \cap Counted(c) = {} /\ Pending(c) \cup Counted(c) = Wanted(c)

\* Rows not visited and members counted add up to what the query returned: no
\* round of the loop loses, repeats or invents a row.  It is inductive.
LoopInv ==
    /\ TypeOK
    /\ stage \in {"query", "merge", "reply"} => caller \in members
    /\ stage \in {"idle", "require", "query"} =>
          order = << >> /\ found = << >> /\ items = << >>
    /\ IF stage = "merge" THEN MergeInv ELSE rows = {}

=============================================================================
