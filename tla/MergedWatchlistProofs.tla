---- MODULE MergedWatchlistProofs ----
(***************************************************************************)
(* Theorems about MergedWatchlist, for any profiles, contents, priorities  *)
(* and titles, however the rows come back and whatever is edited before    *)
(* the query.                                                              *)
(***************************************************************************)
EXTENDS MergedWatchlist, FiniteSetTheorems, TLAPS

-----------------------------------------------------------------------------
\* Sequences that name nothing twice

LEMMA AppendOnce ==
    ASSUME NEW S, NEW s \in Seq(S), NEW x \in S, IsInjective(s), x \notin ToSet(s)
    PROVE  /\ Append(s, x) \in Seq(S) \ {<< >>} /\ IsInjective(Append(s, x))
           /\ ToSet(Append(s, x)) = ToSet(s) \cup {x}
  <1> DEFINE t == Append(s, x)
  <1>1. /\ t \in Seq(S) /\ Len(s) \in Nat /\ DOMAIN s = 1..Len(s)
        /\ DOMAIN t = 1..(Len(s) + 1) /\ t[Len(s) + 1] = x
        /\ \A n \in DOMAIN s : t[n] = s[n]
    OBVIOUS
  <1> HIDE DEF t
  <1>2. t # << >>
    BY <1>1
  <1>3. \A n \in DOMAIN t : n = Len(s) + 1 \/ n \in DOMAIN s
    BY <1>1
  <1>4. IsInjective(t)
    BY <1>1, <1>3 DEF IsInjective, ToSet
  <1>5. ToSet(t) = ToSet(s) \cup {x}
    <2>1. ToSet(t) \subseteq ToSet(s) \cup {x}
      BY <1>1, <1>3 DEF ToSet
    <2>2. ToSet(s) \cup {x} \subseteq ToSet(t)
      BY <1>1 DEF ToSet
    <2> QED  BY <2>1, <2>2
  <1> QED  BY <1>1, <1>2, <1>4, <1>5 DEF t

LEMMA ListsSomething ==
    ASSUME NEW S, NEW s \in Seq(S) \ {<< >>}
    PROVE  ToSet(s) # {}
  <1>1. 1 \in DOMAIN s
    OBVIOUS
  <1> QED  BY <1>1 DEF ToSet

\* Such a sequence is as long as the set it lists is large.
LEMMA LengthCounts ==
    ASSUME NEW S, NEW s \in Seq(S), IsInjective(s)
    PROVE  Cardinality(ToSet(s)) = Len(s)
  <1>1. Len(s) \in Nat /\ DOMAIN s = 1..Len(s) /\ s \in [1..Len(s) -> S]
    OBVIOUS
  <1>2. s \in [1..Len(s) -> ToSet(s)]
    BY <1>1 DEF ToSet
  <1>3. s \in Injection(1..Len(s), ToSet(s))
    BY <1>2 DEF Injection
  <1>4. s \in Surjection(1..Len(s), ToSet(s))
    BY <1>1, <1>2 DEF Surjection, ToSet
  <1>5. ExistsBijection(1..Len(s), ToSet(s))
    BY <1>3, <1>4 DEF ExistsBijection, Bijection
  <1> QED  BY <1>1, <1>5, FS_CountingElements

-----------------------------------------------------------------------------
\* The stable sort

\* What the sort is given: items with a count and a title.
Sortable(s) ==
    /\ Len(s) \in Nat /\ DOMAIN s = 1..Len(s)
    /\ \A i \in 1..Len(s) : s[i].count \in Nat /\ s[i].content \in Contents

\* The order in which the items come out is total.
LEMMA BeforeIsOrder ==
    ASSUME NEW s, Sortable(s)
    PROVE  /\ \A i \in 1..Len(s) : ~Before(s, i, i)
           /\ \A i, j \in 1..Len(s) : i # j => Before(s, i, j) \/ Before(s, j, i)
           /\ \A i, j, k \in 1..Len(s) :
                 Before(s, i, j) /\ Before(s, j, k) => Before(s, i, k)
  <1> USE MergeAssumption DEF Before, Less, Sortable
  <1>1. \A i \in 1..Len(s) : Title[s[i].content] \in Nat /\ s[i].count \in Nat /\ i \in Nat
    OBVIOUS
  <1>2. \A i \in 1..Len(s) : ~Before(s, i, i)
    BY <1>1
  <1>3. \A i, j \in 1..Len(s) : i # j => Before(s, i, j) \/ Before(s, j, i)
    BY <1>1
  <1>4. \A i, j, k \in 1..Len(s) : Before(s, i, j) /\ Before(s, j, k) => Before(s, i, k)
    BY <1>1
  <1> QED  BY <1>2, <1>3, <1>4

Ahead(s, i) == {j \in 1..Len(s) : Before(s, j, i)}

\* Who comes earlier has fewer ahead of it.
LEMMA RankGrows ==
    ASSUME NEW s, Sortable(s), NEW i \in 1..Len(s)
    PROVE  /\ Rank(s, i) \in 0..(Len(s) - 1)
           /\ \A j \in 1..Len(s) : Before(s, j, i) => Rank(s, j) < Rank(s, i)
  <1>f. /\ IsFiniteSet(1..Len(s)) /\ Cardinality(1..Len(s)) = Len(s)
    BY FS_Interval DEF Sortable
  <1>1. \A j \in 1..Len(s) :
           /\ IsFiniteSet(Ahead(s, j)) /\ Cardinality(Ahead(s, j)) \in Nat
           /\ Rank(s, j) = Cardinality(Ahead(s, j))
    BY <1>f, FS_Subset, FS_CardinalityType DEF Ahead, Rank
  <1>2. Rank(s, i) \in 0..(Len(s) - 1)
    <2>1. Cardinality(Ahead(s, i)) <= Len(s)
      BY <1>f, FS_Subset DEF Ahead
    <2>2. Cardinality(Ahead(s, i)) # Len(s)
      <3>1. i \notin Ahead(s, i)
        BY BeforeIsOrder DEF Ahead
      <3> QED  BY <1>f, <3>1, FS_Subset DEF Ahead
    <2> QED  BY <1>1, <2>1, <2>2 DEF Sortable
  <1>3. ASSUME NEW j \in 1..Len(s), Before(s, j, i)  PROVE Rank(s, j) < Rank(s, i)
    <2>1. Ahead(s, j) \subseteq Ahead(s, i)
      BY <1>3, BeforeIsOrder DEF Ahead
    <2>2. j \in Ahead(s, i) /\ j \notin Ahead(s, j)
      BY <1>3, BeforeIsOrder DEF Ahead
    <2>3. /\ Cardinality(Ahead(s, j)) <= Cardinality(Ahead(s, i))
          /\ Cardinality(Ahead(s, j)) # Cardinality(Ahead(s, i))
      BY <1>1, <2>1, <2>2, FS_Subset
    <2> QED  BY <1>1, <2>3
  <1> QED  BY <1>2, <1>3

\* Every place is taken, by one item.
LEMMA RankIsPlace ==
    ASSUME NEW s, Sortable(s)
    PROVE  /\ \A n \in 1..Len(s) : \E i \in 1..Len(s) : Rank(s, i) = n - 1
           /\ \A i, j \in 1..Len(s) : Rank(s, i) = Rank(s, j) => i = j
  <1> DEFINE f == [i \in 1..Len(s) |-> Rank(s, i)]
  <1>1. \A i, j \in 1..Len(s) : Rank(s, i) = Rank(s, j) => i = j
    <2>1. SUFFICES ASSUME NEW i \in 1..Len(s), NEW j \in 1..Len(s), i # j
                   PROVE  Rank(s, i) # Rank(s, j)
      OBVIOUS
    <2>2. Before(s, i, j) \/ Before(s, j, i)
      BY <2>1, BeforeIsOrder
    <2>3. Rank(s, i) \in Int /\ Rank(s, j) \in Int
      BY RankGrows
    <2>4. Rank(s, i) < Rank(s, j) \/ Rank(s, j) < Rank(s, i)
      BY <2>2, RankGrows
    <2> QED  BY <2>3, <2>4
  <1>2. f \in Injection(1..Len(s), 0..(Len(s) - 1))
    <2>1. f \in [1..Len(s) -> 0..(Len(s) - 1)]
      BY RankGrows
    <2>2. IsInjective(f)
      BY <1>1 DEF IsInjective
    <2> QED  BY <2>1, <2>2 DEF Injection
  <1>3. /\ IsFiniteSet(0..(Len(s) - 1)) /\ Cardinality(0..(Len(s) - 1)) = Len(s)
        /\ Cardinality(1..Len(s)) = Len(s)
    <2>1. Len(s) \in Nat
      BY DEF Sortable
    <2>2. Cardinality(1..Len(s)) = Len(s)
      <3>1. 1 \in Int /\ Len(s) \in Int
        BY <2>1
      <3>2. Cardinality(1..Len(s)) = IF 1 > Len(s) THEN 0 ELSE Len(s) - 1 + 1
        BY ONLY <3>1, FS_Interval
      <3> QED  BY ONLY <2>1, <3>2
    <2>3. /\ IsFiniteSet(0..(Len(s) - 1))
          /\ Cardinality(0..(Len(s) - 1)) = IF 0 > Len(s) - 1 THEN 0 ELSE (Len(s) - 1) - 0 + 1
      <3>1. 0 \in Int /\ Len(s) - 1 \in Int
        BY <2>1
      <3> QED  BY ONLY <3>1, FS_Interval
    <2> QED  BY ONLY <2>1, <2>2, <2>3
  <1>4. f \in Surjection(1..Len(s), 0..(Len(s) - 1))
    <2> HIDE DEF f
    <2> QED  BY <1>2, <1>3, FS_Injection
  <1>5. \A n \in 1..Len(s) : \E i \in 1..Len(s) : Rank(s, i) = n - 1
    <2>1. SUFFICES ASSUME NEW n \in 1..Len(s)
                   PROVE  \E i \in 1..Len(s) : Rank(s, i) = n - 1
      OBVIOUS
    <2>2. n - 1 \in 0..(Len(s) - 1)
      BY DEF Sortable
    <2> QED  BY <1>4, <2>2 DEF Surjection
  <1> QED  BY <1>1, <1>5

\* The sort loses and invents nothing, and no item is less than one before it.
LEMMA SortFacts ==
    ASSUME NEW s, Sortable(s), NEW N, N = Len(s)
    PROVE  LET t == StableSorted(s)
           IN  /\ Len(t) = N /\ DOMAIN t = 1..N
               /\ \E place \in [1..N -> 1..N] :
                     /\ \A n \in 1..N : t[n] = s[place[n]]
                     /\ \A m, n \in 1..N : place[m] = place[n] => m = n
                     /\ \A i \in 1..N : \E n \in 1..N : place[n] = i
               /\ \A m, n \in 1..N : m < n => ~Less(t[n], t[m])
  <1> DEFINE t == StableSorted(s)
             place == [n \in 1..N |-> CHOOSE i \in 1..N : Rank(s, i) = n - 1]
  <1>1. Len(t) = N /\ DOMAIN t = 1..N
    BY DEF StableSorted, Sortable
  <1>2. \A n \in 1..N : place[n] \in 1..N /\ Rank(s, place[n]) = n - 1
    BY RankIsPlace
  <1>3. place \in [1..N -> 1..N]
    BY <1>2
  <1>4. \A n \in 1..N : t[n] = s[place[n]]
    BY DEF StableSorted
  <1> HIDE DEF place, t
  <1>5. \A m, n \in 1..N : place[m] = place[n] => m = n
    BY <1>2 DEF Sortable
  <1>6. \A i \in 1..N : \E n \in 1..N : place[n] = i
    <2>1. SUFFICES ASSUME NEW i \in 1..N
                   PROVE  \E n \in 1..N : place[n] = i
      OBVIOUS
    <2>2. Rank(s, i) + 1 \in 1..N /\ Rank(s, i) \in Int
      BY RankGrows DEF Sortable
    <2>3. Rank(s, place[Rank(s, i) + 1]) = Rank(s, i)
      BY <1>2, <2>2
    <2>4. place[Rank(s, i) + 1] = i
      BY <1>2, <2>2, <2>3, RankIsPlace
    <2> QED  BY <2>2, <2>4
  <1>7. ASSUME NEW m \in 1..N, NEW n \in 1..N, m < n
        PROVE  ~Less(t[n], t[m])
    <2>1. place[m] \in 1..N /\ place[n] \in 1..N
      BY <1>2
    <2>2. Rank(s, place[m]) < Rank(s, place[n])
      BY <1>2, <1>7
    <2>3. ~Before(s, place[n], place[m])
      <3>1. Before(s, place[n], place[m]) => Rank(s, place[n]) < Rank(s, place[m])
        BY <2>1, RankGrows
      <3>2. Rank(s, place[m]) \in Int /\ Rank(s, place[n]) \in Int
        BY <2>1, RankGrows
      <3> QED  BY <2>2, <3>1, <3>2
    <2> QED  BY <1>4, <2>3 DEF Before
  <1> QED  BY <1>1, <1>3, <1>4, <1>5, <1>6, <1>7 DEF t

-----------------------------------------------------------------------------
\* The loop, step by step

LEMMA LoopStarts == Init => LoopInv
  <1> SUFFICES ASSUME Init  PROVE LoopInv
    OBVIOUS
  <1>1. TypeOK
    BY DEF Init, TypeOK, Kinds
  <1> QED  BY <1>1 DEF Init, LoopInv

\* Before the query there is nothing to keep but the types.
LEMMA OthersKeep ==
    ASSUME LoopInv,
           \/ \E k \in Profiles \X Contents, e \in Priorities \cup {Absent} : Edit(k, e)
           \/ \E p \in Profiles : Join(p)
           \/ \E p \in Profiles, f \in Kinds \cup {"all"} : Begin(p, f)
           \/ Require \/ Fail
    PROVE  LoopInv'
  <1>0. TypeOK
    BY DEF LoopInv
  <1>1. ASSUME NEW k \in Profiles \X Contents, NEW e \in Priorities \cup {Absent}, Edit(k, e)
        PROVE  LoopInv'
    <2>1. TypeOK'
      BY <1>0, <1>1 DEF TypeOK, Edit, loop
    <2> QED  BY <1>1, <2>1 DEF LoopInv, Edit, loop
  <1>2. ASSUME NEW p \in Profiles, Join(p)  PROVE LoopInv'
    <2>1. TypeOK'
      BY <1>0, <1>2 DEF TypeOK, Join, loop
    <2> QED  BY <1>2, <2>1 DEF LoopInv, Join, loop
  <1>3. ASSUME NEW p \in Profiles, NEW f \in Kinds \cup {"all"}, Begin(p, f)
        PROVE  LoopInv'
    <2>1. TypeOK'
      BY <1>0, <1>3 DEF TypeOK, Begin, loop, tables
    <2> QED  BY <1>3, <2>1 DEF LoopInv, Begin, loop, tables
  <1>4. CASE Require
    <2>1. TypeOK'
      BY <1>0, <1>4 DEF TypeOK, Require, loop, tables
    <2> QED  BY <1>4, <2>1 DEF LoopInv, Require, loop, tables
  <1>5. CASE Fail
    <2>1. TypeOK'
      BY <1>0, <1>5 DEF TypeOK, Fail, loop, tables
    <2> QED  BY <1>5, <2>1 DEF LoopInv, Fail, loop, tables
  <1> QED  BY <1>1, <1>2, <1>3, <1>4, <1>5

\* The rows of the query are those of the contents' members.
LEMMA QueryKeeps ==
    ASSUME LoopInv, Query
    PROVE  LoopInv'
  <1>0. /\ TypeOK /\ stage = "query" /\ stage' = "merge" /\ rows' = QueryRows
        /\ caller \in members /\ order = << >> /\ found = << >>
        /\ UNCHANGED <<board, members, caller, filter, order, found, items, answer>>
    BY DEF LoopInv, Query, tables
  <1>1. \A r \in QueryRows :
           /\ r \in Row /\ r.priority = board[<<r.profile, r.content>>]
           /\ r.profile \in members /\ Selected(r.content) /\ r.priority # Absent
    BY <1>0 DEF QueryRows, Row, TypeOK
  <1>2. \A c \in Contents : \A p \in Interested(c) :
           Selected(c) =>
             [content |-> c, profile |-> p, priority |-> board[<<p, c>>]] \in QueryRows
    <2>1. SUFFICES ASSUME NEW c \in Contents, NEW p \in Interested(c), Selected(c)
                   PROVE  [content |-> c, profile |-> p, priority |-> board[<<p, c>>]]
                             \in QueryRows
      OBVIOUS
    <2>2. /\ <<p, c>> \in members \X Contents /\ board[<<p, c>>] # Absent
          /\ <<p, c>>[1] = p /\ <<p, c>>[2] = c
      BY DEF Interested
    <2> QED  BY <2>1, <2>2 DEF QueryRows
  <1>3. TypeOK'
    BY <1>0, <1>1 DEF TypeOK
  <1>4. MergeInv'
    <2>1. ToSet(order)' = DOMAIN found' /\ IsInjective(order)' /\ DOMAIN found' = {}
      BY <1>0 DEF ToSet, IsInjective
    <2>2. ASSUME NEW c \in Contents
          PROVE  (Pending(c) \cap Counted(c) = {} /\ Pending(c) \cup Counted(c) = Wanted(c))'
      <3>1. Counted(c)' = {}
        BY <2>1 DEF Counted, Known
      <3>2. Pending(c)' = {r.profile : r \in {q \in QueryRows : q.content = c}}
        BY <1>0 DEF Pending
      <3>3. Wanted(c)' = IF Selected(c) THEN Interested(c) ELSE {}
        BY <1>0 DEF Wanted, Selected, Interested
      <3>4. Pending(c)' \subseteq Wanted(c)'
        BY <1>1, <3>2, <3>3 DEF Interested
      <3>5. Wanted(c)' \subseteq Pending(c)'
        <4>1. SUFFICES ASSUME NEW p \in Interested(c), Selected(c)
                       PROVE  p \in Pending(c)'
          BY <3>3
        <4> DEFINE row == [content |-> c, profile |-> p, priority |-> board[<<p, c>>]]
        <4>2. row \in QueryRows /\ row.content = c /\ row.profile = p
          BY <1>2, <4>1
        <4> QED  BY <3>2, <4>2
      <3> QED  BY <3>1, <3>4, <3>5
    <2>3. \A r \in rows' : r.priority = board'[<<r.profile, r.content>>]
      BY <1>0, <1>1
    <2> QED  BY <2>1, <2>2, <2>3 DEF MergeInv
  <1> QED  BY <1>0, <1>3, <1>4 DEF LoopInv

\* The row just visited moves from what is pending to what is counted.
LEMMA MergeKeeps ==
    ASSUME LoopInv, NEW row \in rows, Merge(row)
    PROVE  LoopInv'
  <1> DEFINE c == row.content
             p == row.profile
             old == Accumulator(c).members
  <1>0. /\ TypeOK /\ stage = "merge" /\ stage' = "merge" /\ MergeInv /\ caller \in members
        /\ rows' = rows \ {row}
        /\ order' = IF Known(c) THEN order ELSE Append(order, c)
        /\ found' = Put(found, c, Accumulate(row))
        /\ UNCHANGED <<board, members, caller, filter, items, answer>>
    BY DEF LoopInv, Merge, tables
  <1>1. row \in Row /\ c \in Contents /\ p \in Profiles /\ row.priority = board[<<p, c>>]
    BY <1>0 DEF TypeOK, Row, MergeInv
  <1>2. /\ old \in Seq(Profiles) /\ IsInjective(old) /\ ToSet(old) = Counted(c)
        /\ Accumulator(c).priorities = [q \in Counted(c) |-> board[<<q, c>>]]
    <2>1. CASE Known(c)
      <3>1. AccumulatorInv(c)
        BY <1>0, <2>1 DEF MergeInv, Known
      <3> QED  BY <2>1, <3>1 DEF AccumulatorInv, Accumulator, Counted
    <2>2. CASE ~Known(c)
      <3>1. Accumulator(c).members = << >> /\ Accumulator(c).priorities = << >>
        BY <2>2 DEF Accumulator
      <3>2. Counted(c) = {}
        BY <2>2 DEF Counted
      <3>3. << >> = [q \in {} |-> board[<<q, c>>]]
        OBVIOUS
      <3> QED  BY <3>1, <3>2, <3>3 DEF IsInjective, ToSet
    <2> QED  BY <2>1, <2>2
  <1>3. p \in Pending(c) /\ p \notin Counted(c)
    <2>1. p \in Pending(c)
      BY DEF Pending
    <2>2. Pending(c) \cap Counted(c) = {}
      BY <1>0, <1>1 DEF MergeInv
    <2> QED  BY <2>1, <2>2
  <1>4. /\ Append(old, p) \in Seq(Profiles) \ {<< >>} /\ IsInjective(Append(old, p))
        /\ ToSet(Append(old, p)) = Counted(c) \cup {p}
    BY <1>1, <1>2, <1>3, AppendOnce
  <1>5. /\ DOMAIN found' = DOMAIN found \cup {c}
        /\ found'[c] = Accumulate(row)
        /\ \A d \in DOMAIN found \ {c} : found'[d] = found[d]
    BY <1>0 DEF Put
  <1>6. /\ found'[c].members = Append(old, p)
        /\ found'[c].priorities = [q \in Counted(c) \cup {p} |-> board[<<q, c>>]]
    <2>1. Put(Accumulator(c).priorities, p, row.priority)
            = [q \in Counted(c) \cup {p} |-> board[<<q, c>>]]
      BY <1>1, <1>2 DEF Put
    <2> QED  BY <1>5, <2>1 DEF Accumulate
  <1>7. /\ order' \in Seq(Contents) /\ IsInjective(order')
        /\ ToSet(order') = ToSet(order) \cup {c}
    <2>1. /\ order \in Seq(Contents) /\ IsInjective(order) /\ ToSet(order) = DOMAIN found
      BY <1>0 DEF TypeOK, MergeInv
    <2>2. CASE Known(c)
      BY <1>0, <2>1, <2>2 DEF Known
    <2>3. CASE ~Known(c)
      <3>1. c \notin ToSet(order) /\ order' = Append(order, c)
        BY <1>0, <2>1, <2>3 DEF Known
      <3> QED  BY <1>1, <2>1, <3>1, AppendOnce
    <2> QED  BY <2>2, <2>3
  <1> HIDE DEF c, p, old
  <1>8. TypeOK'
    BY <1>0, <1>1, <1>5, <1>7 DEF TypeOK
  <1>9. MergeInv'
    <2>1. ToSet(order)' = DOMAIN found' /\ IsInjective(order)'
      BY <1>0, <1>5, <1>7 DEF MergeInv, ToSet, IsInjective
    <2>2. ASSUME NEW d \in DOMAIN found'  PROVE AccumulatorInv(d)'
      <3>1. CASE d = c
        BY <1>0, <1>4, <1>6, <3>1 DEF AccumulatorInv
      <3>2. CASE d # c
        <4>1. d \in DOMAIN found /\ found'[d] = found[d]
          BY <1>5, <3>2
        <4>2. AccumulatorInv(d)
          BY <1>0, <4>1 DEF MergeInv
        <4> QED  BY <1>0, <4>1, <4>2 DEF AccumulatorInv
      <3> QED  BY <3>1, <3>2
    <2>3. \A r \in rows' : r.priority = board'[<<r.profile, r.content>>]
      BY <1>0 DEF MergeInv
    <2>4. ASSUME NEW d \in Contents
          PROVE  (Pending(d) \cap Counted(d) = {} /\ Pending(d) \cup Counted(d) = Wanted(d))'
      <3>1. Wanted(d)' = Wanted(d)
        BY <1>0 DEF Wanted, Selected, Interested
      <3>2. Pending(d) \cap Counted(d) = {} /\ Pending(d) \cup Counted(d) = Wanted(d)
        BY <1>0 DEF MergeInv
      <3>3. Pending(d)' = {r.profile : r \in {q \in rows \ {row} : q.content = d}}
        BY <1>0 DEF Pending
      <3>4. CASE d = c
        <4>1. Counted(d)' = Counted(c) \cup {p}
          BY <1>4, <1>5, <1>6, <3>4 DEF Counted, Known
        <4>2. Pending(d)' = Pending(c) \ {p}
          <5>1. \A r \in rows : r.content = c /\ r.profile = p => r = row
            <6>1. SUFFICES ASSUME NEW r \in rows, r.content = c, r.profile = p
                           PROVE  r = row
              OBVIOUS
            <6>2. r \in Row /\ row \in Row /\ r.priority = row.priority
              BY <1>0, <1>1, <6>1 DEF TypeOK, MergeInv
            <6>3. row.content = c /\ row.profile = p
              BY DEF c, p
            <6> QED  BY <6>1, <6>2, <6>3 DEF Row
          <5>2. row.profile = p
            BY DEF p
          <5> QED  BY <3>3, <3>4, <5>1, <5>2 DEF Pending
        <4> QED  BY <1>3, <3>1, <3>2, <3>4, <4>1, <4>2
      <3>5. CASE d # c
        <4>1. Counted(d)' = Counted(d)
          BY <1>5, <3>5 DEF Counted, Known
        <4>2. row.content = c
          BY DEF c
        <4>3. Pending(d)' = Pending(d)
          BY <3>3, <3>5, <4>2 DEF Pending
        <4> QED  BY <3>1, <3>2, <4>1, <4>3
      <3> QED  BY <3>4, <3>5
    <2> QED  BY <2>1, <2>2, <2>3, <2>4 DEF MergeInv
  <1> QED  BY <1>0, <1>8, <1>9 DEF LoopInv

-----------------------------------------------------------------------------
\* The reply

Accumulated == [i \in 1..Len(order) |-> Item(order[i])]

\* What the loop has gathered when it has no more rows.
LEMMA AccumulatedType ==
    ASSUME LoopInv, stage = "merge", rows = {}
    PROVE  /\ order \in Seq(Contents) /\ IsInjective(order) /\ Sortable(Accumulated)
           /\ Len(Accumulated) = Len(order)
           /\ \A i \in 1..Len(order) :
                 /\ Accumulated[i] = Item(order[i])
                 /\ order[i] \in Contents /\ Selected(order[i])
                 /\ Interested(order[i]) # {}
                 /\ ToSet(Item(order[i]).members) = Interested(order[i])
                 /\ Item(order[i]).count = Cardinality(Interested(order[i]))
                 /\ Item(order[i]).priorities
                       = [p \in Interested(order[i]) |-> board[<<p, order[i]>>]]
           /\ \A c \in Contents :
                 Selected(c) /\ Interested(c) # {} => \E i \in 1..Len(order) : order[i] = c
  <1>0. TypeOK /\ MergeInv
    BY DEF LoopInv
  <1>1. order \in Seq(Contents) /\ IsInjective(order) /\ ToSet(order) = DOMAIN found
    BY <1>0 DEF TypeOK, MergeInv
  <1>2. Len(order) \in Nat /\ DOMAIN order = 1..Len(order)
    BY <1>1
  <1>3. \A c \in Contents : Counted(c) = Wanted(c)
    <2>1. \A c \in Contents : Pending(c) = {}
      BY DEF Pending
    <2> QED  BY <1>0, <2>1 DEF MergeInv
  <1>4. ASSUME NEW i \in 1..Len(order)
        PROVE  /\ Accumulated[i] = Item(order[i])
               /\ order[i] \in Contents /\ Selected(order[i])
               /\ Interested(order[i]) # {}
               /\ ToSet(Item(order[i]).members) = Interested(order[i])
               /\ Item(order[i]).count = Cardinality(Interested(order[i]))
               /\ Item(order[i]).count \in Nat
               /\ Item(order[i]).priorities
                     = [p \in Interested(order[i]) |-> board[<<p, order[i]>>]]
    <2> DEFINE c == order[i]
    <2>1. c \in Contents /\ c \in DOMAIN found
      BY <1>1, <1>2 DEF ToSet
    <2> HIDE DEF c
    <2>2. /\ found[c].members \in Seq(Profiles) \ {<< >>} /\ IsInjective(found[c].members)
          /\ found[c].priorities = [p \in ToSet(found[c].members) |-> board[<<p, c>>]]
      BY <1>0, <2>1 DEF MergeInv, AccumulatorInv
    <2>3. ToSet(found[c].members) # {}
      BY <2>2, ListsSomething
    <2>4. ToSet(found[c].members) = Wanted(c)
      BY <1>3, <2>1 DEF Counted, Known
    <2>5. Selected(c) /\ Wanted(c) = Interested(c)
      BY <2>3, <2>4 DEF Wanted
    <2>6. Len(found[c].members) = Cardinality(Interested(c)) /\ Len(found[c].members) \in Nat
      BY <2>2, <2>4, <2>5, LengthCounts
    <2>7. /\ Item(c).members = found[c].members /\ Item(c).count = Len(found[c].members)
          /\ Item(c).priorities = found[c].priorities
      BY DEF Item
    <2>8. Accumulated[i] = Item(c)
      BY DEF Accumulated, c
    <2>9. /\ Accumulated[i] = Item(c)
          /\ c \in Contents /\ Selected(c) /\ Interested(c) # {}
          /\ ToSet(Item(c).members) = Interested(c)
          /\ Item(c).count = Cardinality(Interested(c)) /\ Item(c).count \in Nat
          /\ Item(c).priorities = [p \in Interested(c) |-> board[<<p, c>>]]
      BY <2>1, <2>2, <2>3, <2>4, <2>5, <2>6, <2>7, <2>8
    <2> QED  BY <2>9 DEF c
  <1>5. ASSUME NEW c \in Contents, Selected(c), Interested(c) # {}
        PROVE  \E i \in 1..Len(order) : order[i] = c
    <2>1. Counted(c) # {}
      BY <1>3, <1>5 DEF Wanted
    <2>2. c \in DOMAIN found
      BY <2>1 DEF Counted, Known
    <2> QED  BY <1>1, <1>2, <2>2 DEF ToSet
  <1>6. Len(Accumulated) = Len(order) /\ DOMAIN Accumulated = 1..Len(order)
    BY <1>2 DEF Accumulated
  <1>7. Sortable(Accumulated)
    <2>1. \A i \in 1..Len(order) :
             Accumulated[i].count \in Nat /\ Accumulated[i].content \in Contents
      <3>1. \A i \in 1..Len(order) :
               /\ Accumulated[i] = Item(order[i])
               /\ Item(order[i]).count \in Nat /\ order[i] \in Contents
        BY <1>4
      <3>2. \A c : Item(c).content = c
        BY DEF Item
      <3> QED  BY <3>1, <3>2
    <2> QED  BY <1>2, <1>6, <2>1 DEF Sortable
  <1> QED  BY <1>1, <1>4, <1>5, <1>6, <1>7

LEMMA ListedElement ==
    ASSUME NEW s, NEW D, DOMAIN s = D
    PROVE  \A c : c \in Listed(s) <=> \E n \in D : c = s[n].content
  BY DEF Listed, ToSet

\* Sorted, it is the reply: the members' watchlists, in the right order.
LEMMA SortKeeps ==
    ASSUME LoopInv, Sort
    PROVE  LoopInv' /\ ReplyFaithful' /\ ReplyOrdered'
  <1> DEFINE t == StableSorted(Accumulated)
  <1>0. /\ TypeOK /\ stage = "merge" /\ rows = {} /\ caller \in members
        /\ items' = t /\ stage' = "reply"
        /\ UNCHANGED <<board, members, caller, filter, rows, order, found, answer>>
    BY DEF LoopInv, Sort, Accumulated, tables, loop
  <1>1. /\ order \in Seq(Contents) /\ IsInjective(order) /\ Sortable(Accumulated)
        /\ Len(Accumulated) = Len(order) /\ Len(order) \in Nat /\ DOMAIN order = 1..Len(order)
    BY <1>0, AccumulatedType
  <1>2. \A i \in 1..Len(order) :
           /\ Accumulated[i] = Item(order[i])
           /\ order[i] \in Contents /\ Selected(order[i])
           /\ Interested(order[i]) # {}
           /\ ToSet(Item(order[i]).members) = Interested(order[i])
           /\ Item(order[i]).count = Cardinality(Interested(order[i]))
           /\ Item(order[i]).priorities
                 = [p \in Interested(order[i]) |-> board[<<p, order[i]>>]]
    BY <1>0, AccumulatedType
  <1>3. \A c \in Contents :
           Selected(c) /\ Interested(c) # {} => \E i \in 1..Len(order) : order[i] = c
    BY <1>0, AccumulatedType
  <1>4. /\ Len(t) = Len(order) /\ DOMAIN t = 1..Len(order)
        /\ \E place \in [1..Len(order) -> 1..Len(order)] :
              /\ \A n \in 1..Len(order) : t[n] = Accumulated[place[n]]
              /\ \A m, n \in 1..Len(order) : place[m] = place[n] => m = n
              /\ \A i \in 1..Len(order) : \E n \in 1..Len(order) : place[n] = i
        /\ \A m, n \in 1..Len(order) : m < n => ~Less(t[n], t[m])
    <2>1. \A N : N = Len(Accumulated) =>
          /\ Len(t) = N /\ DOMAIN t = 1..N
          /\ \E place \in [1..N -> 1..N] :
                /\ \A n \in 1..N : t[n] = Accumulated[place[n]]
                /\ \A m, n \in 1..N : place[m] = place[n] => m = n
                /\ \A i \in 1..N : \E n \in 1..N : place[n] = i
          /\ \A m, n \in 1..N : m < n => ~Less(t[n], t[m])
      <3>1. Sortable(Accumulated)
        BY <1>1
      <3> QED  BY ONLY <3>1, SortFacts
    <2>2. Len(order) = Len(Accumulated)
      BY <1>1
    <2> HIDE DEF t
    <2> QED  BY ONLY <2>1, <2>2, Zenon
  <1> HIDE DEF t
  <1>5. PICK place \in [1..Len(order) -> 1..Len(order)] :
           /\ \A n \in 1..Len(order) : t[n] = Accumulated[place[n]]
           /\ \A m, n \in 1..Len(order) : place[m] = place[n] => m = n
           /\ \A i \in 1..Len(order) : \E n \in 1..Len(order) : place[n] = i
    BY <1>4
  <1>i. \A c : Item(c).content = c
    BY DEF Item
  <1>6. \A n \in 1..Len(order) :
           /\ place[n] \in 1..Len(order) /\ t[n] = Item(order[place[n]])
           /\ t[n].content = order[place[n]] /\ t[n].content \in Contents
    <2>1. SUFFICES ASSUME NEW n \in 1..Len(order)
                   PROVE  /\ place[n] \in 1..Len(order) /\ t[n] = Item(order[place[n]])
                          /\ t[n].content = order[place[n]] /\ t[n].content \in Contents
      OBVIOUS
    <2>2. place[n] \in 1..Len(order) /\ t[n] = Accumulated[place[n]]
      BY <1>5
    <2>3. Accumulated[place[n]] = Item(order[place[n]]) /\ order[place[n]] \in Contents
      BY <1>2, <2>2
    <2> QED  BY <1>i, <2>2, <2>3
  <1>7. Listed(t) = {c \in Contents : Selected(c) /\ Interested(c) # {}}
    <2>1. \A c : c \in Listed(t) <=> \E n \in 1..Len(order) : c = t[n].content
      BY <1>4, ListedElement
    <2>2. \A n \in 1..Len(order) :
             /\ t[n].content \in Contents /\ Selected(t[n].content)
             /\ Interested(t[n].content) # {}
      BY <1>2, <1>6
    <2>3. ASSUME NEW c \in Contents, Selected(c), Interested(c) # {}
          PROVE  \E n \in 1..Len(order) : t[n].content = c
      <3>1. PICK i \in 1..Len(order) : order[i] = c
        BY <1>3, <2>3
      <3>2. PICK n \in 1..Len(order) : place[n] = i
        BY <1>5
      <3> QED  BY <1>6, <3>1, <3>2
    <2> QED  BY <2>1, <2>2, <2>3
  <1>8. Len(t) = Cardinality(Listed(t))
    <2> DEFINE u == [n \in 1..Len(order) |-> t[n].content]
    <2>1. u \in Seq(Contents) /\ Len(u) = Len(order) /\ DOMAIN u = 1..Len(order)
      BY <1>1, <1>6
    <2>2. \A n \in 1..Len(order) : u[n] = order[place[n]] /\ u[n] = t[n].content
      BY <1>6
    <2> HIDE DEF u
    <2>3. IsInjective(u)
      <3>1. SUFFICES ASSUME NEW m \in 1..Len(order), NEW n \in 1..Len(order), u[m] = u[n]
                     PROVE  m = n
        BY <2>1 DEF IsInjective
      <3>2. order[place[m]] = order[place[n]]
        BY <2>2, <3>1
      <3>3. place[m] = place[n]
        BY <1>1, <1>6, <3>2 DEF IsInjective
      <3> QED  BY <1>5, <3>3
    <2>4. ToSet(u) = Listed(t)
      <3>0. \A c : c \in Listed(t) <=> \E n \in 1..Len(order) : c = t[n].content
        BY <1>4, ListedElement
      <3>1. \A c : c \in Listed(t) <=> \E n \in 1..Len(order) : c = u[n]
        BY ONLY <2>2, <3>0
      <3>2. \A c : c \in ToSet(u) <=> \E n \in 1..Len(order) : c = u[n]
        BY <2>1 DEF ToSet
      <3> QED  BY <3>1, <3>2
    <2> QED  BY <1>4, <2>1, <2>3, <2>4, LengthCounts
  <1>9. \A i \in ToSet(t) :
           /\ ToSet(i.members) = Interested(i.content)
           /\ i.count = Cardinality(Interested(i.content))
           /\ i.priorities = [p \in Interested(i.content) |-> board[<<p, i.content>>]]
    <2>1. SUFFICES ASSUME NEW i \in ToSet(t)
                   PROVE  /\ ToSet(i.members) = Interested(i.content)
                          /\ i.count = Cardinality(Interested(i.content))
                          /\ i.priorities = [p \in Interested(i.content) |->
                                                board[<<p, i.content>>]]
      OBVIOUS
    <2>2. PICK n \in 1..Len(order) : i = t[n]
      BY <1>4 DEF ToSet
    <2>3. /\ place[n] \in 1..Len(order) /\ i = Item(order[place[n]])
          /\ i.content = order[place[n]]
      BY <1>6, <2>2
    <2> QED  BY <1>2, <2>3
  <1>10. \A n \in 1..Len(order) : t[n].content \in Contents /\ t[n].count \in Nat
    BY <1>1, <1>5, <1>6 DEF Sortable
  <1>11. LoopInv'
    <2>1. TypeOK'
      BY <1>0, <1>4, <1>10 DEF TypeOK
    <2> QED  BY <1>0, <2>1 DEF LoopInv
  <1>12. ReplyFaithful'
    <2>1. Listed(items') = {c \in Contents : Selected(c)' /\ Interested(c)' # {}}
      BY <1>0, <1>7 DEF Selected, Interested
    <2>2. \A c : Interested(c)' = Interested(c)
      BY <1>0 DEF Interested
    <2> QED  BY <1>0, <1>8, <1>9, <2>1, <2>2 DEF ReplyFaithful
  <1>13. ReplyOrdered'
    <2>1. SUFFICES ASSUME NEW i \in 1..Len(order), NEW j \in 1..Len(order), i < j
                   PROVE  \/ t[i].count > t[j].count
                          \/ /\ t[i].count = t[j].count
                             /\ Title[t[i].content] <= Title[t[j].content]
      BY <1>0, <1>4 DEF ReplyOrdered
    <2>2. ~Less(t[j], t[i])
      BY <1>4, <2>1
    <2>3. /\ t[i].count \in Nat /\ t[j].count \in Nat
          /\ Title[t[i].content] \in Nat /\ Title[t[j].content] \in Nat
      BY <1>10, MergeAssumption
    <2> QED  BY <2>2, <2>3 DEF Less
  <1> QED  BY <1>11, <1>12, <1>13

LEMMA ReplyKeeps ==
    ASSUME LoopInv, Reply
    PROVE  LoopInv'
  <1>1. TypeOK'
    BY DEF LoopInv, TypeOK, Reply, tables
  <1> QED  BY <1>1 DEF LoopInv, Reply, tables

LEMMA LoopStep == LoopInv /\ [Next]_vars => LoopInv'
  <1> SUFFICES ASSUME LoopInv, [Next]_vars  PROVE LoopInv'
    OBVIOUS
  <1>1. CASE \/ \E k \in Profiles \X Contents, e \in Priorities \cup {Absent} : Edit(k, e)
             \/ \E p \in Profiles : Join(p)
             \/ \E p \in Profiles, f \in Kinds \cup {"all"} : Begin(p, f)
             \/ Require \/ Fail
    BY <1>1, OthersKeep
  <1>2. CASE Query
    BY <1>2, QueryKeeps
  <1>3. ASSUME NEW row \in rows, Merge(row)  PROVE LoopInv'
    BY <1>3, MergeKeeps
  <1>4. CASE Sort
    BY <1>4, SortKeeps
  <1>5. CASE Reply
    BY <1>5, ReplyKeeps
  <1>6. CASE UNCHANGED vars
    <2>1. UNCHANGED <<board, members, stage, caller, filter, rows, order, found, items, answer>>
      BY <1>6 DEF vars
    <2>2. TypeOK'
      BY <2>1 DEF LoopInv, TypeOK
    <2>3. MergeInv => MergeInv'
      <3>1. \A c : /\ Pending(c)' = Pending(c) /\ Counted(c)' = Counted(c)
                   /\ Wanted(c)' = Wanted(c)
        BY <2>1 DEF Pending, Counted, Known, Wanted, Selected, Interested
      <3>2. \A c : AccumulatorInv(c) => AccumulatorInv(c)'
        BY <2>1 DEF AccumulatorInv
      <3> QED  BY <2>1, <3>1, <3>2 DEF MergeInv
    <2> QED  BY <2>1, <2>2, <2>3 DEF LoopInv
  <1> QED  BY <1>1, <1>2, <1>3, <1>4, <1>5, <1>6 DEF Next

\* Rows still to be visited and members already counted are always what the
\* query returned.
THEOREM LoopHolds == Spec => []LoopInv
  BY LoopStarts, LoopStep, PTL DEF Spec

\* Nothing but the sort makes a reply.
LEMMA OnlySortReplies ==
    ASSUME LoopInv, [Next]_vars, stage' = "reply"
    PROVE  Sort \/ UNCHANGED vars
  BY DEF Next, vars, Edit, Join, Begin, Require, Query, Merge, Reply, Fail, tables, loop

LEMMA RepliesStep ==
    LoopInv /\ ReplyFaithful /\ ReplyOrdered /\ [Next]_vars => ReplyFaithful' /\ ReplyOrdered'
  <1> SUFFICES ASSUME LoopInv, ReplyFaithful, ReplyOrdered, [Next]_vars
               PROVE  ReplyFaithful' /\ ReplyOrdered'
    OBVIOUS
  <1>1. CASE stage' # "reply"
    BY <1>1 DEF ReplyFaithful, ReplyOrdered
  <1>2. CASE Sort
    BY <1>2, SortKeeps
  <1>3. CASE UNCHANGED vars
    <2>1. UNCHANGED <<board, members, stage, caller, filter, items>>
      BY <1>3 DEF vars
    <2>2. ReplyOrdered'
      BY <2>1 DEF ReplyOrdered
    <2>3. \A c : (Selected(c) <=> Selected(c)') /\ Interested(c)' = Interested(c)
      BY <2>1 DEF Selected, Interested
    <2>4. ReplyFaithful'
      BY <2>1, <2>3 DEF ReplyFaithful
    <2> QED  BY <2>2, <2>4
  <1> QED  BY <1>1, <1>2, <1>3, OnlySortReplies

\* The merged watchlist lists what the members' watchlists do: every title once,
\* with everybody who wants it, at their own priorities.
THEOREM RepliesFaithful == Spec => []ReplyFaithful
  <1>1. Init => ReplyFaithful /\ ReplyOrdered
    BY DEF Init, ReplyFaithful, ReplyOrdered
  <1> QED  BY <1>1, LoopHolds, RepliesStep, PTL DEF Spec

\* More wanted titles come first, and equally wanted ones in title order.
THEOREM RepliesOrdered == Spec => []ReplyOrdered
  <1>1. Init => ReplyFaithful /\ ReplyOrdered
    BY DEF Init, ReplyFaithful, ReplyOrdered
  <1> QED  BY <1>1, LoopHolds, RepliesStep, PTL DEF Spec
====
