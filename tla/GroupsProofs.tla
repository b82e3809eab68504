---- MODULE GroupsProofs ----
(***************************************************************************)
(* Proofs about Groups, for any numbers of requests, profiles and groups.  *)
(***************************************************************************)
EXTENDS Groups, SequenceTheorems, FiniteSetTheorems, TLAPS

-----------------------------------------------------------------------------
(***************************************************************************)
(* What the operators on the rows of a group do, row by row.               *)
(***************************************************************************)

\* RemoveAt leaves out one row and moves the later ones up.
LEMMA RemoveAtRows ==
    ASSUME NEW S, NEW s \in Seq(S), NEW k \in 1..Len(s)
    PROVE  /\ RemoveAt(s, k) \in Seq(S)
           /\ Len(RemoveAt(s, k)) = Len(s) - 1
           /\ \A i \in 1..Len(s) - 1 : RemoveAt(s, k)[i] = s[IF i < k THEN i ELSE i + 1]
<1> DEFINE a == SubSeq(s, 1, k - 1)
           b == SubSeq(s, k + 1, Len(s))
<1>1. a \in Seq(S) /\ Len(a) = k - 1 /\ \A i \in 1..k - 1 : a[i] = s[i]
  OBVIOUS
<1>2. b \in Seq(S) /\ Len(b) = Len(s) - k /\ \A i \in 1..Len(s) - k : b[i] = s[k + i]
  OBVIOUS
<1>3. RemoveAt(s, k) = a \o b
  BY DEF RemoveAt
<1> HIDE DEF a, b
<1>4. a \o b \in Seq(S) /\ Len(a \o b) = Len(s) - 1
  <2>1. Len(a \o b) = Len(a) + Len(b)
    BY <1>1, <1>2, ConcatProperties
  <2>2. k - 1 + (Len(s) - k) = Len(s) - 1
    OBVIOUS
  <2>3. QED BY <2>1, <2>2, <1>1, <1>2
<1>5. ASSUME NEW i \in 1..Len(s) - 1
      PROVE  (a \o b)[i] = s[IF i < k THEN i ELSE i + 1]
  <2>1. CASE i < k
    BY <2>1, <1>1, <1>2
  <2>2. CASE ~(i < k)
    <3>1. (a \o b)[i] = b[i - (k - 1)] /\ i - (k - 1) \in 1..Len(s) - k
      BY <2>2, <1>1, <1>2
    <3>2. k + (i - (k - 1)) = i + 1 /\ (IF i < k THEN i ELSE i + 1) = i + 1
      BY <2>2
    <3>3. b[i - (k - 1)] = s[i + 1]
      BY <3>1, <3>2, <1>2
    <3>4. QED BY <3>1, <3>2, <3>3
  <2>3. QED BY <2>1, <2>2, Zenon
<1>6. QED BY <1>3, <1>4, <1>5

\* The rows t that are left of s without r's.
LeftOut(s, t, r) ==
    \/ t = s /\ \A i \in 1..Len(s) : s[i].by # r
    \/ \E k \in 1..Len(s) :
          /\ s[k].by = r
          /\ Len(t) = Len(s) - 1
          /\ \A i \in 1..Len(s) - 1 : t[i] = s[IF i < k THEN i ELSE i + 1]

\* Without takes r's row out, if there is one.
LEMMA WithoutRows ==
    ASSUME NEW s \in Seq(Member), NEW r
    PROVE  Without(s, r) \in Seq(Member) /\ LeftOut(s, Without(s, r), r)
<1>1. CASE \E i \in 1..Len(s) : s[i].by = r
  <2> DEFINE k == CHOOSE i \in 1..Len(s) : s[i].by = r
  <2>1. k \in 1..Len(s) /\ s[k].by = r
    BY <1>1
  <2>2. Without(s, r) = RemoveAt(s, k)
    BY <1>1 DEF Without
  <2> HIDE DEF k
  <2>3. QED BY <2>1, <2>2, RemoveAtRows DEF LeftOut
<1>2. CASE ~ \E i \in 1..Len(s) : s[i].by = r
  BY <1>2 DEF Without, LeftOut
<1>3. QED BY <1>1, <1>2

\* A rollback takes r's rows out of every group.
LEMMA RollbackRows ==
    ASSUME TypeOK, NEW r \in Requests, Rollback(r)
    PROVE  /\ members' \in [GroupIds -> Seq(Member)]
           /\ \A g \in GroupIds : LeftOut(members[g], members'[g], r)
<1>1. ASSUME NEW g \in GroupIds
      PROVE  members'[g] \in Seq(Member) /\ LeftOut(members[g], members'[g], r)
  <2>1. members[g] \in Seq(Member) /\ members'[g] = Without(members[g], r)
    BY DEF TypeOK, Rollback
  <2>2. QED BY <2>1, WithoutRows
<1>2. QED BY <1>1 DEF Rollback

\* The loser of the race for a row takes its own out of its group.
LEMMA DropRows ==
    ASSUME TypeOK, NEW r \in Requests, NEW g \in GroupIds,
           members' = [members EXCEPT ![g] = Without(@, r)]
    PROVE  /\ members' \in [GroupIds -> Seq(Member)]
           /\ LeftOut(members[g], members'[g], r)
           /\ \A h \in GroupIds \ {g} : members'[h] = members[h]
<1>1. members[g] \in Seq(Member) /\ members'[g] = Without(members[g], r)
  BY DEF TypeOK
<1>2. members'[g] \in Seq(Member) /\ LeftOut(members[g], members'[g], r)
  BY <1>1, WithoutRows
<1>3. QED BY <1>2 DEF TypeOK

\* An INSERT adds its row at the end of its group.
LEMMA InsertRows ==
    ASSUME TypeOK, NEW r \in Requests, NEW w \in BOOLEAN, call[r] \in Call, Insert(r, w)
    PROVE  /\ members' \in [GroupIds -> Seq(Member)]
           /\ Len(members'[call[r].group]) = Len(members[call[r].group]) + 1
           /\ \A i \in 1..Len(members[call[r].group]) :
                 members'[call[r].group][i] = members[call[r].group][i]
           /\ members'[call[r].group][Len(members[call[r].group]) + 1] =
                 [profile |-> call[r].profile, by |-> r, written |-> w]
           /\ \A h \in GroupIds \ {call[r].group} : members'[h] = members[h]
<1> DEFINE m == [profile |-> call[r].profile, by |-> r, written |-> w]
<1>1. m \in Member /\ call[r].group \in GroupIds
  BY DEF Call, Member
<1>2. members' = [members EXCEPT ![call[r].group] = Append(@, m)]
  BY DEF Insert
<1> HIDE DEF m
<1>3. QED BY <1>1, <1>2, AppendProperties DEF TypeOK, m

\* A commit, and the index letting a row in, change rows where they are.
LEMMA SettledRow ==
    ASSUME NEW m \in Member, NEW r
    PROVE  /\ Settled(m, r) \in Member
           /\ Settled(m, r).profile = m.profile
           /\ Settled(m, r).written = m.written
           /\ Settled(m, r).by = IF m.by = r THEN Committed ELSE m.by
BY DEF Settled, Member

LEMMA IndexedRow ==
    ASSUME NEW m \in Member, NEW r
    PROVE  /\ Indexed(m, r) \in Member
           /\ Indexed(m, r).profile = m.profile
           /\ Indexed(m, r).by = m.by
           /\ m.by = r => Indexed(m, r).written
           /\ m.by # r => Indexed(m, r) = m
BY DEF Indexed, Member

LEMMA PublishRows ==
    ASSUME TypeOK, NEW r \in Requests, Publish(r)
    PROVE  /\ members' \in [GroupIds -> Seq(Member)]
           /\ \A g \in GroupIds :
                 /\ Len(members'[g]) = Len(members[g])
                 /\ \A i \in 1..Len(members[g]) : members'[g][i] = Settled(members[g][i], r)
<1>1. ASSUME NEW g \in GroupIds
      PROVE  /\ members'[g] \in Seq(Member)
             /\ Len(members'[g]) = Len(members[g])
             /\ \A i \in 1..Len(members[g]) : members'[g][i] = Settled(members[g][i], r)
  <2>1. members[g] \in Seq(Member)
    BY DEF TypeOK
  <2>2. \A i \in 1..Len(members[g]) : Settled(members[g][i], r) \in Member
    BY <2>1, ElementOfSeq, SettledRow
  <2>3. members'[g] = [i \in 1..Len(members[g]) |-> Settled(members[g][i], r)]
    BY DEF Publish
  <2>4. QED BY <2>1, <2>2, <2>3
<1>2. QED BY <1>1 DEF Publish

LEMMA IndexedRows ==
    ASSUME TypeOK, NEW r \in Requests, NEW g \in GroupIds,
           members' = [members EXCEPT ![g] = [i \in 1..Len(@) |-> Indexed(@[i], r)]]
    PROVE  /\ members' \in [GroupIds -> Seq(Member)]
           /\ Len(members'[g]) = Len(members[g])
           /\ \A i \in 1..Len(members[g]) : members'[g][i] = Indexed(members[g][i], r)
           /\ \A h \in GroupIds \ {g} : members'[h] = members[h]
<1>1. members[g] \in Seq(Member)
  BY DEF TypeOK
<1>2. \A i \in 1..Len(members[g]) : Indexed(members[g][i], r) \in Member
  BY <1>1, ElementOfSeq, IndexedRow
<1>3. members'[g] = [i \in 1..Len(members[g]) |-> Indexed(members[g][i], r)]
  BY DEF TypeOK
<1>4. \A h \in GroupIds \ {g} : members'[h] = members[h]
  BY DEF TypeOK
<1>5. /\ members'[g] \in Seq(Member) /\ Len(members'[g]) = Len(members[g])
      /\ \A i \in 1..Len(members[g]) : members'[g][i] = Indexed(members[g][i], r)
  BY <1>1, <1>2, <1>3
<1>6. QED BY <1>4, <1>5 DEF TypeOK

-----------------------------------------------------------------------------
(***************************************************************************)
(* What a request sees of a group stays: whatever happens to the rows of a *)
(* group, the members q sees are still seen, in the order they were in.    *)
(***************************************************************************)

Keeps(q, g) ==
    /\ \A p : IsMember(q, g, p) => IsMember(q, g, p)'
    /\ \A p1, p2 : Ordered(q, g, p1, p2) => Ordered(q, g, p1, p2)'

LEMMA KeepsSame ==
    ASSUME NEW q, NEW g, members'[g] = members[g]
    PROVE  Keeps(q, g)
BY DEF Keeps, IsMember, Ordered, Sees

LEMMA KeepsArrived ==
    ASSUME NEW q, NEW g, members[g] \in Seq(Member),
           Len(members'[g]) = Len(members[g]) + 1,
           \A i \in 1..Len(members[g]) : members'[g][i] = members[g][i]
    PROVE  Keeps(q, g)
<1>1. Len(members[g]) \in Nat
  BY LenProperties
<1>2. \A i \in 1..Len(members[g]) : i \in 1..Len(members'[g]) /\ members'[g][i] = members[g][i]
  BY <1>1
<1>3. ASSUME NEW p, IsMember(q, g, p) PROVE IsMember(q, g, p)'
  BY <1>2, <1>3 DEF IsMember, Sees
<1>4. ASSUME NEW p1, NEW p2, Ordered(q, g, p1, p2) PROVE Ordered(q, g, p1, p2)'
  BY <1>2, <1>4 DEF Ordered, Sees
<1>5. QED BY <1>3, <1>4 DEF Keeps

LEMMA KeepsInPlace ==
    ASSUME NEW q, NEW g, Len(members'[g]) = Len(members[g]),
           \A i \in 1..Len(members[g]) :
              /\ members'[g][i].profile = members[g][i].profile
              /\ Sees(q, members[g][i]) => Sees(q, members'[g][i])
    PROVE  Keeps(q, g)
BY DEF Keeps, IsMember, Ordered

LEMMA KeepsLeftOut ==
    ASSUME NEW q, NEW r, NEW g, members[g] \in Seq(Member),
           LeftOut(members[g], members'[g], r),
           \A i \in 1..Len(members[g]) : members[g][i].by = r => ~Sees(q, members[g][i])
    PROVE  Keeps(q, g)
<1>1. CASE members'[g] = members[g]
  BY <1>1, KeepsSame
<1>2. CASE members'[g] # members[g]
  <2>1. Len(members[g]) \in Nat
    BY LenProperties
  <2>2. PICK k \in 1..Len(members[g]) :
          /\ members[g][k].by = r
          /\ Len(members'[g]) = Len(members[g]) - 1
          /\ \A i \in 1..Len(members[g]) - 1 :
                members'[g][i] = members[g][IF i < k THEN i ELSE i + 1]
    BY <1>2 DEF LeftOut
  <2> DEFINE up(i) == IF i < k THEN i ELSE i - 1
  <2>3. ASSUME NEW i \in 1..Len(members[g]), Sees(q, members[g][i])
        PROVE  up(i) \in 1..Len(members'[g]) /\ members'[g][up(i)] = members[g][i]
    <3>1. i # k
      BY <2>2, <2>3
    <3>2. CASE i < k
      BY <3>2, <2>1, <2>2
    <3>3. CASE i > k
      <4>1. i - 1 \in 1..Len(members[g]) - 1 /\ ~(i - 1 < k) /\ i - 1 + 1 = i /\ up(i) = i - 1
        BY <3>3, <2>1
      <4>2. QED BY <4>1, <2>2
    <3>4. QED BY <3>1, <3>2, <3>3, <2>1
  <2>4. \A i, j \in 1..Len(members[g]) : i < j /\ i # k /\ j # k => up(i) < up(j)
    BY <2>1
  <2>5. \A i \in 1..Len(members[g]) : Sees(q, members[g][i]) => i # k
    BY <2>2
  <2> HIDE DEF up
  <2>6. ASSUME NEW p, IsMember(q, g, p) PROVE IsMember(q, g, p)'
    BY <2>3, <2>6 DEF IsMember, Sees
  <2>7. ASSUME NEW p1, NEW p2, Ordered(q, g, p1, p2) PROVE Ordered(q, g, p1, p2)'
    <3>1. PICK i, j \in 1..Len(members[g]) :
            /\ i < j
            /\ Sees(q, members[g][i]) /\ members[g][i].profile = p1
            /\ Sees(q, members[g][j]) /\ members[g][j].profile = p2
      BY <2>7 DEF Ordered
    <3>2. up(i) < up(j)
      BY <3>1, <2>4, <2>5
    <3>3. QED BY <3>1, <3>2, <2>3 DEF Ordered, Sees
  <2>8. QED BY <2>6, <2>7 DEF Keeps
<1>3. QED BY <1>1, <1>2

-----------------------------------------------------------------------------
(***************************************************************************)
(* The other requests: a step of r leaves what they count on.              *)
(***************************************************************************)

Others(r) ==
    \A q \in Requests \ {r} :
       /\ stage'[q] = stage[q] /\ call'[q] = call[q]
       /\ todo'[q] = todo[q] /\ reply'[q] = reply[q]

\* A row of q is still there.
RowStays(q, g) ==
    (\E i \in 1..Len(members[g]) : members[g][i].by = q) =>
    (\E i \in 1..Len(members[g]) : members[g][i].by = q)'

LEMMA RowStaysSame ==
    ASSUME NEW q, NEW g, members'[g] = members[g]
    PROVE  RowStays(q, g)
BY DEF RowStays

LEMMA RowStaysArrived ==
    ASSUME NEW q, NEW g, members[g] \in Seq(Member),
           Len(members'[g]) = Len(members[g]) + 1,
           \A i \in 1..Len(members[g]) : members'[g][i] = members[g][i]
    PROVE  RowStays(q, g)
<1>1. Len(members[g]) \in Nat
  BY LenProperties
<1>2. QED BY <1>1 DEF RowStays

LEMMA RowStaysInPlace ==
    ASSUME NEW q, NEW g, Len(members'[g]) = Len(members[g]),
           \A i \in 1..Len(members[g]) : members[g][i].by = q => members'[g][i].by = q
    PROVE  RowStays(q, g)
BY DEF RowStays

LEMMA RowStaysLeftOut ==
    ASSUME NEW q, NEW r, NEW g, members[g] \in Seq(Member), q # r,
           LeftOut(members[g], members'[g], r)
    PROVE  RowStays(q, g)
<1>1. Len(members[g]) \in Nat
  BY LenProperties
<1>2. ASSUME NEW k \in 1..Len(members[g]), members[g][k].by = r,
             Len(members'[g]) = Len(members[g]) - 1,
             \A i \in 1..Len(members[g]) - 1 :
                members'[g][i] = members[g][IF i < k THEN i ELSE i + 1],
             NEW i \in 1..Len(members[g]), members[g][i].by = q
      PROVE  \E j \in 1..Len(members'[g]) : members'[g][j].by = q
  <2>1. CASE i < k
    BY <2>1, <1>1, <1>2
  <2>2. CASE i > k
    <3>1. i - 1 \in 1..Len(members[g]) - 1 /\ ~(i - 1 < k) /\ i - 1 + 1 = i
      BY <2>2, <1>1
    <3>2. QED BY <3>1, <1>2
  <2>3. QED BY <2>1, <2>2, <1>1, <1>2
<1>3. QED BY <1>2 DEF RowStays, LeftOut

\* The reply of q is still as good as it was.
LEMMA ReplyKept ==
    ASSUME NEW q \in Requests, TypeOK, ReplyInv(q), reply'[q] = reply[q],
           Busy(q)' => Busy(q) /\ call'[q] = call[q],
           \A g \in GroupIds : Keeps(q, g)
    PROVE  ReplyInv(q)'
<1>1. DOMAIN reply[q] \subseteq GroupIds
  BY DEF TypeOK
<1>2. ASSUME NEW g \in DOMAIN reply[q]
      PROVE  /\ Busy(q)' => \E i \in DOMAIN reply[q][g] : \A j \in DOMAIN reply[q][g] :
                   reply[q][g][j] = call'[q].profile <=> i = j
             /\ \A i, j \in DOMAIN reply[q][g] :
                   i < j => Ordered(q, g, reply[q][g][i], reply[q][g][j])'
  <2>1. Busy(q)' => \E i \in DOMAIN reply[q][g] : \A j \in DOMAIN reply[q][g] :
                   reply[q][g][j] = call'[q].profile <=> i = j
    BY DEF ReplyInv
  <2>2. ASSUME NEW i \in DOMAIN reply[q][g], NEW j \in DOMAIN reply[q][g], i < j
        PROVE  Ordered(q, g, reply[q][g][i], reply[q][g][j])'
    <3>1. Ordered(q, g, reply[q][g][i], reply[q][g][j])
      BY <2>2 DEF ReplyInv
    <3>2. QED BY <3>1, <1>1 DEF Keeps
  <2>3. QED BY <2>1, <2>2
<1>3. QED BY <1>2 DEF ReplyInv

LEMMA OthersKept ==
    ASSUME TablesInv, NEW r \in Requests, Others(r),
           \A q \in Requests \ {r} : \A g \in GroupIds : Keeps(q, g) /\ RowStays(q, g)
    PROVE  \A q \in Requests \ {r} : StageInv(q)' /\ MemberInv(q)' /\ ReplyInv(q)'
<1> SUFFICES ASSUME NEW q \in Requests \ {r}
             PROVE  StageInv(q)' /\ MemberInv(q)' /\ ReplyInv(q)'
  OBVIOUS
<1>1. /\ stage'[q] = stage[q] /\ call'[q] = call[q]
      /\ todo'[q] = todo[q] /\ reply'[q] = reply[q]
  BY DEF Others
<1>2. StageInv(q) /\ MemberInv(q) /\ ReplyInv(q) /\ TypeOK
  BY DEF TablesInv
<1>3. StageInv(q)'
  BY <1>1, <1>2 DEF StageInv, Busy
<1>4. MemberInv(q)'
  <2>1. stage[q] \in {"index", "members", "commit"} => call[q].group \in GroupIds
    BY <1>2 DEF StageInv, TypeOK, Busy, Call
  <2>2. todo[q] \subseteq GroupIds
    BY <1>2 DEF TypeOK
  <2>3. \A g \in GroupIds : \A p : IsMember(q, g, p) => IsMember(q, g, p)'
    BY DEF Keeps
  <2>4. \A g \in GroupIds : RowStays(q, g)
    OBVIOUS
  <2>5. (stage[q] \in {"members", "commit"} => IsMember(q, call[q].group, call[q].profile))'
    BY <1>1, <1>2, <2>1, <2>3 DEF MemberInv
  <2>6. (stage[q] = "summaries" => \A g \in todo[q] : IsMember(q, g, call[q].profile))'
    BY <1>1, <1>2, <2>2, <2>3 DEF MemberInv
  <2>7. (stage[q] = "index" =>
          \E i \in 1..Len(members[call[q].group]) : members[call[q].group][i].by = q)'
    BY <1>1, <1>2, <2>1, <2>4 DEF MemberInv, RowStays
  <2>8. QED BY <2>5, <2>6, <2>7 DEF MemberInv
<1>5. ReplyInv(q)'
  BY <1>1, <1>2, ReplyKept DEF Busy
<1>6. QED BY <1>3, <1>4, <1>5

-----------------------------------------------------------------------------
(***************************************************************************)
(* The rows: every membership once, every group with its creator first.    *)
(***************************************************************************)

RowsInv ==
    /\ OneMembership
    /\ \A g \in GroupIds : FirstInv(g) /\ \A i \in 1..Len(members[g]) : RowInv(g, i)

LEMMA RowsHold ==
    ASSUME TablesInv
    PROVE  RowsInv
BY DEF TablesInv, RowsInv

\* The invariant after a step of r, part by part.
LEMMA InvFrom ==
    ASSUME NEW r \in Requests, TypeOK', RowsInv',
           \A q \in Requests \ {r} : (StageInv(q) /\ MemberInv(q) /\ ReplyInv(q))',
           StageInv(r)', MemberInv(r)', ReplyInv(r)',
           \A q \in Requests : GroupInv(q)'
    PROVE  TablesInv'
<1>1. ASSUME NEW g \in GroupIds, groups'[g] = Committed
      PROVE  CommittedPlaces(g)' # {}
  <2>1. Len(members'[g]) \in Nat /\ Len(members'[g]) > 0 /\ members'[g][1].by = Committed
    BY <1>1, LenProperties DEF TypeOK, RowsInv, FirstInv
  <2>2. 1 \in CommittedPlaces(g)'
    BY <2>1 DEF CommittedPlaces
  <2>3. QED BY <2>2
<1>2. GroupHasMembers'
  BY <1>1 DEF GroupHasMembers
<1>3. \A q \in Requests : (StageInv(q) /\ MemberInv(q) /\ ReplyInv(q))'
  OBVIOUS
<1>4. QED BY <1>2, <1>3 DEF TablesInv, RowsInv

\* A step that leaves the tables alone and keeps what r's row rests on.
LEMMA RowsSame ==
    ASSUME TablesInv, NEW r \in Requests, Others(r), UNCHANGED <<groups, members>>,
           \/ \A g \in GroupIds : \A i \in 1..Len(members[g]) : members[g][i].by # r
           \/ /\ call'[r] = call[r]
              /\ stage[r] \in {"members", "commit"} /\ stage'[r] \in {"members", "commit"}
    PROVE  RowsInv'
<1>1. OneMembership'
  BY DEF TablesInv, OneMembership
<1>2. ASSUME NEW g \in GroupIds
      PROVE  FirstInv(g)'
  BY DEF TablesInv, FirstInv
<1>3. ASSUME NEW g \in GroupIds, NEW i \in 1..Len(members[g])
      PROVE  RowInv(g, i)'
  <2>1. RowInv(g, i)
    BY DEF TablesInv
  <2>2. CASE members[g][i].by \notin Requests
    BY <2>1, <2>2 DEF RowInv
  <2>3. ASSUME NEW q \in Requests, q # r, members[g][i].by = q
        PROVE  RowInv(g, i)'
    BY <2>1, <2>3 DEF RowInv, Others
  <2>4. CASE members[g][i].by = r
    BY <2>1, <2>4 DEF RowInv
  <2>5. QED BY <2>2, <2>3, <2>4
<1>4. QED BY <1>1, <1>2, <1>3 DEF RowsInv

\* A request that is not inserting has no rows of its own.
LEMMA NoRows ==
    ASSUME TablesInv, NEW r \in Requests, stage[r] \notin {"index", "members", "commit"}
    PROVE  \A g \in GroupIds : \A i \in 1..Len(members[g]) : members[g][i].by # r
BY DEF TablesInv, RowInv

\* The row an INSERT adds is new in its group.
LEMMA RowsInsert ==
    ASSUME TablesInv, NEW r \in Requests, Others(r), NEW w \in BOOLEAN, Insert(r, w),
           UNCHANGED groups, call'[r] = call[r], call[r] \in Call,
           stage[r] \notin {"index", "members", "commit"},
           call[r].op \in {"Create", "Join"},
           groups[call[r].group] = IF w THEN r ELSE Committed,
           stage'[r] = IF w THEN "commit" ELSE "index"
    PROVE  RowsInv'
<1> DEFINE G == call[r].group
           n == Len(members[G])
           m == [profile |-> call[r].profile, by |-> r, written |-> w]
<1>1. /\ G \in GroupIds /\ members[G] \in Seq(Member) /\ n \in Nat
      /\ r # Committed
  BY LenProperties, GroupsAssumption DEF TablesInv, TypeOK, Call
<1>2. /\ Len(members'[G]) = n + 1
      /\ \A i \in 1..n : members'[G][i] = members[G][i]
      /\ members'[G][n + 1] = m
      /\ \A h \in GroupIds \ {G} : members'[h] = members[h]
  BY InsertRows DEF TablesInv
<1>3. \A g \in GroupIds : \A i \in 1..Len(members[g]) : members[g][i].by # r
  BY NoRows
<1>4. w => n = 0
  <2>1. ASSUME w, n # 0 PROVE FALSE
    <3>1. 1 \in 1..n
      BY <2>1, <1>1
    <3>2. groups[G] \in {Committed, members[G][1].by}
      BY <3>1, <1>1 DEF TablesInv, RowInv
    <3>3. QED BY <3>1, <3>2, <2>1, <1>1, <1>3
  <2>2. QED BY <2>1
<1>5. m.by = r /\ m.written = w /\ m.profile = call[r].profile
  OBVIOUS
<1> HIDE DEF G, n, m
<1>6. OneMembership'
  <2>1. ASSUME NEW g \in GroupIds, NEW i \in 1..Len(members'[g]), NEW j \in 1..Len(members'[g]),
               members'[g][i].written, members'[g][j].written,
               members'[g][i].profile = members'[g][j].profile
        PROVE  i = j
    <3>1. CASE g # G
      BY <3>1, <2>1, <1>2 DEF TablesInv, OneMembership
    <3>2. CASE g = G /\ w
      BY <3>2, <2>1, <1>1, <1>2, <1>4
    <3>3. CASE g = G /\ ~w
      <4>1. i \in 1..n /\ j \in 1..n
        BY <3>3, <2>1, <1>1, <1>2, <1>5
      <4>2. members[G][i].written /\ members[G][j].written /\ members[G][i].profile = members[G][j].profile
        BY <4>1, <3>3, <2>1, <1>2
      <4>3. QED BY <4>1, <4>2, <1>1 DEF TablesInv, OneMembership, n
    <3>4. QED BY <3>1, <3>2, <3>3
  <2>2. QED BY <2>1 DEF OneMembership
<1>7. ASSUME NEW g \in GroupIds
      PROVE  FirstInv(g)'
  <2>1. FirstInv(g)
    BY DEF TablesInv
  <2>2. CASE g # G
    BY <2>1, <2>2, <1>2 DEF FirstInv
  <2>3. CASE g = G
    BY <2>1, <2>3, <1>1, <1>2 DEF FirstInv, n
  <2>4. QED BY <2>2, <2>3
<1>8. ASSUME NEW g \in GroupIds, NEW i \in 1..Len(members'[g])
      PROVE  RowInv(g, i)'
  <2>1. CASE i \in 1..Len(members[g])
    <3>1. members'[g][i] = members[g][i] /\ RowInv(g, i) /\ members[g][i].by # r
      BY <2>1, <1>2, <1>3 DEF TablesInv, n
    <3>2. CASE members[g][i].by \notin Requests
      BY <3>1, <3>2 DEF RowInv
    <3>3. ASSUME NEW q \in Requests, members[g][i].by = q
          PROVE  RowInv(g, i)'
      <4>1. q # r /\ stage'[q] = stage[q] /\ call'[q] = call[q]
        BY <3>1, <3>3 DEF Others
      <4>2. \A j \in 1..Len(members'[g]) : members'[g][j].by = q => i = j
        <5>1. ASSUME NEW j \in 1..Len(members'[g]), members'[g][j].by = q PROVE i = j
          <6>1. j \in 1..Len(members[g]) /\ members'[g][j] = members[g][j]
            BY <5>1, <4>1, <1>1, <1>2, <1>5 DEF n
          <6>2. QED BY <6>1, <5>1, <3>1, <3>3 DEF RowInv
        <5>2. QED BY <5>1
      <4>3. QED BY <3>1, <3>3, <4>1, <4>2 DEF RowInv
    <3>4. QED BY <3>2, <3>3
  <2>2. CASE i \notin 1..Len(members[g])
    <3>1. g = G /\ i = n + 1 /\ members'[g][i] = m
      BY <2>2, <1>1, <1>2 DEF n
    <3>2. \A j \in 1..Len(members'[g]) : members'[g][j].by = r => i = j
      BY <3>1, <1>1, <1>2, <1>3 DEF n
    <3>3. \A q \in Requests : m.by = q => q = r
      BY <1>5
    <3>4. groups'[g] \in {Committed, r}
      BY <3>1 DEF G
    <3>5. QED BY <3>1, <3>2, <3>3, <3>4, <1>1, <1>5 DEF RowInv, G
  <2>3. QED BY <2>1, <2>2
<1>9. QED BY <1>6, <1>7, <1>8 DEF RowsInv

\* The rows that are left are old ones, none of them r's, in the order they had.
LEMMA LeftRows ==
    ASSUME TablesInv, NEW r \in Requests, NEW g \in GroupIds,
           LeftOut(members[g], members'[g], r)
    PROVE  \E down \in [1..Len(members'[g]) -> 1..Len(members[g])] :
              /\ \A i \in 1..Len(members'[g]) :
                    members'[g][i] = members[g][down[i]] /\ members'[g][i].by # r
              /\ \A i, j \in 1..Len(members'[g]) : down[i] = down[j] => i = j
<1>1. Len(members[g]) \in Nat
  BY LenProperties DEF TablesInv, TypeOK
<1>2. CASE members'[g] = members[g] /\ \A i \in 1..Len(members[g]) : members[g][i].by # r
  <2> DEFINE d == [i \in 1..Len(members[g]) |-> i]
  <2>1. /\ d \in [1..Len(members'[g]) -> 1..Len(members[g])]
        /\ \A i \in 1..Len(members'[g]) :
              members'[g][i] = members[g][d[i]] /\ members'[g][i].by # r
        /\ \A i, j \in 1..Len(members'[g]) : d[i] = d[j] => i = j
    BY <1>2
  <2>2. QED BY <2>1
<1>3. ASSUME NEW k \in 1..Len(members[g]), members[g][k].by = r,
             Len(members'[g]) = Len(members[g]) - 1,
             \A i \in 1..Len(members[g]) - 1 :
                members'[g][i] = members[g][IF i < k THEN i ELSE i + 1]
      PROVE  \E down \in [1..Len(members'[g]) -> 1..Len(members[g])] :
              /\ \A i \in 1..Len(members'[g]) :
                    members'[g][i] = members[g][down[i]] /\ members'[g][i].by # r
              /\ \A i, j \in 1..Len(members'[g]) : down[i] = down[j] => i = j
  <2> DEFINE d == [i \in 1..Len(members'[g]) |-> IF i < k THEN i ELSE i + 1]
  <2>1. \A i \in 1..Len(members'[g]) : d[i] \in 1..Len(members[g]) /\ d[i] # k
    BY <1>1, <1>3
  <2>2. \A i, j \in 1..Len(members'[g]) : d[i] = d[j] => i = j
    BY <1>1, <1>3
  <2>3. ASSUME NEW i \in 1..Len(members'[g]) PROVE members'[g][i] = members[g][d[i]]
    <3>1. i \in 1..Len(members[g]) - 1 /\ d[i] = IF i < k THEN i ELSE i + 1
      BY <1>3
    <3>2. members'[g][i] = members[g][IF i < k THEN i ELSE i + 1]
      BY <3>1, <1>3
    <3>3. QED BY <3>1, <3>2, Zenon
  <2>4. \A j \in 1..Len(members[g]) : members[g][j].by = r => k = j
    <3>1. RowInv(g, k) /\ members[g][k].by = r
      BY <1>3 DEF TablesInv
    <3>2. QED BY ONLY <3>1, r \in Requests DEF RowInv
  <2>5. d \in [1..Len(members'[g]) -> 1..Len(members[g])]
    BY <2>1
  <2> HIDE DEF d
  <2>6. \A i \in 1..Len(members'[g]) :
           members'[g][i] = members[g][d[i]] /\ members'[g][i].by # r
    BY <2>1, <2>3, <2>4
  <2>7. QED BY <2>2, <2>5, <2>6
<1>4. QED BY <1>2, <1>3 DEF LeftOut

LEMMA RowsLeftOut ==
    ASSUME TablesInv, NEW r \in Requests, Others(r),
           \A g \in GroupIds : LeftOut(members[g], members'[g], r),
           \A g \in GroupIds :
              groups'[g] = groups[g] \/ (groups[g] = r /\ groups'[g] = Free)
    PROVE  RowsInv'
<1>0. /\ \A g \in GroupIds : Len(members[g]) \in Nat
      /\ r # Committed /\ Free # Committed
  BY LenProperties, GroupsAssumption DEF TablesInv, TypeOK
<1>1. OneMembership'
  <2>1. ASSUME NEW g \in GroupIds, NEW i \in 1..Len(members'[g]), NEW j \in 1..Len(members'[g]),
               members'[g][i].written, members'[g][j].written,
               members'[g][i].profile = members'[g][j].profile
        PROVE  i = j
    <3>1. PICK down \in [1..Len(members'[g]) -> 1..Len(members[g])] :
              /\ \A n \in 1..Len(members'[g]) :
                    members'[g][n] = members[g][down[n]] /\ members'[g][n].by # r
              /\ \A n, m \in 1..Len(members'[g]) : down[n] = down[m] => n = m
      BY LeftRows
    <3>2. down[i] \in 1..Len(members[g]) /\ down[j] \in 1..Len(members[g])
      OBVIOUS
    <3>3. members'[g][i] = members[g][down[i]] /\ members'[g][j] = members[g][down[j]]
      BY <3>1
    <3>4. /\ members[g][down[i]].written /\ members[g][down[j]].written
          /\ members[g][down[i]].profile = members[g][down[j]].profile
      BY <2>1, <3>3
    <3>5. down[i] = down[j]
      BY <3>2, <3>4 DEF TablesInv, OneMembership
    <3>6. QED BY <3>1, <3>5
  <2>2. QED BY <2>1 DEF OneMembership
<1>2. ASSUME NEW g \in GroupIds
      PROVE  FirstInv(g)'
  <2>1. FirstInv(g) /\ LeftOut(members[g], members'[g], r)
    BY DEF TablesInv
  <2>2. groups'[g] = Committed => groups[g] = Committed
    BY <1>0
  <2>3. QED BY <2>1, <2>2, <1>0 DEF FirstInv, LeftOut
<1>3. ASSUME NEW g \in GroupIds, NEW i \in 1..Len(members'[g])
      PROVE  RowInv(g, i)'
  <2>1. PICK down \in [1..Len(members'[g]) -> 1..Len(members[g])] :
            /\ \A n \in 1..Len(members'[g]) :
                  members'[g][n] = members[g][down[n]] /\ members'[g][n].by # r
            /\ \A n, m \in 1..Len(members'[g]) : down[n] = down[m] => n = m
    BY LeftRows
  <2>2. /\ RowInv(g, down[i]) /\ down[i] \in 1..Len(members[g])
        /\ members'[g][i] = members[g][down[i]] /\ members'[g][i].by # r
    BY <2>1 DEF TablesInv
  <2>3. groups'[g] \in {Committed, members'[g][i].by}
    BY <2>2, <1>0 DEF RowInv
  <2>4. ASSUME NEW q \in Requests, members'[g][i].by = q
        PROVE  /\ q # r /\ stage'[q] = stage[q] /\ call'[q] = call[q]
               /\ \A j \in 1..Len(members'[g]) : members'[g][j].by = q => i = j
    <3>1. q # r /\ stage'[q] = stage[q] /\ call'[q] = call[q]
      BY <2>4, <2>2 DEF Others
    <3>2. ASSUME NEW j \in 1..Len(members'[g]), members'[g][j].by = q PROVE i = j
      <4>1. down[j] \in 1..Len(members[g]) /\ members[g][down[j]].by = q
        BY <3>2, <2>1
      <4>2. down[i] = down[j]
        BY <4>1, <2>2, <2>4 DEF RowInv
      <4>3. QED BY <4>2, <2>1
    <3>3. QED BY <3>1, <3>2
  <2>5. QED BY <2>2, <2>3, <2>4 DEF RowInv
<1>4. QED BY <1>1, <1>2, <1>3 DEF RowsInv

\* COMMIT hands r's rows and its group over.
LEMMA RowsPublish ==
    ASSUME TablesInv, NEW r \in Requests, Others(r), Publish(r), stage[r] = "commit"
    PROVE  RowsInv'
<1>0. /\ \A g \in GroupIds : Len(members[g]) \in Nat
      /\ r # Committed /\ Committed \notin Requests
  BY LenProperties, GroupsAssumption DEF TablesInv, TypeOK
<1>1. ASSUME NEW g \in GroupIds, NEW i \in 1..Len(members[g])
      PROVE  /\ members'[g][i].profile = members[g][i].profile
             /\ members'[g][i].written = members[g][i].written
             /\ members'[g][i].by = IF members[g][i].by = r THEN Committed ELSE members[g][i].by
  <2>1. members[g][i] \in Member
    BY ElementOfSeq DEF TablesInv, TypeOK
  <2>2. QED BY <2>1, SettledRow, PublishRows DEF TablesInv
<1>2. \A g \in GroupIds : /\ Len(members'[g]) = Len(members[g])
                          /\ groups'[g] = IF groups[g] = r THEN Committed ELSE groups[g]
  BY PublishRows DEF TablesInv, Publish
<1>3. OneMembership'
  BY <1>1, <1>2 DEF TablesInv, OneMembership
<1>4. ASSUME NEW g \in GroupIds, NEW i \in 1..Len(members'[g])
      PROVE  RowInv(g, i)'
  <2>1. RowInv(g, i) /\ i \in 1..Len(members[g])
    BY <1>2 DEF TablesInv
  <2>2. CASE members[g][i].by = r
    BY <2>1, <2>2, <1>0, <1>1, <1>2 DEF RowInv
  <2>3. CASE members[g][i].by \notin Requests
    BY <2>1, <2>3, <1>0, <1>1, <1>2 DEF RowInv
  <2>4. ASSUME NEW q \in Requests, q # r, members[g][i].by = q
        PROVE  RowInv(g, i)'
    <3>1. stage'[q] = stage[q] /\ call'[q] = call[q]
      BY <2>4 DEF Others
    <3>2. QED BY <2>1, <2>4, <3>1, <1>0, <1>1, <1>2 DEF RowInv
  <2>5. QED BY <2>2, <2>3, <2>4
<1>5. ASSUME NEW g \in GroupIds
      PROVE  FirstInv(g)'
  <2>1. FirstInv(g)
    BY DEF TablesInv
  <2>2. CASE groups[g] # r
    BY <2>1, <2>2, <1>0, <1>1, <1>2 DEF FirstInv
  <2>3. CASE groups[g] = r
    <3>1. call[r].group = g /\ IsMember(r, g, call[r].profile)
      BY <2>3 DEF TablesInv, GroupInv, MemberInv
    <3>2. Len(members[g]) > 0
      BY <3>1, <1>0 DEF IsMember
    <3>3. RowInv(g, 1) /\ 1 \in 1..Len(members[g])
      BY <3>2, <1>0 DEF TablesInv
    <3>4. members[g][1].by = r
      BY <3>3, <2>3, <1>0 DEF RowInv
    <3>5. QED BY <3>2, <3>3, <3>4, <1>0, <1>1, <1>2 DEF FirstInv
  <2>4. QED BY <2>2, <2>3
<1>6. QED BY <1>3, <1>4, <1>5 DEF RowsInv

\* The index lets r's row in when it is the only one for its profile.
LEMMA RowsIndexed ==
    ASSUME TablesInv, NEW r \in Requests, Others(r), stage[r] = "index", call[r] \in Call,
           members' = [members EXCEPT ![call[r].group] = [i \in 1..Len(@) |-> Indexed(@[i], r)]],
           Rivals(r) = {}, UNCHANGED groups, call'[r] = call[r], stage'[r] = "members"
    PROVE  RowsInv'
<1> DEFINE G == call[r].group
<1>0. /\ G \in GroupIds
      /\ members[G] \in Seq(Member) /\ Len(members[G]) \in Nat
      /\ r # Committed /\ Committed \notin Requests
  BY LenProperties, GroupsAssumption DEF TablesInv, TypeOK, Call
<1>1. /\ Len(members'[G]) = Len(members[G])
      /\ \A i \in 1..Len(members[G]) : members'[G][i] = Indexed(members[G][i], r)
      /\ \A h \in GroupIds \ {G} : members'[h] = members[h]
  BY <1>0, IndexedRows DEF TablesInv
<1>2. ASSUME NEW i \in 1..Len(members[G])
      PROVE  /\ members'[G][i].profile = members[G][i].profile
             /\ members'[G][i].by = members[G][i].by
             /\ members[G][i].by = r => members'[G][i].written
             /\ members[G][i].by # r => members'[G][i] = members[G][i]
  <2>1. members[G][i] \in Member
    BY <1>0, ElementOfSeq
  <2>2. members'[G][i] = Indexed(members[G][i], r)
    BY <1>1
  <2>3. QED BY <2>1, <2>2, IndexedRow
<1>3. \A i \in 1..Len(members[G]) :
         members[G][i].by # r /\ members[G][i].profile = call[r].profile
         => ~members[G][i].written
  <2>1. ASSUME NEW i \in 1..Len(members[G]), members[G][i].by # r,
               members[G][i].profile = call[r].profile, members[G][i].written
        PROVE  members[G][i] \in Rivals(r)
    <3>1. i \in DOMAIN members[G]
      BY <1>0, LenProperties
    <3>2. QED BY <2>1, <3>1 DEF Rivals, ToSet
  <2>2. QED BY <2>1
<1>4. \A g \in GroupIds : \A i \in 1..Len(members[g]) :
         members[g][i].by = r => g = G /\ members[g][i].profile = call[r].profile
  BY DEF TablesInv, RowInv
<1>o. \A i \in 1..Len(members[G]) : \A j \in 1..Len(members[G]) :
         members[G][i].by = r /\ members[G][j].by = r => i = j
  <2>1. G \in GroupIds
    BY <1>0
  <2>2. QED BY <2>1 DEF TablesInv, RowInv
<1>9. Len(members[G]) \in Nat /\ stage'[r] = "members" /\ call'[r] = call[r] /\ groups' = groups
  BY <1>0
<1> HIDE DEF G
<1>5. OneMembership'
  <2>1. ASSUME NEW g \in GroupIds, NEW i \in 1..Len(members'[g]), NEW j \in 1..Len(members'[g]),
               members'[g][i].written, members'[g][j].written,
               members'[g][i].profile = members'[g][j].profile
        PROVE  i = j
    <3>1. CASE g # G
      BY <3>1, <2>1, <1>1 DEF TablesInv, OneMembership
    <3>2. CASE g = G
      <4>1. i \in 1..Len(members[G]) /\ j \in 1..Len(members[G])
        BY <3>2, <1>1
      <4>2. members[G][i].profile = members[G][j].profile
        BY <4>1, <3>2, <2>1, <1>2
      <4>3. /\ members[G][i].by # r => members[G][i].written
            /\ members[G][j].by # r => members[G][j].written
        <5>1. members'[G][i].written /\ members'[G][j].written
          BY <3>2, <2>1
        <5>2. /\ members[G][i].by # r => members'[G][i] = members[G][i]
              /\ members[G][j].by # r => members'[G][j] = members[G][j]
          BY <4>1, <1>2
        <5>3. QED BY <5>1, <5>2
      <4>4. CASE members[G][i].by # r /\ members[G][j].by # r
        BY <4>1, <4>2, <4>3, <4>4, <1>0 DEF TablesInv, OneMembership
      <4>5. CASE members[G][i].by = r
        <5>1. members[G][j].by = r
          <6>1. members[G][j].profile = call[r].profile
            BY <4>1, <4>2, <4>5, <1>0, <1>4
          <6>2. members[G][j].by # r => members[G][j].written
            BY <4>3
          <6>3. members[G][j].by # r => ~members[G][j].written
            BY <4>1, <6>1, <1>3
          <6>4. QED BY ONLY <6>2, <6>3
        <5>2. QED BY <4>1, <4>5, <5>1, <1>o
      <4>6. CASE members[G][j].by = r
        <5>1. members[G][i].by = r
          <6>1. members[G][i].profile = call[r].profile
            BY <4>1, <4>2, <4>6, <1>0, <1>4
          <6>2. members[G][i].by # r => members[G][i].written
            BY <4>3
          <6>3. members[G][i].by # r => ~members[G][i].written
            BY <4>1, <6>1, <1>3
          <6>4. QED BY ONLY <6>2, <6>3
        <5>2. QED BY <4>1, <4>6, <5>1, <1>o
      <4>7. QED BY <4>4, <4>5, <4>6
    <3>3. QED BY <3>1, <3>2
  <2>2. QED BY <2>1 DEF OneMembership
<1>6. ASSUME NEW g \in GroupIds
      PROVE  FirstInv(g)'
  <2>1. FirstInv(g)
    BY DEF TablesInv
  <2>2. CASE g # G
    BY <2>1, <2>2, <1>1 DEF FirstInv
  <2>3. CASE g = G
    <3>1. groups[G] = Committed => 1 \in 1..Len(members[G])
      BY <2>1, <2>3, <1>0 DEF FirstInv
    <3>2. QED BY <2>1, <2>3, <3>1, <1>1, <1>2 DEF FirstInv
  <2>4. QED BY <2>2, <2>3
<1>7. ASSUME NEW g \in GroupIds, NEW i \in 1..Len(members'[g])
      PROVE  RowInv(g, i)'
  <2>1. i \in 1..Len(members[g]) /\ Len(members'[g]) = Len(members[g])
    BY <1>1
  <2>2. RowInv(g, i)
    BY <2>1 DEF TablesInv
  <2>3. \A j \in 1..Len(members[g]) :
           /\ members'[g][j].profile = members[g][j].profile
           /\ members'[g][j].by = members[g][j].by
    BY <1>1, <1>2
  <2>4. members[g][i].by = r => g = G /\ members'[g][i].written
    BY <2>1, <1>2, <1>4
  <2>5. members[g][i].by # r => members'[g][i] = members[g][i]
    BY <2>1, <1>1, <1>2
  <2>6. CASE members[g][i].by = r
    <3>1. /\ call[r].op \in {"Create", "Join"}
          /\ call[r].group = g /\ call[r].profile = members[g][i].profile
          /\ \A j \in 1..Len(members[g]) : members[g][j].by = r => i = j
          /\ groups[g] \in {Committed, r}
      BY <2>2, <2>6 DEF RowInv
    <3>2. \A j \in 1..Len(members'[g]) : members'[g][j].by = r => i = j
      BY <3>1, <2>1, <2>3
    <3>3. /\ members'[g][i].by = r /\ members'[g][i].profile = members[g][i].profile
          /\ members'[g][i].written
      BY <2>1, <2>3, <2>4, <2>6
    <3>4. QED BY <3>1, <3>2, <3>3, <1>0, <1>9 DEF RowInv
  <2>7. CASE members[g][i].by # r
    <3>1. members'[g][i] = members[g][i]
      BY <2>5, <2>7
    <3>2. /\ members[g][i].by = Committed => members[g][i].written
          /\ groups[g] \in {Committed, members[g][i].by}
      BY <2>2 DEF RowInv
    <3>3. ASSUME NEW q \in Requests, members'[g][i].by = q
          PROVE  /\ q # r /\ stage'[q] = stage[q] /\ call'[q] = call[q]
                 /\ members[g][i].by = q
      BY <3>3, <3>1, <2>7 DEF Others
    <3>4. \A j \in 1..Len(members'[g]) : members'[g][j].by = members[g][j].by
      BY <2>1, <2>3
    <3>5. ASSUME NEW q \in Requests, members'[g][i].by = q
          PROVE  /\ stage'[q] \in {"index", "members", "commit"}
                 /\ call'[q].op \in {"Create", "Join"}
                 /\ call'[q].group = g /\ call'[q].profile = members'[g][i].profile
                 /\ members'[g][i].written <=> stage'[q] # "index"
                 /\ \A j \in 1..Len(members'[g]) : members'[g][j].by = q => i = j
      <4>1. /\ stage[q] \in {"index", "members", "commit"}
            /\ call[q].op \in {"Create", "Join"}
            /\ call[q].group = g /\ call[q].profile = members[g][i].profile
            /\ members[g][i].written <=> stage[q] # "index"
            /\ \A j \in 1..Len(members[g]) : members[g][j].by = q => i = j
        BY <3>5, <3>3, <2>2 DEF RowInv
      <4>2. stage'[q] = stage[q] /\ call'[q] = call[q]
        BY <3>3, <3>5
      <4>3. ASSUME NEW j \in 1..Len(members'[g]), members'[g][j].by = q PROVE i = j
        <5>1. j \in 1..Len(members[g]) /\ members[g][j].by = q
          BY <4>3, <3>4, <2>1
        <5>2. QED BY <5>1, <4>1
      <4>4. QED BY <4>1, <4>2, <4>3, <3>1, Zenon
    <3>6. QED BY <3>1, <3>2, <3>5, <1>9 DEF RowInv
  <2>8. QED BY <2>6, <2>7
<1>8. QED BY <1>5, <1>6, <1>7 DEF RowsInv

\* A group that is being made has no rows yet.
LEMMA RowsCreateGroup ==
    ASSUME TablesInv, NEW r \in Requests, Others(r), stage[r] = "group", call[r] \in Call,
           groups[call[r].group] = Free,
           groups' = [groups EXCEPT ![call[r].group] = r], UNCHANGED members
    PROVE  RowsInv'
<1> DEFINE G == call[r].group
<1>0. /\ G \in GroupIds /\ Len(members[G]) \in Nat
      /\ r # Committed /\ Free # Committed /\ Free \notin Requests
  BY LenProperties, GroupsAssumption DEF TablesInv, TypeOK, Call
<1>1. \A i \in 1..Len(members[G]) : FALSE
  <2>1. ASSUME NEW i \in 1..Len(members[G]) PROVE FALSE
    <3>1. members[G][i] \in Member /\ RowInv(G, i)
      BY <1>0, <2>1, ElementOfSeq DEF TablesInv, TypeOK
    <3>2. members[G][i].by \in Requests \cup {Committed}
      BY <3>1 DEF Member
    <3>3. QED BY <3>1, <3>2, <1>0 DEF RowInv
  <2>2. QED BY <2>1
<1>2. groups'[G] = r /\ \A h \in GroupIds \ {G} : groups'[h] = groups[h]
  BY <1>0 DEF TablesInv, TypeOK
<1>3. OneMembership'
  BY DEF TablesInv, OneMembership
<1>4. ASSUME NEW g \in GroupIds
      PROVE  FirstInv(g)'
  BY <1>0, <1>2 DEF TablesInv, FirstInv
<1>5. \A g \in GroupIds : \A i \in 1..Len(members[g]) : members[g][i].by # r
  BY NoRows
<1>6. ASSUME NEW g \in GroupIds, NEW i \in 1..Len(members[g])
      PROVE  RowInv(g, i)'
  <2>1. RowInv(g, i) /\ g # G /\ groups'[g] = groups[g] /\ members[g][i].by # r
    BY <1>1, <1>2, <1>5, <1>6 DEF TablesInv
  <2>2. CASE members[g][i].by \notin Requests
    BY <2>1, <2>2 DEF RowInv
  <2>3. ASSUME NEW q \in Requests, q # r, members[g][i].by = q
        PROVE  RowInv(g, i)'
    BY <2>1, <2>3 DEF RowInv, Others
  <2>4. QED BY <2>1, <2>2, <2>3
<1>7. QED BY <1>3, <1>4, <1>6 DEF RowsInv

-----------------------------------------------------------------------------
(***************************************************************************)
(* The groups: a Create has its group for itself.                          *)
(***************************************************************************)

\* A step of r that leaves the groups alone.
LEMMA GroupsSame ==
    ASSUME TablesInv, NEW r \in Requests, Others(r), UNCHANGED groups, call'[r] = call[r],
           Busy(r), stage'[r] # "idle", stage[r] # "group", stage'[r] # "group",
           stage'[r] \in {"member", "insert", "index", "members", "commit"} =>
              groups[call[r].group] \in {Committed, r}
    PROVE  \A q \in Requests : GroupInv(q)'
<1> SUFFICES ASSUME NEW q \in Requests PROVE GroupInv(q)'
  OBVIOUS
<1>1. GroupInv(q)
  BY DEF TablesInv
<1>2. \A p \in Requests : Busy(p)' <=> Busy(p)
  BY DEF Busy, Others
<1>3. \A p \in Requests : call'[p] = call[p]
  BY DEF Others
<1>4. CASE q = r
  BY <1>1, <1>2, <1>3, <1>4 DEF GroupInv
<1>5. CASE q # r
  <2>1. stage'[q] = stage[q]
    BY <1>5 DEF Others
  <2>2. QED BY <1>1, <1>2, <1>3, <2>1 DEF GroupInv
<1>6. QED BY <1>4, <1>5

\* The end of r, with its group gone or committed.
LEMMA GroupsEnd ==
    ASSUME TablesInv, NEW r \in Requests, Others(r), stage'[r] = "idle",
           \A g \in GroupIds : groups[g] # r => groups'[g] = groups[g],
           \A g \in GroupIds : groups[g] = r => groups'[g] \in {Free, Committed},
           \A q \in Requests : call[q] \in Call \cup {Idle}
    PROVE  \A q \in Requests : GroupInv(q)'
<1> SUFFICES ASSUME NEW q \in Requests PROVE GroupInv(q)'
  OBVIOUS
<1>1. GroupInv(q)
  BY DEF TablesInv
<1>3. Free \notin Requests /\ Committed \notin Requests
  BY GroupsAssumption
<1>4. \A p \in Requests : Busy(p)' => p # r /\ Busy(p) /\ call'[p] = call[p]
  BY DEF Busy, Others
<1>5. CASE q = r
  BY <1>1, <1>3, <1>5 DEF GroupInv, Busy
<1>6. CASE q # r
  <2>1. stage'[q] = stage[q] /\ call'[q] = call[q]
    BY <1>6 DEF Others
  <2>2. Busy(q) => call[q].group \in GroupIds
    BY DEF TablesInv, StageInv, Call
  <2>3. Busy(q) => \A v \in {Committed, Free, q} :
                      groups[call[q].group] = v => groups'[call[q].group] = v
    BY <2>2, <1>3, <1>6
  <2>4. (Busy(q) /\ call[q].op = "Create" =>
          /\ groups[call[q].group] = IF stage[q] = "group" THEN Free ELSE q
          /\ \A p \in Requests \ {q} :
                Busy(p) /\ call[p].op = "Create" => call[p].group # call[q].group)'
    BY <1>1, <1>4, <2>1, <2>3 DEF GroupInv, Busy
  <2>5. (\A g \in GroupIds : groups[g] = q =>
          Busy(q) /\ call[q].op = "Create" /\ call[q].group = g)'
    BY <1>1, <1>3, <2>1, <1>6 DEF GroupInv, Busy
  <2>6. (stage[q] \in {"member", "insert", "index", "members", "commit"} =>
          groups[call[q].group] \in {Committed, q})'
    BY <1>1, <2>1, <2>3 DEF GroupInv, Busy
  <2>7. QED BY <2>4, <2>5, <2>6 DEF GroupInv
<1>7. QED BY <1>5, <1>6

-----------------------------------------------------------------------------
(***************************************************************************)
(* The steps of a request.                                                 *)
(***************************************************************************)

\* What a busy request is.
LEMMA BusyCall ==
    ASSUME TablesInv, NEW r \in Requests, Busy(r)
    PROVE  call[r] \in Call /\ call[r].group \in GroupIds /\ call[r].profile \in Profiles
BY DEF TablesInv, TypeOK, StageInv, Call

\* A statement that only reads, and goes on.
LEMMA InvProceed ==
    ASSUME TablesInv, NEW r \in Requests, NEW s \in Stages, Proceed(r, s), Busy(r),
           stage[r] \notin {"group", "index", "members", "commit"},
           s \notin {"idle", "group", "index", "commit", "summaries"},
           (StageInv(r) /\ MemberInv(r))',
           s \in {"member", "insert", "members"} => groups[call[r].group] \in {Committed, r}
    PROVE  TablesInv'
<1>1. Others(r) /\ UNCHANGED <<groups, members, call, todo, reply, answer>> /\ stage'[r] = s
  BY DEF Proceed, Goto, Others, TablesInv, TypeOK
<1>2. TypeOK'
  BY DEF TablesInv, TypeOK, Proceed, Goto
<1>3. RowsInv'
  BY <1>1, NoRows, RowsSame
<1>4. \A q \in Requests : \A g \in GroupIds : Keeps(q, g) /\ RowStays(q, g)
  BY <1>1, KeepsSame, RowStaysSame
<1>5. \A q \in Requests \ {r} : (StageInv(q) /\ MemberInv(q) /\ ReplyInv(q))'
  BY <1>1, <1>4, OthersKept
<1>6. ReplyInv(r)'
  BY <1>1, <1>4, ReplyKept DEF TablesInv
<1>7. \A q \in Requests : GroupInv(q)'
  BY <1>1, GroupsSame
<1>8. QED BY <1>2, <1>3, <1>5, <1>6, <1>7, InvFrom

\* A request that gives up takes its rows and its group with it.
LEMMA InvRefuse ==
    ASSUME TablesInv, NEW r \in Requests, NEW a \in Answers, Refuse(r, a)
    PROVE  TablesInv'
<1>1. /\ Others(r) /\ stage'[r] = "idle" /\ call'[r] = Idle /\ reply'[r] = << >>
      /\ Rollback(r) /\ TypeOK
  BY DEF Refuse, Answer, Goto, NoReply, Others, TablesInv, TypeOK
<1>2. /\ members' \in [GroupIds -> Seq(Member)]
      /\ \A g \in GroupIds : LeftOut(members[g], members'[g], r)
      /\ \A g \in GroupIds : groups'[g] = IF groups[g] = r THEN Free ELSE groups[g]
  BY <1>1, RollbackRows DEF Rollback
<1>3. TypeOK'
  <2>1. groups' \in [GroupIds -> Requests \cup {Free, Committed}]
    BY <1>1 DEF TypeOK, Rollback
  <2>2. /\ stage' \in [Requests -> Stages] /\ call' \in [Requests -> Call \cup {Idle}]
        /\ todo' \in [Requests -> SUBSET GroupIds] /\ answer' \in [Requests -> Answers]
    BY DEF TablesInv, TypeOK, Refuse, Answer, Goto, Stages
  <2>3. reply' = [reply EXCEPT ![r] = << >>]
    BY DEF Refuse, NoReply
  <2>4. QED BY <1>1, <1>2, <2>1, <2>2, <2>3 DEF TypeOK
<1>4. RowsInv'
  BY <1>1, <1>2, RowsLeftOut
<1>5. \A g \in GroupIds : members[g] \in Seq(Member)
  BY <1>1 DEF TypeOK
<1>6. ASSUME NEW q \in Requests \ {r}, NEW g \in GroupIds
      PROVE  Keeps(q, g) /\ RowStays(q, g)
  <2>1. \A i \in 1..Len(members[g]) : members[g][i].by = r => ~Sees(q, members[g][i])
    BY GroupsAssumption DEF Sees
  <2>2. QED BY <2>1, <1>2, <1>5, KeepsLeftOut, RowStaysLeftOut
<1>7. \A q \in Requests \ {r} : (StageInv(q) /\ MemberInv(q) /\ ReplyInv(q))'
  BY <1>1, <1>6, OthersKept
<1>8. (StageInv(r) /\ MemberInv(r) /\ ReplyInv(r))'
  BY <1>1 DEF StageInv, MemberInv, ReplyInv, Busy
<1>9. \A q \in Requests : GroupInv(q)'
  BY <1>1, <1>2, GroupsEnd DEF TypeOK
<1>10. QED BY <1>3, <1>4, <1>7, <1>8, <1>9, InvFrom

LEMMA Inv_CreateFindProfile ==
    ASSUME TablesInv, NEW r \in Requests, CreateFindProfile(r)
    PROVE  TablesInv'
<1>1. CASE Proceed(r, "creator")
  <2>1. stage'[r] = "creator" /\ call' = call /\ stage[r] = "profile"
    BY <1>1 DEF CreateFindProfile, Proceed, Goto, TablesInv, TypeOK
  <2>2. (StageInv(r) /\ MemberInv(r))'
    BY <2>1 DEF TablesInv, StageInv, MemberInv, Busy
  <2>3. QED BY <1>1, <2>1, <2>2, InvProceed DEF Busy, Stages
<1>2. CASE Refuse(r, "NotFound")
  BY <1>2, InvRefuse DEF Answers
<1>3. QED BY <1>1, <1>2 DEF CreateFindProfile

LEMMA Inv_JoinFindGroup ==
    ASSUME TablesInv, NEW r \in Requests, JoinFindGroup(r)
    PROVE  TablesInv'
<1>1. CASE GroupVisible(r, call[r].group) /\ Proceed(r, "member")
  <2>1. stage'[r] = "member" /\ call' = call /\ stage[r] = "token"
    BY <1>1 DEF JoinFindGroup, Proceed, Goto, TablesInv, TypeOK
  <2>2. (StageInv(r) /\ MemberInv(r))'
    BY <2>1 DEF TablesInv, StageInv, MemberInv, Busy
  <2>3. QED BY <1>1, <2>1, <2>2, InvProceed DEF Busy, Stages, GroupVisible
<1>2. CASE Refuse(r, "NotFound")
  BY <1>2, InvRefuse DEF Answers
<1>3. QED BY <1>1, <1>2 DEF JoinFindGroup

LEMMA Inv_JoinFindMember ==
    ASSUME TablesInv, NEW r \in Requests, JoinFindMember(r)
    PROVE  TablesInv'
<1>1. /\ stage[r] = "member" /\ call[r].op = "Join" /\ Busy(r)
      /\ groups[call[r].group] \in {Committed, r}
  BY DEF JoinFindMember, TablesInv, StageInv, GroupInv, Busy
<1>2. CASE IsMember(r, call[r].group, call[r].profile) /\ Proceed(r, "members")
  <2>1. /\ stage'[r] = "members" /\ call' = call /\ members' = members
        /\ IsMember(r, call[r].group, call[r].profile)
    BY <1>2 DEF Proceed, Goto, TablesInv, TypeOK
  <2>2. (StageInv(r) /\ MemberInv(r))'
    BY <1>1, <2>1 DEF TablesInv, StageInv, MemberInv, Busy, IsMember, Sees
  <2>3. QED BY <1>1, <1>2, <2>2, InvProceed DEF Stages
<1>3. CASE Proceed(r, "insert")
  <2>1. stage'[r] = "insert" /\ call' = call
    BY <1>3 DEF Proceed, Goto, TablesInv, TypeOK
  <2>2. (StageInv(r) /\ MemberInv(r))'
    BY <1>1, <2>1 DEF TablesInv, StageInv, MemberInv, Busy
  <2>3. QED BY <1>1, <1>3, <2>2, InvProceed DEF Stages
<1>4. QED BY <1>2, <1>3 DEF JoinFindMember

LEMMA Inv_GetRequireMembership ==
    ASSUME TablesInv, NEW r \in Requests, GetRequireMembership(r)
    PROVE  TablesInv'
<1>1. stage[r] = "require" /\ call[r].op = "Get" /\ Busy(r)
  BY DEF GetRequireMembership, TablesInv, StageInv, Busy
<1>2. CASE IsMember(r, call[r].group, call[r].profile) /\ Proceed(r, "members")
  <2>1. /\ stage'[r] = "members" /\ call' = call /\ members' = members
        /\ IsMember(r, call[r].group, call[r].profile)
    BY <1>2 DEF Proceed, Goto, TablesInv, TypeOK
  <2>2. (StageInv(r) /\ MemberInv(r))'
    BY <1>1, <2>1 DEF TablesInv, StageInv, MemberInv, Busy, IsMember, Sees
  <2>3. groups[call[r].group] \in {Committed, r}
    BY <2>1, <1>1, BusyCall DEF IsMember, Sees, TablesInv, RowInv
  <2>4. QED BY <1>1, <1>2, <2>2, <2>3, InvProceed DEF Stages
<1>3. CASE Refuse(r, "NotFound")
  BY <1>3, InvRefuse DEF Answers
<1>4. QED BY <1>2, <1>3 DEF GetRequireMembership

LEMMA Inv_Fail ==
    ASSUME TablesInv, NEW r \in Requests, Fail(r)
    PROVE  TablesInv'
BY InvRefuse DEF Fail, Answers

LEMMA Inv_Begin ==
    ASSUME TablesInv, NEW r \in Requests, NEW c \in Call, Begin(r, c)
    PROVE  TablesInv'
<1>1. /\ Others(r) /\ stage[r] = "idle" /\ stage'[r] = FirstStage(c.op)
      /\ call'[r] = c /\ reply'[r] = << >> /\ UNCHANGED <<groups, members, todo>>
  BY DEF Begin, Goto, NoReply, Others, TablesInv, TypeOK
<1>2. /\ c.op = "Create" => stage'[r] = "group"
      /\ c.op = "Join" => stage'[r] = "token"
      /\ c.op = "Get" => stage'[r] = "require"
      /\ c.op = "List" => stage'[r] = "memberships"
      /\ c.op \in {"Create", "Join", "Get", "List"}
  BY <1>1 DEF FirstStage, Call
<1>3. c # Idle
  BY GroupsAssumption
<1>4. TypeOK'
  BY <1>2 DEF TablesInv, TypeOK, Begin, Goto, NoReply, Stages, Answers, FirstStage
<1>5. RowsInv'
  BY <1>1, NoRows, RowsSame
<1>6. \A q \in Requests : \A g \in GroupIds : Keeps(q, g) /\ RowStays(q, g)
  BY <1>1, KeepsSame, RowStaysSame
<1>7. \A q \in Requests \ {r} : (StageInv(q) /\ MemberInv(q) /\ ReplyInv(q))'
  BY <1>1, <1>6, OthersKept
<1>8. (StageInv(r) /\ MemberInv(r) /\ ReplyInv(r))'
  BY <1>1, <1>2, <1>3 DEF StageInv, MemberInv, ReplyInv, Busy
<1>9. ASSUME NEW q \in Requests PROVE GroupInv(q)'
  <2>1. GroupInv(q) /\ GroupInv(r) /\ ~Busy(r) /\ (Busy(q) <=> call[q] # Idle)
    BY <1>1 DEF TablesInv, StageInv, Busy
  <2>2. CASE q = r
    <3>1. c.op = "Create" =>
            /\ groups[c.group] = Free
            /\ \A p \in Requests \ {r} :
                  Busy(p) /\ call[p].op = "Create" => call[p].group # c.group
      BY DEF Begin, Unclaimed, TablesInv, StageInv
    <3>2. \A p \in Requests \ {r} : (Busy(p)' <=> Busy(p)) /\ call'[p] = call[p]
      BY <1>1 DEF Others, Busy
    <3>3. \A g \in GroupIds : groups[g] # r
      BY <2>1 DEF GroupInv
    <3>4. QED BY <2>2, <3>1, <3>2, <3>3, <1>1, <1>2 DEF GroupInv
  <2>3. CASE q # r
    <3>1. stage'[q] = stage[q] /\ call'[q] = call[q]
      BY <1>1, <2>3 DEF Others
    <3>2. Busy(q) /\ call[q].op = "Create" /\ c.op = "Create" => call[q].group # c.group
      BY <2>1 DEF Begin, Unclaimed
    <3>3. \A p \in Requests \ {r} : (Busy(p)' <=> Busy(p)) /\ call'[p] = call[p]
      BY <1>1 DEF Others, Busy
    <3>4. QED BY <2>1, <2>3, <3>1, <3>2, <3>3, <1>1 DEF GroupInv, Busy
  <2>4. QED BY <2>2, <2>3
<1>10. QED BY <1>4, <1>5, <1>7, <1>8, <1>9, InvFrom

LEMMA Inv_CreateGroup ==
    ASSUME TablesInv, NEW r \in Requests, CreateGroup(r)
    PROVE  TablesInv'
<1> DEFINE G == call[r].group
<1>1. /\ Others(r) /\ stage[r] = "group" /\ stage'[r] = "profile" /\ Busy(r)
      /\ call' = call /\ reply' = reply /\ UNCHANGED <<members, todo>>
      /\ groups' = [groups EXCEPT ![G] = r]
  BY DEF CreateGroup, Goto, Others, Busy, TablesInv, TypeOK
<1>2. /\ call[r] \in Call /\ G \in GroupIds /\ call[r].op = "Create" /\ groups[G] = Free
      /\ Free # r /\ Free # Committed /\ Free \notin Requests
      /\ groups'[G] = r /\ \A g \in GroupIds \ {G} : groups'[g] = groups[g]
  BY <1>1, BusyCall, GroupsAssumption DEF TablesInv, StageInv, GroupInv, TypeOK
<1>3. TypeOK'
  BY DEF TablesInv, TypeOK, CreateGroup, Goto, Stages
<1>4. RowsInv'
  BY <1>1, <1>2, RowsCreateGroup
<1>5. \A q \in Requests : \A g \in GroupIds : Keeps(q, g) /\ RowStays(q, g)
  BY <1>1, KeepsSame, RowStaysSame
<1>6. \A q \in Requests \ {r} : (StageInv(q) /\ MemberInv(q) /\ ReplyInv(q))'
  BY <1>1, <1>5, OthersKept
<1>7. (StageInv(r) /\ MemberInv(r))'
  BY <1>1 DEF TablesInv, StageInv, MemberInv, Busy
<1>8. ReplyInv(r)'
  BY <1>1, <1>5, ReplyKept DEF TablesInv
<1>9. ASSUME NEW q \in Requests PROVE GroupInv(q)'
  <2>1. GroupInv(q) /\ GroupInv(r)
    BY DEF TablesInv
  <2>2. \A p \in Requests : (Busy(p)' <=> Busy(p)) /\ call'[p] = call[p]
    BY <1>1 DEF Others, Busy
  <2> HIDE DEF G
  <2>3. CASE q = r
    BY <2>1, <2>2, <2>3, <1>1, <1>2 DEF GroupInv, G
  <2>4. CASE q # r
    <3>1. stage'[q] = stage[q] /\ call'[q] = call[q]
      BY <1>1, <2>4 DEF Others
    <3>2. Busy(q) => call[q].group \in GroupIds
      BY BusyCall
    <3>3. Busy(q) /\ call[q].op = "Create" => call[q].group # G
      BY <2>1, <2>4, <1>1, <1>2 DEF GroupInv, G
    <3>4. stage[q] \in {"member", "insert", "index", "members", "commit"} =>
            Busy(q) /\ call[q].group # G
      BY <2>1, <2>4, <1>2 DEF GroupInv, Busy
    <3>5. QED BY <2>1, <2>2, <2>4, <3>1, <3>2, <3>3, <3>4, <1>2 DEF GroupInv
  <2>5. QED BY <2>3, <2>4
<1>10. QED BY <1>3, <1>4, <1>6, <1>7, <1>8, <1>9, InvFrom

\* What a statement reads of a group its caller is in: each member at the place
\* of its row, the caller at one of them.
LEMMA MembersRead ==
    ASSUME TablesInv, NEW r \in Requests, NEW g \in GroupIds,
           IsMember(r, g, call[r].profile)
    PROVE  /\ DOMAIN MembersOf(r, g) \subseteq Nat
           /\ \A i \in DOMAIN MembersOf(r, g) : MembersOf(r, g)[i] \in Profiles
           /\ \E i \in DOMAIN MembersOf(r, g) : \A j \in DOMAIN MembersOf(r, g) :
                 MembersOf(r, g)[j] = call[r].profile <=> i = j
           /\ \A i, j \in DOMAIN MembersOf(r, g) :
                 i < j => Ordered(r, g, MembersOf(r, g)[i], MembersOf(r, g)[j])
<1> DEFINE D == {n \in 1..Len(members[g]) : Sees(r, members[g][n])}
           s == MembersOf(r, g)
<1>1. DOMAIN s = D /\ \A i \in D : s[i] = members[g][i].profile
  BY DEF MembersOf
<1>2. /\ D \subseteq 1..Len(members[g]) /\ Len(members[g]) \in Nat
      /\ \A i \in D : Sees(r, members[g][i]) /\ members[g][i] \in Member
  BY LenProperties, ElementOfSeq DEF TablesInv, TypeOK
<1>3. \A i \in D : members[g][i].written
  BY <1>2 DEF Sees, TablesInv, RowInv
<1>4. PICK k \in 1..Len(members[g]) :
        Sees(r, members[g][k]) /\ members[g][k].profile = call[r].profile
  BY DEF IsMember
<1>5. k \in D
  BY <1>4
<1> HIDE DEF D, s
<1>6. \A j \in D : members[g][j].profile = call[r].profile => j = k
  BY <1>2, <1>3, <1>4, <1>5 DEF TablesInv, OneMembership
<1>7. \A j \in DOMAIN s : s[j] = call[r].profile <=> k = j
  BY <1>1, <1>4, <1>5, <1>6
<1>8. \A i \in D : members[g][i].profile \in Profiles
  BY <1>2 DEF Member
<1>9. \A i, j \in DOMAIN s : i < j => Ordered(r, g, s[i], s[j])
  BY <1>1, <1>2 DEF Ordered
<1>10. DOMAIN s \subseteq Nat
  BY <1>1, <1>2
<1>11. QED BY <1>1, <1>5, <1>7, <1>8, <1>9, <1>10 DEF s

\* The reply after reading one more group.
CallerOnce(s, p) == \E i \in DOMAIN s : \A j \in DOMAIN s : s[j] = p <=> i = j

LEMMA ReplyRead ==
    ASSUME TablesInv, NEW r \in Requests, NEW g \in GroupIds, Busy(r),
           IsMember(r, g, call[r].profile), ReadMembers(r, g), UNCHANGED members,
           Busy(r)' => call'[r] = call[r]
    PROVE  /\ \A q \in Requests \ {r} : reply'[q] = reply[q]
           /\ DOMAIN reply' = Requests
           /\ DOMAIN reply'[r] \subseteq GroupIds
           /\ \A h \in DOMAIN reply'[r] :
                 /\ DOMAIN reply'[r][h] \subseteq Nat
                 /\ \A i \in DOMAIN reply'[r][h] : reply'[r][h][i] \in Profiles
                 /\ CallerOnce(reply'[r][h], call[r].profile)
           /\ ReplyInv(r)'
<1> DEFINE s == MembersOf(r, g)
           new == [h \in DOMAIN reply[r] \cup {g} |-> IF h = g THEN s ELSE reply[r][h]]
<1>1. DOMAIN reply = Requests /\ DOMAIN reply[r] \subseteq GroupIds /\ ReplyInv(r)
  BY DEF TablesInv, TypeOK
<1>2. reply' = [reply EXCEPT ![r] = new]
  BY DEF ReadMembers
<1>3. /\ DOMAIN new = DOMAIN reply[r] \cup {g} /\ new[g] = s
      /\ \A h \in DOMAIN reply[r] : h # g => new[h] = reply[r][h]
  OBVIOUS
<1>4. /\ DOMAIN s \subseteq Nat
      /\ \A i \in DOMAIN s : s[i] \in Profiles
      /\ CallerOnce(s, call[r].profile)
      /\ \A i, j \in DOMAIN s : i < j => Ordered(r, g, s[i], s[j])
  BY MembersRead DEF CallerOnce
<1> HIDE DEF s, new
<1>5. reply'[r] = new /\ DOMAIN reply' = Requests /\ \A q \in Requests \ {r} : reply'[q] = reply[q]
  BY <1>1, <1>2
<1>6. ASSUME NEW h \in DOMAIN new
      PROVE  /\ DOMAIN new[h] \subseteq Nat
             /\ \A i \in DOMAIN new[h] : new[h][i] \in Profiles
             /\ CallerOnce(new[h], call[r].profile)
             /\ \A i, j \in DOMAIN new[h] : i < j => Ordered(r, h, new[h][i], new[h][j])
  <2>1. CASE h = g
    BY <2>1, <1>3, <1>4
  <2>2. CASE h # g
    <3>1. h \in DOMAIN reply[r] /\ new[h] = reply[r][h]
      BY <2>2, <1>3
    <3>2. /\ DOMAIN reply[r][h] \subseteq Nat
          /\ \A i \in DOMAIN reply[r][h] : reply[r][h][i] \in Profiles
      BY <3>1 DEF TablesInv, TypeOK
    <3>3. /\ CallerOnce(reply[r][h], call[r].profile)
          /\ \A i, j \in DOMAIN reply[r][h] :
                i < j => Ordered(r, h, reply[r][h][i], reply[r][h][j])
      BY <3>1, <1>1 DEF ReplyInv, CallerOnce
    <3>4. QED BY <3>1, <3>2, <3>3
  <2>3. QED BY <2>1, <2>2
<1>7. ReplyInv(r)'
  <2>1. ASSUME NEW h \in DOMAIN reply'[r]
        PROVE  /\ Busy(r)' => \E i \in DOMAIN reply'[r][h] : \A j \in DOMAIN reply'[r][h] :
                     reply'[r][h][j] = call'[r].profile <=> i = j
               /\ \A i, j \in DOMAIN reply'[r][h] :
                     i < j => Ordered(r, h, reply[r][h][i], reply[r][h][j])'
    <3>1. ASSUME NEW i \in DOMAIN reply'[r][h], NEW j \in DOMAIN reply'[r][h], i < j
          PROVE  Ordered(r, h, reply[r][h][i], reply[r][h][j])'
      <4>1. Ordered(r, h, reply'[r][h][i], reply'[r][h][j])
        BY <3>1, <1>5, <1>6
      <4>2. QED BY <4>1 DEF Ordered, Sees
    <3>2. CallerOnce(reply'[r][h], call[r].profile)
      BY <1>5, <1>6
    <3>3. QED BY <3>1, <3>2 DEF CallerOnce
  <2>2. QED BY <2>1 DEF ReplyInv
<1>8. DOMAIN new \subseteq GroupIds
  BY <1>1, <1>3
<1>9. QED BY <1>5, <1>6, <1>7, <1>8

LEMMA Inv_CreateMember ==
    ASSUME TablesInv, NEW r \in Requests, CreateMember(r)
    PROVE  TablesInv'
<1> DEFINE G == call[r].group
           p == call[r].profile
           new == [g \in {G} |-> <<p>>]
<1>1. /\ Others(r) /\ stage[r] = "creator" /\ stage'[r] = "commit" /\ Busy(r)
      /\ call' = call /\ UNCHANGED <<groups, todo>> /\ Insert(r, TRUE)
      /\ reply' = [reply EXCEPT ![r] = new] /\ DOMAIN reply = Requests
  BY DEF CreateMember, Goto, Others, Busy, TablesInv, TypeOK
<1>2. /\ call[r] \in Call /\ G \in GroupIds /\ p \in Profiles
      /\ call[r].op = "Create" /\ groups[G] = r
  BY <1>1, BusyCall DEF TablesInv, StageInv, GroupInv
<1>3. /\ members' \in [GroupIds -> Seq(Member)]
      /\ \A g \in GroupIds : members[g] \in Seq(Member) /\ Len(members[g]) \in Nat
      /\ Len(members'[G]) = Len(members[G]) + 1
      /\ \A i \in 1..Len(members[G]) : members'[G][i] = members[G][i]
      /\ members'[G][Len(members[G]) + 1] = [profile |-> p, by |-> r, written |-> TRUE]
      /\ \A h \in GroupIds \ {G} : members'[h] = members[h]
  BY <1>1, <1>2, InsertRows, LenProperties DEF TablesInv, TypeOK
<1>4. /\ reply'[r] = new /\ DOMAIN reply' = Requests
      /\ \A q \in Requests \ {r} : reply'[q] = reply[q]
      /\ DOMAIN new = {G} /\ new[G] = <<p>> /\ DOMAIN <<p>> = {1} /\ <<p>>[1] = p
  BY <1>1
<1>5. \A q \in Requests : \A g \in GroupIds : Keeps(q, g) /\ RowStays(q, g)
  <2>1. ASSUME NEW q \in Requests, NEW g \in GroupIds
        PROVE  Keeps(q, g) /\ RowStays(q, g)
    <3>1. CASE g = G
      BY <3>1, <1>3, KeepsArrived, RowStaysArrived
    <3>2. CASE g # G
      BY <3>2, <1>3, KeepsSame, RowStaysSame
    <3>3. QED BY <3>1, <3>2
  <2>2. QED BY <2>1
<1>6. RowsInv'
  BY <1>1, <1>2, RowsInsert
<1>7. \A q \in Requests \ {r} : (StageInv(q) /\ MemberInv(q) /\ ReplyInv(q))'
  BY <1>1, <1>5, OthersKept
<1>8. \A q \in Requests : GroupInv(q)'
  BY <1>1, <1>2, GroupsSame
<1>9. StageInv(r)'
  BY <1>1, <1>2 DEF TablesInv, StageInv, Busy
<1> HIDE DEF new
<1>10. TypeOK'
  <2>1. /\ groups' \in [GroupIds -> Requests \cup {Free, Committed}]
        /\ stage' \in [Requests -> Stages] /\ call' \in [Requests -> Call \cup {Idle}]
        /\ todo' \in [Requests -> SUBSET GroupIds] /\ answer' \in [Requests -> Answers]
    BY DEF TablesInv, TypeOK, CreateMember, Goto, Stages
  <2>2. ASSUME NEW q \in Requests
        PROVE  /\ DOMAIN reply'[q] \subseteq GroupIds
               /\ \A g \in DOMAIN reply'[q] :
                     /\ DOMAIN reply'[q][g] \subseteq Nat
                     /\ \A i \in DOMAIN reply'[q][g] : reply'[q][g][i] \in Profiles
    <3>1. CASE q = r
      BY <3>1, <1>2, <1>4
    <3>2. CASE q # r
      BY <3>2, <1>4 DEF TablesInv, TypeOK
    <3>3. QED BY <3>1, <3>2
  <2>3. QED BY <2>1, <2>2, <1>3, <1>4 DEF TypeOK
<1>11. MemberInv(r)'
  <2>1. IsMember(r, G, p)'
    <3>1. Len(members[G]) + 1 \in 1..Len(members'[G])
      BY <1>2, <1>3
    <3>2. /\ members'[G][Len(members[G]) + 1].by = r
          /\ members'[G][Len(members[G]) + 1].written
          /\ members'[G][Len(members[G]) + 1].profile = p
      BY <1>3
    <3>3. \E i \in 1..Len(members'[G]) : Sees(r, members'[G][i]) /\ members'[G][i].profile = p
      BY <3>1, <3>2 DEF Sees
    <3>4. QED BY <3>3, <1>1 DEF IsMember, Sees
  <2>2. QED BY <2>1, <1>1 DEF MemberInv
<1>12. ReplyInv(r)'
  <2>1. \A g \in DOMAIN reply'[r] : /\ DOMAIN reply'[r][g] = {1}
                                    /\ reply'[r][g][1] = call'[r].profile
    BY <1>1, <1>4
  <2>2. QED BY <2>1 DEF ReplyInv
<1>13. QED BY <1>6, <1>7, <1>8, <1>9, <1>10, <1>11, <1>12, InvFrom

LEMMA Inv_JoinInsert ==
    ASSUME TablesInv, NEW r \in Requests, JoinInsert(r)
    PROVE  TablesInv'
<1> DEFINE G == call[r].group
<1>1. /\ Others(r) /\ stage[r] = "insert" /\ stage'[r] = "index" /\ Busy(r)
      /\ call' = call /\ reply' = reply /\ UNCHANGED <<groups, todo>> /\ Insert(r, FALSE)
  BY DEF JoinInsert, Goto, Others, Busy, TablesInv, TypeOK
<1>2. /\ call[r] \in Call /\ G \in GroupIds
      /\ call[r].op = "Join" /\ groups[G] = Committed
  BY <1>1, BusyCall DEF TablesInv, StageInv, GroupInv
<1>3. /\ members' \in [GroupIds -> Seq(Member)]
      /\ \A g \in GroupIds : members[g] \in Seq(Member) /\ Len(members[g]) \in Nat
      /\ Len(members'[G]) = Len(members[G]) + 1
      /\ \A i \in 1..Len(members[G]) : members'[G][i] = members[G][i]
      /\ members'[G][Len(members[G]) + 1] =
            [profile |-> call[r].profile, by |-> r, written |-> FALSE]
      /\ \A h \in GroupIds \ {G} : members'[h] = members[h]
  BY <1>1, <1>2, InsertRows, LenProperties DEF TablesInv, TypeOK
<1>4. \A q \in Requests : \A g \in GroupIds : Keeps(q, g) /\ RowStays(q, g)
  <2>1. ASSUME NEW q \in Requests, NEW g \in GroupIds
        PROVE  Keeps(q, g) /\ RowStays(q, g)
    <3>1. CASE g = G
      BY <3>1, <1>3, KeepsArrived, RowStaysArrived
    <3>2. CASE g # G
      BY <3>2, <1>3, KeepsSame, RowStaysSame
    <3>3. QED BY <3>1, <3>2
  <2>2. QED BY <2>1
<1>5. RowsInv'
  BY <1>1, <1>2, RowsInsert
<1>6. \A q \in Requests \ {r} : (StageInv(q) /\ MemberInv(q) /\ ReplyInv(q))'
  BY <1>1, <1>4, OthersKept
<1>7. \A q \in Requests : GroupInv(q)'
  BY <1>1, <1>2, GroupsSame
<1>8. StageInv(r)'
  BY <1>1, <1>2 DEF TablesInv, StageInv, Busy
<1>9. TypeOK'
  BY <1>3 DEF TablesInv, TypeOK, JoinInsert, Goto, Stages
<1>10. MemberInv(r)'
  <2>1. \E i \in 1..Len(members'[G]) : members'[G][i].by = r
    <3>1. Len(members[G]) + 1 \in 1..Len(members'[G])
      BY <1>2, <1>3
    <3>2. members'[G][Len(members[G]) + 1].by = r
      BY <1>3
    <3>3. QED BY <3>1, <3>2
  <2>2. QED BY <2>1, <1>1 DEF MemberInv
<1>11. ReplyInv(r)'
  BY <1>1, <1>4, ReplyKept DEF TablesInv
<1>12. QED BY <1>5, <1>6, <1>7, <1>8, <1>9, <1>10, <1>11, InvFrom

\* The row of r has the index to itself.
LEMMA Inv_JoinIndexed ==
    ASSUME TablesInv, NEW r \in Requests, stage[r] = "index", IndexFree(r),
           members' = [members EXCEPT ![call[r].group] = [i \in 1..Len(@) |-> Indexed(@[i], r)]],
           Goto(r, "members"), UNCHANGED <<groups, call, todo, reply, answer>>
    PROVE  TablesInv'
<1> DEFINE G == call[r].group
           p == call[r].profile
<1>1. Others(r) /\ stage'[r] = "members" /\ Busy(r) /\ Rivals(r) = {}
  BY DEF Goto, Others, Busy, IndexFree, TablesInv, TypeOK
<1>2. /\ call[r] \in Call /\ G \in GroupIds /\ p \in Profiles
      /\ call[r].op = "Join" /\ groups[G] \in {Committed, r}
  BY <1>1, BusyCall DEF TablesInv, StageInv, GroupInv
<1>3. /\ members' \in [GroupIds -> Seq(Member)]
      /\ Len(members'[G]) = Len(members[G])
      /\ \A i \in 1..Len(members[G]) : members'[G][i] = Indexed(members[G][i], r)
      /\ \A h \in GroupIds \ {G} : members'[h] = members[h]
  BY <1>2, IndexedRows DEF TablesInv
<1>4. ASSUME NEW i \in 1..Len(members[G])
      PROVE  /\ members'[G][i].profile = members[G][i].profile
             /\ members'[G][i].by = members[G][i].by
             /\ members[G][i].by = r => members'[G][i].written
             /\ members[G][i].by # r => members'[G][i] = members[G][i]
  <2>1. members[G][i] \in Member
    BY <1>2, ElementOfSeq DEF TablesInv, TypeOK
  <2>2. members'[G][i] = Indexed(members[G][i], r)
    BY <1>3
  <2>3. QED BY <2>1, <2>2, IndexedRow
<1>5. RowsInv'
  BY <1>1, <1>2, RowsIndexed
<1>6. TypeOK'
  BY <1>3 DEF TablesInv, TypeOK, Goto, Stages
<1> HIDE DEF G
<1>7. \A q \in Requests : \A g \in GroupIds : Keeps(q, g) /\ RowStays(q, g)
  <2>1. ASSUME NEW q \in Requests, NEW g \in GroupIds
        PROVE  Keeps(q, g) /\ RowStays(q, g)
    <3>1. CASE g = G
      <4>1. /\ Len(members'[g]) = Len(members[g])
            /\ \A i \in 1..Len(members[g]) :
                  /\ members'[g][i].profile = members[g][i].profile
                  /\ members'[g][i].by = members[g][i].by
                  /\ members[g][i].by # r => members'[g][i] = members[g][i]
                  /\ members[g][i].by = r => members'[g][i].written
        BY <3>1, <1>3, <1>4
      <4>2. \A i \in 1..Len(members[g]) :
               /\ members'[g][i].profile = members[g][i].profile
               /\ Sees(q, members[g][i]) => Sees(q, members'[g][i])
        BY <4>1 DEF Sees
      <4>3. \A i \in 1..Len(members[g]) : members[g][i].by = q => members'[g][i].by = q
        BY <4>1
      <4>4. Len(members'[g]) = Len(members[g])
        BY <4>1
      <4>5. Keeps(q, g)
        BY ONLY <4>2, <4>4, KeepsInPlace
      <4>6. RowStays(q, g)
        BY ONLY <4>3, <4>4, RowStaysInPlace
      <4>7. QED BY <4>5, <4>6
    <3>2. CASE g # G
      BY <3>2, <1>3, KeepsSame, RowStaysSame
    <3>3. QED BY <3>1, <3>2
  <2>2. QED BY <2>1
<1>8. \A q \in Requests \ {r} : (StageInv(q) /\ MemberInv(q) /\ ReplyInv(q))'
  BY <1>1, <1>7, OthersKept
<1>9. \A q \in Requests : GroupInv(q)'
  BY <1>1, <1>2, GroupsSame DEF G
<1>10. StageInv(r)'
  BY <1>1, <1>2 DEF TablesInv, StageInv, Busy
<1>11. MemberInv(r)'
  <2>1. PICK i \in 1..Len(members[G]) : members[G][i].by = r
    BY DEF TablesInv, MemberInv, G
  <2>2. members[G][i].profile = p
    BY <2>1, <1>2 DEF TablesInv, RowInv
  <2>3. /\ i \in 1..Len(members'[G]) /\ Sees(r, members'[G][i])
        /\ members'[G][i].profile = p
    BY <2>1, <2>2, <1>3, <1>4 DEF Sees
  <2>4. IsMember(r, call[r].group, call[r].profile)'
    BY <2>3 DEF IsMember, Sees, G
  <2>5. QED BY <2>4, <1>1 DEF MemberInv
<1>12. ReplyInv(r)'
  BY <1>1, <1>7, ReplyKept DEF TablesInv
<1>13. QED BY <1>5, <1>6, <1>8, <1>9, <1>10, <1>11, <1>12, InvFrom

\* The row of r gives way to one that was committed first.
LEMMA Inv_JoinYields ==
    ASSUME TablesInv, NEW r \in Requests, stage[r] = "index",
           \E m \in Rivals(r) : m.by = Committed,
           members' = [members EXCEPT ![call[r].group] = Without(@, r)],
           Goto(r, "members"), UNCHANGED <<groups, call, todo, reply, answer>>
    PROVE  TablesInv'
<1> DEFINE G == call[r].group
           p == call[r].profile
<1>1. Others(r) /\ stage'[r] = "members" /\ Busy(r)
  BY DEF Goto, Others, Busy, TablesInv, TypeOK
<1>2. /\ call[r] \in Call /\ G \in GroupIds /\ p \in Profiles
      /\ call[r].op = "Join" /\ groups[G] \in {Committed, r}
  BY <1>1, BusyCall DEF TablesInv, StageInv, GroupInv
<1>3. /\ members' \in [GroupIds -> Seq(Member)]
      /\ LeftOut(members[G], members'[G], r)
      /\ \A h \in GroupIds \ {G} : members'[h] = members[h]
  BY <1>2, DropRows DEF TablesInv
<1>4. \A g \in GroupIds : members[g] \in Seq(Member)
  BY DEF TablesInv, TypeOK
<1>5. TypeOK'
  BY <1>3 DEF TablesInv, TypeOK, Goto, Stages
<1>6. \E i \in 1..Len(members[G]) :
         members[G][i].by = Committed /\ members[G][i].profile = p
  <2>1. PICK m \in ToSet(members[G]) : m.by = Committed /\ m.profile = p
    BY DEF Rivals
  <2>2. DOMAIN members[G] = 1..Len(members[G])
    BY <1>2, <1>4, LenProperties
  <2>3. QED BY <2>1, <2>2 DEF ToSet
<1>7. \A g \in GroupIds : \A i \in 1..Len(members[g]) : members[g][i].by = r =>
         g = G /\ ~members[g][i].written
  BY DEF TablesInv, RowInv
<1> HIDE DEF G
<1>8. \A g \in GroupIds : LeftOut(members[g], members'[g], r)
  <2>1. ASSUME NEW g \in GroupIds, g # G PROVE LeftOut(members[g], members'[g], r)
    BY <2>1, <1>3, <1>7 DEF LeftOut
  <2>2. QED BY <2>1, <1>3
<1>9. RowsInv'
  BY <1>1, <1>8, RowsLeftOut
<1>10. ASSUME NEW q \in Requests, NEW g \in GroupIds
       PROVE  Keeps(q, g) /\ (q # r => RowStays(q, g))
  <2>1. \A i \in 1..Len(members[g]) : members[g][i].by = r => ~Sees(q, members[g][i])
    BY <1>7, GroupsAssumption DEF Sees
  <2>2. QED BY <2>1, <1>4, <1>8, KeepsLeftOut, RowStaysLeftOut
<1>11. \A q \in Requests \ {r} : (StageInv(q) /\ MemberInv(q) /\ ReplyInv(q))'
  BY <1>1, <1>10, OthersKept
<1>12. \A q \in Requests : GroupInv(q)'
  BY <1>1, <1>2, GroupsSame DEF G
<1>13. StageInv(r)'
  BY <1>1, <1>2 DEF TablesInv, StageInv, Busy
<1>14. MemberInv(r)'
  <2>1. IsMember(r, G, p)
    BY <1>6 DEF IsMember, Sees
  <2>2. \E i \in 1..Len(members'[G]) : Sees(r, members'[G][i]) /\ members'[G][i].profile = p
    <3>1. \A x : IsMember(r, G, x) => \E i \in 1..Len(members'[G]) :
             Sees(r, members'[G][i]) /\ members'[G][i].profile = x
      <4>1. ASSUME NEW g \in GroupIds, NEW x, IsMember(r, g, x)
            PROVE  \E i \in 1..Len(members'[g]) :
                      Sees(r, members'[g][i]) /\ members'[g][i].profile = x
        <5>1. Keeps(r, g)
          BY <1>10
        <5>2. IsMember(r, g, x)'
          BY <4>1, <5>1 DEF Keeps
        <5>3. QED BY <5>2 DEF IsMember, Sees
      <4>2. QED BY <4>1, <1>2
    <3>2. QED BY <2>1, <3>1
  <2>3. IsMember(r, call[r].group, call[r].profile)'
    BY <2>2 DEF IsMember, Sees, G
  <2>4. QED BY <2>3, <1>1 DEF MemberInv
<1>15. ReplyInv(r)'
  BY <1>1, <1>10, ReplyKept DEF TablesInv
<1>16. QED BY <1>5, <1>9, <1>11, <1>12, <1>13, <1>14, <1>15, InvFrom

LEMMA Inv_JoinIndex ==
    ASSUME TablesInv, NEW r \in Requests, JoinIndex(r)
    PROVE  TablesInv'
<1>1. CASE Refuse(r, "Error")
  BY <1>1, InvRefuse DEF Answers
<1>2. CASE ~Refuse(r, "Error") /\ IndexFree(r) /\ JoinIndex(r)
           /\ ~ \E m \in Rivals(r) : m.by = Committed
  BY <1>2, Inv_JoinIndexed DEF JoinIndex
<1>3. CASE ~Refuse(r, "Error") /\ \E m \in Rivals(r) : m.by = Committed
  BY <1>3, Inv_JoinYields DEF JoinIndex, IndexFree
<1>4. QED BY <1>1, <1>2, <1>3 DEF JoinIndex

\* A statement that reads leaves the rows to everybody.
LEMMA SameRows ==
    ASSUME TablesInv, NEW r \in Requests, Others(r), UNCHANGED <<groups, members>>
    PROVE  /\ \A q \in Requests : \A g \in GroupIds : Keeps(q, g)
           /\ \A q \in Requests \ {r} : (StageInv(q) /\ MemberInv(q) /\ ReplyInv(q))'
<1>1. \A q \in Requests : \A g \in GroupIds : Keeps(q, g) /\ RowStays(q, g)
  BY KeepsSame, RowStaysSame
<1>2. QED BY <1>1, OthersKept

LEMMA Inv_JoinReadMembers ==
    ASSUME TablesInv, NEW r \in Requests, JoinReadMembers(r)
    PROVE  TablesInv'
<1>1. /\ Others(r) /\ stage[r] = "members" /\ stage'[r] = "commit" /\ Busy(r)
      /\ call' = call /\ todo' = todo /\ UNCHANGED <<groups, members>>
      /\ ReadMembers(r, call[r].group) /\ call[r].op = "Join"
  BY DEF JoinReadMembers, ReadMembers, Goto, Others, Busy, TablesInv, TypeOK
<1>2. /\ IsMember(r, call[r].group, call[r].profile) /\ call[r].group \in GroupIds
      /\ groups[call[r].group] \in {Committed, r}
  BY <1>1, BusyCall DEF TablesInv, MemberInv, GroupInv
<1>3. /\ \A q \in Requests \ {r} : reply'[q] = reply[q]
      /\ DOMAIN reply' = Requests /\ DOMAIN reply'[r] \subseteq GroupIds
      /\ \A h \in DOMAIN reply'[r] :
            /\ DOMAIN reply'[r][h] \subseteq Nat
            /\ \A i \in DOMAIN reply'[r][h] : reply'[r][h][i] \in Profiles
      /\ ReplyInv(r)'
  BY <1>1, <1>2, ReplyRead
<1>4. TypeOK'
  <2>1. /\ groups' \in [GroupIds -> Requests \cup {Free, Committed}]
        /\ members' \in [GroupIds -> Seq(Member)]
        /\ stage' \in [Requests -> Stages] /\ call' \in [Requests -> Call \cup {Idle}]
        /\ todo' \in [Requests -> SUBSET GroupIds] /\ answer' \in [Requests -> Answers]
    BY DEF TablesInv, TypeOK, JoinReadMembers, Goto, Stages
  <2>2. QED BY <2>1, <1>3 DEF TablesInv, TypeOK
<1>5. RowsInv'
  BY <1>1, RowsSame
<1>6. \A q \in Requests \ {r} : (StageInv(q) /\ MemberInv(q) /\ ReplyInv(q))'
  BY <1>1, SameRows
<1>7. \A q \in Requests : GroupInv(q)'
  BY <1>1, <1>2, GroupsSame
<1>8. StageInv(r)'
  BY <1>1 DEF TablesInv, StageInv, Busy
<1>9. MemberInv(r)'
  BY <1>1, <1>2 DEF MemberInv, IsMember, Sees
<1>10. QED BY <1>3, <1>4, <1>5, <1>6, <1>7, <1>8, <1>9, InvFrom

LEMMA Inv_GetReadMembers ==
    ASSUME TablesInv, NEW r \in Requests, GetReadMembers(r)
    PROVE  TablesInv'
<1>1. /\ Others(r) /\ stage[r] = "members" /\ stage'[r] = "idle" /\ Busy(r)
      /\ call'[r] = Idle /\ UNCHANGED <<groups, members>>
      /\ ReadMembers(r, call[r].group) /\ call[r].op = "Get" /\ Answer(r, "OK")
  BY DEF GetReadMembers, ReadMembers, Answer, Goto, Others, Busy, TablesInv, TypeOK
<1>2. IsMember(r, call[r].group, call[r].profile) /\ call[r].group \in GroupIds
  BY <1>1, BusyCall DEF TablesInv, MemberInv
<1>3. /\ \A q \in Requests \ {r} : reply'[q] = reply[q]
      /\ DOMAIN reply' = Requests /\ DOMAIN reply'[r] \subseteq GroupIds
      /\ \A h \in DOMAIN reply'[r] :
            /\ DOMAIN reply'[r][h] \subseteq Nat
            /\ \A i \in DOMAIN reply'[r][h] : reply'[r][h][i] \in Profiles
      /\ ReplyInv(r)'
  BY <1>1, <1>2, ReplyRead DEF Busy
<1>4. TypeOK'
  <2>1. /\ groups' \in [GroupIds -> Requests \cup {Free, Committed}]
        /\ members' \in [GroupIds -> Seq(Member)]
        /\ stage' \in [Requests -> Stages] /\ call' \in [Requests -> Call \cup {Idle}]
        /\ todo' \in [Requests -> SUBSET GroupIds] /\ answer' \in [Requests -> Answers]
    BY <1>1 DEF TablesInv, TypeOK, Answer, Goto, Stages, Answers
  <2>2. QED BY <2>1, <1>3 DEF TablesInv, TypeOK
<1>5. RowsInv'
  <2>1. \A g \in GroupIds : \A i \in 1..Len(members[g]) : members[g][i].by # r
    BY <1>1 DEF TablesInv, RowInv
  <2>2. QED BY <1>1, <2>1, RowsSame
<1>6. \A q \in Requests \ {r} : (StageInv(q) /\ MemberInv(q) /\ ReplyInv(q))'
  BY <1>1, SameRows
<1>7. \A q \in Requests : GroupInv(q)'
  <2>1. \A g \in GroupIds : groups[g] # r
    BY <1>1 DEF TablesInv, GroupInv
  <2>2. QED BY <1>1, <2>1, GroupsEnd DEF TablesInv, TypeOK
<1>8. (StageInv(r) /\ MemberInv(r))'
  BY <1>1 DEF StageInv, MemberInv, Busy
<1>9. QED BY <1>3, <1>4, <1>5, <1>6, <1>7, <1>8, InvFrom

LEMMA Inv_ListMemberships ==
    ASSUME TablesInv, NEW r \in Requests, ListMemberships(r)
    PROVE  TablesInv'
<1>1. /\ Others(r) /\ stage[r] = "memberships" /\ stage'[r] = "summaries" /\ Busy(r)
      /\ call' = call /\ reply' = reply /\ UNCHANGED <<groups, members>>
      /\ todo'[r] = {g \in GroupIds : IsMember(r, g, call[r].profile)}
  BY DEF ListMemberships, Goto, Others, Busy, TablesInv, TypeOK
<1>2. TypeOK'
  BY DEF TablesInv, TypeOK, ListMemberships, Goto, Stages
<1>3. RowsInv'
  BY <1>1, NoRows, RowsSame
<1>4. /\ \A q \in Requests : \A g \in GroupIds : Keeps(q, g)
      /\ \A q \in Requests \ {r} : (StageInv(q) /\ MemberInv(q) /\ ReplyInv(q))'
  BY <1>1, SameRows
<1>5. ReplyInv(r)'
  BY <1>1, <1>4, ReplyKept DEF TablesInv
<1>6. \A q \in Requests : GroupInv(q)'
  BY <1>1, GroupsSame
<1>7. (StageInv(r) /\ MemberInv(r))'
  BY <1>1 DEF TablesInv, StageInv, MemberInv, Busy, IsMember, Sees
<1>8. QED BY <1>2, <1>3, <1>4, <1>5, <1>6, <1>7, InvFrom

LEMMA Inv_ListSummary ==
    ASSUME TablesInv, NEW r \in Requests, ListSummary(r)
    PROVE  TablesInv'
<1>0. stage[r] = "summaries" /\ Busy(r) /\ call[r].op = "List"
  BY DEF ListSummary, Busy, TablesInv, StageInv
<1>1. ASSUME NEW g \in todo[r], ReadMembers(r, g),
             todo' = [todo EXCEPT ![r] = @ \ {g}],
             UNCHANGED <<groups, members, stage, call, answer>>
      PROVE  TablesInv'
  <2>1. g \in GroupIds /\ IsMember(r, g, call[r].profile)
    BY <1>0, <1>1 DEF TablesInv, TypeOK, MemberInv
  <2>2. /\ \A q \in Requests \ {r} : reply'[q] = reply[q]
        /\ DOMAIN reply' = Requests /\ DOMAIN reply'[r] \subseteq GroupIds
        /\ \A h \in DOMAIN reply'[r] :
              /\ DOMAIN reply'[r][h] \subseteq Nat
              /\ \A i \in DOMAIN reply'[r][h] : reply'[r][h][i] \in Profiles
        /\ ReplyInv(r)'
    BY <1>0, <1>1, <2>1, ReplyRead
  <2>3. Others(r) /\ todo'[r] \subseteq todo[r] /\ todo' \in [Requests -> SUBSET GroupIds]
    BY <1>1, <2>2 DEF Others, TablesInv, TypeOK
  <2>4. TypeOK'
    BY <1>1, <2>2, <2>3 DEF TablesInv, TypeOK
  <2>5. RowsInv'
    BY <1>0, <1>1, <2>3, NoRows, RowsSame
  <2>6. \A q \in Requests \ {r} : (StageInv(q) /\ MemberInv(q) /\ ReplyInv(q))'
    BY <1>1, <2>3, SameRows
  <2>7. \A q \in Requests : GroupInv(q)'
    BY <1>0, <1>1, <2>3, GroupsSame DEF Busy
  <2>8. (StageInv(r) /\ MemberInv(r))'
    BY <1>0, <1>1, <2>3 DEF TablesInv, StageInv, MemberInv, Busy, IsMember, Sees
  <2>9. QED BY <2>2, <2>4, <2>5, <2>6, <2>7, <2>8, InvFrom
<1>2. ASSUME Answer(r, "OK"), UNCHANGED <<groups, members, reply>>
      PROVE  TablesInv'
  <2>1. Others(r) /\ stage'[r] = "idle" /\ call'[r] = Idle
    BY <1>2 DEF Answer, Goto, Others, TablesInv, TypeOK
  <2>2. TypeOK'
    BY <1>2 DEF TablesInv, TypeOK, Answer, Goto, Stages, Answers
  <2>3. RowsInv'
    BY <1>0, <1>2, <2>1, NoRows, RowsSame
  <2>4. /\ \A q \in Requests : \A g \in GroupIds : Keeps(q, g)
        /\ \A q \in Requests \ {r} : (StageInv(q) /\ MemberInv(q) /\ ReplyInv(q))'
    BY <1>2, <2>1, SameRows
  <2>5. ReplyInv(r)'
    BY <1>2, <2>1, <2>4, ReplyKept DEF TablesInv, Busy
  <2>6. \A q \in Requests : GroupInv(q)'
    <3>1. \A g \in GroupIds : groups[g] # r
      BY <1>0 DEF TablesInv, GroupInv
    <3>2. QED BY <1>2, <2>1, <3>1, GroupsEnd DEF TablesInv, TypeOK
  <2>7. (StageInv(r) /\ MemberInv(r))'
    BY <2>1 DEF StageInv, MemberInv, Busy
  <2>8. QED BY <2>2, <2>3, <2>4, <2>5, <2>6, <2>7, InvFrom
<1>3. QED BY <1>1, <1>2 DEF ListSummary

LEMMA Inv_Commit ==
    ASSUME TablesInv, NEW r \in Requests, Commit(r)
    PROVE  TablesInv'
<1>1. /\ Others(r) /\ stage[r] = "commit" /\ stage'[r] = "idle" /\ Busy(r)
      /\ call'[r] = Idle /\ Publish(r)
      /\ \/ reply' = reply
         \/ reply' = [reply EXCEPT ![r] = << >>]
      /\ \E a \in Answers : Answer(r, a)
  BY DEF Commit, Answer, NoReply, Goto, Others, Busy, Answers, TablesInv, TypeOK
<1>2. /\ members' \in [GroupIds -> Seq(Member)]
      /\ \A g \in GroupIds :
            /\ Len(members'[g]) = Len(members[g])
            /\ \A i \in 1..Len(members[g]) : members'[g][i] = Settled(members[g][i], r)
  BY <1>1, PublishRows DEF TablesInv
<1>3. ASSUME NEW g \in GroupIds, NEW i \in 1..Len(members[g])
      PROVE  /\ members'[g][i].profile = members[g][i].profile
             /\ members'[g][i].written = members[g][i].written
             /\ members'[g][i].by = IF members[g][i].by = r THEN Committed ELSE members[g][i].by
  <2>1. members[g][i] \in Member
    BY ElementOfSeq DEF TablesInv, TypeOK
  <2>2. QED BY <2>1, <1>2, SettledRow
<1>4. TypeOK'
  <2>1. groups' \in [GroupIds -> Requests \cup {Free, Committed}]
    BY <1>1 DEF TablesInv, TypeOK, Publish
  <2>2. /\ stage' \in [Requests -> Stages] /\ call' \in [Requests -> Call \cup {Idle}]
        /\ todo' \in [Requests -> SUBSET GroupIds] /\ answer' \in [Requests -> Answers]
    BY <1>1 DEF TablesInv, TypeOK, Answer, Goto, Stages
  <2>3. QED BY <1>1, <1>2, <2>1, <2>2 DEF TablesInv, TypeOK
<1>5. RowsInv'
  BY <1>1, RowsPublish
<1>6. ASSUME NEW q \in Requests, NEW g \in GroupIds
      PROVE  Keeps(q, g) /\ (q # r => RowStays(q, g))
  <2>1. \A i \in 1..Len(members[g]) :
           /\ Sees(q, members[g][i]) => Sees(q, members'[g][i])
           /\ q # r /\ members[g][i].by = q => members'[g][i].by = q
    BY <1>3 DEF Sees
  <2>2. QED BY <2>1, <1>2, <1>3, KeepsInPlace, RowStaysInPlace
<1>7. \A q \in Requests \ {r} : (StageInv(q) /\ MemberInv(q) /\ ReplyInv(q))'
  BY <1>1, <1>6, OthersKept
<1>8. ReplyInv(r)'
  <2>1. CASE reply' = reply
    BY <2>1, <1>1, <1>6, ReplyKept DEF TablesInv, Busy
  <2>2. CASE reply' = [reply EXCEPT ![r] = << >>]
    BY <2>2 DEF TablesInv, TypeOK, ReplyInv
  <2>3. QED BY <2>1, <2>2, <1>1
<1>9. \A q \in Requests : GroupInv(q)'
  BY <1>1, GroupsEnd DEF TablesInv, TypeOK, Publish
<1>10. (StageInv(r) /\ MemberInv(r))'
  BY <1>1 DEF StageInv, MemberInv, Busy
<1>11. QED BY <1>4, <1>5, <1>7, <1>8, <1>9, <1>10, InvFrom

-----------------------------------------------------------------------------
(***************************************************************************)
(* The invariant and what follows from it.                                 *)
(***************************************************************************)

LEMMA Inv_Init ==
    ASSUME Init
    PROVE  TablesInv
<1>1. TypeOK
  BY DEF Init, TypeOK, Stages, Answers
<1>2. OneMembership /\ GroupHasMembers
  BY GroupsAssumption DEF Init, OneMembership, GroupHasMembers
<1>3. \A g \in GroupIds : FirstInv(g) /\ \A i \in 1..Len(members[g]) : RowInv(g, i)
  BY GroupsAssumption DEF Init, FirstInv
<1>4. \A r \in Requests : StageInv(r) /\ GroupInv(r) /\ MemberInv(r) /\ ReplyInv(r)
  BY GroupsAssumption DEF Init, StageInv, GroupInv, MemberInv, ReplyInv, Busy
<1>5. QED BY <1>1, <1>2, <1>3, <1>4 DEF TablesInv

LEMMA Inv_Stutter ==
    ASSUME TablesInv, UNCHANGED vars
    PROVE  TablesInv'
<1>1. TypeOK' /\ OneMembership' /\ GroupHasMembers'
  BY DEF TablesInv, vars, TypeOK, OneMembership, GroupHasMembers, CommittedPlaces
<1>2. ASSUME NEW g \in GroupIds
      PROVE  FirstInv(g)' /\ \A i \in 1..Len(members'[g]) : RowInv(g, i)'
  BY DEF TablesInv, vars, FirstInv, RowInv
<1>3. ASSUME NEW r \in Requests
      PROVE  (StageInv(r) /\ GroupInv(r) /\ MemberInv(r) /\ ReplyInv(r))'
  <2>1. StageInv(r)' /\ GroupInv(r)'
    BY DEF TablesInv, vars, StageInv, GroupInv, Busy
  <2>2. MemberInv(r)'
    BY DEF TablesInv, vars, MemberInv, IsMember, Sees
  <2>3. \A g \in GroupIds : Keeps(r, g)
    BY KeepsSame DEF vars
  <2>4. ReplyInv(r)'
    BY <2>3, ReplyKept DEF TablesInv, vars, Busy
  <2>5. QED BY <2>1, <2>2, <2>4
<1>4. QED BY <1>1, <1>2, <1>3 DEF TablesInv

LEMMA Inv_Next ==
    ASSUME TablesInv, [Next]_vars
    PROVE  TablesInv'
<1>1. ASSUME NEW r \in Requests, Step(r)
      PROVE  TablesInv'
  BY <1>1, Inv_CreateGroup, Inv_CreateFindProfile, Inv_CreateMember, Inv_JoinFindGroup,
     Inv_JoinFindMember, Inv_JoinInsert, Inv_JoinIndex, Inv_JoinReadMembers,
     Inv_GetRequireMembership, Inv_GetReadMembers, Inv_ListMemberships, Inv_ListSummary,
     Inv_Commit DEF Step
<1>2. QED BY <1>1, Inv_Begin, Inv_Fail, Inv_Stutter DEF Next

\* No Join, Create or lost race leaves a membership twice or a group anyone can
\* find without a member, for any number of requests in flight.
LEMMA TablesHold == Spec => []TablesInv
<1>1. Init => TablesInv
  BY Inv_Init
<1>2. TablesInv /\ [Next]_vars => TablesInv'
  BY Inv_Next
<1>3. QED BY <1>1, <1>2, PTL DEF Spec

\* A reply has the order of the rows, and a profile has one row that is written.
LEMMA InvAgree ==
    ASSUME TablesInv
    PROVE  RepliesAgree
<1> SUFFICES ASSUME NEW r \in Requests, NEW q \in Requests, ~Busy(r), ~Busy(q),
                    NEW g \in DOMAIN reply[r] \cap DOMAIN reply[q],
                    NEW p1 \in Profiles, NEW p2 \in Profiles,
                    Precedes(reply[r][g], p1, p2), Precedes(reply[q][g], p2, p1)
             PROVE  FALSE
  BY DEF RepliesAgree
<1>1. g \in GroupIds
  BY DEF TablesInv, TypeOK
<1>2. Ordered(r, g, p1, p2) /\ Ordered(q, g, p2, p1)
  BY DEF Precedes, TablesInv, ReplyInv
<1>3. \A i \in 1..Len(members[g]) :
         Sees(r, members[g][i]) \/ Sees(q, members[g][i]) => members[g][i].written
  BY <1>1 DEF Sees, TablesInv, RowInv
<1>4. PICK i, j \in 1..Len(members[g]) :
        /\ i < j
        /\ Sees(r, members[g][i]) /\ members[g][i].profile = p1
        /\ Sees(r, members[g][j]) /\ members[g][j].profile = p2
  BY <1>2 DEF Ordered
<1>5. PICK k, l \in 1..Len(members[g]) :
        /\ k < l
        /\ Sees(q, members[g][k]) /\ members[g][k].profile = p2
        /\ Sees(q, members[g][l]) /\ members[g][l].profile = p1
  BY <1>2 DEF Ordered
<1>6. i = l /\ j = k
  BY <1>1, <1>3, <1>4, <1>5 DEF TablesInv, OneMembership
<1>7. Len(members[g]) \in Nat
  BY <1>1, LenProperties DEF TablesInv, TypeOK
<1>8. QED BY <1>4, <1>5, <1>6, <1>7

\* Two replies about a group never disagree on who joined first.
THEOREM RepliesAgreeHold == Spec => []RepliesAgree
<1>1. TablesInv => RepliesAgree
  BY InvAgree
<1>2. QED BY <1>1, TablesHold, PTL

-----------------------------------------------------------------------------
\* The first row of a group is the first member.
LEMMA FirstRow ==
    ASSUME NEW g, Len(members[g]) \in Nat, Len(members[g]) > 0,
           members[g][1].by = Committed
    PROVE  CommittedPlaces(g) # {} /\ FirstMember(g) = members[g][1].profile
<1>1. 1 \in CommittedPlaces(g) /\ \A i \in CommittedPlaces(g) : i \in Nat /\ 1 =< i
  BY DEF CommittedPlaces
<1>2. Min(CommittedPlaces(g)) = 1
  BY <1>1 DEF Min
<1>3. QED BY <1>1, <1>2 DEF FirstMember

\* The steps that touch rows, one by one.
LEMMA MemberSteps ==
    ASSUME TablesInv, NEW r \in Requests, Step(r) \/ Fail(r)
    PROVE  \/ UNCHANGED members
           \/ Rollback(r)
           \/ Commit(r)
           \/ CreateMember(r) /\ Insert(r, TRUE) /\ call[r] \in Call
           \/ JoinInsert(r) /\ Insert(r, FALSE) /\ call[r] \in Call
           \/ /\ members' = [members EXCEPT ![call[r].group] =
                               [i \in 1..Len(@) |-> Indexed(@[i], r)]]
              /\ call[r].group \in GroupIds /\ call[r].profile \in Registered
              /\ stage[r] = "index"
           \/ /\ members' = [members EXCEPT ![call[r].group] = Without(@, r)]
              /\ call[r].group \in GroupIds
<1>1. CASE Busy(r)
  <2>1. call[r] \in Call /\ call[r].group \in GroupIds
    BY <1>1, BusyCall
  <2>2. QED
    BY <2>1 DEF Step, Fail, CreateGroup, CreateFindProfile, CreateMember, JoinFindGroup,
       JoinFindMember, JoinInsert, JoinIndex, JoinReadMembers, GetRequireMembership,
       GetReadMembers, ListMemberships, ListSummary, Proceed, Refuse
<1>2. CASE ~Busy(r)
  BY <1>2 DEF Step, Fail, CreateGroup, CreateFindProfile, CreateMember, JoinFindGroup,
     JoinFindMember, JoinInsert, JoinIndex, JoinReadMembers, GetRequireMembership,
     GetReadMembers, ListMemberships, ListSummary, Commit, Busy
<1>3. QED BY <1>1, <1>2

LEMMA FirstStays ==
    ASSUME TablesInv, [Next]_vars, NEW g \in GroupIds, groups[g] = Committed
    PROVE  /\ Len(members[g]) \in Nat /\ Len(members[g]) > 0 /\ members[g][1].by = Committed
           /\ Len(members'[g]) \in Nat /\ Len(members'[g]) > 0
           /\ members'[g][1] = members[g][1]
<1>1. /\ TypeOK /\ members[g] \in Seq(Member) /\ Len(members[g]) \in Nat
      /\ Len(members[g]) > 0 /\ members[g][1].by = Committed
  BY LenProperties DEF TablesInv, TypeOK, FirstInv
<1>2. members'[g] \in Seq(Member) /\ Len(members'[g]) \in Nat
  <2>1. TablesInv'
    BY Inv_Next
  <2>2. QED BY <2>1, LenProperties DEF TablesInv, TypeOK
<1>3. CASE UNCHANGED members
  BY <1>1, <1>3
<1>4. ASSUME NEW r \in Requests, LeftOut(members[g], members'[g], r)
      PROVE  Len(members'[g]) > 0 /\ members'[g][1] = members[g][1]
  BY <1>1, <1>4, GroupsAssumption DEF LeftOut
<1>5. ASSUME NEW r \in Requests, Step(r) \/ Fail(r), ~UNCHANGED members
      PROVE  Len(members'[g]) > 0 /\ members'[g][1] = members[g][1]
  <2>1. CASE Rollback(r)
    BY <2>1, <1>1, <1>4, RollbackRows
  <2>2. CASE Publish(r)
    <3>1. Len(members'[g]) = Len(members[g]) /\ members'[g][1] = Settled(members[g][1], r)
      BY <2>2, <1>1, PublishRows
    <3>2. members[g][1].by # r
      BY <1>1, GroupsAssumption
    <3>3. QED BY <3>1, <3>2, <1>1 DEF Settled
  <2>3. ASSUME NEW w \in BOOLEAN, Insert(r, w), call[r] \in Call
        PROVE  Len(members'[g]) > 0 /\ members'[g][1] = members[g][1]
    <3>1. /\ Len(members'[call[r].group]) = Len(members[call[r].group]) + 1
          /\ \A i \in 1..Len(members[call[r].group]) :
                members'[call[r].group][i] = members[call[r].group][i]
          /\ \A h \in GroupIds \ {call[r].group} : members'[h] = members[h]
      BY <2>3, <1>1, InsertRows
    <3>2. CASE g = call[r].group
      BY <3>1, <3>2, <1>1
    <3>3. CASE g # call[r].group
      BY <3>1, <3>3, <1>1
    <3>4. QED BY <3>2, <3>3
  <2>4. CASE /\ members' = [members EXCEPT ![call[r].group] =
                               [i \in 1..Len(@) |-> Indexed(@[i], r)]]
             /\ call[r].group \in GroupIds
    <3>1. \/ members'[g] = members[g]
          \/ Len(members'[g]) = Len(members[g]) /\ members'[g][1] = Indexed(members[g][1], r)
      BY <2>4, <1>1, IndexedRows
    <3>2. members[g][1].by # r
      BY <1>1, GroupsAssumption
    <3>3. QED BY <3>1, <3>2, <1>1 DEF Indexed
  <2>5. CASE /\ members' = [members EXCEPT ![call[r].group] = Without(@, r)]
             /\ call[r].group \in GroupIds
    <3>1. members'[g] = members[g] \/ LeftOut(members[g], members'[g], r)
      BY <2>5, <1>1, DropRows
    <3>2. QED BY <3>1, <1>1, <1>4
  <2>6. QED BY <1>5, <2>1, <2>2, <2>3, <2>4, <2>5, MemberSteps DEF Commit
<1>6. ASSUME ~UNCHANGED members
      PROVE  \E r \in Requests : Step(r) \/ Fail(r)
  BY <1>6 DEF Next, vars, Begin
<1>7. QED BY <1>1, <1>2, <1>3, <1>5, <1>6

\* The creator stays the first member in join order.
THEOREM FirstMemberStays == Spec => FirstMemberFixed
<1> DEFINE Fixed == \A g \in GroupIds : groups[g] = Committed /\ CommittedPlaces(g) # {} =>
                       /\ CommittedPlaces(g)' # {}
                       /\ FirstMember(g)' = FirstMember(g)
<1>1. ASSUME TablesInv, [Next]_vars
      PROVE  Fixed
  <2>1. ASSUME NEW g \in GroupIds, groups[g] = Committed
        PROVE  CommittedPlaces(g)' # {} /\ FirstMember(g)' = FirstMember(g)
    <3>1. /\ Len(members[g]) \in Nat /\ Len(members[g]) > 0 /\ members[g][1].by = Committed
          /\ Len(members'[g]) \in Nat /\ Len(members'[g]) > 0
          /\ members'[g][1] = members[g][1]
      BY <1>1, <2>1, FirstStays
    <3>2. FirstMember(g) = members[g][1].profile
      BY <3>1, FirstRow
    <3>3. /\ 1 \in CommittedPlaces(g)'
          /\ \A i \in CommittedPlaces(g)' : i \in Nat /\ 1 =< i
      BY <3>1 DEF CommittedPlaces
    <3>4. Min(CommittedPlaces(g)') = 1
      BY <3>3 DEF Min
    <3>5. FirstMember(g)' = members'[g][1].profile
      BY <3>4 DEF FirstMember
    <3>6. QED BY <3>1, <3>2, <3>3, <3>5
  <2>2. QED BY <2>1
<1>2. TablesInv /\ [Next]_vars => [Fixed]_vars
  BY <1>1
<1>3. QED BY <1>2, TablesHold, PTL DEF Spec, FirstMemberFixed

-----------------------------------------------------------------------------
\* How a busy request is answered.
LEMMA BusySteps ==
    ASSUME TablesInv, [Next]_vars, NEW r \in Requests, Busy(r)
    PROVE  \/ Busy(r)' /\ call'[r] = call[r]
           \/ reply'[r] = reply[r]
           \/ reply'[r] = << >>
           \/ GetReadMembers(r)
<1>1. CASE UNCHANGED vars
  BY <1>1 DEF vars
<1>2. ASSUME NEW q \in Requests, NEW c \in Call, Begin(q, c)
      PROVE  reply'[r] = reply[r] \/ reply'[r] = << >>
  BY <1>2 DEF Begin, NoReply, TablesInv, TypeOK
<1>3. ASSUME NEW q \in Requests, Step(q) \/ Fail(q), q # r
      PROVE  reply'[r] = reply[r]
  BY <1>3 DEF Step, Fail, CreateGroup, CreateFindProfile, CreateMember, JoinFindGroup,
     JoinFindMember, JoinInsert, JoinIndex, JoinReadMembers, GetRequireMembership,
     GetReadMembers, ListMemberships, ListSummary, Commit, Proceed, Refuse, NoReply,
     ReadMembers, TablesInv, TypeOK
<1>4. CASE \/ Refuse(r, "Error") \/ Refuse(r, "NotFound") \/ Refuse(r, "Failed")
           \/ Commit(r)
  BY <1>4 DEF Refuse, NoReply, Commit, TablesInv, TypeOK
<1>5. ASSUME Step(r) \/ Fail(r), ~GetReadMembers(r), ~Commit(r),
             ~(Refuse(r, "Error") \/ Refuse(r, "NotFound") \/ Refuse(r, "Failed"))
      PROVE  reply'[r] = reply[r] \/ (Busy(r)' /\ call'[r] = call[r])
  BY <1>5 DEF Step, Fail, CreateGroup, CreateFindProfile, CreateMember, JoinFindGroup,
     JoinFindMember, JoinInsert, JoinIndex, JoinReadMembers, GetRequireMembership,
     ListMemberships, ListSummary, Proceed, Goto, Busy, TablesInv, TypeOK
<1>6. QED BY <1>1, <1>2, <1>3, <1>4, <1>5 DEF Next

\* Whoever is told about a group is one of its members, listed exactly once.
THEOREM RepliesHaveCallerOnce == Spec => RepliesHaveCaller
<1> DEFINE Once == \A r \in Requests : Busy(r) /\ answer'[r] = "OK" =>
                      \A g \in DOMAIN reply'[r] :
                         Cardinality({i \in DOMAIN reply'[r][g] :
                                        reply'[r][g][i] = call[r].profile}) = 1
<1>1. ASSUME TablesInv, [Next]_vars
      PROVE  Once
  <2>1. ASSUME NEW r \in Requests, Busy(r), NEW g \in DOMAIN reply'[r]
        PROVE  CallerOnce(reply'[r][g], call[r].profile)
    <3>1. CASE Busy(r)' /\ call'[r] = call[r]
      <4>1. TablesInv'
        BY <1>1, Inv_Next
      <4>2. \E i \in DOMAIN reply'[r][g] : \A j \in DOMAIN reply'[r][g] :
               reply'[r][g][j] = call'[r].profile <=> i = j
        BY <3>1, <4>1, <2>1 DEF TablesInv, ReplyInv
      <4>3. QED BY <3>1, <4>2 DEF CallerOnce
    <3>2. CASE reply'[r] = reply[r]
      BY <1>1, <2>1, <3>2 DEF TablesInv, ReplyInv, CallerOnce
    <3>3. CASE reply'[r] = << >>
      BY <2>1, <3>3
    <3>4. CASE GetReadMembers(r)
      <4>1. /\ ReadMembers(r, call[r].group) /\ UNCHANGED members
            /\ stage[r] = "members" /\ stage'[r] = "idle"
        BY <1>1, <3>4 DEF GetReadMembers, Answer, Goto, TablesInv, TypeOK
      <4>2. IsMember(r, call[r].group, call[r].profile) /\ call[r].group \in GroupIds
        BY <1>1, <2>1, <4>1, BusyCall DEF TablesInv, MemberInv
      <4>3. QED BY <1>1, <2>1, <4>1, <4>2, ReplyRead DEF Busy
    <3>5. QED BY <1>1, <2>1, <3>1, <3>2, <3>3, <3>4, BusySteps
  <2>2. ASSUME NEW s, NEW p, CallerOnce(s, p)
        PROVE  Cardinality({i \in DOMAIN s : s[i] = p}) = 1
    <3>1. PICK i \in DOMAIN s : \A j \in DOMAIN s : s[j] = p <=> i = j
      BY <2>2 DEF CallerOnce
    <3>2. {j \in DOMAIN s : s[j] = p} = {i}
      BY <3>1
    <3>3. QED BY <3>2, FS_Singleton
  <2>3. QED BY <2>1, <2>2
<1>2. TablesInv /\ [Next]_vars => [Once]_vars
  BY <1>1
<1>3. QED BY <1>2, TablesHold, PTL DEF Spec, RepliesHaveCaller

-----------------------------------------------------------------------------
(***************************************************************************)
(* The rest of the invariant: who is registered, and when a reply is begun.*)
(***************************************************************************)

RowsRegistered(g) ==
    \A i \in 1..Len(members[g]) :
       members[g][i].written => members[g][i].profile \in Registered

LEMMA RowsRegisteredStay ==
    ASSUME TablesInv, RegisteredInv, NEW r \in Requests, Step(r) \/ Fail(r),
           NEW g \in GroupIds
    PROVE  RowsRegistered(g)'
<1>1. /\ TypeOK /\ members[g] \in Seq(Member) /\ Len(members[g]) \in Nat
      /\ \A i \in 1..Len(members[g]) : members[g][i] \in Member
  BY LenProperties, ElementOfSeq DEF TablesInv, TypeOK
<1>2. RowsRegistered(g)
  BY DEF RegisteredInv, RowsRegistered
<1>3. CASE members'[g] = members[g]
  BY <1>2, <1>3 DEF RowsRegistered
<1>4. CASE LeftOut(members[g], members'[g], r)
  <2>1. ASSUME NEW k \in 1..Len(members[g]), Len(members'[g]) = Len(members[g]) - 1,
               \A i \in 1..Len(members[g]) - 1 :
                  members'[g][i] = members[g][IF i < k THEN i ELSE i + 1]
        PROVE  RowsRegistered(g)'
    <3>1. ASSUME NEW i \in 1..Len(members[g]) - 1
          PROVE  members'[g][i].written => members'[g][i].profile \in Registered
      <4>1. (IF i < k THEN i ELSE i + 1) \in 1..Len(members[g])
        BY <1>1
      <4>2. QED BY <1>2, <2>1, <4>1 DEF RowsRegistered
    <3>2. QED BY <2>1, <3>1 DEF RowsRegistered
  <2>2. QED BY <1>3, <1>4, <2>1 DEF LeftOut
<1>5. CASE Rollback(r)
  BY <1>1, <1>4, <1>5, RollbackRows
<1>6. CASE Commit(r)
  <2>1. /\ Len(members'[g]) = Len(members[g])
        /\ \A i \in 1..Len(members[g]) : members'[g][i] = Settled(members[g][i], r)
    BY <1>1, <1>6, PublishRows DEF Commit
  <2>2. QED BY <1>1, <1>2, <2>1, SettledRow DEF RowsRegistered
<1>7. ASSUME NEW w \in BOOLEAN, Insert(r, w), call[r] \in Call,
             w => call[r].profile \in Registered
      PROVE  RowsRegistered(g)'
  <2>1. /\ Len(members'[call[r].group]) = Len(members[call[r].group]) + 1
        /\ \A i \in 1..Len(members[call[r].group]) :
              members'[call[r].group][i] = members[call[r].group][i]
        /\ members'[call[r].group][Len(members[call[r].group]) + 1] =
              [profile |-> call[r].profile, by |-> r, written |-> w]
        /\ \A h \in GroupIds \ {call[r].group} : members'[h] = members[h]
    BY <1>1, <1>7, InsertRows
  <2>2. CASE g # call[r].group
    BY <1>3, <2>1, <2>2
  <2>3. CASE g = call[r].group
    <3>1. ASSUME NEW i \in 1..Len(members[g]) + 1
          PROVE  members'[g][i].written => members'[g][i].profile \in Registered
      <4>1. CASE i \in 1..Len(members[g])
        BY <1>2, <2>1, <2>3, <4>1 DEF RowsRegistered
      <4>2. CASE i = Len(members[g]) + 1
        BY <1>7, <2>1, <2>3, <4>2
      <4>3. QED BY <1>1, <4>1, <4>2
    <3>2. QED BY <2>1, <2>3, <3>1 DEF RowsRegistered
  <2>4. QED BY <2>2, <2>3
<1>8. CASE CreateMember(r) /\ Insert(r, TRUE) /\ call[r] \in Call
  BY <1>7, <1>8 DEF CreateMember, RegisteredInv
<1>9. CASE JoinInsert(r) /\ Insert(r, FALSE) /\ call[r] \in Call
  BY <1>7, <1>9
<1>10. CASE /\ members' = [members EXCEPT ![call[r].group] =
                             [i \in 1..Len(@) |-> Indexed(@[i], r)]]
            /\ call[r].group \in GroupIds /\ call[r].profile \in Registered
            /\ stage[r] = "index"
  <2>1. /\ Len(members'[call[r].group]) = Len(members[call[r].group])
        /\ \A i \in 1..Len(members[call[r].group]) :
              members'[call[r].group][i] = Indexed(members[call[r].group][i], r)
        /\ \A h \in GroupIds \ {call[r].group} : members'[h] = members[h]
    BY <1>1, <1>10, IndexedRows
  <2>2. CASE g # call[r].group
    BY <1>3, <2>1, <2>2
  <2>3. CASE g = call[r].group
    <3>1. ASSUME NEW i \in 1..Len(members[g])
          PROVE  members'[g][i].written => members'[g][i].profile \in Registered
      <4>1. CASE members[g][i].by = r
        <5>1. members[g][i].profile = call[r].profile
          BY <4>1 DEF TablesInv, RowInv
        <5>2. QED BY <1>1, <1>10, <2>1, <2>3, <5>1, IndexedRow
      <4>2. CASE members[g][i].by # r
        BY <1>1, <1>2, <2>1, <2>3, <4>2, IndexedRow DEF RowsRegistered
      <4>3. QED BY <4>1, <4>2
    <3>2. QED BY <2>1, <2>3, <3>1 DEF RowsRegistered
  <2>4. QED BY <2>2, <2>3
<1>11. CASE /\ members' = [members EXCEPT ![call[r].group] = Without(@, r)]
            /\ call[r].group \in GroupIds
  <2>1. members'[g] = members[g] \/ LeftOut(members[g], members'[g], r)
    BY <1>1, <1>11, DropRows
  <2>2. QED BY <1>3, <1>4, <2>1
<1>12. QED BY <1>3, <1>5, <1>6, <1>8, <1>9, <1>10, <1>11, MemberSteps

\* Who may become a creator has been found.
LEMMA CreatorsRegistered ==
    ASSUME TablesInv, RegisteredInv, NEW r \in Requests, Step(r) \/ Fail(r),
           NEW q \in Requests, stage'[q] = "creator"
    PROVE  call'[q].profile \in Registered
<1>1. CASE q = r
  BY <1>1 DEF TablesInv, TypeOK, Step, Fail, CreateGroup, CreateFindProfile, CreateMember,
     JoinFindGroup, JoinFindMember, JoinInsert, JoinIndex, JoinReadMembers,
     GetRequireMembership, GetReadMembers, ListMemberships, ListSummary, Commit, Proceed,
     Refuse, Answer, Goto, RegisteredInv
<1>2. CASE q # r
  <2>1. stage'[q] = stage[q] /\ call'[q] = call[q]
    BY <1>2 DEF TablesInv, TypeOK, Step, Fail, CreateGroup, CreateFindProfile, CreateMember,
       JoinFindGroup, JoinFindMember, JoinInsert, JoinIndex, JoinReadMembers,
       GetRequireMembership, GetReadMembers, ListMemberships, ListSummary, Commit, Proceed,
       Refuse, Answer, Goto
  <2>2. QED BY <2>1 DEF RegisteredInv
<1>3. QED BY <1>1, <1>2

\* How the reply and the stage of a request move together.
LEMMA ToldStays ==
    ASSUME TablesInv, NEW r \in Requests, Step(r) \/ Fail(r), NEW q \in Requests, ToldInv(q)
    PROVE  ToldInv(q)'
<1>1. CASE q # r
  <2>1. stage'[q] = stage[q] /\ call'[q] = call[q] /\ reply'[q] = reply[q]
    BY <1>1 DEF TablesInv, TypeOK, Step, Fail, CreateGroup, CreateFindProfile, CreateMember,
       JoinFindGroup, JoinFindMember, JoinInsert, JoinIndex, JoinReadMembers,
       GetRequireMembership, GetReadMembers, ListMemberships, ListSummary, Commit, Proceed,
       Refuse, Answer, Goto, NoReply, ReadMembers
  <2>2. QED BY <2>1 DEF ToldInv, Busy
<1>2. CASE q = r
  <2>1. CASE stage'[r] = "idle"
    BY <1>2, <2>1 DEF ToldInv, Busy
  <2>2. CASE /\ reply' = reply /\ stage'[r] \notin {"commit", "summaries"}
             /\ Busy(r) /\ stage[r] \notin {"commit", "summaries"}
    BY <1>2, <2>2 DEF ToldInv, Busy
  <2>3. CASE CreateMember(r)
    <3>1. stage'[r] = "commit" /\ call'[r] = call[r] /\ DOMAIN reply'[r] = {call[r].group}
      BY <2>3 DEF CreateMember, Goto, TablesInv, TypeOK
    <3>2. QED BY <1>2, <3>1 DEF ToldInv, Busy
  <2>4. CASE JoinReadMembers(r)
    <3>1. stage'[r] = "commit" /\ call'[r] = call[r] /\ DOMAIN reply[r] = {}
      BY <1>2, <2>4 DEF JoinReadMembers, Goto, TablesInv, TypeOK, ToldInv, Busy
    <3>2. DOMAIN reply'[r] = {call[r].group}
      BY <2>4, <3>1 DEF JoinReadMembers, ReadMembers, TablesInv, TypeOK
    <3>3. QED BY <1>2, <3>1, <3>2 DEF ToldInv, Busy
  <2>5. CASE stage'[r] = "summaries"
    BY <1>2, <2>5 DEF ToldInv, Busy
  <2>6. QED
    BY <2>1, <2>2, <2>3, <2>4, <2>5 DEF TablesInv, TypeOK, Step, Fail, CreateGroup,
       CreateFindProfile, JoinFindGroup, JoinFindMember, JoinInsert, JoinIndex,
       GetRequireMembership, GetReadMembers, ListMemberships, ListSummary, Commit, Proceed,
       Refuse, Answer, Goto, Busy
<1>3. QED BY <1>1, <1>2

LEMMA Inv_GroupsNext ==
    ASSUME GroupsInv, [Next]_vars
    PROVE  GroupsInv'
<1>1. TablesInv /\ RegisteredInv /\ TablesInv' /\ \A q \in Requests : ToldInv(q)
  BY Inv_Next DEF GroupsInv
<1>2. ASSUME NEW r \in Requests, Step(r) \/ Fail(r)
      PROVE  RegisteredInv' /\ \A q \in Requests : ToldInv(q)'
  <2>1. \A g \in GroupIds : RowsRegistered(g)'
    BY <1>1, <1>2, RowsRegisteredStay
  <2>2. \A q \in Requests : stage'[q] = "creator" => call'[q].profile \in Registered
    BY <1>1, <1>2, CreatorsRegistered
  <2>3. RegisteredInv'
    BY <2>1, <2>2 DEF RegisteredInv, RowsRegistered
  <2>4. QED BY <1>1, <1>2, <2>3, ToldStays
<1>3. ASSUME NEW r \in Requests, NEW c \in Call, Begin(r, c)
      PROVE  RegisteredInv' /\ \A q \in Requests : ToldInv(q)'
  <2>1. /\ members' = members /\ stage'[r] \notin {"creator", "commit", "summaries"}
        /\ reply'[r] = << >>
        /\ \A q \in Requests \ {r} :
              stage'[q] = stage[q] /\ call'[q] = call[q] /\ reply'[q] = reply[q]
    BY <1>1, <1>3 DEF Begin, Goto, NoReply, FirstStage, Call, TablesInv, TypeOK
  <2>2. RegisteredInv'
    BY <1>1, <2>1 DEF RegisteredInv
  <2>3. ToldInv(r)'
    BY <2>1 DEF ToldInv
  <2>4. \A q \in Requests \ {r} : ToldInv(q)'
    BY <1>1, <2>1 DEF ToldInv, Busy
  <2>5. QED BY <2>2, <2>3, <2>4
<1>4. CASE UNCHANGED vars
  <2>1. RegisteredInv'
    BY <1>1, <1>4 DEF vars, RegisteredInv
  <2>2. \A q \in Requests : ToldInv(q)'
    BY <1>1, <1>4 DEF vars, ToldInv, Busy
  <2>3. QED BY <1>1, <2>1, <2>2 DEF GroupsInv
<1>5. QED BY <1>1, <1>2, <1>3, <1>4 DEF Next, GroupsInv

\* No Join, Create or lost race leaves a membership twice or a group anyone can
\* find without a member, for any number of requests in flight.
THEOREM GroupsHold == Spec => []GroupsInv
<1>1. ASSUME Init
      PROVE  GroupsInv
  <2>1. TablesInv
    BY <1>1, Inv_Init
  <2>2. RegisteredInv
    BY <1>1 DEF Init, RegisteredInv
  <2>3. \A r \in Requests : ToldInv(r)
    BY <1>1 DEF Init, ToldInv, Busy
  <2>4. QED BY <2>1, <2>2, <2>3 DEF GroupsInv
<1>2. GroupsInv /\ [Next]_vars => GroupsInv'
  BY Inv_GroupsNext
<1>3. QED BY <1>1, <1>2, PTL DEF Spec

-----------------------------------------------------------------------------
(***************************************************************************)
(* The contract: what the tables and the replies say moves as Rosters says *)
(* it does.                                                                *)
(***************************************************************************)

LEMMA RosterRows ==
    ASSUME NEW g \in GroupIds
    PROVE  /\ \A p : p \in rosters[g] <=>
                 \E i \in 1..Len(members[g]) :
                    members[g][i].by = Committed /\ members[g][i].profile = p
           /\ \A p : p \in rosters'[g] <=>
                 \E i \in 1..Len(members'[g]) :
                    members'[g][i].by = Committed /\ members'[g][i].profile = p
BY DEF rosters, CommittedPlaces

LEMMA RostersSame ==
    ASSUME \A g \in GroupIds : rosters'[g] = rosters[g]
    PROVE  rosters' = rosters
BY DEF rosters

\* Rows that stay where they are, each somebody's membership as before.
LEMMA RosterInPlace ==
    ASSUME NEW g \in GroupIds, Len(members'[g]) = Len(members[g]),
           \A i \in 1..Len(members[g]) :
              /\ members'[g][i].profile = members[g][i].profile
              /\ members'[g][i].by = Committed <=> members[g][i].by = Committed
    PROVE  rosters'[g] = rosters[g]
<1>1. ASSUME NEW p, p \in rosters[g]
      PROVE  p \in rosters'[g]
  <2>1. PICK i \in 1..Len(members[g]) :
          members[g][i].by = Committed /\ members[g][i].profile = p
    BY <1>1, RosterRows
  <2>2. QED BY <2>1, RosterRows
<1>2. ASSUME NEW p, p \in rosters'[g]
      PROVE  p \in rosters[g]
  <2>1. PICK i \in 1..Len(members[g]) :
          members'[g][i].by = Committed /\ members'[g][i].profile = p
    BY <1>2, RosterRows
  <2>2. QED BY <2>1, RosterRows
<1>3. QED BY <1>1, <1>2

\* Rows that are nobody's members yet come and go unseen.
LEMMA RosterLeftOut ==
    ASSUME TypeOK, NEW r \in Requests, NEW g \in GroupIds,
           LeftOut(members[g], members'[g], r)
    PROVE  rosters'[g] = rosters[g]
<1>1. Len(members[g]) \in Nat
  BY LenProperties DEF TypeOK
<1>2. CASE members'[g] = members[g]
  BY <1>2 DEF rosters, CommittedPlaces
<1>3. ASSUME NEW k \in 1..Len(members[g]), members[g][k].by = r,
             Len(members'[g]) = Len(members[g]) - 1,
             \A i \in 1..Len(members[g]) - 1 :
                members'[g][i] = members[g][IF i < k THEN i ELSE i + 1]
      PROVE  rosters'[g] = rosters[g]
  <2>1. ASSUME NEW p, p \in rosters[g]
        PROVE  p \in rosters'[g]
    <3>1. PICK i \in 1..Len(members[g]) :
            members[g][i].by = Committed /\ members[g][i].profile = p
      BY <2>1, RosterRows
    <3>2. i # k
      BY <1>3, <3>1, GroupsAssumption
    <3>3. CASE i < k
      <4>1. i \in 1..Len(members[g]) - 1 /\ members'[g][i] = members[g][i]
        BY <1>1, <1>3, <3>3
      <4>2. QED BY <1>3, <3>1, <4>1, RosterRows
    <3>4. CASE k < i
      <4>1. i - 1 \in 1..Len(members[g]) - 1 /\ ~(i - 1 < k) /\ i - 1 + 1 = i
        BY <1>1, <3>4
      <4>2. members'[g][i - 1] = members[g][i]
        BY <1>3, <4>1
      <4>3. QED BY <1>3, <3>1, <4>1, <4>2, RosterRows
    <3>5. QED BY <1>1, <3>2, <3>3, <3>4
  <2>2. ASSUME NEW p, p \in rosters'[g]
        PROVE  p \in rosters[g]
    <3>1. PICK i \in 1..Len(members[g]) - 1 :
            members'[g][i].by = Committed /\ members'[g][i].profile = p
      BY <1>3, <2>2, RosterRows
    <3>2. PICK j \in 1..Len(members[g]) : members'[g][i] = members[g][j]
      <4>1. (IF i < k THEN i ELSE i + 1) \in 1..Len(members[g])
        BY <1>1
      <4>2. QED BY <1>3, <4>1
    <3>3. members[g][j].by = Committed /\ members[g][j].profile = p
      BY <3>1, <3>2
    <3>4. QED BY <3>3, RosterRows
  <2>3. QED BY <2>1, <2>2
<1>4. QED BY <1>2, <1>3 DEF LeftOut

\* The row of an INSERT is not committed.
LEMMA RostersInsert ==
    ASSUME TypeOK, NEW r \in Requests, NEW w \in BOOLEAN, call[r] \in Call, Insert(r, w)
    PROVE  rosters' = rosters
<1>1. /\ Len(members'[call[r].group]) = Len(members[call[r].group]) + 1
      /\ \A i \in 1..Len(members[call[r].group]) :
            members'[call[r].group][i] = members[call[r].group][i]
      /\ members'[call[r].group][Len(members[call[r].group]) + 1] =
            [profile |-> call[r].profile, by |-> r, written |-> w]
      /\ \A h \in GroupIds \ {call[r].group} : members'[h] = members[h]
  BY InsertRows
<1>2. ASSUME NEW g \in GroupIds
      PROVE  rosters'[g] = rosters[g]
  <2>1. CASE g # call[r].group
    BY <1>1, <2>1 DEF rosters, CommittedPlaces
  <2>2. CASE g = call[r].group
    <3>1. Len(members[g]) \in Nat
      BY LenProperties DEF TypeOK
    <3>2. members'[g][Len(members[g]) + 1].by # Committed
      BY <1>1, <2>2, GroupsAssumption
    <3>3. ASSUME NEW p, p \in rosters[g]
          PROVE  p \in rosters'[g]
      <4>1. PICK i \in 1..Len(members[g]) :
              members[g][i].by = Committed /\ members[g][i].profile = p
        BY <3>3, RosterRows
      <4>2. i \in 1..Len(members'[g]) /\ members'[g][i] = members[g][i]
        BY <1>1, <2>2, <3>1
      <4>3. QED BY <4>1, <4>2, RosterRows
    <3>4. ASSUME NEW p, p \in rosters'[g]
          PROVE  p \in rosters[g]
      <4>1. PICK i \in 1..Len(members'[g]) :
              members'[g][i].by = Committed /\ members'[g][i].profile = p
        BY <3>4, RosterRows
      <4>2. i # Len(members[g]) + 1
        BY <3>2, <4>1
      <4>3. i \in 1..Len(members[g]) /\ members'[g][i] = members[g][i]
        BY <1>1, <2>2, <3>1, <4>2
      <4>4. QED BY <4>1, <4>3, RosterRows
    <3>5. QED BY <3>3, <3>4
  <2>3. QED BY <2>1, <2>2
<1>3. QED BY <1>2, RostersSame

LEMMA RostersIndexed ==
    ASSUME TypeOK, NEW r \in Requests, NEW g \in GroupIds,
           members' = [members EXCEPT ![g] = [i \in 1..Len(@) |-> Indexed(@[i], r)]]
    PROVE  rosters' = rosters
<1>1. /\ Len(members'[g]) = Len(members[g])
      /\ \A i \in 1..Len(members[g]) : members'[g][i] = Indexed(members[g][i], r)
      /\ \A h \in GroupIds \ {g} : members'[h] = members[h]
  BY IndexedRows
<1>2. \A i \in 1..Len(members[g]) : members[g][i] \in Member
  BY ElementOfSeq DEF TypeOK
<1>3. \A i \in 1..Len(members[g]) :
         /\ members'[g][i].by = members[g][i].by
         /\ members'[g][i].profile = members[g][i].profile
  BY <1>1, <1>2, IndexedRow
<1>4. ASSUME NEW h \in GroupIds
      PROVE  rosters'[h] = rosters[h]
  <2>1. CASE h # g
    BY <1>1, <2>1 DEF rosters, CommittedPlaces
  <2>2. CASE h = g
    <3>1. /\ Len(members'[h]) = Len(members[h])
          /\ \A i \in 1..Len(members[h]) :
                /\ members'[h][i].profile = members[h][i].profile
                /\ members'[h][i].by = Committed <=> members[h][i].by = Committed
      BY <1>1, <1>3, <2>2
    <3>2. QED BY <3>1, RosterInPlace
  <2>3. QED BY <2>1, <2>2
<1>5. QED BY <1>4, RostersSame

\* No step but a COMMIT shows in the rosters.
LEMMA RostersStay ==
    ASSUME TablesInv, NEW r \in Requests, Step(r) \/ Fail(r), ~Commit(r)
    PROVE  rosters' = rosters
<1>0. TypeOK
  BY DEF TablesInv
<1>1. CASE UNCHANGED members
  BY <1>1 DEF rosters, CommittedPlaces
<1>2. CASE Rollback(r)
  <2>1. \A g \in GroupIds : LeftOut(members[g], members'[g], r)
    BY <1>0, <1>2, RollbackRows
  <2>2. QED BY <1>0, <2>1, RosterLeftOut, RostersSame
<1>3. CASE Insert(r, TRUE) /\ call[r] \in Call
  BY <1>0, <1>3, RostersInsert
<1>4. CASE Insert(r, FALSE) /\ call[r] \in Call
  BY <1>0, <1>4, RostersInsert
<1>5. CASE /\ members' = [members EXCEPT ![call[r].group] =
                            [i \in 1..Len(@) |-> Indexed(@[i], r)]]
           /\ call[r].group \in GroupIds
  BY <1>0, <1>5, RostersIndexed
<1>6. CASE /\ members' = [members EXCEPT ![call[r].group] = Without(@, r)]
           /\ call[r].group \in GroupIds
  <2>1. /\ LeftOut(members[call[r].group], members'[call[r].group], r)
        /\ \A h \in GroupIds \ {call[r].group} : members'[h] = members[h]
    BY <1>0, <1>6, DropRows
  <2>2. rosters'[call[r].group] = rosters[call[r].group]
    BY <1>0, <1>6, <2>1, RosterLeftOut
  <2>3. \A h \in GroupIds \ {call[r].group} : rosters'[h] = rosters[h]
    BY <2>1 DEF rosters, CommittedPlaces
  <2>4. QED BY <2>2, <2>3, RostersSame
<1>7. QED BY <1>1, <1>2, <1>3, <1>4, <1>5, <1>6, MemberSteps

\* A COMMIT adds its caller to its group.
LEMMA RostersCommit ==
    ASSUME TablesInv, NEW r \in Requests, Commit(r)
    PROVE  /\ call[r].group \in GroupIds
           /\ rosters' = [rosters EXCEPT ![call[r].group] = @ \cup {call[r].profile}]
<1> DEFINE G == call[r].group
           P == call[r].profile
<1>1. /\ TypeOK /\ Busy(r) /\ G \in GroupIds /\ IsMember(r, G, P)
      /\ \A g \in GroupIds :
            /\ Len(members'[g]) = Len(members[g])
            /\ \A i \in 1..Len(members[g]) :
                  members[g][i] \in Member /\ members'[g][i] = Settled(members[g][i], r)
  <2>1. Busy(r) /\ stage[r] = "commit" /\ TypeOK /\ Publish(r)
    BY DEF Commit, Busy, TablesInv
  <2>2. \A g \in GroupIds : \A i \in 1..Len(members[g]) : members[g][i] \in Member
    BY <2>1, ElementOfSeq DEF TypeOK
  <2>3. G \in GroupIds /\ IsMember(r, G, P)
    BY <2>1, BusyCall DEF TablesInv, MemberInv
  <2>4. QED BY <2>1, <2>2, <2>3, PublishRows
<1>2. \A g \in GroupIds : \A i \in 1..Len(members[g]) :
         /\ members'[g][i].profile = members[g][i].profile
         /\ members'[g][i].by = IF members[g][i].by = r THEN Committed ELSE members[g][i].by
         /\ members[g][i].by = r => g = G /\ members[g][i].profile = P
  BY <1>1, SettledRow DEF TablesInv, RowInv
<1> HIDE DEF G, P
<1>3. ASSUME NEW g \in GroupIds, g # G
      PROVE  rosters'[g] = rosters[g]
  <2>1. \A i \in 1..Len(members[g]) : members[g][i].by # r
    BY <1>2, <1>3
  <2>2. \A i \in 1..Len(members[g]) :
           /\ members'[g][i].profile = members[g][i].profile
           /\ members'[g][i].by = Committed <=> members[g][i].by = Committed
    BY <1>2, <2>1
  <2>3. QED BY <1>1, <2>2, RosterInPlace
<1>4. rosters'[G] = rosters[G] \cup {P}
  <2>1. PICK k \in 1..Len(members[G]) :
          members[G][k].by \in {Committed, r} /\ members[G][k].profile = P
    BY <1>1 DEF IsMember, Sees
  <2>2. P \in rosters'[G]
    BY <1>1, <1>2, <2>1, RosterRows
  <2>3. \A p : p \in rosters[G] => p \in rosters'[G]
    BY <1>1, <1>2, RosterRows
  <2>4. \A p : p \in rosters'[G] => p \in rosters[G] \/ p = P
    BY <1>1, <1>2, RosterRows
  <2>5. QED BY <2>2, <2>3, <2>4
<1>5. DOMAIN rosters = GroupIds /\ DOMAIN rosters' = GroupIds
      /\ rosters' = [g \in GroupIds |-> rosters'[g]]
  BY DEF rosters
<1>6. rosters' = [rosters EXCEPT ![G] = @ \cup {P}]
  BY <1>1, <1>3, <1>4, <1>5
<1>7. QED BY <1>1, <1>6 DEF G, P

\* Whom a request reads: the members, and those its own row makes members.
LEMMA SeenMembers ==
    ASSUME NEW r \in Requests, NEW g \in GroupIds
    PROVE  \A p : p \in ToSet(MembersOf(r, g)) <=> IsMember(r, g, p)
BY DEF ToSet, MembersOf, IsMember

LEMMA SeenRoster ==
    ASSUME NEW r \in Requests, NEW g \in GroupIds, NEW p
    PROVE  /\ p \in rosters[g] => IsMember(r, g, p)
           /\ IsMember(r, g, p) =>
                 \/ p \in rosters[g]
                 \/ \E i \in 1..Len(members[g]) :
                       members[g][i].by = r /\ members[g][i].profile = p
<1>1. ASSUME p \in rosters[g]
      PROVE  IsMember(r, g, p)
  BY <1>1, RosterRows DEF IsMember, Sees
<1>2. ASSUME IsMember(r, g, p)
      PROVE  \/ p \in rosters[g]
             \/ \E i \in 1..Len(members[g]) :
                   members[g][i].by = r /\ members[g][i].profile = p
  <2>1. PICK i \in 1..Len(members[g]) :
          Sees(r, members[g][i]) /\ members[g][i].profile = p
    BY <1>2 DEF IsMember
  <2>2. CASE members[g][i].by = Committed
    BY <2>1, <2>2, RosterRows
  <2>3. CASE members[g][i].by = r
    BY <2>1, <2>3
  <2>4. QED BY <2>1, <2>2, <2>3 DEF Sees
<1>3. QED BY <1>1, <1>2

\* A request without rows sees the rosters, ...
LEMMA OutsiderReads ==
    ASSUME NEW r \in Requests, NEW g \in GroupIds,
           \A i \in 1..Len(members[g]) : members[g][i].by # r
    PROVE  /\ ToSet(MembersOf(r, g)) = rosters[g]
           /\ \A p : IsMember(r, g, p) <=> p \in rosters[g]
<1>1. \A p : IsMember(r, g, p) <=> p \in rosters[g]
  BY SeenRoster
<1>2. \A p : p \in ToSet(MembersOf(r, g)) <=> p \in rosters[g]
  BY <1>1, SeenMembers
<1>3. QED BY <1>1, <1>2

\* ... and one that is joining sees itself there too.
LEMMA JoinerReads ==
    ASSUME TablesInv, NEW r \in Requests, call[r].group \in GroupIds,
           IsMember(r, call[r].group, call[r].profile)
    PROVE  ToSet(MembersOf(r, call[r].group)) = rosters[call[r].group] \cup {call[r].profile}
<1> DEFINE G == call[r].group
           P == call[r].profile
<1>1. \A i \in 1..Len(members[G]) : members[G][i].by = r => members[G][i].profile = P
  BY DEF TablesInv, RowInv
<1>2. G \in GroupIds /\ IsMember(r, G, P)
  OBVIOUS
<1> HIDE DEF G, P
<1>3. ASSUME NEW p, p \in ToSet(MembersOf(r, G))
      PROVE  p \in rosters[G] \/ p = P
  <2>1. IsMember(r, G, p)
    BY <1>2, <1>3, SeenMembers
  <2>2. QED BY <1>1, <1>2, <2>1, SeenRoster
<1>4. ASSUME NEW p, p \in rosters[G] \/ p = P
      PROVE  p \in ToSet(MembersOf(r, G))
  <2>1. IsMember(r, G, p)
    BY <1>2, <1>4, SeenRoster
  <2>2. QED BY <1>2, <2>1, SeenMembers
<1>5. ToSet(MembersOf(r, G)) = rosters[G] \cup {P}
  BY <1>3, <1>4
<1>6. QED BY <1>5 DEF G, P

\* What is told follows what is in the reply.
LEMMA ToldSame ==
    ASSUME reply' = reply
    PROVE  told' = told
BY DEF told

LEMMA ToldCleared ==
    ASSUME TablesInv, NEW r \in Requests, NoReply(r)
    PROVE  told' = [told EXCEPT ![r] = Promise!Nothing]
<1>1. /\ \A q \in Requests \ {r} : reply'[q] = reply[q]
      /\ reply'[r] = << >>
  BY DEF NoReply, TablesInv, TypeOK
<1>2. \A q \in Requests \ {r} : told'[q] = told[q]
  BY <1>1 DEF told
<1>3. told'[r] = Promise!Nothing
  <2>1. DOMAIN reply'[r] = {}
    BY <1>1
  <2>2. told'[r] = [g \in DOMAIN reply'[r] |-> ToSet(reply'[r][g])]
    BY DEF told
  <2>3. QED BY <2>1, <2>2 DEF Promise!Nothing
<1>4. told' = [q \in Requests |-> told'[q]] /\ told = [q \in Requests |-> told[q]]
  BY DEF told
<1>5. QED BY <1>2, <1>3, <1>4

LEMMA ToldRead ==
    ASSUME TablesInv, NEW r \in Requests, NEW g \in GroupIds, ReadMembers(r, g)
    PROVE  told' = [told EXCEPT ![r] =
                      [h \in DOMAIN @ \cup {g} |->
                         IF h = g THEN ToSet(MembersOf(r, g)) ELSE @[h]]]
<1>1. /\ \A q \in Requests \ {r} : reply'[q] = reply[q]
      /\ reply'[r] = [h \in DOMAIN reply[r] \cup {g} |->
                        IF h = g THEN MembersOf(r, g) ELSE reply[r][h]]
  BY DEF ReadMembers, TablesInv, TypeOK
<1>2. \A q \in Requests \ {r} : told'[q] = told[q]
  BY <1>1 DEF told
<1>3. /\ told[r] = [h \in DOMAIN reply[r] |-> ToSet(reply[r][h])]
      /\ told'[r] = [h \in DOMAIN reply'[r] |-> ToSet(reply'[r][h])]
  BY DEF told
<1>4. DOMAIN told[r] = DOMAIN reply[r] /\ DOMAIN reply'[r] = DOMAIN reply[r] \cup {g}
  BY <1>1, <1>3
<1>5. \A h \in DOMAIN reply'[r] :
         ToSet(reply'[r][h]) = IF h = g THEN ToSet(MembersOf(r, g)) ELSE told[r][h]
  BY <1>1, <1>3, <1>4
<1>6. told'[r] = [h \in DOMAIN told[r] \cup {g} |->
                    IF h = g THEN ToSet(MembersOf(r, g)) ELSE told[r][h]]
  BY <1>3, <1>4, <1>5
<1>7. told' = [q \in Requests |-> told'[q]] /\ told = [q \in Requests |-> told[q]]
  BY DEF told
<1>8. QED BY <1>2, <1>6, <1>7

\* Which Lists are settled follows the stage.
LEMMA SettledMoves ==
    ASSUME TablesInv, NEW r \in Requests, NEW s, Goto(r, s)
    PROVE  settled' = IF s = "summaries" THEN settled \cup {r} ELSE settled \ {r}
BY DEF settled, Goto, TablesInv, TypeOK

\* An answer ends the call.
LEMMA AnswerEnds ==
    ASSUME TablesInv, NEW r \in Requests, NEW a, Answer(r, a)
    PROVE  Promise!End(r, a)
<1>1. settled' = settled \ {r}
  BY SettledMoves DEF Answer
<1>2. QED BY <1>1 DEF Answer, Promise!End

\* Nobody is in a group that is not committed.
LEMMA NobodyYet ==
    ASSUME TablesInv, NEW g \in GroupIds, groups[g] # Committed
    PROVE  rosters[g] = {}
<1>1. \A i \in 1..Len(members[g]) : members[g][i].by # Committed
  BY DEF TablesInv, RowInv
<1>2. \A p : p \notin rosters[g]
  BY <1>1, RosterRows
<1>3. QED BY <1>2

LEMMA SomebodyAlready ==
    ASSUME TablesInv, NEW g \in GroupIds, groups[g] = Committed
    PROVE  rosters[g] # {}
<1>1. PICK i \in CommittedPlaces(g) : TRUE
  BY DEF TablesInv, GroupHasMembers
<1>2. members[g][i].profile \in rosters[g]
  BY <1>1 DEF rosters
<1>3. QED BY <1>2

-----------------------------------------------------------------------------
(***************************************************************************)
(* The steps, one by one: a stutter, or a step of Rosters.                 *)
(***************************************************************************)

Kept == Promise!Next \/ UNCHANGED Promise!vars

LEMMA PromiseStep ==
    ASSUME NEW r \in Requests, call[r] # Idle,
           \/ \E a \in {"NotFound", "Error", "Failed"} : Promise!Refuse(r, a)
           \/ Promise!Foresee(r) \/ Promise!Enter(r) \/ Promise!Get(r)
           \/ Promise!Settle(r) \/ Promise!Listed(r)
           \/ \E g \in GroupIds : Promise!Show(r, g)
    PROVE  Kept
BY DEF Kept, Promise!Next

LEMMA Kept_Begin ==
    ASSUME GroupsInv, NEW r \in Requests, NEW c \in Call, Begin(r, c)
    PROVE  Kept
<1>1. TablesInv /\ call[r] = Idle /\ c.group \in GroupIds
  BY DEF GroupsInv, TablesInv, StageInv, Busy, Begin, Call
<1>2. rosters' = rosters
  BY DEF Begin, rosters, CommittedPlaces
<1>3. told' = [told EXCEPT ![r] = Promise!Nothing]
  BY <1>1, ToldCleared DEF Begin
<1>4. settled' = settled
  <2>1. FirstStage(c.op) # "summaries" /\ r \notin settled
    BY DEF FirstStage, Call, Begin, settled
  <2>2. settled' = settled \ {r}
    BY <1>1, <2>1, SettledMoves DEF Begin
  <2>3. QED BY <2>1, <2>2
<1>5. c.op = "Create" => rosters[c.group] = {}
  <2>1. c.op = "Create" => groups[c.group] # Committed
    BY GroupsAssumption DEF Begin, Unclaimed
  <2>2. QED BY <1>1, <2>1, NobodyYet
<1>6. Promise!Begin(r, c)
  BY <1>1, <1>2, <1>3, <1>4, <1>5 DEF Begin, Promise!Begin
<1>7. c \in Promise!Call
  BY DEF Call, Promise!Call
<1>8. QED BY <1>6, <1>7 DEF Kept, Promise!Next

\* A step between two statements of which nobody is told.
LEMMA Kept_Stutter ==
    ASSUME TablesInv, NEW r \in Requests, rosters' = rosters, NEW s, Goto(r, s),
           s # "summaries", stage[r] # "summaries", UNCHANGED <<call, todo, reply, answer>>
    PROVE  Kept
<1>1. r \notin settled
  BY DEF settled
<1>2. settled' = settled
  BY <1>1, SettledMoves
<1>3. told' = told
  BY ToldSame
<1>4. QED BY <1>2, <1>3 DEF Kept, Promise!vars

\* A refusal, with the truth of a NotFound.
LEMMA Kept_Refuse ==
    ASSUME TablesInv, NEW r \in Requests, NEW a \in {"NotFound", "Error", "Failed"}, Refuse(r, a),
           rosters' = rosters, Busy(r),
           a = "NotFound" =>
              \/ call[r].op = "Create" /\ call[r].profile \notin Registered
              \/ call[r].op = "Join" /\ rosters[call[r].group] = {}
              \/ call[r].op = "Get" /\ call[r].profile \notin rosters[call[r].group],
           a = "Error" => call[r].op = "Join" /\ call[r].profile \notin Registered
    PROVE  Kept
<1>1. Promise!End(r, a)
  BY AnswerEnds DEF Refuse
<1>2. told' = [told EXCEPT ![r] = Promise!Nothing]
  BY ToldCleared DEF Refuse
<1>3. Promise!Refuse(r, a)
  BY <1>1, <1>2 DEF Promise!Refuse, Promise!Roster
<1>4. call[r] # Idle
  BY DEF TablesInv, StageInv
<1>5. QED BY <1>3, <1>4, PromiseStep

LEMMA Kept_Create ==
    ASSUME TablesInv, NEW r \in Requests, Step(r), rosters' = rosters,
           CreateGroup(r) \/ CreateFindProfile(r) \/ CreateMember(r)
    PROVE  Kept
<1>1. CASE CreateGroup(r)
  BY <1>1, Kept_Stutter DEF CreateGroup
<1>2. CASE CreateFindProfile(r)
  <2>1. CASE Proceed(r, "creator")
    BY <1>2, <2>1, Kept_Stutter DEF CreateFindProfile, Proceed
  <2>2. CASE Refuse(r, "NotFound") /\ call[r].profile \notin Registered
    <3>1. Busy(r) /\ call[r].op = "Create"
      BY <1>2 DEF CreateFindProfile, Busy, TablesInv, StageInv
    <3>2. QED BY <2>2, <3>1, Kept_Refuse
  <2>3. QED BY <1>2, <2>1, <2>2 DEF CreateFindProfile
<1>3. CASE CreateMember(r)
  <2> DEFINE G == call[r].group
             P == call[r].profile
  <2>1. /\ stage[r] = "creator" /\ Busy(r) /\ call[r].op = "Create" /\ call[r] # Idle
        /\ reply' = [reply EXCEPT ![r] = [g \in {G} |-> <<P>>]] /\ Goto(r, "commit")
        /\ UNCHANGED <<call, todo, answer>>
    BY <1>3 DEF CreateMember, Busy, TablesInv, StageInv
  <2>2. G \in GroupIds
    BY <2>1, BusyCall
  <2>3. rosters[G] = {}
    <3>1. groups[G] = r
      BY <2>1 DEF TablesInv, GroupInv
    <3>2. QED BY <2>2, <3>1, NobodyYet, GroupsAssumption
  <2>4. settled' = settled
    BY <2>1, SettledMoves DEF settled
  <2>5. told' = [told EXCEPT ![r] = [g \in {G} |-> rosters[G] \cup {P}]]
    <3>1. /\ \A q \in Requests \ {r} : reply'[q] = reply[q]
          /\ reply'[r] = [g \in {G} |-> <<P>>]
      BY <2>1 DEF TablesInv, TypeOK
    <3>2. ToSet(<<P>>) = {P}
      BY DEF ToSet
    <3>3. told'[r] = [g \in {G} |-> {P}]
      <4>1. told'[r] = [g \in DOMAIN reply'[r] |-> ToSet(reply'[r][g])]
        BY DEF told
      <4>2. QED BY <3>1, <3>2, <4>1
    <3>4. \A q \in Requests \ {r} : told'[q] = told[q]
      BY <3>1 DEF told
    <3>5. told' = [q \in Requests |-> told'[q]] /\ told = [q \in Requests |-> told[q]]
      BY DEF told
    <3>6. QED BY <2>3, <3>3, <3>4, <3>5
  <2>6. Promise!Foresee(r)
    BY <2>1, <2>4, <2>5 DEF Promise!Foresee, Promise!Roster
  <2>7. QED BY <2>1, <2>6, PromiseStep
<1>4. QED BY <1>1, <1>2, <1>3

LEMMA Kept_Join ==
    ASSUME GroupsInv, NEW r \in Requests, Step(r), rosters' = rosters,
           \/ JoinFindGroup(r) \/ JoinFindMember(r) \/ JoinInsert(r) \/ JoinIndex(r)
           \/ JoinReadMembers(r)
    PROVE  Kept
<1>0. TablesInv
  BY DEF GroupsInv
<1>1. CASE JoinFindGroup(r)
  <2>1. CASE Proceed(r, "member")
    BY <1>0, <1>1, <2>1, Kept_Stutter DEF JoinFindGroup, Proceed
  <2>2. CASE Refuse(r, "NotFound") /\ ~GroupVisible(r, call[r].group)
    <3>1. Busy(r) /\ call[r].op = "Join"
      BY <1>0, <1>1 DEF JoinFindGroup, Busy, TablesInv, StageInv
    <3>2. rosters[call[r].group] = {}
      <4>1. call[r].group \in GroupIds
        BY <1>0, <3>1, BusyCall
      <4>2. QED BY <1>0, <2>2, <4>1, NobodyYet DEF GroupVisible
    <3>3. QED BY <1>0, <2>2, <3>1, <3>2, Kept_Refuse
  <2>3. QED BY <1>1, <2>1, <2>2 DEF JoinFindGroup
<1>2. CASE JoinFindMember(r)
  BY <1>0, <1>2, Kept_Stutter DEF JoinFindMember, Proceed
<1>3. CASE JoinInsert(r)
  BY <1>0, <1>3, Kept_Stutter DEF JoinInsert
<1>4. CASE JoinIndex(r)
  <2>1. CASE Refuse(r, "Error") /\ call[r].profile \notin Registered
    <3>1. Busy(r) /\ call[r].op = "Join"
      BY <1>0, <1>4 DEF JoinIndex, Busy, TablesInv, StageInv
    <3>2. QED BY <1>0, <2>1, <3>1, Kept_Refuse
  <2>2. CASE Goto(r, "members") /\ UNCHANGED <<call, todo, reply, answer>>
    BY <1>0, <1>4, <2>2, Kept_Stutter DEF JoinIndex
  <2>3. QED BY <1>4, <2>1, <2>2 DEF JoinIndex
<1>5. CASE JoinReadMembers(r)
  <2> DEFINE G == call[r].group
             P == call[r].profile
  <2>1. /\ stage[r] = "members" /\ Busy(r) /\ call[r].op = "Join" /\ call[r] # Idle
        /\ ReadMembers(r, G) /\ Goto(r, "commit")
        /\ UNCHANGED <<call, todo, answer>>
    BY <1>0, <1>5 DEF JoinReadMembers, Busy, TablesInv, StageInv
  <2>2. G \in GroupIds /\ IsMember(r, G, P)
    BY <1>0, <2>1, BusyCall DEF TablesInv, MemberInv
  <2>3. ToSet(MembersOf(r, G)) = rosters[G] \cup {P}
    BY <1>0, <2>2, JoinerReads
  <2>4. settled' = settled
    BY <1>0, <2>1, SettledMoves DEF settled
  <2>5. DOMAIN told[r] = {}
    <3>1. DOMAIN reply[r] = {}
      BY <2>1 DEF GroupsInv, ToldInv
    <3>2. QED BY <3>1 DEF told
  <2>6. told' = [told EXCEPT ![r] = [g \in {G} |-> rosters[G] \cup {P}]]
    <3>1. told' = [told EXCEPT ![r] =
                     [h \in DOMAIN @ \cup {G} |->
                        IF h = G THEN ToSet(MembersOf(r, G)) ELSE @[h]]]
      BY <1>0, <2>1, <2>2, ToldRead
    <3>2. [h \in DOMAIN told[r] \cup {G} |->
             IF h = G THEN ToSet(MembersOf(r, G)) ELSE told[r][h]]
          = [g \in {G} |-> rosters[G] \cup {P}]
      BY <2>3, <2>5
    <3>3. QED BY <3>1, <3>2
  <2>7. Promise!Foresee(r)
    BY <2>1, <2>4, <2>6 DEF Promise!Foresee, Promise!Roster
  <2>8. QED BY <2>1, <2>7, PromiseStep
<1>6. QED BY <1>1, <1>2, <1>3, <1>4, <1>5

LEMMA Kept_Get ==
    ASSUME GroupsInv, NEW r \in Requests, Step(r), rosters' = rosters,
           GetRequireMembership(r) \/ GetReadMembers(r)
    PROVE  Kept
<1>0. TablesInv /\ Busy(r)
  BY DEF GroupsInv, GetRequireMembership, GetReadMembers, Busy
<1>1. /\ call[r].group \in GroupIds /\ call[r].op = "Get" /\ call[r] # Idle
      /\ \A g \in GroupIds : \A i \in 1..Len(members[g]) : members[g][i].by # r
  <2>1. call[r].op = "Get" /\ call[r] # Idle
    BY <1>0 DEF TablesInv, StageInv, GetRequireMembership, GetReadMembers
  <2>2. QED BY <1>0, <2>1, BusyCall DEF TablesInv, RowInv
<1>2. /\ ToSet(MembersOf(r, call[r].group)) = rosters[call[r].group]
      /\ IsMember(r, call[r].group, call[r].profile) <=>
            call[r].profile \in rosters[call[r].group]
  BY <1>1, OutsiderReads
<1>3. CASE GetRequireMembership(r)
  <2>1. CASE Proceed(r, "members")
    BY <1>0, <1>3, <2>1, Kept_Stutter DEF GetRequireMembership, Proceed
  <2>2. CASE Refuse(r, "NotFound") /\ ~IsMember(r, call[r].group, call[r].profile)
    BY <1>0, <1>1, <1>2, <2>2, Kept_Refuse
  <2>3. QED BY <1>3, <2>1, <2>2 DEF GetRequireMembership
<1>4. CASE GetReadMembers(r)
  <2> DEFINE G == call[r].group
  <2>1. stage[r] = "members" /\ ReadMembers(r, G) /\ Answer(r, "OK")
    BY <1>4 DEF GetReadMembers
  <2>2. IsMember(r, G, call[r].profile)
    BY <1>0, <2>1 DEF TablesInv, MemberInv
  <2>3. Promise!End(r, "OK")
    BY <1>0, <2>1, AnswerEnds
  <2>4. DOMAIN told[r] = {}
    <3>1. DOMAIN reply[r] = {}
      BY <1>0, <2>1 DEF GroupsInv, ToldInv
    <3>2. QED BY <3>1 DEF told
  <2>5. told' = [told EXCEPT ![r] = [g \in {G} |-> rosters[G]]]
    <3>1. told' = [told EXCEPT ![r] =
                     [h \in DOMAIN @ \cup {G} |->
                        IF h = G THEN ToSet(MembersOf(r, G)) ELSE @[h]]]
      BY <1>0, <1>1, <2>1, ToldRead
    <3>2. [h \in DOMAIN told[r] \cup {G} |->
             IF h = G THEN ToSet(MembersOf(r, G)) ELSE told[r][h]]
          = [g \in {G} |-> rosters[G]]
      BY <1>2, <2>4
    <3>3. QED BY <3>1, <3>2
  <2>6. Promise!Get(r)
    BY <1>1, <1>2, <2>2, <2>3, <2>5 DEF Promise!Get, Promise!Roster
  <2>7. QED BY <1>1, <2>6, PromiseStep
<1>5. QED BY <1>3, <1>4

LEMMA Kept_List ==
    ASSUME GroupsInv, NEW r \in Requests, Step(r), rosters' = rosters,
           ListMemberships(r) \/ ListSummary(r)
    PROVE  Kept
<1>0. TablesInv /\ Busy(r)
  BY DEF GroupsInv, ListMemberships, ListSummary, Busy
<1>1. /\ call[r].op = "List" /\ call[r] # Idle
      /\ \A g \in GroupIds : \A i \in 1..Len(members[g]) : members[g][i].by # r
  <2>1. call[r].op = "List" /\ call[r] # Idle
    BY <1>0 DEF TablesInv, StageInv, ListMemberships, ListSummary
  <2>2. QED BY <1>0, <2>1 DEF TablesInv, RowInv
<1>2. \A g \in GroupIds :
         /\ ToSet(MembersOf(r, g)) = rosters[g]
         /\ \A p : IsMember(r, g, p) <=> p \in rosters[g]
  BY <1>1, OutsiderReads
<1>3. CASE ListMemberships(r)
  <2>1. r \notin settled
    BY <1>3 DEF ListMemberships, settled
  <2>2. settled' = settled \cup {r}
    BY <1>0, <1>3, SettledMoves DEF ListMemberships
  <2>3. told' = told
    BY <1>3, ToldSame DEF ListMemberships
  <2>4. {g \in GroupIds : IsMember(r, g, call[r].profile)}
           = {g \in GroupIds : call[r].profile \in rosters[g]}
    BY <1>2
  <2>5. todo' = [todo EXCEPT ![r] = {g \in GroupIds : call[r].profile \in rosters[g]}]
    BY <1>3, <2>4 DEF ListMemberships
  <2>6. Promise!Settle(r)
    BY <1>1, <1>3, <2>1, <2>2, <2>3, <2>5 DEF ListMemberships, Promise!Settle
  <2>7. QED BY <1>1, <2>6, PromiseStep
<1>4. CASE ListSummary(r)
  <2>1. r \in settled
    BY <1>4 DEF ListSummary, settled
  <2>2. ASSUME NEW g \in todo[r], ReadMembers(r, g),
               todo' = [todo EXCEPT ![r] = @ \ {g}], UNCHANGED <<stage, call, answer>>
        PROVE  Kept
    <3>1. g \in GroupIds
      BY <1>0 DEF TablesInv, TypeOK
    <3>2. settled' = settled
      BY <2>2 DEF settled
    <3>3. told' = [told EXCEPT ![r] =
                     [h \in DOMAIN @ \cup {g} |-> IF h = g THEN rosters[g] ELSE @[h]]]
      <4>1. ToSet(MembersOf(r, g)) = rosters[g]
        BY <1>2, <3>1
      <4>2. told' = [told EXCEPT ![r] =
                       [h \in DOMAIN @ \cup {g} |->
                          IF h = g THEN ToSet(MembersOf(r, g)) ELSE @[h]]]
        BY <1>0, <2>2, <3>1, ToldRead
      <4>3. QED BY ONLY <4>1, <4>2
    <3>4. Promise!Show(r, g)
      BY <2>1, <2>2, <3>2, <3>3 DEF Promise!Show
    <3>5. QED BY <1>1, <3>1, <3>4, PromiseStep
  <2>3. ASSUME todo[r] = {}, Answer(r, "OK"), reply' = reply
        PROVE  Kept
    <3>1. Promise!End(r, "OK") /\ told' = told
      BY <1>0, <2>3, AnswerEnds, ToldSame
    <3>2. Promise!Listed(r)
      BY <2>1, <2>3, <3>1 DEF Promise!Listed
    <3>3. QED BY <1>1, <3>2, PromiseStep
  <2>4. QED BY <1>4, <2>2, <2>3 DEF ListSummary
<1>5. QED BY <1>3, <1>4

LEMMA Kept_Commit ==
    ASSUME GroupsInv, NEW r \in Requests, Commit(r)
    PROVE  Kept
<1> DEFINE G == call[r].group
           P == call[r].profile
<1>0. TablesInv /\ Busy(r) /\ stage[r] = "commit"
  BY DEF GroupsInv, Commit, Busy
<1>1. /\ G \in GroupIds /\ call[r] # Idle /\ call[r].op \in {"Create", "Join"}
      /\ groups[G] \in {Committed, r} /\ IsMember(r, G, P)
  BY <1>0, BusyCall DEF TablesInv, StageInv, GroupInv, MemberInv
<1>2. call[r].op = IF rosters[G] = {} THEN "Create" ELSE "Join"
  <2>1. CASE call[r].op = "Create"
    <3>1. groups[G] = r
      BY <1>0, <2>1 DEF TablesInv, GroupInv
    <3>2. rosters[G] = {}
      BY <1>0, <1>1, <3>1, NobodyYet, GroupsAssumption
    <3>3. QED BY <2>1, <3>2
  <2>2. CASE call[r].op = "Join"
    <3>1. groups[G] = Committed
      BY <1>0, <1>1, <2>2 DEF TablesInv, GroupInv
    <3>2. rosters[G] # {}
      BY <1>0, <1>1, <3>1, SomebodyAlready
    <3>3. QED BY <2>2, <3>2
  <2>3. QED BY <1>1, <2>1, <2>2
<1>3. P \in Registered
  <2>1. PICK i \in 1..Len(members[G]) :
          Sees(r, members[G][i]) /\ members[G][i].profile = P
    BY <1>1 DEF IsMember
  <2>2. members[G][i].written
    BY <1>0, <1>1, <2>1 DEF Sees, TablesInv, RowInv
  <2>3. QED BY <1>1, <2>1, <2>2 DEF GroupsInv, RegisteredInv
<1>4. DOMAIN told[r] = {G}
  <2>1. DOMAIN reply[r] = {G}
    BY <1>0 DEF GroupsInv, ToldInv
  <2>2. QED BY <2>1 DEF told
<1>5. rosters' = [rosters EXCEPT ![G] = @ \cup {P}]
  BY <1>0, RostersCommit
<1>6. CASE Answer(r, "OK") /\ UNCHANGED reply
  <2>1. Promise!End(r, "OK") /\ told' = told
    BY <1>0, <1>6, AnswerEnds, ToldSame
  <2>2. Promise!Enter(r)
    BY <1>2, <1>3, <1>4, <1>5, <2>1 DEF Promise!Enter, Promise!Roster
  <2>3. QED BY <1>1, <2>2, PromiseStep
<1>7. CASE Answer(r, "Failed") /\ NoReply(r)
  <2>1. Promise!End(r, "Failed") /\ told' = [told EXCEPT ![r] = Promise!Nothing]
    BY <1>0, <1>7, AnswerEnds, ToldCleared
  <2>2. Promise!Enter(r)
    BY <1>2, <1>3, <1>4, <1>5, <2>1 DEF Promise!Enter, Promise!Roster
  <2>3. QED BY <1>1, <2>2, PromiseStep
<1>8. QED BY <1>6, <1>7 DEF Commit

LEMMA Kept_Next ==
    ASSUME GroupsInv, [Next]_vars
    PROVE  Kept
<1>1. ASSUME NEW r \in Requests, Step(r)
      PROVE  Kept
  <2>1. TablesInv
    BY DEF GroupsInv
  <2>2. CASE Commit(r)
    BY <2>2, Kept_Commit
  <2>3. CASE ~Commit(r)
    <3>1. rosters' = rosters
      BY <1>1, <2>1, <2>3, RostersStay
    <3>2. QED BY <1>1, <2>1, <2>3, <3>1, Kept_Create, Kept_Join, Kept_Get, Kept_List DEF Step
  <2>4. QED BY <2>2, <2>3
<1>2. ASSUME NEW r \in Requests, Fail(r)
      PROVE  Kept
  <2>1. TablesInv /\ Refuse(r, "Failed") /\ Busy(r)
    BY <1>2 DEF GroupsInv, Fail
  <2>2. rosters' = rosters
    <3>1. \A g \in GroupIds : LeftOut(members[g], members'[g], r)
      BY <2>1, RollbackRows DEF Refuse, TablesInv
    <3>2. QED BY <2>1, <3>1, RosterLeftOut, RostersSame DEF TablesInv
  <2>3. QED BY <2>1, <2>2, Kept_Refuse
<1>3. CASE UNCHANGED vars
  BY <1>3 DEF vars, Kept, Promise!vars, rosters, settled, told, CommittedPlaces
<1>4. QED BY <1>1, <1>2, <1>3, Kept_Begin DEF Next

\* The group service keeps its contract, for any numbers of requests, profiles
\* and groups: a Create or a Join takes effect at its COMMIT or not at all, and
\* every request is told what was so while it ran.
THEOREM RostersHold == Spec => RosterSpec
<1>1. Init => Promise!Init
  <2> SUFFICES ASSUME Init
               PROVE  Promise!Init
    OBVIOUS
  <2>1. rosters = [g \in GroupIds |-> {}]
    <3>1. \A g \in GroupIds : rosters[g] = {}
      BY DEF Init, rosters, CommittedPlaces
    <3>2. QED BY <3>1 DEF rosters
  <2>2. settled = {}
    BY DEF Init, settled
  <2>3. told = [r \in Requests |-> Promise!Nothing]
    <3>1. \A r \in Requests : told[r] = Promise!Nothing
      BY DEF Init, told, Promise!Nothing
    <3>2. QED BY <3>1 DEF told
  <2>4. QED BY <2>1, <2>2, <2>3 DEF Init, Promise!Init
<1>2. GroupsInv /\ [Next]_vars => [Promise!Next]_(Promise!vars)
  BY Kept_Next DEF Kept
<1>3. QED BY <1>1, <1>2, GroupsHold, PTL DEF Spec, RosterSpec, Promise!Spec
-----------------------------------------------------------------------------
\* No Join waits for a Join that waits: what makes one wait has been written,
\* and its transaction has only its reply to read before it commits.
THEOREM GroupsNoWaitsInTurn == Spec => []NoWaitsInTurn
<1>1. ASSUME GroupsInv
      PROVE  NoWaitsInTurn
  <2> SUFFICES ASSUME NEW r \in Requests, NEW q \in Requests, NEW s \in Requests,
                      WaitsFor(r, q), WaitsFor(q, s)
               PROVE  FALSE
    BY DEF NoWaitsInTurn
  <2>1. stage[r] = "index" /\ stage[q] = "index"
    BY DEF WaitsFor
  <2>2. call[r].group \in GroupIds /\ TablesInv
    BY <1>1, <2>1, BusyCall DEF GroupsInv, Busy
  <2>3. PICK i \in 1..Len(members[call[r].group]) :
          members[call[r].group][i].by = q /\ members[call[r].group][i].written
    <3>1. members[call[r].group] \in Seq(Member)
      BY <2>2 DEF TablesInv, TypeOK
    <3>2. QED BY <3>1 DEF WaitsFor, Rivals, ToSet
  <2>4. stage[q] # "index"
    BY <2>2, <2>3 DEF TablesInv, RowInv
  <2>5. QED BY <2>1, <2>4
<1>2. GroupsInv => NoWaitsInTurn
  BY <1>1
<1>3. QED BY <1>2, GroupsHold, PTL
=============================================================================
