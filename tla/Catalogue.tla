---- MODULE Catalogue ----
(***************************************************************************)
(* What content search promises: a search brings all the titles it found   *)
(* into the catalogue at once or none of them, it answers with exactly the *)
(* rows that then stand for them, in the order it found them, and a title  *)
(* keeps its row for ever.  No transactions, no locks, no victims.         *)
(***************************************************************************)
EXTENDS Naturals, Sequences

CONSTANT Searches

VARIABLES
    rows,    \* the catalogue: [id, key, title]
    busy,    \* [Searches -> BOOLEAN]: TMDB has answered, the request has not
    batch,   \* [Searches -> the titles TMDB has answered with]
    reply    \* the last answer of any: whose it is, what it says, its rows

vars == <<rows, busy, batch, reply>>

KeysIn(s) == {s[n].key : n \in DOMAIN s}

\* A title has one row, and a row one title.
OneRowPerKey(t) ==
    \A a, b \in t : a.key = b.key \/ a.id = b.id => a = b

Init ==
    /\ rows = {}
    /\ busy = [r \in Searches |-> FALSE]
    /\ batch = [r \in Searches |-> << >>]
    /\ reply = [to |-> {}, answer |-> "None", rows |-> << >>]

\* TMDB answers; the catalogue does not say with what.
Begin(r) ==
    /\ ~busy[r]
    /\ busy' = [busy EXCEPT ![r] = TRUE]
    /\ batch' = [batch EXCEPT ![r] = batch'[r]]
    /\ UNCHANGED <<rows, reply>>

End(r, a, s) ==
    /\ busy' = [busy EXCEPT ![r] = FALSE]
    /\ batch' = [batch EXCEPT ![r] = << >>]
    /\ reply' = [to |-> {r}, answer |-> a, rows |-> s]

\* Everything in the batch is there under its latest title, nothing else has
\* changed, and no row has lost its id.
Upserted(s) ==
    /\ OneRowPerKey(rows')
    /\ \A n \in DOMAIN s : \E new \in rows' : new.key = s[n].key /\ new.title = s[n].title
    /\ \A new \in rows' : new.key \in KeysIn(s) \/ new \in rows
    /\ \A old \in rows : \E new \in rows' :
          /\ new.id = old.id /\ new.key = old.key
          /\ old.key \in KeysIn(s) \/ new = old

Search(r) ==
    /\ Upserted(batch[r])
    /\ \/ /\ End(r, "OK", reply'.rows)
          /\ DOMAIN reply'.rows = DOMAIN batch[r]
          /\ \A n \in DOMAIN batch[r] :
                reply'.rows[n] \in rows' /\ reply'.rows[n].key = batch[r][n].key
       \/ End(r, "Error", << >>)    \* done, but its answer is lost

Refuse(r) == End(r, "Error", << >>) /\ UNCHANGED rows

Next ==
    \E r \in Searches :
       \/ Begin(r)
       \/ busy[r] /\ Search(r)
       \/ Refuse(r)

Spec == Init /\ [][Next]_vars

====
