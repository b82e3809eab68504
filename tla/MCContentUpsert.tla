---- MODULE MCContentUpsert ----
(***************************************************************************)
(* ContentUpsert for TLC: a film, a show of the same number and another    *)
(* film, in pages that overlap, contradict each other in pairs and in a    *)
(* circle of three, name a title twice, or hold a person and an item that  *)
(* does not decode.  The film has been renamed between two pages.          *)
(***************************************************************************)
EXTENDS ContentUpsert

Film(title) == [decodes |-> TRUE, id |-> 1, media |-> "movie", title |-> title, name |-> "-"]
Show == [decodes |-> TRUE, id |-> 1, media |-> "tv", title |-> "-", name |-> "show"]
Sequel == [decodes |-> TRUE, id |-> 2, media |-> "movie", title |-> "sequel", name |-> "-"]
Actor == [decodes |-> TRUE, id |-> 3, media |-> "person", title |-> "-", name |-> "actor"]
Garbage == [decodes |-> FALSE, id |-> 4, media |-> "movie", title |-> "-", name |-> "-"]

Pages ==
    {<<Film("old"), Actor, Show>>, <<Show, Garbage, Sequel>>, <<Sequel, Film("new")>>,
     <<Show, Film("new"), Show>>, <<Actor>>}

\* uuids never repeat, so each may as well name the title it is made for.
TwoIds(k) == {k} \X {1, 2}
====
