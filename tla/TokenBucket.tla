---- MODULE TokenBucket ----
(***************************************************************************)
(* What a per-value rate limiter promises: each value has one bucket of    *)
(* Burst tokens that is never forgotten.  Levels are counted in ticks: a   *)
(* tick earns one unit, a token costs Cost units.                          *)
(***************************************************************************)
EXTENDS Naturals

CONSTANTS
    Values,  \* rate keys: e-mail addresses
    Cost,    \* ticks it takes to earn one token
    Burst    \* tokens a full bucket holds

VARIABLES
    level,    \* [Values -> units in the bucket now]
    verdict   \* the last decision: a value and whether it was let through

vars == <<level, verdict>>

Full == Burst * Cost

Lesser(a, b) == IF a < b THEN a ELSE b

Init ==
    /\ level = [v \in Values |-> Full]
    /\ verdict = {}

Tick ==
    /\ level' = [v \in Values |-> Lesser(level[v] + 1, Full)]
    /\ UNCHANGED verdict

Allow(v) ==
    LET allowed == level[v] >= Cost IN
    /\ level' = [level EXCEPT ![v] = IF allowed THEN @ - Cost ELSE @]
    /\ verdict' = {[value |-> v, answer |-> IF allowed THEN "allow" ELSE "refuse"]}

Next == Tick \/ \E v \in Values : Allow(v)

Spec == Init /\ [][Next]_vars

=============================================================================
