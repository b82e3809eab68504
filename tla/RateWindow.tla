---- MODULE RateWindow ----
(***************************************************************************)
(* What ValueLimiter means to the owner of a mailbox: someone starts       *)
(* counting the events let through at any moment and looks at the counts   *)
(* for up to Window ticks, whatever entries are forgotten meanwhile.  The  *)
(* counters observe; they decide nothing.                                  *)
(***************************************************************************)
EXTENDS ValueLimiter

CONSTANT Window  \* how long an observer counts

ASSUME WindowAssumption == Window \in Nat

VARIABLES
    elapsed,  \* ticks since the observer started to count
    granted   \* [Values -> events let through since then]

observer == <<elapsed, granted>>
wvars == <<vars, observer>>

StartOver == elapsed' = 0 /\ granted' = [v \in Values |-> 0]

WInit == Init /\ elapsed = 0 /\ granted = [v \in Values |-> 0]

WTick ==
    /\ Tick
    /\ \/ elapsed < Window /\ elapsed' = elapsed + 1 /\ UNCHANGED granted
       \/ elapsed = Window /\ StartOver

WAllow(v) ==
    /\ Allow(v)
    /\ granted' = [granted EXCEPT ![v] =
                     IF verdict' = {[value |-> v, answer |-> "allow"]} THEN @ + 1 ELSE @]
    /\ UNCHANGED elapsed

WSweep == Sweep /\ UNCHANGED observer
WStop == Stop /\ UNCHANGED observer
WReturn == Return /\ UNCHANGED observer

Reset == StartOver /\ UNCHANGED vars

WNext ==
    \/ WTick
    \/ \E v \in Values : WAllow(v)
    \/ WSweep \/ WStop \/ WReturn
    \/ Reset

WSpec == WInit /\ [][WNext]_wvars

\* FairSpec, with somebody looking on.
FairWSpec == WSpec /\ WF_wvars(WTick) /\ WF_wvars(WSweep) /\ WF_wvars(WReturn)

-----------------------------------------------------------------------------
\* Properties

\* What was let through since and what is left were either there when the
\* observer started or earned after.
Ledger == \A v \in Values : granted[v] * Cost + Level(v) <= Full + elapsed

\* With the limiter's invariant and the types it is inductive.
LedgerInv ==
    /\ LimiterInv
    /\ elapsed \in 0..Window /\ granted \in [Values -> Nat]
    /\ Ledger

\* Whenever one starts to look, and for however long, no address is sent more
\* than the burst plus what the rate earns in that time, even when its entry is
\* forgotten and made anew.
RateBounded == \A v \in Values : granted[v] * Cost <= Full + elapsed

=============================================================================
