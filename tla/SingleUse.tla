---- MODULE SingleUse ----
(***************************************************************************)
(* What a state store promises the OAuth callback: a state that was handed *)
(* out buys one login, once, while it lives.  A caller is told it is       *)
(* invalid only if it is not live or someone else is redeeming it.         *)
(***************************************************************************)

CONSTANTS
    States,   \* OAuth states: random, each handed out once
    Callers,  \* callbacks in flight
    Nothing   \* a caller that asks for nothing

VARIABLES
    status,  \* [States -> new, live, spent or gone]
    asking,  \* [Callers -> the state it presents, or Nothing]
    answer   \* [Callers -> the last answer]

vars == <<status, asking, answer>>

Init ==
    /\ status = [s \in States |-> "new"]
    /\ asking = [c \in Callers |-> Nothing]
    /\ answer = [c \in Callers |-> "None"]

Store(s) ==
    /\ status[s] = "new"
    /\ status' = [status EXCEPT ![s] = "live"]
    /\ UNCHANGED <<asking, answer>>

\* Some live states are no longer good.
Fade ==
    \E gone \in SUBSET {s \in States : status[s] = "live"} :
       status' = [s \in States |-> IF s \in gone THEN "gone" ELSE status[s]]

\* States expire.
Lapse ==
    /\ Fade
    /\ UNCHANGED <<asking, answer>>

Ask(c, s) ==
    /\ asking[c] = Nothing
    /\ asking' = [asking EXCEPT ![c] = s]
    /\ answer' = [answer EXCEPT ![c] = "None"]
    /\ UNCHANGED status

Answer(c, a) ==
    /\ asking' = [asking EXCEPT ![c] = Nothing]
    /\ answer' = [answer EXCEPT ![c] = a]

\* The login.  Its answer may be lost, the state is spent all the same.
Redeem(c) ==
    /\ status[asking[c]] = "live"
    /\ status' = [status EXCEPT ![asking[c]] = "spent"]
    /\ \E a \in {"OK", "Error"} : Answer(c, a)

Refuse(c) ==
    /\ \/ status[asking[c]] # "live"
       \/ \E d \in Callers \ {c} : asking[d] = asking[c]
    /\ Answer(c, "Invalid")
    /\ UNCHANGED status

Break(c) == Answer(c, "Error") /\ UNCHANGED status

\* The process restarts: what it held in memory is gone, so are its callers.
Restart ==
    /\ Fade
    /\ asking' = [c \in Callers |-> Nothing]
    /\ answer' = [c \in Callers |-> IF asking[c] = Nothing THEN answer[c] ELSE "Error"]

Next ==
    \/ Lapse
    \/ \E s \in States : Store(s) \/ \E c \in Callers : Ask(c, s)
    \/ \E c \in Callers :
          /\ asking[c] # Nothing
          /\ Redeem(c) \/ Refuse(c) \/ Break(c)
    \/ Restart

Spec == Init /\ [][Next]_vars

====
