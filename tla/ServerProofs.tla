---- MODULE ServerProofs ----
(***************************************************************************)
(* What a server process keeps to itself.                                  *)
(*                                                                         *)
(* Theorems about ValueLimiter, the TokenBucket it implements and what     *)
(* RateWindow sees of it, for any set of keys, any limit and burst, any    *)
(* window and any TTL that lets an empty bucket fill up; about Sessions,   *)
(* for any number of sessions and requests, any expiry, any request        *)
(* timeout and any horizon; and about Lifecycle, whatever is enabled and   *)
(* wherever it fails.                                                      *)
(***************************************************************************)
EXTENDS RateWindow, Sessions, Lifecycle, TLAPS

-----------------------------------------------------------------------------
\* What is to be released

\* One list after another, when what comes later neither repeats nor uses what
\* came before.
LEMMA Catenation ==
    ASSUME NEW s \in Seq(Resources), NEW t \in Seq(Resources), Orderly(s), Orderly(t),
           ToSet(s) \cap ToSet(t) = {},
           \A a \in ToSet(s), b \in ToSet(t) : ~Uses(b, a)
    PROVE  /\ s \o t \in Seq(Resources)
           /\ ToSet(s \o t) = ToSet(s) \cup ToSet(t)
           /\ Orderly(s \o t)
  <1> DEFINE u == s \o t
  <1>1. u \in Seq(Resources)
    OBVIOUS
  <1>2. /\ Len(s) \in Nat /\ Len(t) \in Nat /\ DOMAIN u = 1..(Len(s) + Len(t))
        /\ DOMAIN s = 1..Len(s) /\ DOMAIN t = 1..Len(t)
        /\ \A i \in DOMAIN s : u[i] = s[i]
        /\ \A i \in DOMAIN t : u[Len(s) + i] = t[i]
    OBVIOUS
  <1> HIDE DEF u
  <1>3. \A i \in DOMAIN u :
           \/ i \in DOMAIN s /\ u[i] = s[i]
           \/ i > Len(s) /\ i - Len(s) \in DOMAIN t /\ u[i] = t[i - Len(s)]
    BY <1>2
  <1>4. ToSet(u) = ToSet(s) \cup ToSet(t)
    <2>1. ToSet(u) \subseteq ToSet(s) \cup ToSet(t)
      BY <1>3 DEF ToSet
    <2>2. ToSet(s) \subseteq ToSet(u)
      BY <1>2 DEF ToSet
    <2>3. ToSet(t) \subseteq ToSet(u)
      <3>1. \A i \in DOMAIN t : Len(s) + i \in DOMAIN u
        BY <1>2
      <3> QED  BY <1>2, <3>1 DEF ToSet
    <2> QED  BY <2>1, <2>2, <2>3
  <1>5. Orderly(u)
    <2>1. SUFFICES ASSUME NEW i \in DOMAIN u, NEW j \in DOMAIN u, i < j
                   PROVE  u[i] # u[j] /\ ~Uses(u[j], u[i])
      BY DEF Orderly
    <2>2. CASE i \in DOMAIN s /\ j \in DOMAIN s
      BY <1>2, <2>1, <2>2 DEF Orderly
    <2>3. CASE i \in DOMAIN s /\ j \notin DOMAIN s
      <3>1. u[i] \in ToSet(s) /\ u[j] \in ToSet(t)
        BY <1>2, <1>3, <2>3 DEF ToSet
      <3> QED  BY <3>1
    <2>4. CASE i \notin DOMAIN s
      <3>1. /\ i - Len(s) \in DOMAIN t /\ u[i] = t[i - Len(s)]
            /\ j - Len(s) \in DOMAIN t /\ u[j] = t[j - Len(s)]
            /\ i - Len(s) < j - Len(s)
        BY <1>2, <1>3, <2>1, <2>4
      <3> QED  BY <3>1 DEF Orderly
    <2> QED  BY <2>2, <2>3, <2>4
  <1> QED  BY <1>1, <1>4, <1>5 DEF u

\* The lists written in the code.
LEMMA Written ==
    /\ <<>> \in Seq(Resources) /\ Orderly(<<>>) /\ ToSet(<<>>) = {}
    /\ \A a \in Resources :
          <<a>> \in Seq(Resources) /\ Orderly(<<a>>) /\ ToSet(<<a>>) = {a}
    /\ LET l == <<"nats", "pool">>
       IN  l \in Seq(Resources) /\ Orderly(l) /\ ToSet(l) = {"nats", "pool"}
    /\ LET l == <<"pool", "state", "nats">>
       IN  l \in Seq(Resources) /\ Orderly(l) /\ ToSet(l) = {"pool", "state", "nats"}
    /\ LET l == ProvidersShutdown
       IN  l \in Seq(Resources) /\ Orderly(l) /\ ToSet(l) = {"cache", "state", "nats", "pool"}
  <1>c. ToSet(Components) = {"metrics", "logs", "traces"}
    BY DEF ToSet, Components
  <1>r. Resources = {"metrics", "logs", "traces", "pool", "nats", "state", "cache", "limiter"}
    BY <1>c DEF Resources
  <1>1. <<>> \in Seq(Resources) /\ Orderly(<<>>) /\ ToSet(<<>>) = {}
    BY DEF Orderly, ToSet
  <1>2. ASSUME NEW a \in Resources
        PROVE  <<a>> \in Seq(Resources) /\ Orderly(<<a>>) /\ ToSet(<<a>>) = {a}
    BY DEF Orderly, ToSet
  <1>3. LET l == <<"nats", "pool">>
        IN  l \in Seq(Resources) /\ Orderly(l) /\ ToSet(l) = {"nats", "pool"}
    BY <1>c, <1>r DEF Orderly, Uses, ToSet
  <1>4. LET l == <<"pool", "state", "nats">>
        IN  l \in Seq(Resources) /\ Orderly(l) /\ ToSet(l) = {"pool", "state", "nats"}
    BY <1>c, <1>r DEF Orderly, Uses, ToSet
  <1>5. LET l == ProvidersShutdown
        IN  l \in Seq(Resources) /\ Orderly(l) /\ ToSet(l) = {"cache", "state", "nats", "pool"}
    BY <1>c, <1>r DEF Orderly, Uses, ToSet, ProvidersShutdown
  <1> QED  BY <1>1, <1>2, <1>3, <1>4, <1>5

-----------------------------------------------------------------------------
\* The invariant, step by step

LEMMA ResourceNames ==
    /\ ToSet(Components) = {"metrics", "logs", "traces"}
    /\ Resources = {"metrics", "logs", "traces", "pool", "nats", "state", "cache", "limiter"}
  <1>c. ToSet(Components) = {"metrics", "logs", "traces"}
    BY DEF ToSet, Components
  <1> QED  BY <1>c DEF Resources

LEMMA LifecycleStarts == LInit => LifecycleInv
  <1> SUFFICES ASSUME LInit  PROVE LifecycleInv
    OBVIOUS
  <1>1. LTypeOK
    BY DEF LInit, LTypeOK, Points
  <1>2. WayUpInv
    BY DEF LInit, WayUpInv, Opened, Orderly, ToSet
  <1>3. WayOutInv
    BY DEF LInit, WayOutInv
  <1> QED  BY <1>1, <1>2, <1>3 DEF LifecycleInv

\* A step done on the way up: the next one may count on what it has opened.
LEMMA ProceedKeeps ==
    ASSUME LifecycleInv, NEW opened, NEW next, Proceed(opened, next),
           pc \notin {"unwind", "exit"}, next \in Points,
           next \notin {"unwind", "exit", "serve", "migrate"}, pc \notin {"serve", "migrate"},
           opened \subseteq Resources \ ToSet(Components),
           Opened(next) = Opened(pc) \cup opened
    PROVE  LifecycleInv'
  <1>1. LTypeOK'
    BY DEF LifecycleInv, LTypeOK, Proceed, config
  <1>2. WayUpInv'
    BY DEF LifecycleInv, WayUpInv, Proceed, Orderly
  <1>3. WayOutInv'
    BY DEF WayOutInv, Proceed
  <1> QED  BY <1>1, <1>2, <1>3 DEF LifecycleInv

\* A step that fails, when what its function releases and the deferred calls
\* amount to everything open but the orphans.
LEMMA FailKeeps ==
    ASSUME LifecycleInv, pc \notin {"unwind", "exit"},
           NEW released \in Seq(Resources), Orderly(released), Fail(released),
           ToSet(released) \cap ToSet(deferred) = {},
           \A a \in ToSet(released), b \in ToSet(deferred) : ~Uses(b, a),
           open = ToSet(released) \cup ToSet(deferred) \cup OrphansOf(pc),
           (ToSet(released) \cup ToSet(deferred)) \cap OrphansOf(pc) = {}
    PROVE  LifecycleInv'
  <1>0. LTypeOK /\ WayUpInv
    BY DEF LifecycleInv
  <1>1. /\ todo' \in Seq(Resources) /\ Orderly(todo')
        /\ ToSet(todo') = ToSet(released) \cup ToSet(deferred)
    BY <1>0, Catenation DEF Fail, LTypeOK, WayUpInv
  <1>2. /\ pc' = "unwind" /\ failedAt' = pc /\ code' = 1
        /\ UNCHANGED <<config, open, deferred, stuck>>
    BY DEF Fail
  <1>3. stuck = {} /\ pc \in Points /\ "none" \notin Points /\ "unwind" \in Points
    BY <1>0 DEF WayUpInv, LTypeOK, Points
  <1>4. LTypeOK'
    BY <1>0, <1>1, <1>2, <1>3 DEF LTypeOK, config
  <1>5. WayUpInv'
    BY <1>2 DEF WayUpInv
  <1>6. Orphans' = OrphansOf(pc)
    BY <1>2 DEF Orphans
  <1>7. Orderly(todo)'
    BY <1>1 DEF Orderly
  <1>8. WayOutInv'
    <2>1. ToSet(todo)' = ToSet(released) \cup ToSet(deferred)
      BY <1>1 DEF ToSet
    <2> QED  BY <1>2, <1>3, <1>6, <1>7, <2>1 DEF WayOutInv
  <1> QED  BY <1>4, <1>5, <1>8 DEF LifecycleInv

\* The same while nothing but telemetry is deferred.
LEMMA FailEarlyKeeps ==
    ASSUME LifecycleInv, pc \notin {"unwind", "exit", "serve", "migrate"},
           NEW released \in Seq(Resources), Orderly(released), Fail(released),
           Opened(pc) = ToSet(released) \cup OrphansOf(pc),
           ToSet(released) \cap OrphansOf(pc) = {}
    PROVE  LifecycleInv'
  <1>1. /\ ToSet(deferred) = open \cap ToSet(Components)
        /\ open \ ToSet(Components) = Opened(pc)
    BY DEF LifecycleInv, WayUpInv
  <1>2. ToSet(released) \cap ToSet(Components) = {} /\ OrphansOf(pc) \cap ToSet(Components) = {}
    BY <1>1
  <1>3. \A a \in ToSet(released), b \in ToSet(deferred) : ~Uses(b, a)
    BY <1>1, <1>2, ResourceNames DEF Uses
  <1> QED  BY <1>1, <1>2, <1>3, FailKeeps

LEMMA InitComponentKeeps ==
    ASSUME LifecycleInv, NEW c \in enabled, InitComponent(c)
    PROVE  LifecycleInv'
  <1>0. LTypeOK /\ WayUpInv /\ pc = "otel"
    BY DEF LifecycleInv, InitComponent
  <1>c. Opened("otel") = {} /\ OrphansOf("otel") = {}
    BY DEF Opened, OrphansOf
  <1>1. CASE /\ open' = open \cup {c}
             /\ deferred' = Append(deferred, c)
             /\ UNCHANGED <<config, pc, todo, stuck, failedAt, code>>
    <2>1. c \in ToSet(Components) /\ c \in Resources /\ c \notin open
      BY <1>0, ResourceNames DEF LTypeOK, InitComponent, NextComponent, Left
    <2>2. deferred' = deferred \o <<c>>
      BY <1>0, <1>1, <2>1 DEF LTypeOK
    <2>3. /\ ToSet(deferred) = open \cap ToSet(Components) /\ open \ ToSet(Components) = {}
          /\ deferred \in Seq(Resources) /\ Orderly(deferred)
      BY <1>0, <1>c DEF WayUpInv, LTypeOK
    <2>4. /\ deferred' \in Seq(Resources) /\ Orderly(deferred')
          /\ ToSet(deferred') = ToSet(deferred) \cup {c}
      <3>1. <<c>> \in Seq(Resources) /\ Orderly(<<c>>) /\ ToSet(<<c>>) = {c}
        BY <2>1, Written
      <3>2. \A a \in ToSet(deferred) : ~Uses(c, a)
        BY <2>1, <2>3, ResourceNames DEF Uses
      <3>3. /\ ToSet(deferred) \cap ToSet(<<c>>) = {}
            /\ \A a \in ToSet(deferred), b \in ToSet(<<c>>) : ~Uses(b, a)
        BY <2>1, <2>3, <3>1, <3>2
      <3>4. /\ deferred \o <<c>> \in Seq(Resources) /\ Orderly(deferred \o <<c>>)
            /\ ToSet(deferred \o <<c>>) = ToSet(deferred) \cup ToSet(<<c>>)
        BY <2>3, <3>1, <3>3, Catenation
      <3> QED  BY <2>2, <3>1, <3>4
    <2>5. LTypeOK'
      BY <1>0, <1>1, <2>1, <2>4 DEF LTypeOK, config
    <2>6. WayUpInv'
      <3>1. open' \ ToSet(Components) = {} /\ ToSet(deferred') = open' \cap ToSet(Components)
        BY <1>1, <2>1, <2>3, <2>4
      <3> QED  BY <1>0, <1>1, <1>c, <2>4, <3>1 DEF WayUpInv, Orderly, ToSet
    <2>7. WayOutInv'
      BY <1>0, <1>1 DEF WayOutInv
    <2> QED  BY <2>5, <2>6, <2>7 DEF LifecycleInv
  <1>2. CASE Fail(<<>>)
    BY <1>0, <1>2, <1>c, Written, FailEarlyKeeps
  <1> QED  BY <1>1, <1>2 DEF InitComponent

\* Once everything is open, the deferred calls are to release it all.
LEMMA AllDeferred ==
    ASSUME LifecycleInv, pc \in {"routes", "dialect"},
           NEW l \in Seq(Resources), Orderly(l), ToSet(l) \cap ToSet(Components) = {}
    PROVE  /\ l \o deferred \in Seq(Resources) /\ Orderly(l \o deferred)
           /\ ToSet(l \o deferred) = ToSet(l) \cup (open \cap ToSet(Components))
  <1>1. /\ deferred \in Seq(Resources) /\ Orderly(deferred)
        /\ ToSet(deferred) = open \cap ToSet(Components)
    BY DEF LifecycleInv, LTypeOK, WayUpInv
  <1>2. \A a \in ToSet(l), b \in ToSet(deferred) : ~Uses(b, a)
    BY <1>1, ResourceNames DEF Uses
  <1> QED  BY <1>1, <1>2, Catenation

LEMMA RegisterRoutesKeeps ==
    ASSUME LifecycleInv, RegisterRoutes
    PROVE  LifecycleInv'
  <1>0. LTypeOK /\ WayUpInv /\ pc = "routes"
    BY DEF LifecycleInv, RegisterRoutes
  <1>c. /\ Opened("routes") = {"pool", "nats", "state", "cache"} /\ OrphansOf("routes") = {}
        /\ Opened("serve") = {"pool", "nats", "state", "cache", "limiter"}
    BY DEF Opened, OrphansOf
  <1>1. CASE /\ open' = open \cup {"limiter"}
             /\ deferred' = <<"limiter">> \o ProvidersShutdown \o deferred
             /\ pc' = "serve"
             /\ UNCHANGED <<config, todo, stuck, failedAt, code>>
    <2> DEFINE l == <<"limiter">> \o ProvidersShutdown
    <2>1. /\ l \in Seq(Resources) /\ Orderly(l)
          /\ ToSet(l) = {"limiter", "cache", "state", "nats", "pool"}
      <3>1. /\ <<"limiter">> \in Seq(Resources) /\ Orderly(<<"limiter">>)
            /\ ToSet(<<"limiter">>) = {"limiter"}
        BY Written, ResourceNames
      <3>2. /\ ProvidersShutdown \in Seq(Resources) /\ Orderly(ProvidersShutdown)
            /\ ToSet(ProvidersShutdown) = {"cache", "state", "nats", "pool"}
        BY Written
      <3>3. \A b \in {"cache", "state", "nats", "pool"} : ~Uses(b, "limiter")
        BY ResourceNames DEF Uses
      <3>4. /\ ToSet(<<"limiter">>) \cap ToSet(ProvidersShutdown) = {}
            /\ \A a \in ToSet(<<"limiter">>), b \in ToSet(ProvidersShutdown) : ~Uses(b, a)
        BY <3>1, <3>2, <3>3
      <3>5. ToSet(l) = ToSet(<<"limiter">>) \cup ToSet(ProvidersShutdown)
        BY <3>1, <3>2, <3>4, Catenation
      <3>6. l \in Seq(Resources) /\ Orderly(l)
        BY <3>1, <3>2, <3>4, Catenation
      <3> QED  BY <3>1, <3>2, <3>5, <3>6
    <2> HIDE DEF l
    <2>2. /\ deferred' \in Seq(Resources) /\ Orderly(deferred')
          /\ ToSet(deferred') = ToSet(l) \cup (open \cap ToSet(Components))
      <3>1. ToSet(l) \cap ToSet(Components) = {}
        BY <2>1, ResourceNames
      <3>2. deferred' = l \o deferred
        BY <1>1 DEF l
      <3> QED  BY <1>0, <2>1, <3>1, <3>2, AllDeferred
    <2>3. open \ ToSet(Components) = {"pool", "nats", "state", "cache"}
      BY <1>0, <1>c DEF WayUpInv
    <2>4. open' \ ToSet(Components) = Opened(pc') /\ ToSet(deferred') = open'
      BY <1>1, <1>c, <2>1, <2>2, <2>3, ResourceNames
    <2>5. LTypeOK'
      BY <1>0, <1>1, <2>2, ResourceNames DEF LTypeOK, config, Points
    <2>6. WayUpInv'
      BY <1>0, <1>1, <2>2, <2>4 DEF WayUpInv, Orderly, ToSet
    <2>7. WayOutInv'
      BY <1>1 DEF WayOutInv
    <2> QED  BY <2>5, <2>6, <2>7 DEF LifecycleInv
  <1>2. CASE Fail(ProvidersShutdown)
    BY <1>0, <1>2, <1>c, Written, FailEarlyKeeps
  <1> QED  BY <1>1, <1>2 DEF RegisterRoutes

LEMMA SetupJobKeeps ==
    ASSUME LifecycleInv, SetupJob
    PROVE  LifecycleInv'
  <1>0. LTypeOK /\ WayUpInv /\ pc = "dialect"
    BY DEF LifecycleInv, SetupJob
  <1>c. /\ Opened("dialect") = {"pool", "nats", "state", "cache"} /\ OrphansOf("dialect") = {}
        /\ Opened("migrate") = {"pool", "nats", "state", "cache"}
    BY DEF Opened, OrphansOf
  <1>1. CASE /\ deferred' = ProvidersShutdown \o deferred
             /\ pc' = "migrate"
             /\ UNCHANGED <<config, open, todo, stuck, failedAt, code>>
    <2>1. /\ ProvidersShutdown \in Seq(Resources) /\ Orderly(ProvidersShutdown)
          /\ ToSet(ProvidersShutdown) = {"cache", "state", "nats", "pool"}
      BY Written
    <2>2. /\ deferred' \in Seq(Resources) /\ Orderly(deferred')
          /\ ToSet(deferred') = ToSet(ProvidersShutdown) \cup (open \cap ToSet(Components))
      <3>1. ToSet(ProvidersShutdown) \cap ToSet(Components) = {}
        BY <2>1, ResourceNames
      <3> QED  BY <1>0, <1>1, <2>1, <3>1, AllDeferred
    <2>3. open \ ToSet(Components) = {"pool", "nats", "state", "cache"}
      BY <1>0, <1>c DEF WayUpInv
    <2>4. open' \ ToSet(Components) = Opened(pc') /\ ToSet(deferred') = open'
      BY <1>1, <1>c, <2>1, <2>2, <2>3
    <2>5. LTypeOK'
      BY <1>0, <1>1, <2>2 DEF LTypeOK, config, Points
    <2>6. WayUpInv'
      BY <1>0, <1>1, <2>2, <2>4 DEF WayUpInv, Orderly, ToSet
    <2>7. WayOutInv'
      BY <1>1 DEF WayOutInv
    <2> QED  BY <2>5, <2>6, <2>7 DEF LifecycleInv
  <1>2. CASE Fail(ProvidersShutdown)
    BY <1>0, <1>2, <1>c, Written, FailEarlyKeeps
  <1> QED  BY <1>1, <1>2 DEF SetupJob

\* What run defers is everything there is when the program serves or migrates.
LEMMA LastStepKeeps ==
    ASSUME LifecycleInv, pc \in {"serve", "migrate"}, RunReturns(0) \/ Fail(<<>>)
    PROVE  LifecycleInv'
  <1>0. /\ LTypeOK /\ WayUpInv
        /\ ToSet(deferred) = open
    BY DEF LifecycleInv, WayUpInv
  <1>1. CASE RunReturns(0)
    <2>1. LTypeOK'
      BY <1>0, <1>1 DEF LTypeOK, RunReturns, config, Points
    <2>2. WayUpInv'
      BY <1>1 DEF WayUpInv, RunReturns
    <2>3. Orphans' = {}
      BY <1>0, <1>1 DEF WayUpInv, RunReturns, Orphans, OrphansOf
    <2>4. Orderly(todo)' /\ ToSet(todo)' = open /\ open' = open
      BY <1>0, <1>1 DEF WayUpInv, RunReturns, Orderly, ToSet
    <2>5. WayOutInv'
      BY <1>0, <1>1, <2>3, <2>4 DEF WayUpInv, WayOutInv, RunReturns
    <2> QED  BY <2>1, <2>2, <2>5 DEF LifecycleInv
  <1>2. CASE Fail(<<>>)
    <2>1. OrphansOf(pc) = {}
      BY DEF OrphansOf
    <2> QED  BY <1>0, <1>2, <2>1, Written, FailKeeps
  <1> QED  BY <1>1, <1>2

\* The head of an orderly list is not in its tail.
LEMMA TailOrderly ==
    ASSUME NEW s \in Seq(Resources), s # <<>>, Orderly(s)
    PROVE  /\ Tail(s) \in Seq(Resources) /\ Orderly(Tail(s)) /\ Head(s) \in ToSet(s)
           /\ ToSet(Tail(s)) = ToSet(s) \ {Head(s)}
           /\ \A a \in ToSet(Tail(s)) : ~Uses(a, Head(s))
  <1>1. /\ Len(s) \in Nat \ {0} /\ DOMAIN s = 1..Len(s) /\ Head(s) = s[1] /\ 1 \in DOMAIN s
        /\ Tail(s) \in Seq(Resources) /\ DOMAIN Tail(s) = 1..(Len(s) - 1)
        /\ \A i \in DOMAIN Tail(s) : Tail(s)[i] = s[i + 1] /\ i + 1 \in DOMAIN s
    OBVIOUS
  <1>2. Orderly(Tail(s))
    BY <1>1 DEF Orderly
  <1>3. \A i \in DOMAIN Tail(s) : Tail(s)[i] # Head(s) /\ ~Uses(Tail(s)[i], Head(s))
    BY <1>1 DEF Orderly
  <1>4. \A j \in DOMAIN s : s[j] # Head(s) => j - 1 \in DOMAIN Tail(s) /\ s[j] = Tail(s)[j - 1]
    BY <1>1
  <1>5. ToSet(Tail(s)) = ToSet(s) \ {Head(s)}
    BY <1>1, <1>3, <1>4 DEF ToSet
  <1> QED  BY <1>1, <1>2, <1>3, <1>5 DEF ToSet

LEMMA ReleaseKeeps ==
    ASSUME LifecycleInv, Release
    PROVE  LifecycleInv'
  <1>0. LTypeOK /\ WayOutInv /\ pc = "unwind"
    BY DEF LifecycleInv, Release
  <1>1. /\ todo' \in Seq(Resources) /\ Orderly(todo') /\ Head(todo) \in ToSet(todo)
        /\ ToSet(todo') = ToSet(todo) \ {Head(todo)}
    BY <1>0, TailOrderly DEF Release, LTypeOK, WayOutInv
  <1>2. UNCHANGED <<config, pc, deferred, failedAt, code>>
    BY DEF Release
  <1>3. /\ ToSet(todo) \cap (stuck \cup Orphans) = {}
        /\ open = ToSet(todo) \cup stuck \cup Orphans
        /\ code = 0 <=> failedAt = "none"
    BY <1>0 DEF WayOutInv
  <1>4. Orphans' = Orphans
    BY <1>2 DEF Orphans
  <1>5. \/ open' = open \ {Head(todo)} /\ stuck' = stuck
        \/ open' = open /\ stuck' = stuck \cup {Head(todo)}
    BY DEF Release
  <1>6. LTypeOK'
    BY <1>0, <1>1, <1>2, <1>3, <1>5 DEF LTypeOK, config
  <1>7. WayUpInv'
    BY <1>0, <1>2 DEF WayUpInv
  <1>8. WayOutInv'
    <2>1. Orderly(todo)' /\ ToSet(todo)' = ToSet(todo) \ {Head(todo)}
      BY <1>1 DEF Orderly, ToSet
    <2>2. ToSet(todo)' \cap (stuck' \cup Orphans') = {}
      BY <1>3, <1>4, <1>5, <2>1
    <2>3. open' = ToSet(todo)' \cup stuck' \cup Orphans'
      BY <1>1, <1>3, <1>4, <1>5, <2>1
    <2> QED  BY <1>0, <1>2, <1>3, <2>1, <2>2, <2>3 DEF WayOutInv
  <1> QED  BY <1>6, <1>7, <1>8 DEF LifecycleInv

LEMMA ExitKeeps ==
    ASSUME LifecycleInv, Exit
    PROVE  LifecycleInv'
  <1>1. LTypeOK'
    BY DEF LifecycleInv, LTypeOK, Exit, config, Points
  <1>2. WayUpInv'
    BY DEF WayUpInv, Exit
  <1>3. WayOutInv'
    BY DEF LifecycleInv, WayOutInv, Exit, Orderly, Orphans, ToSet
  <1> QED  BY <1>1, <1>2, <1>3 DEF LifecycleInv

\* The steps that go on or fail, in the order of the way up.
LEMMA WayUpKeeps ==
    ASSUME LifecycleInv,
           \/ LoadConfig \/ NewResource \/ OTelReady \/ OpenPool \/ PingPool \/ Connect
           \/ NewJetStream \/ NewStateStore \/ NewCache \/ NewAuthKit \/ SetupSentinel
    PROVE  LifecycleInv'
  <1>o. \A p \in Points \ {"ping", "authkit"} : OrphansOf(p) = {}
    BY DEF OrphansOf
  <1>t. /\ {"nats", "pool", "state", "cache"} \subseteq Resources \ ToSet(Components)
        /\ {} \subseteq Resources \ ToSet(Components)
    BY ResourceNames
  <1>1. CASE LoadConfig
    <2>1. /\ Opened("config") = {} /\ Opened("otel") = {} /\ OrphansOf("config") = {}
          /\ "otel" \in Points /\ pc = "config"
      BY <1>1 DEF Opened, OrphansOf, Points, LoadConfig
    <2>2. CASE Proceed({}, "otel")
      BY <1>t, <2>1, <2>2, ProceedKeeps
    <2>3. CASE Fail(<<>>)
      BY <2>1, <2>3, Written, FailEarlyKeeps
    <2> QED  BY <1>1, <2>2, <2>3 DEF LoadConfig
  <1>2. CASE NewResource
    <2>1. Opened("otel") = {} /\ OrphansOf("otel") = {} /\ pc = "otel" /\ Fail(<<>>)
      BY <1>2 DEF Opened, OrphansOf, NewResource
    <2> QED  BY <2>1, Written, FailEarlyKeeps
  <1>3. CASE OTelReady
    <2>1. /\ Opened("otel") = {} /\ Opened("open") = {} /\ "open" \in Points
          /\ pc = "otel" /\ Proceed({}, "open")
      BY <1>3 DEF Opened, Points, OTelReady
    <2> QED  BY <1>t, <2>1, ProceedKeeps
  <1>4. CASE OpenPool
    <2>1. /\ Opened("open") = {} /\ Opened("ping") = {"pool"} /\ OrphansOf("open") = {}
          /\ "ping" \in Points /\ pc = "open"
      BY <1>4 DEF Opened, OrphansOf, Points, OpenPool
    <2>2. CASE Proceed({"pool"}, "ping")
      BY <1>t, <2>1, <2>2, ProceedKeeps
    <2>3. CASE Fail(<<>>)
      BY <2>1, <2>3, Written, FailEarlyKeeps
    <2> QED  BY <1>4, <2>2, <2>3 DEF OpenPool
  <1>5. CASE PingPool
    <2>1. /\ Opened("ping") = {"pool"} /\ Opened("connect") = {"pool"}
          /\ OrphansOf("ping") = {"pool"} /\ "connect" \in Points /\ pc = "ping"
      BY <1>5 DEF Opened, OrphansOf, Points, PingPool
    <2>2. CASE Proceed({}, "connect")
      BY <1>t, <2>1, <2>2, ProceedKeeps
    <2>3. CASE Fail(<<>>)
      BY <2>1, <2>3, Written, FailEarlyKeeps
    <2> QED  BY <1>5, <2>2, <2>3 DEF PingPool
  <1>6. CASE Connect
    <2>1. /\ Opened("connect") = {"pool"} /\ Opened("jetstream") = {"pool", "nats"}
          /\ OrphansOf("connect") = {} /\ "jetstream" \in Points /\ pc = "connect"
      BY <1>6 DEF Opened, OrphansOf, Points, Connect
    <2>2. CASE Proceed({"nats"}, "jetstream")
      BY <1>t, <2>1, <2>2, ProceedKeeps
    <2>3. CASE Fail(<<"pool">>)
      <3>1. /\ <<"pool">> \in Seq(Resources) /\ Orderly(<<"pool">>)
            /\ ToSet(<<"pool">>) = {"pool"}
        BY Written, ResourceNames
      <3> QED  BY <2>1, <2>3, <3>1, FailEarlyKeeps
    <2> QED  BY <1>6, <2>2, <2>3 DEF Connect
  <1>7. CASE NewJetStream
    <2>1. /\ Opened("jetstream") = {"pool", "nats"} /\ Opened("store") = {"pool", "nats"}
          /\ OrphansOf("jetstream") = {} /\ "store" \in Points /\ pc = "jetstream"
      BY <1>7 DEF Opened, OrphansOf, Points, NewJetStream
    <2>2. CASE Proceed({}, "store")
      BY <1>t, <2>1, <2>2, ProceedKeeps
    <2>3. CASE Fail(<<"nats", "pool">>)
      BY <2>1, <2>3, Written, FailEarlyKeeps
    <2> QED  BY <1>7, <2>2, <2>3 DEF NewJetStream
  <1>8. CASE NewStateStore
    <2>1. /\ Opened("store") = {"pool", "nats"} /\ Opened("cache") = {"pool", "nats", "state"}
          /\ OrphansOf("store") = {} /\ "cache" \in Points /\ pc = "store"
      BY <1>8 DEF Opened, OrphansOf, Points, NewStateStore
    <2>2. CASE Proceed({"state"}, "cache")
      BY <1>t, <2>1, <2>2, ProceedKeeps
    <2>3. CASE Fail(<<"nats", "pool">>)
      BY <2>1, <2>3, Written, FailEarlyKeeps
    <2> QED  BY <1>8, <2>2, <2>3 DEF NewStateStore
  <1>9. CASE NewCache
    <2>1. /\ Opened("cache") = {"pool", "nats", "state"}
          /\ Opened("authkit") = {"pool", "nats", "state", "cache"}
          /\ "authkit" \in Points /\ pc = "cache" /\ Proceed({"cache"}, "authkit")
      BY <1>9 DEF Opened, Points, NewCache
    <2> QED  BY <1>t, <2>1, ProceedKeeps
  <1>10. CASE NewAuthKit
    <2>1. /\ Opened("authkit") = {"pool", "nats", "state", "cache"}
          /\ Opened("sentinel") = {"pool", "nats", "state", "cache"}
          /\ Opened("dialect") = {"pool", "nats", "state", "cache"}
          /\ OrphansOf("authkit") = {"cache"}
          /\ "sentinel" \in Points /\ "dialect" \in Points /\ pc = "authkit"
      BY <1>10 DEF Opened, OrphansOf, Points, NewAuthKit
    <2>2. CASE Proceed({}, "sentinel") \/ Proceed({}, "dialect")
      BY <1>t, <2>1, <2>2, ProceedKeeps
    <2>3. CASE Fail(<<"pool", "state", "nats">>)
      BY <2>1, <2>3, Written, FailEarlyKeeps
    <2> QED  BY <1>10, <2>2, <2>3 DEF NewAuthKit
  <1>11. CASE SetupSentinel
    <2>1. /\ Opened("sentinel") = {"pool", "nats", "state", "cache"}
          /\ Opened("routes") = {"pool", "nats", "state", "cache"}
          /\ OrphansOf("sentinel") = {} /\ "routes" \in Points /\ pc = "sentinel"
      BY <1>11 DEF Opened, OrphansOf, Points, SetupSentinel
    <2>2. CASE Proceed({}, "routes")
      BY <1>t, <2>1, <2>2, ProceedKeeps
    <2>3. CASE Fail(ProvidersShutdown)
      BY <2>1, <2>3, Written, FailEarlyKeeps
    <2> QED  BY <1>11, <2>2, <2>3 DEF SetupSentinel
  <1> QED  BY <1>1, <1>2, <1>3, <1>4, <1>5, <1>6, <1>7, <1>8, <1>9, <1>10, <1>11

LEMMA LifecycleStep == LifecycleInv /\ [LNext]_lvars => LifecycleInv'
  <1> SUFFICES ASSUME LifecycleInv, [LNext]_lvars  PROVE LifecycleInv'
    OBVIOUS
  <1>1. CASE \/ LoadConfig \/ NewResource \/ OTelReady \/ OpenPool \/ PingPool \/ Connect
             \/ NewJetStream \/ NewStateStore \/ NewCache \/ NewAuthKit \/ SetupSentinel
    BY <1>1, WayUpKeeps
  <1>2. ASSUME NEW c \in enabled, InitComponent(c)  PROVE LifecycleInv'
    BY <1>2, InitComponentKeeps
  <1>3. CASE RegisterRoutes
    BY <1>3, RegisterRoutesKeeps
  <1>4. CASE SetupJob
    BY <1>4, SetupJobKeeps
  <1>5. CASE ListenAndServe \/ Migrate
    BY <1>5, LastStepKeeps DEF ListenAndServe, Migrate
  <1>6. CASE Release
    BY <1>6, ReleaseKeeps
  <1>7. CASE Exit
    BY <1>7, ExitKeeps
  <1>8. CASE UNCHANGED lvars
    BY <1>8 DEF lvars, config, LifecycleInv, LTypeOK, WayUpInv, WayOutInv, Orderly, ToSet,
                Orphans
  <1> QED  BY <1>1, <1>2, <1>3, <1>4, <1>5, <1>6, <1>7, <1>8 DEF LNext

\* On whichever step a program fails, and whatever fails to close, what it has
\* opened is released once, but for the pool that does not answer and the cache
\* of an authkit that was not made.
THEOREM LifecycleHolds == LSpec => []LifecycleInv
  BY LifecycleStarts, LifecycleStep, PTL DEF LSpec

\* Only Release closes anything, and what it closes nobody on the list uses.
LEMMA ReleaseOrder ==
    ASSUME LifecycleInv, [LNext]_lvars, NEW b \in open \ open',
           NEW a \in open \ (stuck \cup Orphans)
    PROVE  ~Uses(a, b)
  <1>1. CASE Release
    <2>1. /\ LTypeOK /\ Orderly(todo) /\ todo # <<>>
          /\ open = ToSet(todo) \cup stuck \cup Orphans
      BY <1>1 DEF LifecycleInv, WayOutInv, Release
    <2>2. b = Head(todo)
      BY <1>1 DEF Release
    <2>3. a \in ToSet(todo)
      BY <2>1
    <2>4. a = Head(todo) \/ a \in ToSet(Tail(todo))
      BY <2>1, <2>3, TailOrderly DEF LTypeOK
    <2>5. ~Uses(b, b)
      BY ResourceNames DEF Uses
    <2> QED  BY <2>1, <2>2, <2>4, <2>5, TailOrderly DEF LTypeOK
  <1>2. CASE ~Release
    <2>1. open \subseteq open'
      BY <1>2 DEF LNext, lvars, LoadConfig, NewResource, OTelReady, InitComponent, OpenPool,
                  PingPool, Connect, NewJetStream, NewStateStore, NewCache, NewAuthKit,
                  SetupSentinel, RegisterRoutes, ListenAndServe, SetupJob, Migrate, Exit,
                  Proceed, Fail, RunReturns
    <2> QED  BY <2>1
  <1> QED  BY <1>1, <1>2

\* Nothing is released while something that uses it is open.
THEOREM UsersGoFirst == LSpec => UsersFirst
  <1>1. LifecycleInv /\ [LNext]_lvars =>
          [\A b \in open \ open' : \A a \in open \ (stuck \cup Orphans) : ~Uses(a, b)]_lvars
    BY ReleaseOrder
  <1> QED  BY <1>1, LifecycleHolds, PTL DEF LSpec, UsersFirst

-----------------------------------------------------------------------------
\* The session cache

USE SessionsAssumption

\* What the requests and the cache hold never outlives the row by more than
\* Staleness.
LEMMA SessionStep == SessionInv /\ [SNext]_svars => SessionInv'
<1> SUFFICES ASSUME SessionInv, [SNext]_svars PROVE SessionInv'
  OBVIOUS
<1> USE DEF SessionInv, STypeOK, AgeInv, Staleness, Stages
<1>1. CASE STick
  BY <1>1 DEF STick, entries, requests, sweeper
<1>2. ASSUME NEW s \in Sessions, Create(s) \/ Evict(s) \/ Cron(s) PROVE SessionInv'
  BY <1>2 DEF Create, Evict, Cron, Uncache, table, entries, requests, sweeper
<1>3. ASSUME NEW w \in Workers, NEW s \in Sessions, Get(w, s) PROVE SessionInv'
  BY <1>3 DEF Get, Goto, table, entries, sweeper
<1>4. ASSUME NEW w \in Workers, NEW s \in Sessions,
             Find(w, s, "touch") \/ Find(w, s, "drop")
      PROVE  SessionInv'
  BY <1>4 DEF Find, Goto, table, entries, sweeper
<1>5. ASSUME NEW w \in Workers, Request(w) PROVE SessionInv'
  <2>1. CASE Check(w) \/ Load(w) \/ LoadFails(w)
    BY <2>1 DEF Check, Load, LoadFails, Goto, Finish, table, entries, sweeper
  <2>2. CASE Forget(w)
    BY <2>2 DEF Forget, Goto, Uncache, table, sweeper
  <2>3. CASE StoreEntry(w)
    BY <2>3 DEF StoreEntry, Goto, Finish, table, sweeper
  <2>4. CASE TouchWrite(w) \/ Drop(w)
    BY <2>4 DEF TouchWrite, Drop, Goto, Finish, table, entries, sweeper
  <2> QED BY <1>5, <2>1, <2>2, <2>3, <2>4 DEF Request
<1>6. CASE Cleanup
  BY <1>6 DEF Cleanup, SweepStart, SweepVisit, SweepDelete, SweepEnd, CleanerReturns,
              Uncache, table, entries, requests
<1>7. CASE ShutdownCall \/ ShutdownReturn
  BY <1>7 DEF ShutdownCall, ShutdownReturn, table, entries, requests
<1>8. CASE UNCHANGED svars
  BY <1>8 DEF svars, table, entries, requests, sweeper
<1> QED BY <1>1, <1>2, <1>3, <1>4, <1>5, <1>6, <1>7, <1>8 DEF SNext

\* Entries, and what requests have in hand, are never older than Staleness.
THEOREM SessionsHold == SSpec => []SessionInv
<1>1. SInit => SessionInv
  BY DEF SInit, SessionInv, STypeOK, AgeInv, Stages
<1> QED BY <1>1, SessionStep, PTL DEF SSpec

\* No request is let in for a session whose row went more than an expiry and
\* a request timeout ago.
THEOREM StalenessBounded == SSpec => StaleBounded
<1>1. ASSUME SessionInv, [SNext]_svars, NEW w \in Workers, Grants(w)
      PROVE  now <= lastSeen[want[w]] + Staleness
  <2> USE DEF SessionInv, STypeOK, AgeInv, Staleness, Stages, Grants
  <2>1. CASE UNCHANGED stage
    BY <1>1, <2>1
  <2>2. ASSUME NEW v \in Workers, Request(v) PROVE v = w
    <3>1. PICK st \in Stages : stage' = [stage EXCEPT ![v] = st]
      BY <2>2 DEF Request, Check, Forget, Load, LoadFails, StoreEntry, TouchWrite, Drop,
                  Goto, Finish
    <3> QED BY <1>1, <3>1
  <2>3. CASE Request(w)
    BY <1>1, <2>3 DEF Request, Check, Forget, Load, LoadFails, StoreEntry, TouchWrite, Drop,
                      Goto, Finish
  <2>4. ASSUME NEW v \in Workers, NEW s \in Sessions,
               Get(v, s) \/ Find(v, s, "touch") \/ Find(v, s, "drop")
        PROVE  FALSE
    BY <1>1, <2>4 DEF Get, Find, Goto
  <2> QED BY <1>1, <2>1, <2>2, <2>3, <2>4 DEF SNext, STick, Create, Evict, Cron, Cleanup,
       SweepStart, SweepVisit, SweepDelete, SweepEnd, CleanerReturns, ShutdownCall,
       ShutdownReturn, requests, svars
<1>2. SessionInv /\ [SNext]_svars =>
        [\A w \in Workers : Grants(w) => now <= lastSeen[want[w]] + Staleness]_svars
  BY <1>1
<1> QED BY <1>2, SessionsHold, PTL DEF SSpec, StaleBounded

\* A session of which no row, entry or request in flight is left is never
\* heard of again.
THEOREM SessionsStayGone == SSpec => GoneForGood
<1>1. ASSUME SessionInv, [SNext]_svars, NEW s \in Sessions, Gone(s) PROVE Gone(s)'
  <2> USE <1>1 DEF SessionInv, STypeOK, AgeInv, Stages, Gone
  <2>1. CASE STick
    BY <2>1 DEF STick, entries, requests
  <2>2. ASSUME NEW q \in Sessions, Create(q) \/ Evict(q) \/ Cron(q) PROVE Gone(s)'
    BY <2>2 DEF Create, Evict, Cron, Uncache, table, entries, requests
  <2>3. ASSUME NEW w \in Workers, NEW q \in Sessions,
               Get(w, q) \/ Find(w, q, "touch") \/ Find(w, q, "drop")
        PROVE  Gone(s)'
    BY <2>3 DEF Get, Find, Goto, table, entries
  <2>4. ASSUME NEW w \in Workers, Request(w) PROVE Gone(s)'
    <3>1. CASE Check(w) \/ Load(w) \/ LoadFails(w)
      BY <3>1 DEF Check, Load, LoadFails, Goto, Finish, table, entries
    <3>2. CASE Forget(w) \/ StoreEntry(w)
      BY <3>2 DEF Forget, StoreEntry, Goto, Finish, Uncache, table
    <3>3. CASE TouchWrite(w) \/ Drop(w)
      BY <3>3 DEF TouchWrite, Drop, Goto, Finish, entries
    <3> QED BY <2>4, <3>1, <3>2, <3>3 DEF Request
  <2>5. CASE Cleanup \/ ShutdownCall \/ ShutdownReturn
    BY <2>5 DEF Cleanup, SweepStart, SweepVisit, SweepDelete, SweepEnd, CleanerReturns,
                ShutdownCall, ShutdownReturn, Uncache, table, entries, requests
  <2>6. CASE UNCHANGED svars
    BY <2>6 DEF svars, table, entries, requests
  <2> QED BY <2>1, <2>2, <2>3, <2>4, <2>5, <2>6 DEF SNext
<1>2. SessionInv /\ [SNext]_svars => [\A s \in Sessions : Gone(s) => Gone(s)']_svars
  BY <1>1
<1> QED BY <1>2, SessionsHold, PTL DEF SSpec, GoneForGood

-----------------------------------------------------------------------------
\* The e-mail limiter

USE LimiterAssumption, WindowAssumption

\* A full bucket is a number of units that one event does not exceed.
LEMMA FullType == Full \in Nat /\ Cost <= Full /\ Full <= Ttl
<1>1. \A n \in Nat \ {0} : \A m \in Nat \ {0} : n * m \in Nat /\ m <= n * m
  OBVIOUS
<1> QED BY <1>1, TtlAssumption DEF Full

\* What an entry holds is never more than a full bucket.
LEMMA LevelType ==
    ASSUME TypeOK, NEW v \in Values
    PROVE  Level(v) \in 0..Full
BY FullType DEF TypeOK, Level, Lesser

\* The ticker's count starts in its range.
LEMMA PhaseType == 0 \in 0..(Ttl - 1)
  OBVIOUS

\* Ages stay within their range.
LEMMA OlderType == \A age \in 0..(Ttl + 1) : Older(age) \in 0..(Ttl + 1)
BY DEF Older, Lesser

\* One step keeps the types and the order of the two ages.
LEMMA InvStep == LimiterInv /\ [Next]_vars => LimiterInv'
<1> SUFFICES ASSUME LimiterInv, [Next]_vars PROVE LimiterInv'
  OBVIOUS
<1> USE DEF LimiterInv, TypeOK, UnusedIsYounger
<1>1. CASE Tick
  <2> USE <1>1 DEF Tick
  <2>1. /\ since' \in [Values -> 0..(Ttl + 1)] /\ unused' \in [Values -> 0..(Ttl + 1)]
        /\ \A v \in Values \ known : since'[v] = since[v]
    BY OlderType
  <2>2. phase' \in 0..(Ttl - 1) /\ fired' \in BOOLEAN
    <3>1. CASE running
      <4>1. phase + 1 \in 1..Ttl
        OBVIOUS
      <4>2. (phase + 1) % Ttl \in 0..(Ttl - 1)
        BY <4>1
      <4> QED BY <3>1, <4>2
    <3>2. CASE ~running
      BY <3>2 DEF ticker
    <3> QED BY <3>1, <3>2
  <2>3. ASSUME NEW v \in known PROVE unused'[v] <= since'[v]
    <3>1. unused[v] <= since[v] /\ unused[v] \in 0..(Ttl + 1) /\ since[v] \in 0..(Ttl + 1)
      OBVIOUS
    <3>2. unused'[v] = Older(unused[v]) /\ since'[v] = Older(since[v])
      OBVIOUS
    <3> QED BY <3>1, <3>2 DEF Older, Lesser
  <2> QED BY <2>1, <2>2, <2>3
<1>2. ASSUME NEW v \in Values, Allow(v) PROVE LimiterInv'
  <2> USE <1>2 DEF Allow, ticker
  <2>1. Level(v) \in 0..Full /\ Full \in Nat /\ Cost <= Full
    BY FullType, LevelType
  <2>2. known' \subseteq Values /\ \A w \in Values \ known' : w # v /\ w \notin known
    OBVIOUS
  <2>3. credit' \in [Values -> 0..Full]
    BY <2>1
  <2>4. since' \in [Values -> 0..(Ttl + 1)] /\ unused' \in [Values -> 0..(Ttl + 1)]
    OBVIOUS
  <2>5. ASSUME NEW w \in Values \ known' PROVE credit'[w] = Full /\ since'[w] = 0
    BY <2>2
  <2>6. ASSUME NEW w \in known' PROVE unused'[w] <= since'[w]
    <3>1. CASE w = v
      BY <3>1, <2>4
    <3>2. CASE w # v
      BY <3>2
    <3> QED BY <3>1, <3>2
  <2> QED BY <2>2, <2>3, <2>4, <2>5, <2>6
<1>3. CASE Sweep
  <2> USE <1>3 DEF Sweep
  <2>1. known' \subseteq known
    OBVIOUS
  <2>2. credit' \in [Values -> 0..Full]
    BY FullType
  <2>3. since' \in [Values -> 0..(Ttl + 1)] /\ unused' \in [Values -> 0..(Ttl + 1)]
    OBVIOUS
  <2>4. \A w \in Values \ known' : credit'[w] = Full /\ since'[w] = 0
    OBVIOUS
  <2>5. \A w \in known' : unused'[w] <= since'[w]
    BY <2>1
  <2> QED BY <2>1, <2>2, <2>3, <2>4, <2>5
<1>4. CASE Stop
  BY <1>4 DEF Stop, entry, ticker
<1>5. CASE Return
  BY <1>5, PhaseType DEF Return, entry
<1>6. CASE UNCHANGED vars
  BY <1>6 DEF vars, entry, ticker
<1> QED BY <1>1, <1>2, <1>3, <1>4, <1>5, <1>6 DEF Next

\* lastAccess is never older than the last granted event, in any behaviour.
THEOREM LimiterInvariant == Spec => []LimiterInv
<1>1. Init => LimiterInv
  <2> SUFFICES ASSUME Init PROVE LimiterInv
    OBVIOUS
  <2> USE DEF Init
  <2>1. credit \in [Values -> 0..Full]
    BY FullType
  <2>2. since \in [Values -> 0..(Ttl + 1)] /\ unused \in [Values -> 0..(Ttl + 1)]
    OBVIOUS
  <2> QED BY <2>1, <2>2, PhaseType DEF LimiterInv, TypeOK, UnusedIsYounger
<1> QED BY <1>1, InvStep, PTL DEF Spec

\* A tick earns a unit, up to a full bucket.
LEMMA TickLevel ==
    ASSUME LimiterInv, Tick, NEW v \in Values
    PROVE  Level(v)' = Lesser(Level(v) + 1, Full)
BY FullType DEF LimiterInv, TypeOK, UnusedIsYounger, Tick, Level, Lesser, Older

\* An event that is let through costs a token, of its own bucket.
LEMMA AllowLevel ==
    ASSUME LimiterInv, NEW v \in Values, Allow(v)
    PROVE  /\ Level(v)' = IF Level(v) >= Cost THEN Level(v) - Cost ELSE Level(v)
           /\ \A w \in Values : w # v => Level(w)' = Level(w)
<1> USE DEF LimiterInv, TypeOK
<1>1. Level(v) \in 0..Full
  BY LevelType
<1>2. \A w \in Values : w # v => Level(w)' = Level(w)
  BY DEF Allow, Level
<1>3. Level(v)' = IF Level(v) >= Cost THEN Level(v) - Cost ELSE Level(v)
  BY <1>1, FullType DEF Allow, Level, Lesser
<1> QED BY <1>2, <1>3

\* An entry that is forgotten was full, as the one that replaces it will be.
LEMMA SweepLevel ==
    ASSUME LimiterInv, Sweep, NEW v \in Values
    PROVE  Level(v)' = Level(v)
BY FullType DEF LimiterInv, TypeOK, UnusedIsYounger, Sweep, Expired, Level, Lesser

\* The two modules count levels alike.
LEMMA SameBucket ==
    /\ Bucket!Full = Full
    /\ \A a, b : Bucket!Lesser(a, b) = Lesser(a, b)
BY DEF Bucket!Full, Full, Bucket!Lesser, Lesser

\* A limiter that forgets entries after a TTL decides like one that never does.
THEOREM EvictionInvisible == Spec => BucketSpec
<1>1. Init => Bucket!Init
  BY SameBucket, FullType DEF Init, Bucket!Init, Level, Lesser
<1>2. LimiterInv /\ [Next]_vars => [Bucket!Next]_(Bucket!vars)
  <2> SUFFICES ASSUME LimiterInv, [Next]_vars
               PROVE  Bucket!Next \/ UNCHANGED Bucket!vars
    BY DEF Bucket!vars
  <2>1. CASE Tick
    <3>1. \A v \in Values : Level(v)' = Lesser(Level(v) + 1, Full)
      BY <2>1, TickLevel
    <3>2. Bucket!Tick
      BY <2>1, <3>1, SameBucket DEF Tick, Bucket!Tick
    <3> QED BY <3>2 DEF Bucket!Next
  <2>2. ASSUME NEW v \in Values, Allow(v) PROVE Bucket!Next
    <3>1. Bucket!Allow(v)
      BY <2>2, AllowLevel, SameBucket DEF Allow, Bucket!Allow
    <3> QED BY <3>1 DEF Bucket!Next
  <2>3. CASE Sweep
    <3>1. \A v \in Values : Level(v)' = Level(v)
      BY <2>3, SweepLevel
    <3> QED BY <2>3, <3>1 DEF Sweep, Bucket!vars
  <2>4. CASE Stop \/ Return \/ UNCHANGED vars
    BY <2>4 DEF Stop, Return, vars, entry, Bucket!vars, Level
  <2> QED BY <2>1, <2>2, <2>3, <2>4 DEF Next
<1> QED BY <1>1, <1>2, LimiterInvariant, PTL DEF Spec, BucketSpec, Bucket!Spec

-----------------------------------------------------------------------------
\* The observer

\* One more event adds its cost to what was let through.
LEMMA OneMore == \A n \in Nat : n * Cost \in Nat /\ (n + 1) * Cost = n * Cost + Cost
  OBVIOUS

\* An observer who starts has seen nothing, and no bucket holds more than Full.
LEMMA Started ==
    ASSUME TypeOK', StartOver
    PROVE  elapsed' \in 0..Window /\ granted' \in [Values -> Nat] /\ Ledger'
<1>1. elapsed' = 0 /\ granted' = [v \in Values |-> 0]
  BY DEF StartOver
<1>2. ASSUME NEW v \in Values PROVE granted'[v] * Cost + Level(v)' <= Full + elapsed'
  <2>1. Level(v)' \in 0..Full
    BY FullType DEF TypeOK, Level, Lesser
  <2>2. 0 * Cost = 0
    OBVIOUS
  <2> QED BY <1>1, <2>1, <2>2, FullType
<1> QED BY <1>1, <1>2 DEF Ledger, Full

\* A step that earns and lets nothing through leaves the ledger in order.
LEMMA Earned ==
    ASSUME LedgerInv, TypeOK', UNCHANGED granted, elapsed' \in 0..Window,
           \A v \in Values : Level(v)' <= Level(v) + (elapsed' - elapsed)
    PROVE  Ledger'
<1> SUFFICES ASSUME NEW v \in Values
             PROVE  granted'[v] * Cost + Level(v)' <= Full + elapsed'
  BY DEF Ledger, Full
<1>1. granted[v] * Cost \in Nat /\ granted' = granted
  BY OneMore DEF LedgerInv
<1>2. Level(v) \in Nat /\ Level(v)' \in Nat /\ elapsed \in Nat
  BY LevelType, FullType DEF LedgerInv, LimiterInv, TypeOK, Level, Lesser
<1>3. granted[v] * Cost + Level(v) <= Full + elapsed
  BY DEF LedgerInv, Ledger
<1> QED BY <1>1, <1>2, <1>3, FullType

\* An event let through moves its cost from one side of the ledger to the other.
LEMMA Spent ==
    ASSUME LedgerInv, NEW v \in Values, WAllow(v)
    PROVE  granted' \in [Values -> Nat] /\ elapsed' = elapsed /\ Ledger'
<1>1. Allow(v) /\ elapsed' = elapsed
  BY DEF WAllow
<1>2. /\ granted \in [Values -> Nat] /\ elapsed \in Nat
      /\ \A w \in Values : Level(w) \in 0..Full /\ granted[w] * Cost + Level(w) <= Full + elapsed
  BY LevelType DEF LedgerInv, LimiterInv, Ledger
<1>3. /\ Level(v)' = IF Level(v) >= Cost THEN Level(v) - Cost ELSE Level(v)
      /\ \A w \in Values : w # v => Level(w)' = Level(w)
  BY <1>1, AllowLevel DEF LedgerInv
<1>4. CASE Level(v) >= Cost
  <2>1. granted' = [granted EXCEPT ![v] = @ + 1]
    BY <1>1, <1>4 DEF WAllow, Allow
  <2>2. ASSUME NEW w \in Values PROVE granted'[w] * Cost + Level(w)' <= Full + elapsed'
    <3>1. CASE w = v
      <4>1. granted[v] * Cost \in Nat /\ granted'[v] * Cost = granted[v] * Cost + Cost
        BY <1>2, <2>1, OneMore
      <4>2. Level(v)' = Level(v) - Cost
        BY <1>3, <1>4
      <4> QED BY <1>1, <1>2, <3>1, <4>1, <4>2, FullType
    <3>2. CASE w # v
      BY <1>1, <1>2, <1>3, <2>1, <3>2
    <3> QED BY <3>1, <3>2
  <2> QED BY <1>1, <1>2, <2>1, <2>2 DEF Ledger, Full
<1>5. CASE ~(Level(v) >= Cost)
  <2>1. verdict' = {[value |-> v, answer |-> "refuse"]}
    BY <1>1, <1>5 DEF Allow
  <2>2. verdict' # {[value |-> v, answer |-> "allow"]}
    <3>1. [value |-> v, answer |-> "refuse"].answer # [value |-> v, answer |-> "allow"].answer
      OBVIOUS
    <3> QED BY <2>1, <3>1
  <2>3. granted' = granted
    BY <1>2, <2>2 DEF WAllow
  <2>4. \A w \in Values : Level(w)' = Level(w)
    BY <1>3, <1>5
  <2> QED BY <1>1, <1>2, <2>3, <2>4 DEF Ledger, Full
<1> QED BY <1>4, <1>5

\* What the observer sees are steps of the limiter.
LEMMA Watching == WSpec => Spec
<1>1. [WNext]_wvars => [Next]_vars
  BY DEF WNext, wvars, WTick, WAllow, WSweep, WStop, WReturn, Reset, Next
<1> QED BY <1>1, PTL DEF WSpec, WInit, Spec

\* One step keeps the types and the ledger.
LEMMA LedgerStep == LedgerInv /\ [WNext]_wvars => LedgerInv'
<1> SUFFICES ASSUME LedgerInv, [WNext]_wvars PROVE LedgerInv'
  OBVIOUS
<1>0. LimiterInv' /\ TypeOK'
  <2>1. [Next]_vars
    BY DEF WNext, wvars, WTick, WAllow, WSweep, WStop, WReturn, Reset, Next
  <2>2. LimiterInv'
    BY <2>1, InvStep DEF LedgerInv
  <2> QED BY <2>2 DEF LimiterInv
<1>1. CASE WTick
  <2>1. \A v \in Values : Level(v)' <= Level(v) + 1
    BY <1>1, TickLevel, LevelType, FullType DEF WTick, LedgerInv, LimiterInv, Lesser
  <2>2. CASE elapsed < Window /\ elapsed' = elapsed + 1 /\ UNCHANGED granted
    <3>1. elapsed \in 0..Window /\ granted \in [Values -> Nat]
      BY DEF LedgerInv
    <3>2. elapsed' \in 0..Window /\ elapsed' - elapsed = 1
      BY <2>2, <3>1
    <3>3. Ledger'
      BY <1>0, <2>1, <2>2, <3>2, Earned
    <3> QED BY <1>0, <2>2, <3>1, <3>2, <3>3 DEF LedgerInv
  <2>3. CASE StartOver
    BY <1>0, <2>3, Started DEF LedgerInv
  <2> QED BY <1>1, <2>2, <2>3 DEF WTick
<1>2. ASSUME NEW v \in Values, WAllow(v) PROVE LedgerInv'
  BY <1>0, <1>2, Spent DEF LedgerInv
<1>3. CASE Reset
  BY <1>0, <1>3, Started DEF Reset, LedgerInv
<1>4. ASSUME UNCHANGED observer, \A v \in Values : Level(v)' = Level(v) PROVE LedgerInv'
  <2>1. elapsed' = elapsed /\ granted' = granted
    BY <1>4 DEF observer
  <2> QED BY <1>0, <1>4, <2>1 DEF LedgerInv, Ledger, Full
<1>5. CASE WSweep
  <2>1. \A v \in Values : Level(v)' = Level(v)
    BY <1>5, SweepLevel DEF WSweep, LedgerInv
  <2> QED BY <1>4, <1>5, <2>1 DEF WSweep
<1>6. CASE WStop \/ WReturn \/ UNCHANGED wvars
  <2>1. \A v \in Values : Level(v)' = Level(v)
    BY <1>6 DEF WStop, WReturn, Stop, Return, wvars, vars, entry, Level
  <2>2. UNCHANGED observer
    BY <1>6 DEF WStop, WReturn, wvars
  <2> QED BY <1>4, <2>1, <2>2
<1> QED BY <1>1, <1>2, <1>3, <1>5, <1>6 DEF WNext

\* What the limiter lets through is paid for by what its buckets held or earned.
THEOREM LedgerHolds == WSpec => []LedgerInv
<1>1. WInit /\ LimiterInv => LedgerInv
  <2> SUFFICES ASSUME WInit, LimiterInv PROVE LedgerInv
    OBVIOUS
  <2>1. elapsed = 0 /\ granted = [v \in Values |-> 0]
    BY DEF WInit
  <2>2. ASSUME NEW v \in Values PROVE granted[v] * Cost + Level(v) <= Full + elapsed
    <3>1. Level(v) \in 0..Full
      BY LevelType DEF LimiterInv
    <3>2. 0 * Cost = 0
      OBVIOUS
    <3> QED BY <2>1, <3>1, <3>2, FullType
  <2> QED BY <2>1, <2>2 DEF LedgerInv, Ledger
<1> QED BY <1>1, LedgerStep, Watching, LimiterInvariant, PTL DEF WSpec

\* Nobody gets more than the burst and the rate allow, over any window and
\* through any number of evictions.
THEOREM RateHolds == WSpec => []RateBounded
<1>1. LedgerInv => RateBounded
  <2> SUFFICES ASSUME LedgerInv, NEW v \in Values
               PROVE  granted[v] * Cost <= Full + elapsed
    BY DEF RateBounded
  <2>1. granted[v] * Cost \in Nat /\ Level(v) \in Nat /\ elapsed \in Nat
    BY OneMore, LevelType, FullType DEF LedgerInv, LimiterInv
  <2>2. granted[v] * Cost + Level(v) <= Full + elapsed
    BY DEF LedgerInv, Ledger
  <2> QED BY <2>1, <2>2, FullType
<1> QED BY <1>1, LedgerHolds, PTL
====
