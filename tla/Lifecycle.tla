---- MODULE Lifecycle ----
(***************************************************************************)
(* Lifecycle: what the two programs, cmd/http and cmd/job, open on their   *)
(* way up and release on their way out.  Every step of the way up may      *)
(* fail; the functions that have something open release it, one inside the *)
(* other, and the deferred calls of run release the rest.                  *)
(*                                                                         *)
(*   metrics, logs, traces   the OpenTelemetry providers                   *)
(*   pool                    the sql.DB                                    *)
(*   nats                    the NATS connection                           *)
(*   state                   the state store, with its goroutine if it is  *)
(*                           the in-memory one                             *)
(*   cache                   the session cache and its goroutine; authkit  *)
(*                           shuts it down when authkit is shut down       *)
(*   limiter                 the e-mail limiter and its goroutine          *)
(*                                                                         *)
(* A release closes a channel or a connection, so that it must come once.  *)
(***************************************************************************)
EXTENDS Naturals, SequencesExt

VARIABLES
    program,   \* which of the two is run
    enabled,   \* the OpenTelemetry components its configuration enables
    kind,      \* its AUTH_STATE_STORE
    pc,        \* the next step of its way up, unwind or exit
    open,      \* the resources it has open
    deferred,  \* what InitSDK has to shut down, then what run defers, in order
    todo,      \* unwinding: what is still to be released, in order
    stuck,     \* resources whose release reported an error
    failedAt,  \* the step that failed, or none
    code       \* the exit code

config == <<program, enabled, kind>>
lvars == <<config, pc, open, deferred, todo, stuck, failedAt, code>>

Components == <<"metrics", "logs", "traces">>
Resources == ToSet(Components) \cup {"pool", "nats", "state", "cache", "limiter"}

Points ==
    {"config", "otel", "open", "ping", "connect", "jetstream", "store", "cache", "authkit",
     "sentinel", "routes", "serve", "dialect", "migrate", "unwind", "exit"}

-----------------------------------------------------------------------------
LInit ==
    /\ program \in {"http", "job"}
    /\ enabled \in SUBSET ToSet(Components)
    /\ kind \in {"nats", "inmemory", "unsupported"}
    /\ pc = "config"
    /\ open = {} /\ deferred = <<>> /\ todo = <<>>
    /\ stuck = {} /\ failedAt = "none" /\ code = 0

\* The step is done and the program goes on.
Proceed(opened, next) ==
    /\ open' = open \cup opened
    /\ pc' = next
    /\ UNCHANGED <<config, deferred, todo, stuck, failedAt, code>>

\* The step fails: what the functions on the way release, then what run defers.
Fail(released) ==
    /\ todo' = released \o deferred
    /\ pc' = "unwind" /\ failedAt' = pc /\ code' = 1
    /\ UNCHANGED <<config, open, deferred, stuck>>

\* run: config.Load.
LoadConfig ==
    /\ pc = "config"
    /\ Proceed({}, "otel") \/ Fail(<<>>)

-----------------------------------------------------------------------------
\* InitSDK

\* resource.New; without a component InitSDK does nothing.
NewResource ==
    /\ pc = "otel" /\ enabled # {} /\ open = {}
    /\ Fail(<<>>)

Left == enabled \ open

\* The loop over the components: the next one that is enabled.
NextComponent(c) ==
    \E i \in 1..Len(Components) :
       /\ c = Components[i] /\ c \in Left
       /\ \A j \in 1..(i - 1) : Components[j] \notin Left

\* Its exporter may fail, and what shutdownFuncs holds is shut down.
InitComponent(c) ==
    /\ pc = "otel" /\ NextComponent(c)
    /\ \/ /\ open' = open \cup {c}
          /\ deferred' = Append(deferred, c)
          /\ UNCHANGED <<config, pc, todo, stuck, failedAt, code>>
       \/ Fail(<<>>)

\* run defers otelShutdown.
OTelReady ==
    /\ pc = "otel" /\ Left = {}
    /\ Proceed({}, "open")

-----------------------------------------------------------------------------
\* provider.All

\* ProvideDataSource: gorm.Open.
OpenPool ==
    /\ pc = "open"
    /\ Proceed({"pool"}, "ping") \/ Fail(<<>>)

\* ProvideDataSource: DB and Ping, whose failure closes nothing.
PingPool ==
    /\ pc = "ping"
    /\ Proceed({}, "connect") \/ Fail(<<>>)

\* ProvideCoreServices, and All's answer to its failure.
Connect ==
    /\ pc = "connect"
    /\ Proceed({"nats"}, "jetstream") \/ Fail(<<"pool">>)

NewJetStream ==
    /\ pc = "jetstream"
    /\ Proceed({}, "store") \/ Fail(<<"nats", "pool">>)

\* Only the bucket can fail, and only a known name has a store.
NewStateStore ==
    /\ pc = "store"
    /\ \/ kind # "unsupported" /\ Proceed({"state"}, "cache")
       \/ kind # "inmemory" /\ Fail(<<"nats", "pool">>)

\* provideAuthKit: NewInMemoryCache starts a goroutine.
NewCache ==
    /\ pc = "cache"
    /\ Proceed({"cache"}, "authkit")

\* Mutant of NewAuthKit: All forgets the core services.
NewAuthKitForgetful ==
    /\ pc = "authkit"
    /\ \/ Proceed({}, IF program = "http" THEN "sentinel" ELSE "dialect")
       \/ Fail(<<"pool">>)

\* provideAuthKit: authkit.New.  All shuts the data sources and the core
\* services down; nobody has the cache.
NewAuthKit ==
    /\ pc = "authkit"
    /\ \/ Proceed({}, IF program = "http" THEN "sentinel" ELSE "dialect")
       \/ Fail(<<"pool", "state", "nats">>)

\* Mutant of ProvidersShutdown: in the order in which they were opened.
ProvidersShutdownForwards == <<"pool", "nats", "state", "cache">>

\* Providers.Shutdown: services, core services, data sources.
ProvidersShutdown == <<"cache", "state", "nats", "pool">>

-----------------------------------------------------------------------------
\* cmd/http

\* http.Setup: setupSentinel.
SetupSentinel ==
    /\ pc = "sentinel"
    /\ Proceed({}, "routes") \/ Fail(ProvidersShutdown)

\* http.Setup: RegisterRoutes; ProvideHandlers starts the limiter's
\* goroutine, and run defers shutdownFunc.
RegisterRoutes ==
    /\ pc = "routes"
    /\ \/ /\ open' = open \cup {"limiter"}
          /\ deferred' = <<"limiter">> \o ProvidersShutdown \o deferred
          /\ pc' = "serve"
          /\ UNCHANGED <<config, todo, stuck, failedAt, code>>
       \/ Fail(ProvidersShutdown)

\* run returns: its deferred calls are made.
RunReturns(c) ==
    /\ todo' = deferred
    /\ pc' = "unwind" /\ code' = c
    /\ UNCHANGED <<config, open, deferred, stuck, failedAt>>

\* ListenAndServe returns when it has been told to stop, or could not listen.
ListenAndServe ==
    /\ pc = "serve"
    /\ RunReturns(0) \/ Fail(<<>>)

-----------------------------------------------------------------------------
\* cmd/job

\* job.Setup: migrate.Setup; Job.Run defers Providers.Shutdown.
SetupJob ==
    /\ pc = "dialect"
    /\ \/ /\ deferred' = ProvidersShutdown \o deferred
          /\ pc' = "migrate"
          /\ UNCHANGED <<config, open, todo, stuck, failedAt, code>>
       \/ Fail(ProvidersShutdown)

\* Job.Run: goose.Up.
Migrate ==
    /\ pc = "migrate"
    /\ RunReturns(0) \/ Fail(<<>>)

-----------------------------------------------------------------------------
\* The way out

\* Closing the pool, the connection or an exporter may fail.
MayFail == ToSet(Components) \cup {"pool", "nats"}

\* The error is logged or joined to the others, and the next one follows.
Release ==
    /\ pc = "unwind" /\ todo # <<>>
    /\ todo' = Tail(todo)
    /\ \/ /\ open' = open \ {Head(todo)}
          /\ UNCHANGED stuck
       \/ /\ Head(todo) \in MayFail
          /\ stuck' = stuck \cup {Head(todo)}
          /\ UNCHANGED open
    /\ UNCHANGED <<config, pc, deferred, failedAt, code>>

Exit ==
    /\ pc = "unwind" /\ todo = <<>>
    /\ pc' = "exit"
    /\ UNCHANGED <<config, open, deferred, todo, stuck, failedAt, code>>

LNext ==
    \/ LoadConfig \/ NewResource \/ OTelReady
    \/ \E c \in enabled : InitComponent(c)
    \/ OpenPool \/ PingPool \/ Connect \/ NewJetStream \/ NewStateStore
    \/ NewCache \/ NewAuthKit
    \/ SetupSentinel \/ RegisterRoutes \/ ListenAndServe
    \/ SetupJob \/ Migrate
    \/ Release \/ Exit

LSpec == LInit /\ [][LNext]_lvars

-----------------------------------------------------------------------------
\* Properties

\* Every variable has its type.
LTypeOK ==
    /\ program \in {"http", "job"} /\ enabled \subseteq ToSet(Components)
    /\ kind \in {"nats", "inmemory", "unsupported"}
    /\ pc \in Points /\ failedAt \in Points \cup {"none"}
    /\ open \subseteq Resources /\ stuck \subseteq open
    /\ deferred \in Seq(Resources) /\ todo \in Seq(Resources)
    /\ code \in {0, 1}

\* What a program has open by each step of its way up, telemetry aside.
Opened(p) ==
    CASE p \in {"ping", "connect"} -> {"pool"}
      [] p \in {"jetstream", "store"} -> {"pool", "nats"}
      [] p = "cache" -> {"pool", "nats", "state"}
      [] p \in {"authkit", "sentinel", "routes", "dialect", "migrate"} ->
            {"pool", "nats", "state", "cache"}
      [] p = "serve" -> {"pool", "nats", "state", "cache", "limiter"}
      [] OTHER -> {}

\* a calls b as long as it is open: authkit the state store and the pool, the
\* bucket its connection (the in-memory store has none, and may stay first), and
\* everything is traced and logged.
Uses(a, b) ==
    \/ a = "cache" /\ b \in {"state", "pool"}
    \/ a = "state" /\ b = "nats"
    \/ a \notin ToSet(Components) /\ b \in ToSet(Components)

\* A list that releases nothing twice, and users before what they use.
Orderly(s) ==
    \A i, j \in DOMAIN s : i < j => s[i] # s[j] /\ ~Uses(s[j], s[i])

\* On the way up, the deferred calls know the telemetry, and everything once
\* the program serves or migrates; in between, each function knows the rest.
WayUpInv ==
    pc \notin {"unwind", "exit"} =>
       /\ open \ ToSet(Components) = Opened(pc)
       /\ ToSet(deferred) =
             IF pc \in {"serve", "migrate"} THEN open ELSE open \cap ToSet(Components)
       /\ Orderly(deferred)
       /\ stuck = {} /\ failedAt = "none" /\ code = 0

\* What nobody releases: the pool that does not answer, and the cache of an
\* authkit that was not made.
OrphansOf(p) ==
    CASE p = "ping"    -> {"pool"}
      [] p = "authkit" -> {"cache"}
      [] OTHER         -> {}

Orphans == OrphansOf(failedAt)

\* On the way out what is open is to be released, could not be, or has no owner.
WayOutInv ==
    pc \in {"unwind", "exit"} =>
       /\ Orderly(todo)
       /\ ToSet(todo) \cap (stuck \cup Orphans) = {}
       /\ open = ToSet(todo) \cup stuck \cup Orphans
       /\ code = 0 <=> failedAt = "none"
       /\ pc = "exit" => todo = <<>>

\* On whichever of its steps a program fails, everything it has opened is
\* released, once, but for the orphans; a release that fails keeps no other
\* from being made.  Every resource on the list is open when its turn comes,
\* for nothing is on the list twice.  It is inductive.
LifecycleInv == LTypeOK /\ WayUpInv /\ WayOutInv

\* Nothing is released while something that uses it is open, other than what
\* could not be released or has no owner.
UsersFirst ==
    [][\A b \in open \ open' : \A a \in open \ (stuck \cup Orphans) : ~Uses(a, b)]_lvars
=============================================================================
