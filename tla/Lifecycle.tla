------------------------------- MODULE Lifecycle -------------------------------
(***************************************************************************)
(* The server process: what it reads and opens before it serves, the       *)
(* requests it accepts, and how it stops.  cmd/api/main.go,                *)
(* internal/config, internal/database, New and Run of                      *)
(* internal/server/server.go, the probes of internal/platform/ready and    *)
(* the registry of internal/platform/metrics.                              *)
(*                                                                         *)
(* What handlers do with the database is left to the other modules.  A     *)
(* second signal waits in the channel of the first and changes nothing.    *)
(***************************************************************************)
EXTENDS Requests, Sequences

CONSTANTS
    Others,        \* dependencies beside "postgres": Redis, S3
    Latencies,     \* how long requests take
    Bounds,        \* upper bounds of the histogram's buckets, ascending
    RequestsBound  \* bound: requests of one process

ASSUME LifecycleAssumption ==
    /\ "postgres" \notin Others
    /\ Latencies \subseteq Nat
    /\ Bounds \in Seq(Nat) /\ RequestsBound \in Nat
    /\ \A i, j \in DOMAIN Bounds : i < j => Bounds[i] < Bounds[j]

VARIABLES
    phase,     \* of the process
    config,    \* what it has read from the environment
    down,      \* the dependencies that do not answer
    pool,      \* the Postgres pool
    listener,  \* whether it accepts requests
    registry,  \* per outcome, how many requests each bucket has got
    seen,      \* per outcome, how long the answered requests took (not stored)
    cut        \* the process ended under a request (not stored)

lifecycleTables == <<phase, config, down, pool, listener, registry, seen, cut>>
lifecycleVars == <<requests, lifecycleTables>>

Ends == {"clean", "failed", "forced", "killed"}
Phases == {"connecting", "starting", "running", "draining", "closing"} \cup Ends

Dependencies == {"postgres"} \cup Others
Config == [production : BOOLEAN, secret : BOOLEAN, configured : SUBSET Dependencies]

Outcomes == {"ok", "error"}
BucketIndices == 1..(Len(Bounds) + 1)  \* the last one is +Inf
NoneCounted == [o \in Outcomes |-> [i \in BucketIndices |-> 0]]
NoneSeen == [o \in Outcomes |-> <<>>]

LifecycleInit ==
    /\ RequestsInit
    /\ phase = "clean"
    /\ config = [production |-> FALSE, secret |-> FALSE, configured |-> {}]
    /\ down = {}
    /\ pool = "none"
    /\ listener = "off"
    /\ registry = NoneCounted /\ seen = NoneSeen
    /\ cut = FALSE

\* The process is gone, and whatever it was serving.
Exit(how) ==
    /\ phase' = how
    /\ cut' = ~Quiet
    /\ listener' = "off"
    /\ pc' = [w \in setting.workers |-> "idle"]
    /\ loc' = [w \in setting.workers |-> Nothing]
    /\ UNCHANGED <<setting, config, down, registry, seen>>

-------------------------------------------------------------------------------
(* Starting                                                                *)

\* validate
ValidConfig(c) == c.production => c.secret /\ "postgres" \in c.configured

\* Load, in a new process whose memory is empty
Start(c) ==
    /\ phase \in Ends
    /\ config' = c
    /\ phase' = IF ValidConfig(c) THEN "connecting" ELSE "failed"
    /\ pool' = "none"
    /\ registry' = NoneCounted /\ seen' = NoneSeen
    /\ cut' = FALSE
    /\ UNCHANGED <<requests, down, listener>>

\* Without DATABASE_URL there is no pool, and New registers no route that needs
\* it; NewPostgresPool pings what it has opened.
Connect ==
    /\ phase = "connecting"
    /\ IF "postgres" \notin config.configured
       THEN phase' = "starting" /\ pool' = "none"
       ELSE IF "postgres" \in down
            THEN phase' = "failed" /\ UNCHANGED pool
            ELSE phase' = "starting" /\ pool' = "open"
    /\ UNCHANGED <<requests, config, down, listener, registry, seen, cut>>

\* The goroutine of ListenAndServe, which may fail at once or later.
Listen ==
    /\ phase \in {"starting", "running"}
    /\ \/ listener = "off" /\ listener' \in {"on", "failed"}
       \/ listener = "on" /\ listener' = "failed"
    /\ UNCHANGED <<requests, phase, config, down, pool, registry, seen, cut>>

\* signal.Notify; the goroutine may be serving already.
Notify ==
    /\ phase = "starting"
    /\ phase' = "running"
    /\ UNCHANGED <<requests, config, down, pool, listener, registry, seen, cut>>

-------------------------------------------------------------------------------
(* Serving                                                                 *)

\* writeHistogram: the counts up to a bucket, added up
Cumulative(counts) ==
    LET upTo[i \in 0..Len(Bounds) + 1] == IF i = 0 THEN 0 ELSE upTo[i - 1] + counts[i]
    IN  upTo

Counted(o) == Cumulative(registry[o])[Len(Bounds) + 1]

\* Bound: what a process answers, and is about to.
RoomToServe ==
    Counted("ok") + Counted("error")
    + Cardinality({w \in setting.workers : pc[w] # "idle"}) < RequestsBound

\* /ready, or a route of the API, which is there when there is a pool.
Accept(w, route) ==
    /\ Idle(w)
    /\ listener = "on"
    /\ route = "api" => pool # "none"
    /\ RoomToServe
    /\ Hold(w, IF route = "ready" THEN "probe" ELSE "handler",
            [left |-> config.configured, outcome |-> "ok"])
    /\ UNCHANGED lifecycleTables

\* Check pings one dependency after the other; what is not configured is skipped.
Probe(w) ==
    /\ At(w, "probe")
    /\ IF loc[w].left = {}
       THEN Goto(w, "observe")
       ELSE \E d \in loc[w].left :
                Hold(w, "probe",
                     [left    |-> loc[w].left \ {d},
                      outcome |-> IF d \in down THEN "error" ELSE loc[w].outcome])
    /\ UNCHANGED lifecycleTables

\* The handler returns, or panics: Recovery is the outermost middleware, so a
\* panic passes by HTTPMetrics and is not counted.
Handle(w) ==
    /\ At(w, "handler")
    /\ \/ \E o \in Outcomes : Hold(w, "observe", [left |-> {}, outcome |-> o])
       \/ Finish(w)
    /\ UNCHANGED lifecycleTables

\* histogram.observe: the first bucket that holds v
BucketOf(v) ==
    LET fits == {i \in DOMAIN Bounds : v <= Bounds[i]}
    IN  IF fits = {} THEN Len(Bounds) + 1
        ELSE CHOOSE i \in fits : \A j \in fits : i <= j

\* ObserveRequest, and the answer is sent
Observe(w, v) ==
    /\ At(w, "observe")
    /\ LET o == loc[w].outcome
       IN  /\ registry' = [registry EXCEPT ![o][BucketOf(v)] = @ + 1]
           /\ seen' = [seen EXCEPT ![o] = Append(@, v)]
    /\ Finish(w)
    /\ UNCHANGED <<phase, config, down, pool, listener, cut>>

Dependency(d) ==
    /\ down' = IF d \in down THEN down \ {d} ELSE down \cup {d}
    /\ UNCHANGED <<requests, phase, config, pool, listener, registry, seen, cut>>

-------------------------------------------------------------------------------
(* Stopping                                                                *)

\* SIGINT or SIGTERM.  Before Notify it kills the process; then Shutdown stops
\* the listener.  When the listener has failed as well, select takes either.
Signal ==
    \/ /\ phase \in {"connecting", "starting"}
       /\ Exit("killed") /\ UNCHANGED pool
    \/ /\ phase = "running"
       /\ phase' = "draining"
       /\ listener' = "off"
       /\ UNCHANGED <<requests, config, down, pool, registry, seen, cut>>

\* Run returns the listener's error without a Shutdown.
ListenFailed ==
    /\ phase = "running" /\ listener = "failed"
    /\ Exit("failed") /\ UNCHANGED pool

\* Five seconds have passed with a request in flight.
ShutdownTimeout ==
    /\ phase = "draining" /\ ~Quiet
    /\ Exit("forced") /\ UNCHANGED pool

\* As if the pool were closed without waiting for the requests in flight.
DrainedAtOnce ==
    /\ phase = "draining"
    /\ phase' = "closing"
    /\ pool' = IF pool = "open" THEN "closed" ELSE pool
    /\ UNCHANGED <<requests, config, down, listener, registry, seen, cut>>

\* Shutdown has returned: every request is answered.
Drained ==
    /\ phase = "draining" /\ Quiet
    /\ phase' = "closing"
    /\ pool' = IF pool = "open" THEN "closed" ELSE pool
    /\ UNCHANGED <<requests, config, down, listener, registry, seen, cut>>

Stop ==
    /\ phase = "closing"
    /\ Exit("clean") /\ UNCHANGED pool

-------------------------------------------------------------------------------
Starting == (\E c \in Config : Start(c)) \/ Connect \/ Listen \/ Notify

Serving == \E w \in setting.workers :
    \/ \E route \in {"ready", "api"} : Accept(w, route)
    \/ Probe(w) \/ Handle(w)
    \/ \E v \in Latencies : Observe(w, v)

Stopping == Signal \/ ListenFailed \/ ShutdownTimeout \/ Drained \/ Stop

LifecycleNext ==
    Starting \/ Serving \/ Stopping \/ \E d \in Dependencies : Dependency(d)

LifecycleSpec == LifecycleInit /\ [][LifecycleNext]_lifecycleVars

-------------------------------------------------------------------------------
(* Properties                                                              *)

\* Every variable holds one of its values, and a worker the dependencies it has
\* still to ask.
LifecycleTypeOK ==
    /\ phase \in Phases /\ config \in Config /\ down \subseteq Dependencies
    /\ pool \in {"none", "open", "closed"}
    /\ listener \in {"off", "on", "failed"}
    /\ cut \in BOOLEAN
    /\ \A o \in Outcomes :
        registry[o] \in [BucketIndices -> Nat] /\ seen[o] \in Seq(Latencies)
    /\ \A w \in setting.workers :
        \/ pc[w] = "idle" /\ loc[w] = Nothing
        \/ /\ pc[w] \in {"probe", "handler", "observe"}
           /\ loc[w] \in [left : SUBSET Dependencies, outcome : Outcomes]

\* The requests with outcome o that took no longer than upper.
Within(o, upper) == {k \in DOMAIN seen[o] : seen[o][k] <= upper}

\* Signals, a failing listener, slow requests and restarts come in any order
\* (server.go:597): the pool is never closed under a request, a process that ends
\* cleanly has answered every request and closed its pool, and no process serves
\* a production configuration without secret or pool.  While it serves, a bucket
\* shows the requests of its process that took no longer than its bound, of all
\* that were answered without a panic.
ShutdownClean ==
    /\ pool = "closed" => Quiet
    /\ phase = "clean" => ~cut /\ pool # "open"
    /\ listener = "on" \/ ~Quiet =>
        /\ ValidConfig(config)
        /\ pool = "open" <=> "postgres" \in config.configured
    /\ \A o \in Outcomes, i \in DOMAIN Bounds :
        Cumulative(registry[o])[i] = Cardinality(Within(o, Bounds[i]))
===============================================================================
