----------------------------- MODULE Scheduler -----------------------------
(***************************************************************************)
(* The one job scheduler of a sciop deployment (src/sciop/scheduler).      *)
(*                                                                         *)
(* gunicorn forks its workers from one preloaded master, so all of them    *)
(* share the semaphore scheduler_created.  The worker that takes it starts *)
(* the scheduler: in its own event loop ("local"), or as a spawned process *)
(* that serves XML-RPC on one port ("rpc").  gunicorn replaces a worker    *)
(* that stopped or was killed.  A model server is one spawned process.     *)
(***************************************************************************)
EXTENDS Integers, FiniteSets, Functions

CONSTANTS
    Workers,         \* the worker processes of gunicorn
    Servers,         \* names for the processes spawned by start_scheduler
    NoServer,        \* rpc_process = None
    RegisteredJobs,  \* the jobs registered with @interval, @cron and @date
    MaxStops,        \* how many times workers are asked to stop
    MaxCrashes       \* how many workers and servers are killed

ASSUME SchedulerAssumption ==
    /\ NoServer \notin Servers
    /\ MaxStops \in Nat
    /\ MaxCrashes \in Nat

VARIABLES
    mode,        \* server.scheduler_mode
    enabled,     \* the registered jobs the configuration switches on
    job_store,   \* the registered jobs with a row in the job store
    semaphore,   \* scheduler_created
    worker,      \* "stopping" and "leaving": waiting for its rpc_process
    process,     \* rpc_process of each worker
    local,       \* the workers whose LocalSchedulerManager.scheduler runs
    server,      \* where each spawned process is in RPCSchedulerServer.run
    todo,        \* the jobs add_registered_jobs has not reached yet
    strays,      \* releases by workers that had not acquired (history)
    stops, crashes

scheduler_vars == <<mode, enabled, job_store, semaphore, worker, process,
                    local, server, todo, strays, stops, crashes>>

WorkerStates == {"down", "up", "stopping", "leaving"}

\* "quitting": told to stop, the port still bound; "closing": the port is
\* free and the background scheduler not yet shut down.
ServerStates ==
    {"none", "spawned", "adding", "serving", "quitting", "closing"}

SchedulerTypeOK ==
    /\ mode \in {"local", "rpc"}
    /\ enabled \subseteq RegisteredJobs
    /\ job_store \subseteq RegisteredJobs
    /\ semaphore \in 0 .. 1 + MaxStops
    /\ worker \in [Workers -> WorkerStates]
    /\ process \in [Workers -> Servers \cup {NoServer}]
    /\ local \subseteq Workers
    /\ server \in [Servers -> ServerStates]
    /\ todo \in [Servers -> SUBSET RegisteredJobs]
    /\ strays \in 0 .. MaxStops
    /\ stops \in 0 .. MaxStops
    /\ crashes \in 0 .. MaxCrashes

\* A deployment starts with whatever jobs an earlier one left in the store.
SchedulerInit ==
    /\ mode \in {"local", "rpc"}
    /\ enabled \in SUBSET RegisteredJobs
    /\ job_store \in SUBSET RegisteredJobs
    /\ semaphore = 1
    /\ worker = [w \in Workers |-> "down"]
    /\ process = [w \in Workers |-> NoServer]
    /\ local = {}
    /\ server = [s \in Servers |-> "none"]
    /\ todo = [s \in Servers |-> {}]
    /\ strays = 0
    /\ stops = 0
    /\ crashes = 0

-----------------------------------------------------------------------------
(* The processes with a scheduler that starts jobs.                        *)

Ticking == {s \in Servers :
              server[s] \in {"adding", "serving", "quitting", "closing"}}

PortBound == \E s \in Servers : server[s] \in {"serving", "quitting"}

Live == Ticking \cup local

-----------------------------------------------------------------------------
(* Start: lifespan -> BaseSchedulerManager.start -> start_scheduler.       *)

(* Mutant of add_registered_jobs: the rows of disabled jobs stay.           *)
add_enabled_jobs(jobs) == job_store \cup (jobs \cap enabled)

\* Registered jobs that are on are added (or replaced), the others removed.
add_registered_jobs(jobs) == (job_store \ jobs) \cup (jobs \cap enabled)

local_start_scheduler(w) ==
    /\ local' = local \cup {w}
    /\ job_store' = add_registered_jobs(RegisteredJobs)
    /\ UNCHANGED <<process, server, todo>>

rpc_start_scheduler(w) ==
    /\ \E s \in Servers :
         /\ server[s] = "none"
         /\ \A v \in Workers : process[v] # s
         /\ server' = [server EXCEPT ![s] = "spawned"]
         /\ process' = [process EXCEPT ![w] = s]
    /\ UNCHANGED <<local, job_store, todo>>

(* Mutant of start: the result of acquire is not looked at.                *)
start_anyway(w) ==
    /\ semaphore' = semaphore - 1
    /\ IF mode = "local" THEN local_start_scheduler(w)
                         ELSE rpc_start_scheduler(w)

\* acquire(False): only the worker that gets the semaphore starts anything.
start(w) ==
    IF semaphore > 0
    THEN /\ semaphore' = semaphore - 1
         /\ IF mode = "local" THEN local_start_scheduler(w)
                              ELSE rpc_start_scheduler(w)
    ELSE UNCHANGED <<semaphore, local, job_store, process, server, todo>>

lifespan_start(w) ==
    /\ worker[w] = "down"
    /\ worker' = [worker EXCEPT ![w] = "up"]
    /\ start(w)
    /\ UNCHANGED <<mode, enabled, strays, stops, crashes>>

-----------------------------------------------------------------------------
(* The spawned process: RPCSchedulerServer.run.                            *)

\* scheduler.start(): the jobs in the store are live from here on.
create_scheduler(s) ==
    /\ server[s] = "spawned"
    /\ server' = [server EXCEPT ![s] = "adding"]
    /\ todo' = [todo EXCEPT ![s] = RegisteredJobs]
    /\ UNCHANGED <<mode, enabled, job_store, semaphore, worker, process, local,
                   strays, stops, crashes>>

add_registered_job(s) ==
    /\ server[s] = "adding"
    /\ \E j \in todo[s] :
         /\ job_store' = add_registered_jobs({j})
         /\ todo' = [todo EXCEPT ![s] = @ \ {j}]
    /\ UNCHANGED <<mode, enabled, semaphore, worker, process, local, server,
                   strays, stops, crashes>>

\* The state after binding the port: a port in use raises OSError, and the
\* finally block shuts the scheduler down again.
bound == IF PortBound THEN "closing" ELSE "serving"

create_server(s) ==
    /\ server[s] = "adding"
    /\ todo[s] = {}
    /\ server' = [server EXCEPT ![s] = bound]
    /\ UNCHANGED <<mode, enabled, job_store, semaphore, worker, process, local,
                   todo, strays, stops, crashes>>

\* The loop sees quitting; leaving the with block closes the port.
close_server(s) ==
    /\ server[s] = "quitting"
    /\ server' = [server EXCEPT ![s] = "closing"]
    /\ UNCHANGED <<mode, enabled, job_store, semaphore, worker, process, local,
                   todo, strays, stops, crashes>>

\* The finally block waits for running jobs, then the process ends.
run_finally(s) ==
    /\ server[s] = "closing"
    /\ server' = [server EXCEPT ![s] = "none"]
    /\ UNCHANGED <<mode, enabled, job_store, semaphore, worker, process, local,
                   todo, strays, stops, crashes>>

-----------------------------------------------------------------------------
(* Stop: lifespan -> BaseSchedulerManager.shutdown.                        *)

\* Of a worker that ends: its class variables go with it.
Exit(w) ==
    /\ worker' = [worker EXCEPT ![w] = "down"]
    /\ process' = [process EXCEPT ![w] = NoServer]

(* Mutant of release: the semaphore is kept.                               *)
keep(w) == UNCHANGED semaphore

release(w) == semaphore' = semaphore + 1

\* LocalSchedulerManager.is_running() is true in the worker that started it.
local_shutdown(w) ==
    /\ mode = "local"
    /\ IF w \in local THEN local' = local \ {w} /\ release(w)
                      ELSE UNCHANGED <<local, semaphore>>
    /\ Exit(w)
    /\ UNCHANGED <<server, strays>>

\* RPCSchedulerManager.is_running() makes a proxy, which connects to nothing,
\* so it is true in every worker; a worker without an rpc_process then skips
\* shutdown_scheduler and still releases.
rpc_shutdown_other(w) ==
    /\ mode = "rpc"
    /\ process[w] = NoServer
    /\ release(w)
    /\ strays' = strays + 1
    /\ Exit(w)
    /\ UNCHANGED <<local, server>>

\* The worker that has an rpc_process calls shutdown over RPC.  The call is
\* answered by the process that listens on the port, whoever spawned it; with
\* none listening the connection is refused and the error suppressed.
rpc_shutdown(w) ==
    /\ mode = "rpc"
    /\ process[w] # NoServer
    /\ IF PortBound
       THEN \E s \in Servers :
              /\ server[s] = "serving"
              /\ server' = [server EXCEPT ![s] = "quitting"]
       ELSE UNCHANGED server
    /\ worker' = [worker EXCEPT ![w] = "stopping"]
    /\ UNCHANGED <<semaphore, local, process, strays>>

\* A connection to a server that quits is reset, which is not suppressed: the
\* worker ends without a release, once multiprocessing has joined its child.
rpc_shutdown_reset(w) ==
    /\ mode = "rpc"
    /\ process[w] # NoServer
    /\ \E s \in Servers : server[s] = "quitting"
    /\ worker' = [worker EXCEPT ![w] = "leaving"]
    /\ UNCHANGED <<semaphore, local, server, process, strays>>

leave(w) ==
    /\ worker[w] = "leaving"
    /\ server[process[w]] = "none"
    /\ Exit(w)
    /\ UNCHANGED <<mode, enabled, job_store, semaphore, local, server, todo,
                   strays, stops, crashes>>

lifespan_stop(w) ==
    /\ worker[w] = "up"
    /\ stops < MaxStops
    /\ stops' = stops + 1
    /\ \/ local_shutdown(w)
       \/ rpc_shutdown_other(w)
       \/ rpc_shutdown(w)
       \/ rpc_shutdown_reset(w)
    /\ UNCHANGED <<mode, enabled, job_store, todo, crashes>>

(* Mutant of join_or_kill: the process is left to end when it likes.       *)
join_only(w) ==
    /\ worker[w] = "stopping"
    /\ release(w)
    /\ Exit(w)
    /\ UNCHANGED <<mode, enabled, job_store, local, server, todo, strays, stops,
                   crashes>>

\* join(5), terminate, join(5), kill: the process is gone, however long its
\* jobs would have run, when the semaphore is released.
join_or_kill(w) ==
    /\ worker[w] = "stopping"
    /\ server' = [server EXCEPT ![process[w]] = "none"]
    /\ release(w)
    /\ Exit(w)
    /\ UNCHANGED <<mode, enabled, job_store, local, todo, strays, stops, crashes>>

-----------------------------------------------------------------------------
(* Kills: the semaphore is not released, and a spawned process lives on.   *)

KillWorker(w) ==
    /\ worker[w] # "down"
    /\ crashes < MaxCrashes
    /\ crashes' = crashes + 1
    /\ Exit(w)
    /\ local' = local \ {w}
    /\ UNCHANGED <<mode, enabled, job_store, semaphore, server, todo, strays,
                   stops>>

KillServer(s) ==
    /\ server[s] # "none"
    /\ crashes < MaxCrashes
    /\ crashes' = crashes + 1
    /\ server' = [server EXCEPT ![s] = "none"]
    /\ UNCHANGED <<mode, enabled, job_store, semaphore, worker, process, local,
                   todo, strays, stops>>

-----------------------------------------------------------------------------
run(s) ==
    \/ create_scheduler(s)
    \/ add_registered_job(s)
    \/ create_server(s)
    \/ close_server(s)
    \/ run_finally(s)

Replace(w) == lifespan_start(w) \/ join_or_kill(w) \/ leave(w)

SchedulerNext ==
    \/ \E w \in Workers :
         \/ lifespan_start(w)
         \/ lifespan_stop(w)
         \/ join_or_kill(w)
         \/ leave(w)
         \/ KillWorker(w)
    \/ \E s \in Servers : run(s) \/ KillServer(s)

\* gunicorn replaces a worker that is gone, the waits of a stopping worker
\* have timeouts, and a spawned process runs until it ends.
SchedulerFairness ==
    /\ \A w \in Workers : WF_scheduler_vars(Replace(w))
    /\ \A s \in Servers : WF_scheduler_vars(run(s))

SchedulerSpec ==
    SchedulerInit /\ [][SchedulerNext]_scheduler_vars /\ SchedulerFairness

-----------------------------------------------------------------------------
(* Safety.                                                                 *)

\* What the docstring of start_scheduler says (scheduler/base.py:100): only
\* a single scheduler of any kind runs, whichever workers come and go.
OneScheduler == Cardinality(Live) <= 1

\* The semaphore keeps the scheduler single through starts, stops of the
\* worker that started it and kills, as long as no other worker has released
\* it: in particular the old process is gone before the semaphore is free.
OneSchedulerAlone == strays = 0 => OneScheduler

\* A server that answers calls, and a local scheduler, has put the job store
\* in line with the configuration: what an earlier deployment scheduled and
\* this one switched off is not run again (add_registered_jobs).
StoreFollowsConfig ==
    (local # {} \/ PortBound) => job_store \cap RegisteredJobs = enabled

-----------------------------------------------------------------------------
(* Actions and liveness.                                                   *)

\* A second scheduler is only ever a passing one: the spawned process that
\* finds the port taken shuts its scheduler down and ends.  And stopping the
\* worker that has the scheduler does not leave the deployment without one:
\* another start takes the semaphore.  (A kill does leave it without one, and
\* so may a release by a worker that had not acquired.)
OneSchedulerInTheEnd ==
    /\ ~OneScheduler ~> OneScheduler
    /\ []<>(strays > 0 \/ crashes > 0 \/ local # {} \/ PortBound)

=============================================================================
