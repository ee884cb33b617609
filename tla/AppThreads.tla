----------------------------- MODULE AppThreads -----------------------------
(***************************************************************************)
(* The threads of the application, from App::start to its return: the      *)
(* pool of the workers, the loops that are posted to it and never leave    *)
(* their threads while the server runs, the jobs that are posted after     *)
(* them, and the signals and the errors that end the server.               *)
(*                                                                         *)
(* The pool runs what is posted in the order of the posts.  Schedulers     *)
(* are posted while the settings are loaded, the loops of the battle       *)
(* processors when the application starts, and jobs by the routes it has   *)
(* added then.  The queue of the pool is therefore kept as the number of   *)
(* each kind that waits.                                                   *)
(***************************************************************************)
EXTENDS Naturals

CONSTANTS BattleLoops,    \* battle processors: Global::onStart initialises 4
          IoThreads,      \* io_thread_size
          MaxWorkers,     \* bound: worker_thread_size
          MaxJobs         \* bound: jobs posted

ASSUME ThreadsAssumption ==
  /\ BattleLoops \in Nat /\ IoThreads \in Nat
  /\ MaxWorkers \in Nat /\ MaxJobs \in Nat

VARIABLES
  setting,         \* what the configuration and the build say
  pc,              \* where App::start is
  waiting,         \* the queue of the pool
  running,         \* what is on the threads of the pool
  sig_flag,        \* a signal has been handled
  g_server_cache,  \* the signal handlers know the server
  end_flag,        \* the server is to end
  battle_end,      \* the battle loops are to end
  sched_end,       \* the schedulers are to end
  stopped,         \* the pool takes nothing more
  posted,          \* jobs posted
  jobs_run,        \* jobs that have run
  threw            \* an exception has ended App::start

flags == <<sig_flag, g_server_cache, end_flag, battle_end, sched_end, stopped, threw>>
pool  == <<waiting, running, posted, jobs_run>>
vars  == <<setting, pc, flags, pool>>

Loops == {"scheduler", "battle"}
Kinds == Loops \cup {"job"}
Steps == {"load", "signals", "setup", "cache", "start", "serve",
          "end", "stop", "sleep", "join", "returned"}

Settings == [worker_thread_size: 0..MaxWorkers, master_node: BOOLEAN,
             connect_redis: BOOLEAN, connect_voltdb: BOOLEAN, USE_VOLTDB: BOOLEAN]

One(b) == IF b THEN 1 ELSE 0

\* Mutant: the thread of the cluster's scheduler, or the node server's, is not counted.
thread_size_NoCluster ==
  setting.worker_thread_size + IoThreads + 1
    + One(setting.connect_redis) + One(setting.connect_voltdb)

(* SettingLoader::load and App::initSettings: the threads of the pool. *)
thread_size ==
  setting.worker_thread_size + IoThreads + 1
    + 1 + One(setting.connect_redis) + One(setting.connect_voltdb)

(* The schedulers: the application's, the io threads', the cluster's or the
   node server's, and those of the databases. *)
Schedulers ==
  1 + IoThreads + 1
    + One(setting.connect_redis) + One(setting.connect_voltdb /\ setting.USE_VOLTDB)

Init ==
  /\ setting \in Settings
  /\ pc = "load"
  /\ waiting = [k \in Kinds |-> 0]
  /\ running = [k \in Loops |-> 0]
  /\ sig_flag = FALSE /\ g_server_cache = FALSE /\ end_flag = FALSE
  /\ battle_end = FALSE /\ sched_end = FALSE /\ stopped = FALSE /\ threw = FALSE
  /\ posted = 0 /\ jobs_run = 0

-----------------------------------------------------------------------------
(***************************************************************************)
(* App::start, step by step.                                               *)
(***************************************************************************)
GoTo(from, to) == pc = from /\ pc' = to

initSettings ==
  /\ GoTo("load", "signals")
  /\ waiting' = [waiting EXCEPT !["scheduler"] = @ + Schedulers]
  /\ UNCHANGED <<setting, flags, running, posted, jobs_run>>

SetupSignalAction ==
  /\ GoTo("signals", IF setting.master_node THEN "setup" ELSE "start")
  /\ UNCHANGED <<setting, flags, pool>>

setupServers ==
  /\ GoTo("setup", "cache")
  /\ UNCHANGED <<setting, flags, pool>>

CacheServer ==
  /\ GoTo("cache", "start")
  /\ g_server_cache' = TRUE
  /\ UNCHANGED <<setting, sig_flag, end_flag, battle_end, sched_end, stopped, threw, pool>>

onStart ==
  /\ GoTo("start", "serve")
  /\ waiting' = [waiting EXCEPT !["battle"] = @ + BattleLoops]
  /\ UNCHANGED <<setting, flags, running, posted, jobs_run>>

\* Mutant: every node waits for the flag of the server.
Told_Server == end_flag

(* What ends the loop of the main thread: Server::start looks at its own
   flag, a node that serves no users at the signal's. *)
Told == IF setting.master_node THEN end_flag ELSE sig_flag

serve ==
  /\ GoTo("serve", "end")
  /\ Told
  /\ UNCHANGED <<setting, flags, pool>>

(* A port in use, a handler that throws: the catch of App::start returns. *)
Throw ==
  /\ setting.master_node
  /\ GoTo("setup", "returned") \/ GoTo("serve", "returned")
  /\ threw' = TRUE
  /\ UNCHANGED <<setting, sig_flag, g_server_cache, end_flag, battle_end, sched_end, stopped, pool>>

onEnd ==
  /\ GoTo("end", "stop")
  /\ battle_end' = TRUE
  /\ UNCHANGED <<setting, sig_flag, g_server_cache, end_flag, sched_end, stopped, threw, pool>>

endSchedulers ==
  /\ GoTo("stop", "sleep")
  /\ sched_end' = TRUE
  /\ UNCHANGED <<setting, sig_flag, g_server_cache, end_flag, battle_end, stopped, threw, pool>>

stop ==
  /\ GoTo("sleep", "join")
  /\ stopped' = TRUE
  /\ UNCHANGED <<setting, sig_flag, g_server_cache, end_flag, battle_end, sched_end, threw, pool>>

join_all ==
  /\ GoTo("join", "returned")
  /\ \A k \in Loops : running[k] = 0
  /\ UNCHANGED <<setting, flags, pool>>

-----------------------------------------------------------------------------
(***************************************************************************)
(* Signals, from the moment they are handled.                              *)
(***************************************************************************)
HandleSignal ==
  /\ pc \notin {"load", "signals", "returned"}
  /\ sig_flag' = TRUE
  /\ end_flag' = (end_flag \/ g_server_cache)
  /\ UNCHANGED <<setting, pc, g_server_cache, battle_end, sched_end, stopped, threw, pool>>

(***************************************************************************)
(* The pool.                                                               *)
(***************************************************************************)
\* Mutant: jobs go before the loops.
First_Jobs(k) ==
  /\ waiting[k] > 0
  /\ k \in Loops => waiting["job"] = 0

First(k) ==
  /\ waiting[k] > 0
  /\ k \in {"battle", "job"} => waiting["scheduler"] = 0
  /\ k = "job" => waiting["battle"] = 0

\* Mutant: initialize begins at thread 1.
Idle_OneLess == running["scheduler"] + running["battle"] + 1 < thread_size

(* MultipleTaskDispatcher::initialize: a thread for each of thread_size. *)
Idle == running["scheduler"] + running["battle"] < thread_size

(* A thread takes what was posted first.  A loop keeps it, and a job, which
   is short, is done. *)
Take(k) ==
  /\ ~stopped /\ Idle /\ First(k)
  /\ waiting' = [waiting EXCEPT ![k] = @ - 1]
  /\ running' = IF k \in Loops THEN [running EXCEPT ![k] = @ + 1] ELSE running
  /\ jobs_run' = IF k = "job" THEN jobs_run + 1 ELSE jobs_run
  /\ UNCHANGED <<setting, pc, flags, posted>>

(* AppScheduler::run and BattleProcessor::runLoop. *)
LoopEnded(k) == IF k = "battle" THEN battle_end ELSE sched_end

LoopReturns(k) ==
  /\ running[k] > 0
  /\ LoopEnded(k)
  /\ running' = [running EXCEPT ![k] = @ - 1]
  /\ UNCHANGED <<setting, pc, flags, waiting, posted, jobs_run>>

(* A route, called by a loop, posts a job: FbMaster::sendWorker, and
   FbEvUiid::addUser when Redis has answered. *)
postWorker ==
  /\ pc \in {"serve", "end", "stop", "sleep", "join"}
  /\ running["scheduler"] > 0
  /\ posted < MaxJobs
  /\ posted' = posted + 1
  /\ waiting' = [waiting EXCEPT !["job"] = @ + 1]
  /\ UNCHANGED <<setting, pc, flags, running, jobs_run>>

Main ==
  \/ initSettings \/ SetupSignalAction \/ setupServers \/ CacheServer \/ onStart
  \/ serve \/ onEnd \/ endSchedulers \/ stop \/ join_all

Next ==
  \/ Main \/ Throw \/ HandleSignal \/ postWorker
  \/ \E k \in Kinds : Take(k)
  \/ \E k \in Loops : LoopReturns(k)

Spec == Init /\ [][Next]_vars

(* The main thread and the threads of the pool go on. *)
FairSpec ==
  /\ Spec /\ WF_vars(Main)
  /\ \A k \in Kinds : WF_vars(Take(k))
  /\ \A k \in Loops : WF_vars(LoopReturns(k))

-----------------------------------------------------------------------------
(***************************************************************************)
(* Properties.                                                             *)
(***************************************************************************)
TypeOK ==
  /\ setting \in Settings /\ pc \in Steps
  /\ waiting \in [Kinds -> Nat] /\ running \in [Loops -> Nat]
  /\ sig_flag \in BOOLEAN /\ g_server_cache \in BOOLEAN /\ end_flag \in BOOLEAN
  /\ battle_end \in BOOLEAN /\ sched_end \in BOOLEAN
  /\ stopped \in BOOLEAN /\ threw \in BOOLEAN
  /\ posted \in 0..MaxJobs /\ jobs_run \in 0..MaxJobs

(* Threads that no loop keeps.  Schedulers have threads of their own, so
   worker_thread_size has to be more than the number of battle processors
   for a job to find one. *)
Spare == thread_size > Schedulers + BattleLoops

(* Without a spare thread no job runs while the server does: the loops were
   posted before the first job and keep every thread until they are told to
   end.  The routes that post jobs are never answered. *)
JobsNeedSpare == jobs_run > 0 => Spare \/ battle_end

(* With a spare thread every job runs, unless the pool is stopped first or an
   exception has ended the server. *)
JobsAreRun ==
  \A n \in 1..MaxJobs :
    posted >= n /\ Spare ~> jobs_run >= n \/ stopped \/ threw

(* Every scheduler and every battle processor gets a thread if the
   configuration gives one to each battle processor, whatever databases it
   names, unless the server has ended. *)
LoopsStart ==
  pc = "serve" /\ setting.worker_thread_size >= BattleLoops
    ~> \/ running["scheduler"] = Schedulers /\ running["battle"] = BattleLoops
       \/ pc # "serve"

(* A signal that the main thread can see ends the server, and App::start
   returns, unless an exception comes first.  A signal that comes to a master
   node before g_server_cache is set is not one of these. *)
SignalEnds ==
  sig_flag /\ (setting.master_node => end_flag) ~> pc = "returned"

(* When App::start returns, no thread of the pool runs any more, and nothing
   touches the objects that are then destroyed, unless it was an exception
   that ended it. *)
NoThreadAtExit ==
  pc = "returned" => threw \/ \A k \in Loops : running[k] = 0

=============================================================================
