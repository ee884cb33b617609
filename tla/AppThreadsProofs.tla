-------------------------- MODULE AppThreadsProofs --------------------------
(***************************************************************************)
(* Proofs about the threads of the application, for any numbers of battle  *)
(* processors, io threads, workers and jobs.                               *)
(*                                                                         *)
(* The invariant counts the loops: until they are told to end, those that  *)
(* wait and those that have a thread are all that were posted, and no job  *)
(* is posted before them.                                                  *)
(***************************************************************************)
EXTENDS AppThreads, TLAPS

Before  == {"load", "signals", "setup", "cache", "start"}
Serving == {"serve", "end", "stop", "sleep", "join"}

JobsCount == jobs_run + waiting["job"] = posted

NoBattleBefore == pc \in Before =>
  waiting["battle"] = 0 /\ running["battle"] = 0 /\ waiting["job"] = 0

NothingBefore == pc = "load" => waiting["scheduler"] = 0 /\ running["scheduler"] = 0

SchedulersPosted == pc # "load" /\ ~sched_end =>
  waiting["scheduler"] + running["scheduler"] = Schedulers

BattlesPosted == ~battle_end /\ (pc \in Serving \/ waiting["job"] > 0) =>
  waiting["battle"] + running["battle"] = BattleLoops

EndsInOrder ==
  /\ pc \in {"stop", "sleep", "join"} => battle_end
  /\ sched_end => battle_end
  /\ pc = "join" => stopped
  /\ pc = "returned" /\ ~threw => stopped

JobsHaveWorker ==
  jobs_run > 0 /\ ~battle_end =>
    \/ setting.worker_thread_size > BattleLoops
    \/ setting.connect_voltdb /\ ~setting.USE_VOLTDB

IInv ==
  /\ TypeOK
  /\ JobsCount /\ NoBattleBefore /\ NothingBefore
  /\ SchedulersPosted /\ BattlesPosted /\ EndsInOrder
  /\ JobsNeedSpare /\ NoThreadAtExit

(***************************************************************************)
(* The threads that are set aside.                                         *)
(***************************************************************************)
LEMMA SchedulersNat == ASSUME setting \in Settings PROVE Schedulers \in Nat
<1>1. One(setting.connect_redis) \in Nat /\ One(setting.connect_voltdb /\ setting.USE_VOLTDB) \in Nat
  BY DEF One
<1> QED BY <1>1, ThreadsAssumption DEF Schedulers

(* What App::initSettings asks for beyond the schedulers: the worker threads,
   and one for a VoltDB that the build does without. *)
LEMMA ThreadBudget ==
  ASSUME setting \in Settings
  PROVE  thread_size = Schedulers + setting.worker_thread_size
                         + One(setting.connect_voltdb /\ ~setting.USE_VOLTDB)
<1>1. /\ setting.worker_thread_size \in Nat /\ IoThreads \in Nat
      /\ One(setting.connect_redis) \in Nat
  <2>1. setting.worker_thread_size \in 0..MaxWorkers
    BY DEF Settings
  <2> QED BY <2>1, ThreadsAssumption DEF One
<1>2. One(setting.connect_voltdb)
        = One(setting.connect_voltdb /\ setting.USE_VOLTDB)
            + One(setting.connect_voltdb /\ ~setting.USE_VOLTDB)
  BY DEF One
<1>3. /\ One(setting.connect_voltdb /\ setting.USE_VOLTDB) \in Nat
      /\ One(setting.connect_voltdb /\ ~setting.USE_VOLTDB) \in Nat
  BY DEF One
<1> QED BY <1>1, <1>2, <1>3 DEF thread_size, Schedulers

(***************************************************************************)
(* The invariant.                                                          *)
(***************************************************************************)
LEMMA InitIInv == Init => IInv
<1> SUFFICES ASSUME Init PROVE IInv
  OBVIOUS
<1>1. TypeOK
  <2>1. posted \in 0..MaxJobs /\ jobs_run \in 0..MaxJobs
    BY ThreadsAssumption DEF Init
  <2>2. waiting \in [Kinds -> Nat] /\ running \in [Loops -> Nat]
    BY DEF Init
  <2> QED BY <2>1, <2>2 DEF Init, TypeOK, Steps
<1>2. waiting["job"] = 0 /\ waiting["battle"] = 0 /\ waiting["scheduler"] = 0
      /\ running["battle"] = 0 /\ running["scheduler"] = 0
  BY DEF Init, Kinds, Loops
<1>3. JobsCount /\ NoBattleBefore /\ NothingBefore /\ SchedulersPosted
  BY <1>2 DEF Init, JobsCount, NoBattleBefore, NothingBefore, SchedulersPosted
<1>4. BattlesPosted /\ EndsInOrder /\ JobsNeedSpare /\ NoThreadAtExit
  BY <1>2 DEF Init, BattlesPosted, EndsInOrder, JobsNeedSpare, NoThreadAtExit, Serving
<1> QED BY <1>1, <1>3, <1>4 DEF IInv

(* The posts: the schedulers', the battle loops', and a job's. *)
LEMMA PostsPreserve == IInv /\ (initSettings \/ onStart \/ postWorker) => IInv'
<1> SUFFICES ASSUME IInv PROVE initSettings \/ onStart \/ postWorker => IInv'
  OBVIOUS
<1>1. /\ setting \in Settings /\ Schedulers \in Nat /\ BattleLoops \in Nat
      /\ waiting \in [Kinds -> Nat] /\ running \in [Loops -> Nat]
      /\ "scheduler" \in Kinds /\ "battle" \in Kinds /\ "job" \in Kinds
      /\ "scheduler" \in Loops /\ "battle" \in Loops
  BY SchedulersNat, ThreadsAssumption DEF IInv, TypeOK, Kinds, Loops
<1>2. ASSUME initSettings PROVE IInv'
  <2>1. /\ waiting' = [waiting EXCEPT !["scheduler"] = @ + Schedulers]
        /\ pc = "load" /\ pc' = "signals"
        /\ UNCHANGED <<setting, flags, running, posted, jobs_run>>
    BY <1>2 DEF initSettings, GoTo
  <2>2. /\ waiting'["scheduler"] = Schedulers /\ running["scheduler"] = 0
        /\ waiting'["battle"] = 0 /\ running["battle"] = 0 /\ waiting'["job"] = 0
        /\ waiting["job"] = 0
        /\ waiting' \in [Kinds -> Nat]
    BY <2>1, <1>1 DEF IInv, NothingBefore, NoBattleBefore, Before
  <2>3. TypeOK'
    BY <2>1, <2>2 DEF IInv, TypeOK, flags, Steps
  <2>4. JobsCount' /\ NoBattleBefore' /\ NothingBefore' /\ SchedulersPosted'
    BY <2>1, <2>2, <1>1 DEF IInv, flags, JobsCount, NoBattleBefore, NothingBefore, SchedulersPosted, Schedulers
  <2>5. BattlesPosted' /\ EndsInOrder' /\ JobsNeedSpare' /\ NoThreadAtExit'
    BY <2>1, <2>2 DEF IInv, flags, BattlesPosted, EndsInOrder, JobsNeedSpare, NoThreadAtExit, Serving,
                      Spare, thread_size, Schedulers
  <2> QED BY <2>3, <2>4, <2>5 DEF IInv
<1>3. ASSUME onStart PROVE IInv'
  <2>1. /\ waiting' = [waiting EXCEPT !["battle"] = @ + BattleLoops]
        /\ pc = "start" /\ pc' = "serve"
        /\ UNCHANGED <<setting, flags, running, posted, jobs_run>>
    BY <1>3 DEF onStart, GoTo
  <2>2. /\ waiting'["scheduler"] = waiting["scheduler"] /\ waiting'["job"] = waiting["job"]
        /\ waiting'["battle"] = BattleLoops /\ running["battle"] = 0
        /\ waiting' \in [Kinds -> Nat]
    BY <2>1, <1>1 DEF IInv, NoBattleBefore, Before
  <2>3. TypeOK'
    BY <2>1, <2>2 DEF IInv, TypeOK, flags, Steps
  <2>4. JobsCount' /\ NoBattleBefore' /\ NothingBefore' /\ SchedulersPosted'
    BY <2>1, <2>2 DEF IInv, flags, JobsCount, NoBattleBefore, NothingBefore, SchedulersPosted, Schedulers, Before
  <2>5. BattlesPosted' /\ EndsInOrder' /\ JobsNeedSpare' /\ NoThreadAtExit'
    BY <2>1, <2>2, <1>1 DEF IInv, flags, BattlesPosted, EndsInOrder, JobsNeedSpare, NoThreadAtExit,
                            Spare, thread_size, Schedulers
  <2> QED BY <2>3, <2>4, <2>5 DEF IInv
<1>4. ASSUME postWorker PROVE IInv'
  <2>1. /\ waiting' = [waiting EXCEPT !["job"] = @ + 1]
        /\ posted' = posted + 1 /\ posted < MaxJobs /\ pc \in Serving
        /\ UNCHANGED <<setting, pc, flags, running, jobs_run>>
    BY <1>4 DEF postWorker, Serving
  <2>2. /\ waiting'["scheduler"] = waiting["scheduler"] /\ waiting'["battle"] = waiting["battle"]
        /\ waiting'["job"] = waiting["job"] + 1
        /\ waiting' \in [Kinds -> Nat]
    BY <2>1, <1>1
  <2>3. TypeOK'
    BY <2>1, <2>2, ThreadsAssumption DEF IInv, TypeOK, flags
  <2>4. JobsCount'
    BY <2>1, <2>2, <1>1, ThreadsAssumption DEF IInv, TypeOK, JobsCount
  <2>5. NoBattleBefore' /\ NothingBefore' /\ SchedulersPosted' /\ BattlesPosted'
    BY <2>1, <2>2 DEF IInv, flags, NoBattleBefore, NothingBefore, SchedulersPosted, BattlesPosted,
                      Schedulers, Before, Serving
  <2>6. EndsInOrder' /\ JobsNeedSpare' /\ NoThreadAtExit'
    BY <2>1 DEF IInv, flags, EndsInOrder, JobsNeedSpare, NoThreadAtExit, Spare, thread_size, Schedulers
  <2> QED BY <2>3, <2>4, <2>5, <2>6 DEF IInv
<1> QED BY <1>2, <1>3, <1>4

(* The steps that move no post: those of App::start, a signal, an exception. *)
LEMMA FlagsPreserve ==
  ASSUME IInv, UNCHANGED <<setting, pool>>, TypeOK', EndsInOrder', NoThreadAtExit',
         battle_end => battle_end', sched_end => sched_end',
         pc' \in Before => pc \in Before, pc' # "load",
         pc = "load" => sched_end' = sched_end /\ pc' = "load",
         pc' \in Serving => pc \in Serving
  PROVE  IInv'
<1>1. JobsCount' /\ NoBattleBefore' /\ NothingBefore'
  BY DEF IInv, pool, JobsCount, NoBattleBefore, NothingBefore
<1>2. SchedulersPosted' /\ BattlesPosted'
  BY DEF IInv, pool, SchedulersPosted, BattlesPosted, Schedulers
<1>3. JobsNeedSpare'
  BY DEF IInv, pool, JobsNeedSpare, Spare, thread_size, Schedulers
<1> QED BY <1>1, <1>2, <1>3 DEF IInv

LEMMA MainPreserves ==
  IInv /\ (\/ SetupSignalAction \/ setupServers \/ CacheServer \/ serve \/ onEnd
           \/ endSchedulers \/ stop \/ join_all \/ Throw \/ HandleSignal) => IInv'
<1> SUFFICES ASSUME IInv
             PROVE  (\/ SetupSignalAction \/ setupServers \/ CacheServer \/ serve \/ onEnd
                     \/ endSchedulers \/ stop \/ join_all \/ Throw \/ HandleSignal) => IInv'
  OBVIOUS
<1> USE DEF IInv, TypeOK, Steps, EndsInOrder, NoThreadAtExit, flags, pool, Before, Serving, GoTo
<1>1. SetupSignalAction => IInv'
  BY FlagsPreserve DEF SetupSignalAction
<1>2. setupServers => IInv'
  BY FlagsPreserve DEF setupServers
<1>3. CacheServer => IInv'
  BY FlagsPreserve DEF CacheServer
<1>4. serve => IInv'
  BY FlagsPreserve DEF serve
<1>5. onEnd => IInv'
  BY FlagsPreserve DEF onEnd
<1>6. endSchedulers => IInv'
  BY FlagsPreserve DEF endSchedulers
<1>7. stop => IInv'
  BY FlagsPreserve DEF stop
<1>8. join_all => IInv'
  BY FlagsPreserve DEF join_all
<1>9. Throw => IInv'
  BY FlagsPreserve DEF Throw
<1>10. HandleSignal => IInv'
  BY FlagsPreserve DEF HandleSignal
<1> QED BY <1>1, <1>2, <1>3, <1>4, <1>5, <1>6, <1>7, <1>8, <1>9, <1>10

(* A loop that is taken keeps its thread.  A job is taken only when every loop
   has a thread or has been told to end, and one thread is left. *)
LEMMA TakePreserves == ASSUME NEW k \in Kinds PROVE IInv /\ Take(k) => IInv'
<1> SUFFICES ASSUME IInv, Take(k) PROVE IInv'
  OBVIOUS
<1>1. /\ setting \in Settings /\ Schedulers \in Nat /\ BattleLoops \in Nat
      /\ waiting \in [Kinds -> Nat] /\ running \in [Loops -> Nat]
      /\ "scheduler" \in Kinds /\ "battle" \in Kinds /\ "job" \in Kinds
      /\ "scheduler" \in Loops /\ "battle" \in Loops
  BY SchedulersNat, ThreadsAssumption DEF IInv, TypeOK, Kinds, Loops
<1>2. /\ waiting[k] > 0 /\ waiting' = [waiting EXCEPT ![k] = @ - 1]
      /\ waiting' \in [Kinds -> Nat]
      /\ UNCHANGED <<setting, pc, flags, posted>> /\ ~stopped
  BY <1>1 DEF Take, First
<1>3. UNCHANGED <<thread_size, Schedulers>>
  BY <1>2 DEF thread_size, Schedulers
<1>4. EndsInOrder'
  BY <1>2 DEF IInv, EndsInOrder, flags
<1>5. NoThreadAtExit'
  BY <1>2 DEF IInv, EndsInOrder, NoThreadAtExit, flags
<1>6. ASSUME NEW l \in Loops, k = l PROVE IInv'
  <2>1. /\ running' = [running EXCEPT ![l] = @ + 1] /\ jobs_run' = jobs_run
        /\ running' \in [Loops -> Nat]
    BY <1>6, <1>1 DEF Take, Loops
  <2>2. /\ waiting'["job"] = waiting["job"]
        /\ \A m \in Loops : waiting'[m] + running'[m] = waiting[m] + running[m]
    BY <1>6, <2>1, <1>1, <1>2 DEF Loops, Kinds
  <2>3. TypeOK'
    BY <2>1, <1>2 DEF IInv, TypeOK, flags
  <2>4. JobsCount' /\ SchedulersPosted' /\ BattlesPosted'
    BY <2>1, <2>2, <1>1, <1>2, <1>3 DEF IInv, flags, JobsCount, SchedulersPosted, BattlesPosted
  <2>5. NothingBefore'
    BY <1>1, <1>2, <1>6 DEF IInv, NothingBefore, NoBattleBefore, Before, Loops
  <2>6. NoBattleBefore'
    <3>1. pc \in Before => k # "battle"
      BY <1>2 DEF IInv, NoBattleBefore
    <3>2. CASE l = "scheduler"
      BY <3>2, <2>1, <2>2, <1>1, <1>2, <1>6 DEF IInv, NoBattleBefore
    <3> QED BY <3>1, <3>2, <1>2, <1>6 DEF NoBattleBefore, Loops
  <2>7. JobsNeedSpare'
    BY <2>1, <1>2, <1>3 DEF IInv, JobsNeedSpare, Spare, flags
  <2> QED BY <2>3, <2>4, <2>5, <2>6, <2>7, <1>4, <1>5 DEF IInv
<1>7. ASSUME k = "job" PROVE IInv'
  <2>1. /\ running' = running /\ jobs_run' = jobs_run + 1
        /\ waiting["scheduler"] = 0 /\ waiting["battle"] = 0
        /\ running["scheduler"] + running["battle"] < thread_size
    BY <1>7 DEF Take, Loops, First, Idle
  <2>2. /\ waiting'["job"] = waiting["job"] - 1
        /\ waiting'["scheduler"] = waiting["scheduler"]
        /\ waiting'["battle"] = waiting["battle"]
    BY <1>7, <1>1, <1>2
  <2>3. /\ jobs_run \in Nat /\ posted \in Nat /\ posted <= MaxJobs /\ MaxJobs \in Nat
        /\ waiting["job"] \in Nat /\ waiting["job"] > 0
    BY <1>1, <1>2, <1>7, ThreadsAssumption DEF IInv, TypeOK
  <2>4. JobsCount'
    BY <2>1, <2>2, <2>3, <1>2 DEF IInv, JobsCount
  <2>5. jobs_run' \in 0..MaxJobs
    BY <2>1, <2>3 DEF IInv, JobsCount
  <2>6. TypeOK'
    BY <2>1, <2>5, <1>2 DEF IInv, TypeOK, flags
  <2>7. SchedulersPosted' /\ BattlesPosted'
    BY <2>1, <2>2, <2>3, <1>2, <1>3, <1>7 DEF IInv, flags, SchedulersPosted, BattlesPosted
  <2>8. NothingBefore' /\ NoBattleBefore'
    BY <2>1, <2>2, <2>3, <1>2 DEF IInv, NothingBefore, NoBattleBefore
  <2>9. JobsNeedSpare'
    <3> SUFFICES ASSUME ~battle_end PROVE Spare'
      BY <1>2 DEF JobsNeedSpare, flags
    <3>1. running["battle"] = BattleLoops
      BY <2>1, <2>3, <1>1 DEF IInv, BattlesPosted
    <3>2. pc # "load" /\ ~sched_end
      BY <2>3 DEF IInv, NoBattleBefore, EndsInOrder, Before
    <3>3. running["scheduler"] = Schedulers
      BY <3>2, <2>1, <1>1 DEF IInv, SchedulersPosted
    <3> QED BY <3>1, <3>3, <2>1, <1>2, <1>3 DEF Spare
  <2> QED BY <2>4, <2>6, <2>7, <2>8, <2>9, <1>4, <1>5 DEF IInv
<1> QED BY <1>6, <1>7 DEF Kinds

(* A loop leaves its thread only when it was told to end. *)
LEMMA ReturnPreserves == ASSUME NEW k \in Loops PROVE IInv /\ LoopReturns(k) => IInv'
<1> SUFFICES ASSUME IInv, LoopReturns(k) PROVE IInv'
  OBVIOUS
<1>1. /\ running \in [Loops -> Nat] /\ running[k] > 0
      /\ running' = [running EXCEPT ![k] = @ - 1]
      /\ UNCHANGED <<setting, pc, flags, waiting, posted, jobs_run>>
      /\ k = "battle" => battle_end
      /\ k # "battle" => sched_end
  BY DEF LoopReturns, LoopEnded, IInv, TypeOK
<1>2. /\ running' \in [Loops -> Nat] /\ running'[k] = running[k] - 1
      /\ \A l \in Loops : l # k => running'[l] = running[l]
      /\ \A l \in Loops : running[l] = 0 => running'[l] = 0
      /\ "scheduler" \in Loops /\ "battle" \in Loops
  BY <1>1 DEF Loops
<1>3. UNCHANGED <<thread_size, Schedulers>>
  BY <1>1 DEF thread_size, Schedulers
<1>4. TypeOK'
  BY <1>1, <1>2 DEF IInv, TypeOK, flags
<1>5. JobsCount' /\ NoBattleBefore' /\ NothingBefore' /\ EndsInOrder'
  BY <1>1, <1>2 DEF IInv, flags, JobsCount, NoBattleBefore, NothingBefore, EndsInOrder
<1>6. SchedulersPosted' /\ BattlesPosted'
  BY <1>1, <1>2, <1>3 DEF IInv, flags, SchedulersPosted, BattlesPosted, EndsInOrder
<1>7. JobsNeedSpare' /\ NoThreadAtExit'
  BY <1>1, <1>2, <1>3 DEF IInv, flags, JobsNeedSpare, NoThreadAtExit, Spare
<1> QED BY <1>4, <1>5, <1>6, <1>7 DEF IInv

LEMMA NextPreserves == IInv /\ [Next]_vars => IInv'
<1> SUFFICES ASSUME IInv, [Next]_vars PROVE IInv'
  OBVIOUS
<1>1. CASE Main
  BY <1>1, PostsPreserve, MainPreserves DEF Main
<1>2. CASE Throw \/ HandleSignal
  BY <1>2, MainPreserves
<1>3. CASE postWorker
  BY <1>3, PostsPreserve
<1>4. ASSUME NEW k \in Kinds, Take(k) PROVE IInv'
  BY <1>4, TakePreserves
<1>5. ASSUME NEW k \in Loops, LoopReturns(k) PROVE IInv'
  BY <1>5, ReturnPreserves
<1>6. CASE UNCHANGED vars
  <2>1. UNCHANGED <<setting, pc, flags, pool>>
    BY <1>6 DEF vars
  <2> QED BY <2>1 DEF IInv, TypeOK, JobsCount, NoBattleBefore, NothingBefore, SchedulersPosted,
                      BattlesPosted, EndsInOrder, JobsNeedSpare, NoThreadAtExit, Spare,
                      thread_size, Schedulers, flags, pool
<1> QED BY <1>1, <1>2, <1>3, <1>4, <1>5, <1>6 DEF Next

(* The inductive invariant of the pool: until they are told to end, the loops
   that wait and those that have a thread are all that were posted. *)
THEOREM ThreadsInvariance == Spec => []IInv
<1>1. Init => IInv
  BY InitIInv
<1>2. IInv /\ [Next]_vars => IInv'
  BY NextPreserves
<1> QED BY <1>1, <1>2, PTL DEF Spec

(* Every variable keeps its type. *)
THEOREM ThreadsTypeCorrect == Spec => []TypeOK
<1>1. IInv => TypeOK
  BY DEF IInv
<1> QED BY <1>1, ThreadsInvariance, PTL

(* The jobs of the routes run only where the pool of App::initSettings has a
   thread that no loop keeps. *)
THEOREM JobsNeedASpareThread == Spec => []JobsNeedSpare
<1>1. IInv => JobsNeedSpare
  BY DEF IInv
<1> QED BY <1>1, ThreadsInvariance, PTL

(* In terms of the configuration: with no more worker threads than battle
   processors no job of a route runs while the server does, unless the
   configuration names a VoltDB that the build does without. *)
THEOREM JobsNeedWorkers == Spec => []JobsHaveWorker
<1>1. IInv => JobsHaveWorker
  <2> SUFFICES ASSUME IInv, jobs_run > 0, ~battle_end,
                      ~(setting.connect_voltdb /\ ~setting.USE_VOLTDB)
               PROVE  setting.worker_thread_size > BattleLoops
    BY DEF JobsHaveWorker
  <2>1. setting \in Settings /\ Spare
    BY DEF IInv, TypeOK, JobsNeedSpare
  <2>2. One(setting.connect_voltdb /\ ~setting.USE_VOLTDB) = 0
    BY DEF One
  <2>3. setting.worker_thread_size \in Nat
    <3>1. setting.worker_thread_size \in 0..MaxWorkers
      BY <2>1 DEF Settings
    <3> QED BY <3>1, ThreadsAssumption
  <2>4. Schedulers \in Nat /\ BattleLoops \in Nat
    BY <2>1, SchedulersNat, ThreadsAssumption
  <2>5. thread_size = Schedulers + setting.worker_thread_size
    BY <2>1, <2>2, <2>3, <2>4, ThreadBudget
  <2> QED BY <2>1, <2>3, <2>4, <2>5 DEF Spare
<1> QED BY <1>1, ThreadsInvariance, PTL

(* App::start returns with no loop on a thread of the pool, unless by an
   exception. *)
THEOREM NoThreadOutlives == Spec => []NoThreadAtExit
<1>1. IInv => NoThreadAtExit
  BY DEF IInv
<1> QED BY <1>1, ThreadsInvariance, PTL

=============================================================================
