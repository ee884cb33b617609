---------------------------- MODULE DelayedTasks ----------------------------
(***************************************************************************)
(* A scheduler's thread (AppScheduler::run) and its list of tasks          *)
(* (DelayedTaskProcessor): other threads, and the tasks themselves, post   *)
(* that a task is to be added or removed; the thread runs what is posted,  *)
(* then gives each task of the list a turn, and sleeps.                    *)
(*                                                                         *)
(* A task has a name and the number of times it is to run, 0 for always.   *)
(* Time is not measured: the interval of a listed task may be over at any  *)
(* moment, and is counted anew when the task has run.                      *)
(***************************************************************************)
EXTENDS Naturals, Sequences

CONSTANTS Names,       \* names of tasks
          MaxAdds,     \* bound: calls to addTask
          MaxRemoves,  \* bound: calls to removeTask
          MaxLoop      \* bound: the number of times a task is to run

ASSUME TasksAssumption == MaxAdds \in Nat /\ MaxRemoves \in Nat /\ MaxLoop \in Nat

VARIABLES
  adds,          \* tasks given to addTask so far; they are 1..adds
  removes,       \* calls to removeTask so far
  task,          \* name and number of runs of each task
  last,          \* for each name, what its last call added; NoTask if it removed
  posts,         \* functions posted and not yet run
  task_list,     \* the task listed for each name
  current_step,  \* turns a task has had
  runs,          \* times a task has run, when it is not to run always
  due,           \* names whose interval is over
  visit,         \* names that this turn has yet to come to
  pc,            \* where the thread is
  end,           \* the scheduler is to end
  fate           \* what has become of each task

calls == <<adds, removes, task, last>>
list  == <<task_list, current_step, runs, due, fate>>
vars  == <<calls, posts, list, visit, pc, end>>

Tasks  == 1..MaxAdds
NoTask == 0
Fates  == {"unknown", "posted", "listed", "finished", "replaced", "removed"}

Post(t, n) == [task |-> t, name |-> n]    \* removes n when t is NoTask

Init ==
  /\ adds = 0 /\ removes = 0
  /\ task \in [Tasks -> [name: Names, max_loop: 0..MaxLoop]]
  /\ last = [n \in Names |-> NoTask]
  /\ posts = <<>>
  /\ task_list = [n \in Names |-> NoTask]
  /\ current_step = [t \in Tasks |-> 0]
  /\ runs = [t \in Tasks |-> 0]
  /\ due = {}
  /\ visit = {}
  /\ pc = "sleep"
  /\ end = FALSE
  /\ fate = [t \in Tasks |-> "unknown"]

-----------------------------------------------------------------------------
(***************************************************************************)
(* Calls, of any thread.                                                   *)
(***************************************************************************)
addTask ==
  /\ adds < MaxAdds
  /\ adds' = adds + 1
  /\ last' = [last EXCEPT ![task[adds'].name] = adds']
  /\ posts' = Append(posts, Post(adds', task[adds'].name))
  /\ fate' = [fate EXCEPT ![adds'] = "posted"]
  /\ UNCHANGED <<removes, task, task_list, current_step, runs, due, visit, pc, end>>

removeTask(n) ==
  /\ removes < MaxRemoves
  /\ removes' = removes + 1
  /\ last' = [last EXCEPT ![n] = NoTask]
  /\ posts' = Append(posts, Post(NoTask, n))
  /\ UNCHANGED <<adds, task, list, visit, pc, end>>

endScheduler ==
  /\ end' = TRUE
  /\ UNCHANGED <<calls, posts, list, visit, pc>>

(***************************************************************************)
(* Time.                                                                   *)
(***************************************************************************)
Elapses(n) ==
  /\ task_list[n] # NoTask
  /\ due' = due \cup {n}
  /\ UNCHANGED <<calls, posts, task_list, current_step, runs, fate, visit, pc, end>>

-----------------------------------------------------------------------------
(***************************************************************************)
(* The thread.                                                             *)
(***************************************************************************)
Wakes ==
  /\ pc = "sleep"
  /\ pc' = IF end THEN "ended" ELSE "poll"
  /\ UNCHANGED <<calls, posts, list, visit, end>>

(* What becomes of the task listed for n when the list no longer has it. *)
Leaves(n, why) == IF task_list[n] = NoTask THEN fate ELSE [fate EXCEPT ![task_list[n]] = why]

\* Mutant: a removal leaves the task in the list.
Listed_Kept(t, n) == IF t = NoTask THEN task_list[n] ELSE t

(* task_list[name] = task_info, or erase. *)
Listed(t, n) == t

(* io_service.poll(): the posted functions, in order.  A name that is listed
   gets the new task, whose interval begins. *)
RunPost ==
  /\ pc = "poll"
  /\ posts # <<>>
  /\ posts' = Tail(posts)
  /\ LET t == Head(posts).task
         n == Head(posts).name
     IN /\ task_list' = [task_list EXCEPT ![n] = Listed(t, n)]
        /\ fate' = IF t = NoTask THEN Leaves(n, "removed")
                   ELSE [Leaves(n, "replaced") EXCEPT ![t] = "listed"]
        /\ due' = due \ {n}
  /\ UNCHANGED <<calls, current_step, runs, visit, pc, end>>

BeginTurn ==
  /\ pc = "poll"
  /\ posts = <<>>
  /\ pc' = "turn"
  /\ visit' = {n \in Names : task_list[n] # NoTask}
  /\ UNCHANGED <<calls, posts, list, end>>

\* Mutant: the turn of the last run removes the task.
RunsLeft_Less(t) == task[t].max_loop = 0 \/ current_step[t] + 1 < task[t].max_loop

RunsLeft(t) == task[t].max_loop = 0 \/ current_step[t] + 1 <= task[t].max_loop

\* Mutant: the turn ends with its first task.
Others_None(n) == {}

Others(n) == visit \ {n}

Counts(t) == task[t].max_loop >= 1

(* The turn of a listed task: it runs, or it has had its runs and is erased. *)
Turn(n) ==
  /\ pc = "turn"
  /\ n \in visit
  /\ n \in due
  /\ LET t == task_list[n]
     IN /\ current_step' = [current_step EXCEPT ![t] = IF Counts(t) THEN @ + 1 ELSE @]
        /\ IF RunsLeft(t)
           THEN /\ runs' = [runs EXCEPT ![t] = IF Counts(t) THEN @ + 1 ELSE @]
                /\ UNCHANGED <<task_list, fate>>
           ELSE /\ task_list' = [task_list EXCEPT ![n] = NoTask]
                /\ fate' = [fate EXCEPT ![t] = "finished"]
                /\ UNCHANGED runs
  /\ due' = due \ {n}
  /\ visit' = Others(n)
  /\ UNCHANGED <<calls, posts, pc, end>>

NotYet(n) ==
  /\ pc = "turn"
  /\ n \in visit
  /\ n \notin due
  /\ visit' = Others(n)
  /\ UNCHANGED <<calls, posts, list, pc, end>>

EndTurn ==
  /\ pc = "turn"
  /\ visit = {}
  /\ pc' = "sleep"
  /\ UNCHANGED <<calls, posts, list, visit, end>>

Thread == Wakes \/ RunPost \/ BeginTurn \/ EndTurn \/ \E n \in Names : Turn(n) \/ NotYet(n)

Next ==
  \/ addTask \/ endScheduler \/ \E n \in Names : removeTask(n) \/ Elapses(n)
  \/ Thread

Spec == Init /\ [][Next]_vars

(* The thread goes on, and time passes. *)
FairSpec == Spec /\ WF_vars(Thread) /\ \A n \in Names : WF_vars(Elapses(n))

-----------------------------------------------------------------------------
(***************************************************************************)
(* Properties.                                                             *)
(***************************************************************************)
TypeOK ==
  /\ adds \in 0..MaxAdds /\ removes \in 0..MaxRemoves
  /\ task \in [Tasks -> [name: Names, max_loop: 0..MaxLoop]]
  /\ last \in [Names -> Tasks \cup {NoTask}]
  /\ posts \in Seq([task: Tasks \cup {NoTask}, name: Names])
  /\ task_list \in [Names -> Tasks \cup {NoTask}]
  /\ current_step \in [Tasks -> Nat] /\ runs \in [Tasks -> Nat]
  /\ due \subseteq Names /\ visit \subseteq Names
  /\ pc \in {"sleep", "poll", "turn", "ended"}
  /\ end \in BOOLEAN
  /\ fate \in [Tasks -> Fates]

(* A task never runs more often than asked, and runs less often only if it was
   removed or another task was added under its name: a task that the list has
   let go by itself has had every one of its runs. *)
RunsAsAsked ==
  \A t \in Tasks :
    /\ runs[t] <= task[t].max_loop
    /\ fate[t] = "finished" => runs[t] = task[t].max_loop

(* The last call for a name decides, addTask or removeTask, whichever threads
   the calls came from and whatever the list was doing: when none of the posted
   functions is about a name, the list has for it the task that the last call
   added, and that task has left the list only by finishing; or it has nothing,
   when the last call removed. *)
LastCallWins ==
  \A n \in Names :
    (\A i \in DOMAIN posts : posts[i].name # n) =>
      \/ task_list[n] = last[n]
      \/ task_list[n] = NoTask /\ last[n] # NoTask /\ fate[last[n]] = "finished"

(* A task that is to run a number of times has its runs and leaves the list, is
   replaced or removed, or the scheduler ends. *)
TasksSettle ==
  \A t \in Tasks :
    fate[t] \in {"posted", "listed"} /\ task[t].max_loop >= 1
      ~> fate[t] \in {"finished", "replaced", "removed"} \/ end

=============================================================================
