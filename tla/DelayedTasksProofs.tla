------------------------- MODULE DelayedTasksProofs -------------------------
(***************************************************************************)
(* Proofs about the scheduler's list of tasks, for any names, any number   *)
(* of calls and any order of them.                                         *)
(*                                                                         *)
(* The invariant relates the calls to what the thread has yet to run: the  *)
(* tasks in posts wait in the order of their calls, and the last function  *)
(* posted about a name carries what the last call for it asked.  When it   *)
(* has run, the list has that, and only a finish takes it away.            *)
(***************************************************************************)
EXTENDS DelayedTasks, TLAPS

(* current_step and runs go together until the runs are used up. *)
StepsCount ==
  \A t \in Tasks :
    /\ runs[t] = IF current_step[t] <= task[t].max_loop THEN current_step[t] ELSE task[t].max_loop
    /\ fate[t] = "finished" => current_step[t] > task[t].max_loop

KnownAreAsked == \A t \in Tasks : fate[t] = "unknown" <=> t > adds

PostsInOrder ==
  \A i, j \in DOMAIN posts :
    i < j /\ posts[i].task # NoTask /\ posts[j].task # NoTask => posts[i].task < posts[j].task

PostsArePosted ==
  \A i \in DOMAIN posts : posts[i].task # NoTask =>
    fate[posts[i].task] = "posted" /\ task[posts[i].task].name = posts[i].name

ListIsListed ==
  \A n \in Names : task_list[n] # NoTask =>
    fate[task_list[n]] = "listed" /\ task[task_list[n]].name = n

(* What the last function about a name will do is what the last call asked. *)
LastIsPosted ==
  \A i \in DOMAIN posts :
    (\A j \in DOMAIN posts : j > i => posts[j].name # posts[i].name)
      => posts[i].task = last[posts[i].name]

VisitIsListed == pc = "turn" => \A n \in visit : task_list[n] # NoTask

IInv ==
  /\ TypeOK
  /\ StepsCount /\ KnownAreAsked
  /\ PostsInOrder /\ PostsArePosted /\ LastIsPosted
  /\ ListIsListed /\ VisitIsListed
  /\ LastCallWins

(* The parts of the invariant about the calls and what is posted. *)
PostInv == KnownAreAsked /\ PostsInOrder /\ PostsArePosted /\ LastIsPosted

LEMMA InitIInv == Init => IInv
<1> SUFFICES ASSUME Init PROVE IInv
  OBVIOUS
<1>1. TypeOK
  <2>1. adds \in 0..MaxAdds /\ removes \in 0..MaxRemoves
    BY TasksAssumption DEF Init
  <2>2. task \in [Tasks -> [name: Names, max_loop: 0..MaxLoop]]
    BY DEF Init
  <2>3. posts \in Seq([task: Tasks \cup {NoTask}, name: Names])
    <3> DEFINE E == [task: Tasks \cup {NoTask}, name: Names]
    <3> HIDE DEF E
    <3>1. posts \in Seq(E)
      BY DEF Init
    <3> QED BY <3>1 DEF E
  <2>4. task_list \in [Names -> Tasks \cup {NoTask}] /\ last \in [Names -> Tasks \cup {NoTask}]
    BY DEF Init
  <2>5. current_step \in [Tasks -> Nat] /\ runs \in [Tasks -> Nat] /\ fate \in [Tasks -> Fates]
    BY DEF Init, Fates
  <2>6. due \subseteq Names /\ visit \subseteq Names /\ end \in BOOLEAN
        /\ pc \in {"sleep", "poll", "turn", "ended"}
    BY DEF Init
  <2> QED BY <2>1, <2>2, <2>3, <2>4, <2>5, <2>6 DEF TypeOK
<1>2. StepsCount
  <2> SUFFICES ASSUME NEW t \in Tasks
               PROVE  /\ runs[t] = IF current_step[t] <= task[t].max_loop
                                   THEN current_step[t] ELSE task[t].max_loop
                      /\ fate[t] = "finished" => current_step[t] > task[t].max_loop
    BY DEF StepsCount
  <2>1. runs[t] = 0 /\ current_step[t] = 0 /\ fate[t] = "unknown"
    BY DEF Init
  <2>2. task[t].max_loop \in 0..MaxLoop
    BY <1>1 DEF TypeOK
  <2>3. 0 <= task[t].max_loop
    BY <2>2, TasksAssumption
  <2> QED BY <2>1, <2>3
<1>3. KnownAreAsked
  BY DEF Init, KnownAreAsked, Tasks
<1>4. PostsInOrder /\ PostsArePosted /\ LastIsPosted
  BY DEF Init, PostsInOrder, PostsArePosted, LastIsPosted
<1>5. ListIsListed /\ VisitIsListed /\ LastCallWins
  BY DEF Init, ListIsListed, VisitIsListed, LastCallWins
<1> QED BY <1>1, <1>2, <1>3, <1>4, <1>5 DEF IInv

-----------------------------------------------------------------------------
(* A posted function that is appended. *)
LEMMA AppendFacts ==
  ASSUME NEW S, NEW s \in Seq(S), NEW e \in S
  PROVE  /\ Append(s, e) \in Seq(S)
         /\ Len(Append(s, e)) = Len(s) + 1
         /\ DOMAIN Append(s, e) = 1..(Len(s) + 1)
         /\ DOMAIN s = 1..Len(s) /\ Len(s) \in Nat
         /\ \A i \in 1..Len(s) : Append(s, e)[i] = s[i]
         /\ Append(s, e)[Len(s) + 1] = e
  OBVIOUS

LEMMA TailFacts ==
  ASSUME NEW S, NEW s \in Seq(S), s # <<>>
  PROVE  /\ Tail(s) \in Seq(S)
         /\ DOMAIN s = 1..Len(s) /\ Len(s) \in Nat \ {0}
         /\ DOMAIN Tail(s) = 1..(Len(s) - 1)
         /\ \A i \in 1..(Len(s) - 1) : Tail(s)[i] = s[i + 1]
         /\ Head(s) = s[1] /\ s[1] \in S
  OBVIOUS

LEMMA AddPreserves == IInv /\ addTask => IInv'
<1> SUFFICES ASSUME IInv, addTask PROVE IInv'
  OBVIOUS
<1> DEFINE a == adds + 1
           e == Post(a, task[a].name)
<1>1. a \in Tasks /\ a = adds' /\ fate[a] = "unknown" /\ adds \in Nat
  BY TasksAssumption DEF IInv, TypeOK, KnownAreAsked, addTask, Tasks
<1>2. e \in [task: Tasks \cup {NoTask}, name: Names] /\ e.task = a /\ e.name = task[a].name
  BY <1>1 DEF IInv, TypeOK, Post
<1>3. posts' = Append(posts, e) /\ posts \in Seq([task: Tasks \cup {NoTask}, name: Names])
  BY <1>1 DEF addTask, IInv, TypeOK
<1>4. /\ posts' \in Seq([task: Tasks \cup {NoTask}, name: Names])
      /\ Len(posts) \in Nat
      /\ DOMAIN posts = 1..Len(posts) /\ DOMAIN posts' = 1..(Len(posts) + 1)
      /\ \A i \in 1..Len(posts) : posts'[i] = posts[i]
      /\ posts'[Len(posts) + 1] = e
  BY <1>2, <1>3, AppendFacts
<1>5. fate' = [fate EXCEPT ![a] = "posted"] /\ fate' \in [Tasks -> Fates]
  BY <1>1 DEF addTask, IInv, TypeOK, Fates
<1>6. UNCHANGED <<removes, task, task_list, current_step, runs, due, visit, pc, end>>
  BY DEF addTask
<1> HIDE DEF a, e
<1>7. last' = [last EXCEPT ![e.name] = a] /\ last' \in [Names -> Tasks \cup {NoTask}]
  BY <1>1, <1>2 DEF addTask, IInv, TypeOK
<1>16. TypeOK'
  <2>1. adds' \in 0..MaxAdds
    BY <1>1, TasksAssumption DEF Tasks
  <2> QED BY <2>1, <1>4, <1>5, <1>6, <1>7 DEF IInv, TypeOK
<1>8. StepsCount' /\ ListIsListed' /\ VisitIsListed'
  BY <1>1, <1>5, <1>6 DEF IInv, TypeOK, StepsCount, ListIsListed, VisitIsListed
<1>9. KnownAreAsked'
  <2> SUFFICES ASSUME NEW t \in Tasks PROVE fate'[t] = "unknown" <=> t > adds'
    BY DEF KnownAreAsked
  <2>1. t \in Nat /\ adds' = adds + 1
    BY <1>1 DEF Tasks, a
  <2>2. CASE t = a
    BY <2>1, <2>2, <1>1, <1>5 DEF IInv, TypeOK
  <2>3. CASE t # a
    BY <2>1, <2>3, <1>1, <1>5 DEF IInv, TypeOK, KnownAreAsked
  <2> QED BY <2>2, <2>3
<1>10. PostsArePosted'
  <2> SUFFICES ASSUME NEW i \in DOMAIN posts', posts'[i].task # NoTask
               PROVE  /\ fate'[posts'[i].task] = "posted"
                      /\ task'[posts'[i].task].name = posts'[i].name
    BY DEF PostsArePosted
  <2>1. CASE i = Len(posts) + 1
    BY <2>1, <1>1, <1>2, <1>4, <1>5, <1>6 DEF IInv, TypeOK
  <2>2. CASE i \in 1..Len(posts)
    <3>1. fate[posts[i].task] = "posted" /\ task[posts[i].task].name = posts[i].name
      BY <2>2, <1>4 DEF IInv, PostsArePosted
    <3> QED BY <3>1, <2>2, <1>1, <1>4, <1>5, <1>6 DEF IInv, TypeOK
  <2> QED BY <2>1, <2>2, <1>4
<1>11. PostsInOrder'
  <2> SUFFICES ASSUME NEW i \in DOMAIN posts', NEW j \in DOMAIN posts', i < j,
                      posts'[i].task # NoTask, posts'[j].task # NoTask
               PROVE  posts'[i].task < posts'[j].task
    BY DEF PostsInOrder
  <2>1. i \in 1..Len(posts)
    BY <1>4
  <2>2. CASE j = Len(posts) + 1
    <3>1. posts[i].task \in Tasks /\ fate[posts[i].task] = "posted"
      <4>1. posts[i].task # NoTask
        BY <2>1, <1>4
      <4>2. posts[i] \in [task: Tasks \cup {NoTask}, name: Names]
        <5> DEFINE E == [task: Tasks \cup {NoTask}, name: Names]
        <5>1. posts \in Seq(E)
          BY <1>3
        <5> HIDE DEF E
        <5>2. posts[i] \in E
          BY <5>1, <2>1
        <5> QED BY <5>2 DEF E
      <4>3. posts[i].task \in Tasks
        BY <4>1, <4>2
      <4> QED BY <4>1, <4>3, <2>1, <1>4 DEF IInv, PostsArePosted
    <3>2. ~(posts[i].task > adds)
      BY <3>1 DEF IInv, KnownAreAsked
    <3>3. posts[i].task \in Nat
      BY <3>1 DEF Tasks
    <3>4. posts'[j].task = adds + 1
      BY <2>2, <1>2, <1>4 DEF a
    <3> QED BY <2>1, <3>2, <3>3, <3>4, <1>1, <1>4
  <2>3. CASE j \in 1..Len(posts)
    BY <2>1, <2>3, <1>4 DEF IInv, PostsInOrder
  <2> QED BY <2>2, <2>3, <1>4
<1>12. LastIsPosted'
  <2> SUFFICES ASSUME NEW i \in DOMAIN posts',
                      \A j \in DOMAIN posts' : j > i => posts'[j].name # posts'[i].name
               PROVE  posts'[i].task = last'[posts'[i].name]
    BY DEF LastIsPosted
  <2>1. CASE i = Len(posts) + 1
    BY <2>1, <1>2, <1>4, <1>7 DEF IInv, TypeOK
  <2>2. CASE i \in 1..Len(posts)
    <3>1. posts'[i] = posts[i] /\ posts[i].name # e.name
      BY <2>2, <1>4
    <3>2. \A j \in DOMAIN posts : j > i => posts[j].name # posts[i].name
      BY <2>2, <1>4
    <3>3. posts[i].task = last[posts[i].name]
      BY <2>2, <3>2, <1>4 DEF IInv, LastIsPosted
    <3>4. last'[posts[i].name] = last[posts[i].name]
      BY <3>1, <1>7 DEF IInv, TypeOK
    <3> QED BY <3>1, <3>3, <3>4
  <2> QED BY <2>1, <2>2, <1>4
<1>13. LastCallWins'
  <2> SUFFICES ASSUME NEW n \in Names, \A i \in DOMAIN posts' : posts'[i].name # n
               PROVE  \/ task_list'[n] = last'[n]
                      \/ task_list'[n] = NoTask /\ last'[n] # NoTask /\ fate'[last'[n]] = "finished"
    BY DEF LastCallWins
  <2>1. n # e.name /\ \A i \in DOMAIN posts : posts[i].name # n
    BY <1>4
  <2>2. last'[n] = last[n] /\ last[n] \in Tasks \cup {NoTask}
    BY <2>1, <1>7 DEF IInv, TypeOK
  <2>3. \/ task_list[n] = last[n]
        \/ task_list[n] = NoTask /\ last[n] # NoTask /\ fate[last[n]] = "finished"
    BY <2>1 DEF IInv, LastCallWins
  <2> QED BY <2>2, <2>3, <1>1, <1>5, <1>6 DEF IInv, TypeOK
<1> QED BY <1>16, <1>8, <1>9, <1>10, <1>11, <1>12, <1>13 DEF IInv

LEMMA RemovePreserves == ASSUME NEW n \in Names PROVE IInv /\ removeTask(n) => IInv'
<1> SUFFICES ASSUME IInv, removeTask(n) PROVE IInv'
  OBVIOUS
<1> DEFINE e == Post(NoTask, n)
<1>1. e \in [task: Tasks \cup {NoTask}, name: Names] /\ e.task = NoTask
  BY DEF Post
<1>2. posts' = Append(posts, e) /\ posts \in Seq([task: Tasks \cup {NoTask}, name: Names])
  BY DEF removeTask, IInv, TypeOK
<1>3. /\ posts' \in Seq([task: Tasks \cup {NoTask}, name: Names])
      /\ Len(posts) \in Nat
      /\ DOMAIN posts = 1..Len(posts) /\ DOMAIN posts' = 1..(Len(posts) + 1)
      /\ \A i \in 1..Len(posts) : posts'[i] = posts[i]
      /\ posts'[Len(posts) + 1] = e
  BY <1>1, <1>2, AppendFacts
<1>4. UNCHANGED <<adds, task, task_list, current_step, runs, due, fate, visit, pc, end>>
  BY DEF removeTask, list
<1>7. last' = [last EXCEPT ![n] = NoTask] /\ last' \in [Names -> Tasks \cup {NoTask}] /\ e.name = n
  BY DEF removeTask, IInv, TypeOK, Post
<1> HIDE DEF e
<1>5. TypeOK'
  <2>1. removes' \in 0..MaxRemoves
    BY TasksAssumption DEF removeTask, IInv, TypeOK
  <2> QED BY <2>1, <1>3, <1>4, <1>7 DEF IInv, TypeOK
<1>6. KnownAreAsked' /\ StepsCount' /\ ListIsListed' /\ VisitIsListed'
  BY <1>4 DEF IInv, KnownAreAsked, StepsCount, ListIsListed, VisitIsListed
<1>8. PostsArePosted'
  <2> SUFFICES ASSUME NEW i \in DOMAIN posts', posts'[i].task # NoTask
               PROVE  /\ fate[posts'[i].task] = "posted"
                      /\ task[posts'[i].task].name = posts'[i].name
    BY <1>4 DEF PostsArePosted
  <2>1. i \in 1..Len(posts)
    BY <1>1, <1>3
  <2> QED BY <2>1, <1>3 DEF IInv, PostsArePosted
<1>9. PostsInOrder'
  <2> SUFFICES ASSUME NEW i \in DOMAIN posts', NEW j \in DOMAIN posts', i < j,
                      posts'[i].task # NoTask, posts'[j].task # NoTask
               PROVE  posts'[i].task < posts'[j].task
    BY DEF PostsInOrder
  <2>1. i \in 1..Len(posts) /\ j \in 1..Len(posts)
    BY <1>1, <1>3
  <2> QED BY <2>1, <1>3 DEF IInv, PostsInOrder
<1>10. LastIsPosted'
  <2> SUFFICES ASSUME NEW i \in DOMAIN posts',
                      \A j \in DOMAIN posts' : j > i => posts'[j].name # posts'[i].name
               PROVE  posts'[i].task = last'[posts'[i].name]
    BY DEF LastIsPosted
  <2>1. CASE i = Len(posts) + 1
    BY <2>1, <1>1, <1>3, <1>7 DEF IInv, TypeOK
  <2>2. CASE i \in 1..Len(posts)
    <3>1. posts'[i] = posts[i] /\ posts[i].name # n
      BY <2>2, <1>3, <1>7
    <3>2. \A j \in DOMAIN posts : j > i => posts[j].name # posts[i].name
      BY <2>2, <1>3
    <3>3. posts[i].task = last[posts[i].name]
      BY <2>2, <3>2, <1>3 DEF IInv, LastIsPosted
    <3>4. last'[posts[i].name] = last[posts[i].name]
      BY <3>1, <1>7 DEF IInv, TypeOK
    <3> QED BY <3>1, <3>3, <3>4
  <2> QED BY <2>1, <2>2, <1>3
<1>11. LastCallWins'
  <2> SUFFICES ASSUME NEW m \in Names, \A i \in DOMAIN posts' : posts'[i].name # m
               PROVE  \/ task_list[m] = last'[m]
                      \/ task_list[m] = NoTask /\ last'[m] # NoTask /\ fate[last'[m]] = "finished"
    BY <1>4 DEF LastCallWins
  <2>1. m # n /\ \A i \in DOMAIN posts : posts[i].name # m
    BY <1>3, <1>7
  <2>2. last'[m] = last[m]
    BY <2>1, <1>7 DEF IInv, TypeOK
  <2> QED BY <2>1, <2>2 DEF IInv, LastCallWins
<1> QED BY <1>5, <1>6, <1>8, <1>9, <1>10, <1>11 DEF IInv

-----------------------------------------------------------------------------
(* The function of a call that is run.  If it is the last about its name, the
   list now has for it what the last call asked. *)
LEMMA RunPostPreserves == IInv /\ RunPost => IInv'
<1> SUFFICES ASSUME IInv, RunPost PROVE IInv'
  OBVIOUS
<1> DEFINE E == [task: Tasks \cup {NoTask}, name: Names]
<1>1. PICK t, n : t = Head(posts).task /\ n = Head(posts).name
  OBVIOUS
<1>2. posts \in Seq(E) /\ posts # <<>> /\ posts' = Tail(posts)
  BY DEF RunPost, IInv, TypeOK
<1> HIDE DEF E
<1>3. /\ posts' \in Seq(E)
      /\ DOMAIN posts = 1..Len(posts) /\ Len(posts) \in Nat \ {0}
      /\ DOMAIN posts' = 1..(Len(posts) - 1)
      /\ \A i \in 1..(Len(posts) - 1) : posts'[i] = posts[i + 1]
      /\ Head(posts) = posts[1] /\ posts[1] \in E
  BY <1>2, TailFacts
<1>4. t \in Tasks \cup {NoTask} /\ n \in Names /\ t = posts[1].task /\ n = posts[1].name
  BY <1>1, <1>3 DEF E
<1>5. /\ task_list' = [task_list EXCEPT ![n] = t]
      /\ fate' = IF t = NoTask THEN Leaves(n, "removed")
                 ELSE [Leaves(n, "replaced") EXCEPT ![t] = "listed"]
      /\ due' = due \ {n}
      /\ UNCHANGED <<adds, removes, task, last, current_step, runs, visit, pc, end>>
      /\ pc = "poll"
  BY <1>1 DEF RunPost, Listed, calls
<1>6. PICK o : o = task_list[n]
  OBVIOUS
<1>7. /\ o \in Tasks \cup {NoTask} /\ NoTask \notin Tasks
      /\ o # NoTask => fate[o] = "listed" /\ task[o].name = n
  BY <1>4, <1>6 DEF IInv, TypeOK, ListIsListed, NoTask, Tasks
<1>8. t # NoTask => fate[t] = "posted" /\ task[t].name = n /\ t \in Tasks
  BY <1>3, <1>4 DEF IInv, PostsArePosted
<1>9. /\ fate' \in [Tasks -> Fates]
      /\ \A u \in Tasks : fate'[u] = IF u = t THEN "listed"
                                     ELSE IF u = o THEN IF t = NoTask THEN "removed" ELSE "replaced"
                                     ELSE fate[u]
  <2>1. fate \in [Tasks -> Fates]
    BY DEF IInv, TypeOK
  <2>2. \A why : Leaves(n, why) = IF o = NoTask THEN fate ELSE [fate EXCEPT ![o] = why]
    BY <1>6 DEF Leaves
  <2>3. {"removed", "replaced", "listed"} \subseteq Fates
    BY DEF Fates
  <2> QED BY <2>1, <2>2, <2>3, <1>5, <1>7, <1>8
<1>10. \A u \in Tasks : u # t => (fate'[u] = "posted" <=> fate[u] = "posted")
  BY <1>7, <1>9
<1>13. TypeOK'
  BY <1>3, <1>4, <1>5, <1>9 DEF IInv, TypeOK, E
<1>14. StepsCount' /\ VisitIsListed'
  BY <1>5, <1>9 DEF IInv, TypeOK, StepsCount, VisitIsListed
<1>15. KnownAreAsked'
  <2> SUFFICES ASSUME NEW u \in Tasks PROVE fate'[u] = "unknown" <=> u > adds
    BY <1>5 DEF KnownAreAsked
  <2>1. fate'[u] = "unknown" <=> fate[u] = "unknown"
    BY <1>7, <1>8, <1>9
  <2> QED BY <2>1 DEF IInv, KnownAreAsked
<1>16. PostsInOrder'
  <2> SUFFICES ASSUME NEW i \in DOMAIN posts', NEW j \in DOMAIN posts', i < j,
                      posts'[i].task # NoTask, posts'[j].task # NoTask
               PROVE  posts'[i].task < posts'[j].task
    BY DEF PostsInOrder
  <2>1. i + 1 \in DOMAIN posts /\ j + 1 \in DOMAIN posts /\ i + 1 < j + 1
    BY <1>3
  <2> QED BY <2>1, <1>3 DEF IInv, PostsInOrder
<1>17. PostsArePosted'
  <2> SUFFICES ASSUME NEW i \in DOMAIN posts', posts'[i].task # NoTask
               PROVE  /\ fate'[posts'[i].task] = "posted"
                      /\ task[posts'[i].task].name = posts'[i].name
    BY <1>5 DEF PostsArePosted
  <2>1. i + 1 \in DOMAIN posts /\ posts'[i] = posts[i + 1] /\ 1 \in DOMAIN posts /\ 1 < i + 1
    BY <1>3
  <2>2. posts[i + 1] \in E
    BY <2>1, <1>2
  <2>3. fate[posts[i + 1].task] = "posted" /\ task[posts[i + 1].task].name = posts[i + 1].name
    BY <2>1 DEF IInv, PostsArePosted
  <2>4. posts[i + 1].task # t
    <3>1. CASE t = NoTask
      BY <3>1, <2>1
    <3>2. CASE t # NoTask
      <4>1. t < posts[i + 1].task
        BY <3>2, <2>1, <1>4 DEF IInv, PostsInOrder
      <4> QED BY <4>1, <1>8, <3>2 DEF Tasks
    <3> QED BY <3>1, <3>2
  <2>5. posts[i + 1].task \in Tasks
    BY <2>1, <2>2 DEF E
  <2> QED BY <2>1, <2>3, <2>4, <2>5, <1>10
<1>18. LastIsPosted'
  <2> SUFFICES ASSUME NEW i \in DOMAIN posts',
                      \A j \in DOMAIN posts' : j > i => posts'[j].name # posts'[i].name
               PROVE  posts'[i].task = last[posts'[i].name]
    BY <1>5 DEF LastIsPosted
  <2>1. i + 1 \in DOMAIN posts /\ posts'[i] = posts[i + 1]
    BY <1>3
  <2>2. ASSUME NEW j \in DOMAIN posts, j > i + 1 PROVE posts[j].name # posts[i + 1].name
    <3>1. j - 1 \in DOMAIN posts' /\ j - 1 > i /\ (j - 1) + 1 = j
      BY <2>2, <1>3
    <3> QED BY <3>1, <2>1, <1>3
  <2> QED BY <2>1, <2>2 DEF IInv, LastIsPosted
<1>20. ListIsListed'
  <2> SUFFICES ASSUME NEW m \in Names, task_list'[m] # NoTask
               PROVE  fate'[task_list'[m]] = "listed" /\ task[task_list'[m]].name = m
    BY <1>5 DEF ListIsListed
  <2>1. CASE m = n
    BY <2>1, <1>4, <1>5, <1>8, <1>9 DEF IInv, TypeOK
  <2>2. CASE m # n
    <3>1. task_list'[m] = task_list[m] /\ task_list[m] \in Tasks
      BY <2>2, <1>4, <1>5 DEF IInv, TypeOK
    <3>2. fate[task_list[m]] = "listed" /\ task[task_list[m]].name = m
      BY <3>1, <1>7 DEF IInv, ListIsListed
    <3>3. task_list[m] # o
      BY <3>1, <3>2, <1>7, <2>2
    <3> QED BY <3>1, <3>2, <3>3, <1>9
  <2> QED BY <2>1, <2>2
<1>21. LastCallWins'
  <2> SUFFICES ASSUME NEW m \in Names, \A i \in DOMAIN posts' : posts'[i].name # m
               PROVE  \/ task_list'[m] = last[m]
                      \/ task_list'[m] = NoTask /\ last[m] # NoTask /\ fate'[last[m]] = "finished"
    BY <1>5 DEF LastCallWins
  <2>1. ASSUME NEW j \in DOMAIN posts, j > 1 PROVE posts[j].name # m
    <3>1. j - 1 \in DOMAIN posts' /\ (j - 1) + 1 = j
      BY <2>1, <1>3
    <3> QED BY <3>1, <1>3
  <2>2. CASE m = n
    <3>1. 1 \in DOMAIN posts /\ posts[1].name = m
      BY <2>2, <1>3, <1>4
    <3>2. posts[1].task = last[m]
      BY <2>1, <3>1 DEF IInv, LastIsPosted
    <3> QED BY <2>2, <3>2, <1>4, <1>5 DEF IInv, TypeOK
  <2>3. CASE m # n
    <3>1. \A i \in DOMAIN posts : posts[i].name # m
      <4> SUFFICES ASSUME NEW i \in DOMAIN posts PROVE posts[i].name # m
        OBVIOUS
      <4>1. i = 1 \/ i > 1
        BY <1>3
      <4> QED BY <4>1, <2>1, <2>3, <1>4
    <3>2. \/ task_list[m] = last[m]
          \/ task_list[m] = NoTask /\ last[m] # NoTask /\ fate[last[m]] = "finished"
      BY <3>1 DEF IInv, LastCallWins
    <3>3. task_list'[m] = task_list[m] /\ last[m] \in Tasks \cup {NoTask}
      BY <2>3, <1>4, <1>5 DEF IInv, TypeOK
    <3> QED BY <3>2, <3>3, <1>7, <1>8, <1>9
  <2> QED BY <2>2, <2>3
<1> QED BY <1>13, <1>14, <1>15, <1>16, <1>17, <1>18, <1>20, <1>21 DEF IInv

-----------------------------------------------------------------------------
(* The other steps leave posts alone. *)
LEMMA PostsKept ==
  ASSUME IInv, UNCHANGED <<adds, task, last, posts>>,
         \A t \in Tasks : /\ fate'[t] = "posted" <=> fate[t] = "posted"
                          /\ fate'[t] = "unknown" <=> fate[t] = "unknown"
  PROVE  PostInv'
<1>1. KnownAreAsked'
  BY DEF IInv, KnownAreAsked
<1>2. PostsInOrder'
  BY DEF IInv, PostsInOrder
<1>3. PostsArePosted'
  <2> SUFFICES ASSUME NEW i \in DOMAIN posts, posts[i].task # NoTask
               PROVE  fate'[posts[i].task] = "posted" /\ task[posts[i].task].name = posts[i].name
    BY DEF PostsArePosted
  <2>1. fate[posts[i].task] = "posted" /\ task[posts[i].task].name = posts[i].name
    BY DEF IInv, PostsArePosted
  <2>2. posts[i].task \in Tasks
    <3> DEFINE E == [task: Tasks \cup {NoTask}, name: Names]
    <3>1. posts \in Seq(E)
      BY DEF IInv, TypeOK
    <3> HIDE DEF E
    <3>2. posts[i] \in E
      BY <3>1
    <3> QED BY <3>2 DEF E
  <2> QED BY <2>1, <2>2
<1>4. LastIsPosted'
  BY DEF IInv, LastIsPosted
<1> QED BY <1>1, <1>2, <1>3, <1>4 DEF PostInv

(* Steps of the thread and of time that change no task. *)
LEMMA IdlePreserves ==
  ASSUME IInv, UNCHANGED <<calls, posts, task_list, current_step, runs, fate>>,
         due' \subseteq Names, visit' \subseteq Names, end' \in BOOLEAN,
         pc' \in {"sleep", "poll", "turn", "ended"},
         VisitIsListed'
  PROVE  IInv'
<1>1. TypeOK'
  BY DEF IInv, TypeOK, calls
<1>2. StepsCount' /\ ListIsListed' /\ LastCallWins'
  BY DEF IInv, calls, StepsCount, ListIsListed, LastCallWins
<1>3. PostInv'
  BY PostsKept DEF calls
<1> QED BY <1>1, <1>2, <1>3 DEF IInv, PostInv

(* A listed task runs and stays in the list, or has had its runs and leaves. *)
LEMMA TurnPreserves == ASSUME NEW n \in Names PROVE IInv /\ Turn(n) => IInv'
<1> SUFFICES ASSUME IInv, Turn(n) PROVE IInv'
  OBVIOUS
<1>1. PICK t : t = task_list[n]
  OBVIOUS
<1>2. t \in Tasks /\ NoTask \notin Tasks /\ fate[t] = "listed" /\ task[t].name = n
  BY <1>1 DEF Turn, IInv, TypeOK, VisitIsListed, ListIsListed, NoTask, Tasks
<1>3. /\ UNCHANGED <<adds, removes, task, last, posts, pc, end>>
      /\ due' = due \ {n} /\ visit' = visit \ {n} /\ pc = "turn"
  BY DEF Turn, calls, Others
<1>4. PICK m : m = task[t].max_loop
  OBVIOUS
<1>5. PICK c : c = current_step[t]
  OBVIOUS
<1>6. m \in Nat /\ c \in Nat /\ runs[t] = IF c <= m THEN c ELSE m
  <2>1. m \in 0..MaxLoop
    BY <1>2, <1>4 DEF IInv, TypeOK
  <2> QED BY <2>1, <1>2, <1>4, <1>5, TasksAssumption DEF IInv, TypeOK, StepsCount
<1>7. current_step' = [current_step EXCEPT ![t] = IF m >= 1 THEN c + 1 ELSE c]
  BY <1>1, <1>4, <1>5 DEF Turn, Counts
<1>8. RunsLeft(t) <=> m = 0 \/ c + 1 <= m
  BY <1>4, <1>5 DEF RunsLeft
<1>9. CASE RunsLeft(t)
  <2>1. runs' = [runs EXCEPT ![t] = IF m >= 1 THEN runs[t] + 1 ELSE runs[t]]
        /\ UNCHANGED <<task_list, fate>>
    BY <1>9, <1>1, <1>4 DEF Turn, Counts
  <2>2. TypeOK'
    <3>1. runs' \in [Tasks -> Nat] /\ current_step' \in [Tasks -> Nat]
      BY <2>1, <1>2, <1>6, <1>7 DEF IInv, TypeOK
    <3> QED BY <3>1, <2>1, <1>3 DEF IInv, TypeOK
  <2>3. StepsCount'
    <3> SUFFICES ASSUME NEW u \in Tasks
                 PROVE  /\ runs'[u] = IF current_step'[u] <= task[u].max_loop
                                      THEN current_step'[u] ELSE task[u].max_loop
                        /\ fate[u] = "finished" => current_step'[u] > task[u].max_loop
      BY <2>1, <1>3 DEF StepsCount
    <3>1. CASE u # t
      <4>1. runs'[u] = runs[u] /\ current_step'[u] = current_step[u]
        BY <3>1, <2>1, <1>7 DEF IInv, TypeOK
      <4> QED BY <4>1 DEF IInv, StepsCount
    <3>2. CASE u = t
      <4>1. /\ runs'[t] = IF m >= 1 THEN runs[t] + 1 ELSE runs[t]
            /\ current_step'[t] = IF m >= 1 THEN c + 1 ELSE c
        BY <2>1, <1>2, <1>7 DEF IInv, TypeOK
      <4>2. m = 0 => runs[t] = 0
        BY <1>6
      <4>3. runs'[t] = IF current_step'[t] <= m THEN current_step'[t] ELSE m
        BY <4>1, <1>6, <1>8, <1>9
      <4> QED BY <4>3, <3>2, <1>2, <1>4
    <3> QED BY <3>1, <3>2
  <2>4. ListIsListed' /\ LastCallWins'
    BY <2>1, <1>3 DEF IInv, ListIsListed, LastCallWins
  <2>5. PostInv'
    BY <2>1, <1>3, PostsKept
  <2>6. VisitIsListed'
    BY <2>1, <1>3 DEF IInv, VisitIsListed
  <2> QED BY <2>2, <2>3, <2>4, <2>5, <2>6 DEF IInv, PostInv
<1>10. CASE ~RunsLeft(t)
  <2>1. /\ task_list' = [task_list EXCEPT ![n] = NoTask]
        /\ fate' = [fate EXCEPT ![t] = "finished"]
        /\ UNCHANGED runs
    BY <1>10, <1>1 DEF Turn
  <2>2. m >= 1 /\ c + 1 > m
    BY <1>6, <1>8, <1>10
  <2>3. fate' \in [Tasks -> Fates] /\ fate'[t] = "finished"
        /\ \A u \in Tasks : u # t => fate'[u] = fate[u]
    BY <2>1, <1>2 DEF IInv, TypeOK, Fates
  <2>4. TypeOK'
    <3>1. current_step' \in [Tasks -> Nat]
      BY <1>2, <1>6, <1>7 DEF IInv, TypeOK
    <3>2. task_list' \in [Names -> Tasks \cup {NoTask}]
      BY <2>1 DEF IInv, TypeOK
    <3> QED BY <3>1, <3>2, <2>1, <2>3, <1>3 DEF IInv, TypeOK
  <2>5. StepsCount'
    <3> SUFFICES ASSUME NEW u \in Tasks
                 PROVE  /\ runs[u] = IF current_step'[u] <= task[u].max_loop
                                     THEN current_step'[u] ELSE task[u].max_loop
                        /\ fate'[u] = "finished" => current_step'[u] > task[u].max_loop
      BY <2>1, <1>3 DEF StepsCount
    <3>1. CASE u # t
      <4>1. current_step'[u] = current_step[u] /\ fate'[u] = fate[u]
        BY <3>1, <2>3, <1>7 DEF IInv, TypeOK
      <4> QED BY <4>1 DEF IInv, StepsCount
    <3>2. CASE u = t
      <4>1. current_step'[t] = c + 1
        BY <2>2, <1>2, <1>7 DEF IInv, TypeOK
      <4>2. runs[t] = IF c + 1 <= m THEN c + 1 ELSE m
        BY <2>2, <1>6
      <4> QED BY <4>1, <4>2, <3>2, <2>2, <1>4
    <3> QED BY <3>1, <3>2
  <2>6. \A u \in Tasks : /\ fate'[u] = "posted" <=> fate[u] = "posted"
                         /\ fate'[u] = "unknown" <=> fate[u] = "unknown"
    BY <2>3, <1>2
  <2>8. ListIsListed'
    <3> SUFFICES ASSUME NEW k \in Names, task_list'[k] # NoTask
                 PROVE  fate'[task_list'[k]] = "listed" /\ task[task_list'[k]].name = k
      BY <1>3 DEF ListIsListed
    <3>1. k # n /\ task_list'[k] = task_list[k]
      BY <2>1 DEF IInv, TypeOK
    <3>2. fate[task_list[k]] = "listed" /\ task[task_list[k]].name = k /\ task_list[k] \in Tasks
      BY <3>1 DEF IInv, TypeOK, ListIsListed
    <3>3. task_list[k] # t
      BY <3>1, <3>2, <1>2
    <3> QED BY <3>1, <3>2, <3>3, <2>3
  <2>9. LastCallWins'
    <3> SUFFICES ASSUME NEW k \in Names, \A i \in DOMAIN posts : posts[i].name # k
                 PROVE  \/ task_list'[k] = last[k]
                        \/ task_list'[k] = NoTask /\ last[k] # NoTask /\ fate'[last[k]] = "finished"
      BY <1>3 DEF LastCallWins
    <3>1. \/ task_list[k] = last[k]
          \/ task_list[k] = NoTask /\ last[k] # NoTask /\ fate[last[k]] = "finished"
      BY DEF IInv, LastCallWins
    <3>2. last[k] \in Tasks \cup {NoTask}
      BY DEF IInv, TypeOK
    <3>3. CASE k = n
      <4>1. last[k] = t
        BY <3>1, <3>3, <1>1, <1>2
      <4> QED BY <4>1, <3>3, <2>1, <2>3, <1>2 DEF IInv, TypeOK
    <3>4. CASE k # n
      BY <3>1, <3>2, <3>4, <2>1, <2>3, <1>2 DEF IInv, TypeOK
    <3> QED BY <3>3, <3>4
  <2>10. PostInv'
    BY <2>6, <1>3, PostsKept
  <2>11. VisitIsListed'
    BY <2>1, <1>3 DEF IInv, TypeOK, VisitIsListed
  <2> QED BY <2>4, <2>5, <2>8, <2>9, <2>10, <2>11 DEF IInv, PostInv
<1> QED BY <1>9, <1>10

(* Every step preserves the invariant. *)
LEMMA NextPreserves == IInv /\ [Next]_vars => IInv'
<1> SUFFICES ASSUME IInv, [Next]_vars PROVE IInv'
  OBVIOUS
<1>1. CASE addTask
  BY <1>1, AddPreserves
<1>2. ASSUME NEW n \in Names, removeTask(n) PROVE IInv'
  BY <1>2, RemovePreserves
<1>3. CASE endScheduler
  BY <1>3, IdlePreserves DEF endScheduler, list, IInv, TypeOK, VisitIsListed
<1>4. ASSUME NEW n \in Names, Elapses(n) PROVE IInv'
  BY <1>4, IdlePreserves DEF Elapses, IInv, TypeOK, VisitIsListed
<1>5. CASE Wakes
  BY <1>5, IdlePreserves DEF Wakes, list, IInv, TypeOK, VisitIsListed
<1>6. CASE RunPost
  BY <1>6, RunPostPreserves
<1>7. CASE BeginTurn
  BY <1>7, IdlePreserves DEF BeginTurn, list, IInv, TypeOK, VisitIsListed
<1>8. CASE EndTurn
  BY <1>8, IdlePreserves DEF EndTurn, list, IInv, TypeOK, VisitIsListed
<1>9. ASSUME NEW n \in Names, Turn(n) PROVE IInv'
  BY <1>9, TurnPreserves
<1>10. ASSUME NEW n \in Names, NotYet(n) PROVE IInv'
  BY <1>10, IdlePreserves DEF NotYet, Others, list, IInv, TypeOK, VisitIsListed
<1>11. CASE UNCHANGED vars
  BY <1>11, IdlePreserves DEF vars, list, IInv, TypeOK, VisitIsListed
<1> QED BY <1>1, <1>2, <1>3, <1>4, <1>5, <1>6, <1>7, <1>8, <1>9, <1>10, <1>11 DEF Next, Thread

(* Whichever threads call, and in whatever order, the invariant of the list
   holds: DelayedTaskProcessor's posts are added in the order of the calls. *)
THEOREM TasksInvariance == Spec => []IInv
<1>1. Init => IInv
  BY InitIInv
<1>2. IInv /\ [Next]_vars => IInv'
  BY NextPreserves
<1> QED BY <1>1, <1>2, PTL DEF Spec

(* Every variable keeps its type. *)
THEOREM TasksTypeCorrect == Spec => []TypeOK
<1>1. IInv => TypeOK
  BY DEF IInv
<1> QED BY <1>1, TasksInvariance, PTL

(* DelayedTaskProcessor::poll never runs a task more often than asked, and
   erases it by itself only when it has had all its runs. *)
THEOREM TasksRunAsAsked == Spec => []RunsAsAsked
<1>1. IInv => RunsAsAsked
  <2> SUFFICES ASSUME IInv, NEW t \in Tasks
               PROVE  /\ runs[t] <= task[t].max_loop
                      /\ fate[t] = "finished" => runs[t] = task[t].max_loop
    BY DEF RunsAsAsked
  <2>1. task[t].max_loop \in 0..MaxLoop
    BY DEF IInv, TypeOK
  <2>2. task[t].max_loop \in Nat
    BY <2>1, TasksAssumption
  <2>3. current_step[t] \in Nat
    BY DEF IInv, TypeOK
  <2> QED BY <2>2, <2>3 DEF IInv, StepsCount
<1> QED BY <1>1, TasksInvariance, PTL

(* The last addTask or removeTask of a name decides what the list has for it:
   the task added, or none once it has finished, or none after a removal. *)
THEOREM LastCallDecides == Spec => []LastCallWins
<1>1. IInv => LastCallWins
  BY DEF IInv
<1> QED BY <1>1, TasksInvariance, PTL

=============================================================================
