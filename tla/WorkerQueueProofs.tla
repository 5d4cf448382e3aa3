------------------------- MODULE WorkerQueueProofs -------------------------
(***************************************************************************)
(* Proofs about WorkerQueue, for every set of threads and every number of  *)
(* tasks: reference counts are exact, no task runs after Dispose() has     *)
(* returned, no work runs after the client has terminated, and no accepted *)
(* work is cancelled.                                                      *)
(*                                                                         *)
(* AsyncQueue's mutex is held from the check of the mode until libdispatch *)
(* has the task, so the tasks that terminate or dispose the client come    *)
(* after all work (OrderInv); Dispose() waits for such a task, hence finds *)
(* no work that has not run; and a task that can still run is in tasks_ or *)
(* in the local_tasks of the thread in Dispose() (StateInv), which waits   *)
(* for it.                                                                 *)
(***************************************************************************)
EXTENDS WorkerQueue, Integers, SequenceFacts, FiniteSetTheorems

Kinds == {"work", "timer", "terminate", "dispose", "clear"}
EndKinds == {"terminate", "dispose"}
ThreadPcs == {"idle", "retain", "terminate", "ensure", "lock", "restrict", "enqueue", "wait",
              "stop", "swap", "cancel", "await", "join", "leave"}
WorkerPcs == {"idle", "invoke", "op", "terminate", "signal", "clear", "end", "retain", "drop",
              "check"}
Pcs == ThreadPcs \cup WorkerPcs
States == {"Initial", "Cancelled", "Running", "Done"}

Task == [state : States, refs : Int, executor : BOOLEAN, owner : All, kind : Kinds,
         immediate : BOOLEAN, after : {"idle", "wait", "end"}]

Ids == DOMAIN task
Kind(t) == task[t].kind

\* The owners of a reference to t besides the executor: see Owners.
Held(t) == \E a \in Threads : t \in todo[a]
Taken(t) == pc[Worker] \in {"drop", "check"} /\ arg[Worker] = t
Waiting(t) == t \in delayed \/ t = running \/ InSeq(t, ready)

\* The worker is in the operation of a task.
InOp == pc[Worker] \notin {"idle", "invoke"}

\* The operation of a task that terminates the client has begun.
Ended == terminated \/ signalled # {}

One(P) == IF P THEN 1 ELSE 0

\* Every variable has the type its declaration says.
WorkerTypes ==
    /\ mutex \in [queue : All \cup {None}, api : Threads \cup {None}]
    /\ mode \in {"Running", "Restricted", "Disposed"}
    /\ disposed \in BOOLEAN /\ terminated \in BOOLEAN /\ returned \in BOOLEAN
    /\ task \in Seq(Task)
    /\ tasks \subseteq Ids /\ schedule \subseteq tasks /\ delayed \subseteq Ids
    /\ ready \in Seq(Nat) /\ \A x : InSeq(x, ready) => x \in Ids
    /\ running \in Ids \cup {0} /\ timer \in Ids \cup {0}
    /\ signalled \subseteq Threads
    /\ pc \in [All -> Pcs] /\ arg \in [All -> Nat] /\ todo \in [Threads -> SUBSET Nat]
    /\ \A a \in Threads : pc[a] \in ThreadPcs /\ todo[a] \subseteq Ids
    /\ pc[Worker] \in WorkerPcs
    /\ \A th \in All : arg[th] \in Ids \cup {0}

\* What the calls that create tasks fix.
KindInv ==
    /\ \A t \in Ids : /\ task[t].immediate <=> Kind(t) # "timer"
                      /\ task[t].after = "wait" <=> Kind(t) = "dispose"
                      /\ Kind(t) = "dispose" => task[t].owner \in Threads
    /\ \A t \in schedule : Kind(t) = "timer"
    /\ timer # 0 => Kind(timer) = "timer"

\* Who holds the mutexes; one thread at a time has local_tasks.
MutexInv ==
    /\ \A th \in All : pc[th] = "retain" => mutex.queue = th
    /\ \A a \in Threads :
          /\ pc[a] \in Disposing => mutex.api = a
          /\ pc[a] = "retain" /\ Kind(arg[a]) = "dispose" => mutex.api = a
          /\ todo[a] # {} => pc[a] \in {"cancel", "await"}
          /\ pc[a] = "await" => arg[a] \in todo[a]

\* What the mode tells about the shutdown.
ModeInv ==
    /\ mode = "Running" =>
          /\ ~Ended
          /\ \A t \in Ids : Kind(t) \notin EndKinds
          /\ \A a \in Threads : pc[a] \notin (Disposing \ {"restrict"}) \cup {"terminate"}
    /\ mode = "Disposed" => signalled # {} /\ \A th \in All : pc[th] # "retain"
    /\ disposed => mode = "Disposed" /\ tasks = {}
    /\ \A a \in Threads :
          /\ pc[a] \in {"stop", "swap", "cancel", "await", "join", "leave"} => signalled # {}
          /\ pc[a] \in {"swap", "cancel", "await", "join", "leave"} => mode = "Disposed"
          /\ pc[a] \in {"cancel", "await", "join", "leave"} => disposed
    /\ returned => disposed /\ \A a \in Threads : todo[a] = {}

\* Where the worker is, and what a thread is about to retain.
WorkerInv ==
    /\ running = 0 <=> pc[Worker] = "idle"
    /\ pc[Worker] \in {"terminate", "signal"} => Kind(running) \in EndKinds
    /\ pc[Worker] = "signal" => Kind(running) = "dispose"
    /\ pc[Worker] \in {"drop", "check"} => arg[Worker] # 0 /\ Kind(arg[Worker]) = "timer"
    /\ signalled # {} => terminated \/ pc[Worker] = "terminate"
    /\ terminated => timer \notin schedule

RetainInv ==
    \A th \in All : pc[th] = "retain" =>
        /\ arg[th] \in tasks /\ ~Waiting(arg[th])
        /\ task[arg[th]].after = "end" <=> th = Worker
        /\ th # Worker => Kind(arg[th]) # "timer"
        /\ Kind(arg[th]) = "work" => mode = "Running"

\* libdispatch has a task in one place.
QueueInv ==
    /\ \A i, j \in DOMAIN ready : i # j => ready[i] # ready[j]
    /\ running \notin delayed /\ ~InSeq(running, ready)
    /\ \A t \in delayed : ~InSeq(t, ready) /\ Kind(t) = "timer"

\* Work comes before the tasks that terminate the client.
OrderInv ==
    /\ \A i, j \in DOMAIN ready : Kind(ready[i]) = "work" /\ Kind(ready[j]) \in EndKinds => i < j
    /\ Ended \/ (running # 0 /\ Kind(running) \in EndKinds) =>
          \A t : InSeq(t, ready) => Kind(t) # "work"
    /\ Ended /\ running # 0 => Kind(running) # "work"

\* Which tasks can still run, and who knows them.
StateInv ==
    /\ \A t \in Ids : task[t].state = "Running" <=> t = running /\ InOp
    /\ \A t \in Ids : task[t].state \in {"Initial", "Running"} =>
          \/ t \in tasks \/ Held(t)
          \/ pc[Worker] = "drop" /\ arg[Worker] = t
          \/ t = running /\ InOp
    /\ InOp => \/ running \in tasks \/ Held(running)
               \/ signalled = {} /\ pc[Worker] \in {"drop", "end"}

\* Work that has not run is on its way to the worker.
WorkInv ==
    \A t \in Ids : Kind(t) = "work" =>
        /\ task[t].state # "Cancelled"
        /\ task[t].state = "Initial" => \/ \E th \in All : pc[th] = "retain" /\ arg[th] = t
                                        \/ InSeq(t, ready)
                                        \/ t = running

\* The reference counts.
CountInv ==
    \A t \in Ids :
        task[t].refs = One(t \in tasks) + One(Waiting(t)) + One(Held(t)) + One(Taken(t))

WorkerQueueInv ==
    /\ WorkerTypes /\ KindInv /\ MutexInv /\ ModeInv /\ WorkerInv /\ RetainInv
    /\ QueueInv /\ OrderInv /\ StateInv /\ WorkInv /\ CountInv

-----------------------------------------------------------------------------
(* Consequences                                                            *)

\* The size of a set with at most one more element.
LEMMA AddCount ==
    ASSUME NEW S, IsFiniteSet(S), NEW x, x \notin S, NEW P \in BOOLEAN,
           NEW A, A = {y \in {x} : P}
    PROVE  IsFiniteSet(S \cup A) /\ Cardinality(S \cup A) = Cardinality(S) + One(P)
  <1>1. CASE P
    <2>1. A = {x}
      BY <1>1
    <2> QED
      BY <1>1, <2>1, FS_AddElement DEF One
  <1>2. CASE ~P
    <2>1. S \cup A = S
      BY <1>2
    <2>2. Cardinality(S) \in Nat
      BY FS_CardinalityType
    <2> QED
      BY <1>2, <2>1, <2>2 DEF One
  <1> QED
    BY <1>1, <1>2

\* The owners of a task, counted.
LEMMA OwnersCount ==
    ASSUME WorkerTypes, MutexInv, NEW t \in Ids
    PROVE  Cardinality(Owners(t)) =
               One(t \in tasks) + One(Waiting(t)) + One(Held(t)) + One(Taken(t))
  <1>1. /\ "executor" \notin Threads /\ "libdispatch" \notin Threads
        /\ "executor" # Worker /\ "libdispatch" # Worker /\ Worker \notin Threads
    BY WorkerAssumption
  <1>2. PICK A, B, C, D :
           /\ A = {o \in {"executor"} : t \in tasks}
           /\ B = {o \in {"libdispatch"} : Waiting(t)}
           /\ C = {a \in Threads : t \in todo[a]}
           /\ D = {w \in {Worker} : Taken(t)}
    OBVIOUS
  <1>3. Owners(t) = ((A \cup B) \cup C) \cup D
    <2>1. DOMAIN ready = 1..Len(ready)
      BY DEF WorkerTypes
    <2>2. B = {o \in {"libdispatch"} : \/ t \in delayed \cup {running}
                                       \/ \E i \in 1..Len(ready) : ready[i] = t}
      BY <1>2, <2>1 DEF Waiting, InSeq
    <2>3. D = {w \in {Worker} : pc[w] \in {"drop", "check"} /\ arg[w] = t}
      BY <1>2 DEF Taken
    <2>4. Owners(t) = A \cup B \cup C \cup D
      BY <1>2, <2>2, <2>3, Zenon DEF Owners
    <2> QED
      BY <2>4
  <1>4. PICK pa \in BOOLEAN, pb \in BOOLEAN, pd \in BOOLEAN, ph \in BOOLEAN :
           pa = (t \in tasks) /\ pb = Waiting(t) /\ pd = Taken(t) /\ ph = Held(t)
    <2>1. (t \in tasks) \in BOOLEAN
      OBVIOUS
    <2>2. Waiting(t) \in BOOLEAN /\ Taken(t) \in BOOLEAN /\ Held(t) \in BOOLEAN
      BY Zenon DEF Waiting, Taken, Held
    <2> QED
      BY <2>1, <2>2, Zenon
  <1>5. IsFiniteSet({}) /\ Cardinality({}) = 0
    BY FS_EmptySet
  <1>6. IsFiniteSet(A) /\ Cardinality(A) = One(pa)
    <2>1. A = {y \in {"executor"} : pa}
      BY <1>2, <1>4
    <2>2. One(pa) \in Nat
      BY DEF One
    <2>3. IsFiniteSet({} \cup A) /\ Cardinality({} \cup A) = Cardinality({}) + One(pa)
      <3>1. PICK E : E = {}
        OBVIOUS
      <3>2. IsFiniteSet(E) /\ "executor" \notin E
        BY <1>5, <3>1
      <3>3. IsFiniteSet(E \cup A) /\ Cardinality(E \cup A) = Cardinality(E) + One(pa)
        BY <2>1, <3>2, AddCount
      <3> QED
        BY <3>1, <3>3
    <2> QED
      BY <1>5, <2>2, <2>3
  <1>7. IsFiniteSet(A \cup B) /\ Cardinality(A \cup B) = One(pa) + One(pb)
    <2>1. B = {y \in {"libdispatch"} : pb}
      BY <1>2, <1>4
    <2>2. "libdispatch" \notin A
      BY <1>2
    <2> QED
      BY <1>6, <2>1, <2>2, AddCount
  <1>8. IsFiniteSet((A \cup B) \cup C) /\ Cardinality((A \cup B) \cup C) = One(pa) + One(pb) + One(ph)
    <2>1. CASE ph
      <3>1. PICK a \in Threads : t \in todo[a]
        BY <1>4, <2>1 DEF Held
      <3>2. ASSUME NEW b \in Threads, t \in todo[b] PROVE b = a
        <4>1. pc[a] \in Disposing /\ pc[b] \in Disposing
          BY <3>1, <3>2 DEF MutexInv, Disposing
        <4> QED
          BY <4>1 DEF MutexInv
      <3>3. C = {y \in {a} : ph}
        BY <1>2, <2>1, <3>1, <3>2
      <3>4. a \notin A \cup B
        BY <1>1, <1>2
      <3>5. PICK E : E = A \cup B
        OBVIOUS
      <3>6. IsFiniteSet(E) /\ a \notin E /\ Cardinality(E) = One(pa) + One(pb)
        BY <1>7, <3>4, <3>5, Zenon
      <3>7. IsFiniteSet(E \cup C) /\ Cardinality(E \cup C) = Cardinality(E) + One(ph)
        BY <3>3, <3>6, AddCount
      <3> QED
        BY <3>5, <3>6, <3>7, Zenon
    <2>2. CASE ~ph
      <3>1. C = {}
        BY <1>2, <1>4, <2>2 DEF Held
      <3>2. (A \cup B) \cup C = A \cup B
        BY <3>1
      <3> QED
        BY <1>7, <2>2, <3>2 DEF One
    <2> QED
      BY <2>1, <2>2
  <1>9. Cardinality(((A \cup B) \cup C) \cup D) = One(pa) + One(pb) + One(ph) + One(pd)
    <2>1. D = {y \in {Worker} : pd}
      BY <1>2, <1>4
    <2>2. Worker \notin (A \cup B) \cup C
      BY <1>1, <1>2
    <2>3. PICK E : E = (A \cup B) \cup C
      OBVIOUS
    <2>4. IsFiniteSet(E) /\ Worker \notin E /\ Cardinality(E) = One(pa) + One(pb) + One(ph)
      BY <1>8, <2>2, <2>3, Zenon
    <2>5. Cardinality(E \cup D) = Cardinality(E) + One(pd)
      BY <2>1, <2>4, AddCount
    <2> QED
      BY <2>3, <2>4, <2>5, Zenon
  <1> QED
    BY <1>3, <1>4, <1>9

\* What NothingRunsAfterDispose says of the tasks of the worker queue.
AllTasksEnded ==
    returned => \A t \in TaskIds : task[t].refs > 0 => task[t].state \in {"Cancelled", "Done"}

\* The properties of the component follow from WorkerQueueInv.
LEMMA QueueConsequences ==
    WorkerQueueInv => /\ TasksAreOwned /\ AllTasksEnded
                      /\ NoWorkAfterTermination /\ AcceptedWorkIsNotDropped
  <1> SUFFICES ASSUME WorkerQueueInv
               PROVE  /\ TasksAreOwned /\ AllTasksEnded
                      /\ NoWorkAfterTermination /\ AcceptedWorkIsNotDropped
    OBVIOUS
  <1>1. /\ WorkerTypes /\ KindInv /\ MutexInv /\ ModeInv /\ WorkerInv /\ RetainInv
        /\ QueueInv /\ OrderInv /\ StateInv /\ WorkInv /\ CountInv
    BY DEF WorkerQueueInv
  <1>2. Ids = TaskIds
    BY <1>1 DEF WorkerTypes, Ids, TaskIds
  <1>3. TasksAreOwned
    <2>1. \A t \in TaskIds : task[t].refs = Cardinality(Owners(t))
      BY <1>1, <1>2, OwnersCount DEF CountInv
    <2>2. ASSUME NEW th \in All, pc[th] = "retain" PROVE task[arg[th]].refs > 0
      <3>1. arg[th] \in tasks /\ arg[th] \in Ids
        BY <1>1, <2>2 DEF RetainInv, WorkerTypes
      <3> QED
        BY <1>1, <3>1 DEF CountInv, One
    <2> QED
      BY <2>1, <2>2 DEF TasksAreOwned
  <1>4. AllTasksEnded
    <2> SUFFICES ASSUME returned, NEW t \in Ids PROVE task[t].state \in {"Cancelled", "Done"}
      BY <1>2 DEF AllTasksEnded
    <2>1. tasks = {} /\ signalled # {} /\ \A z : ~Held(z)
      BY <1>1 DEF ModeInv, Held
    <2>2. ~InOp
      BY <1>1, <2>1 DEF StateInv
    <2>3. pc[Worker] # "drop"
      BY <2>2 DEF InOp
    <2>4. task[t].state \notin {"Initial", "Running"}
      BY <1>1, <2>1, <2>2, <2>3 DEF StateInv
    <2>5. task[t].state \in States
      <3>1. task[t] \in Task
        BY <1>1 DEF WorkerTypes, Ids
      <3> QED
        BY <3>1 DEF Task
    <2> QED
      BY <2>4, <2>5 DEF States
  <1>5. NoWorkAfterTermination
    <2> SUFFICES ASSUME pc[Worker] = "op", Kind(running) = "work", terminated PROVE FALSE
      BY DEF NoWorkAfterTermination, Kind
    <2> QED
      BY <1>1 DEF OrderInv, Ended, WorkerInv
  <1>6. AcceptedWorkIsNotDropped
    BY <1>1, <1>2 DEF WorkInv, Kind, AcceptedWorkIsNotDropped
  <1> QED
    BY <1>3, <1>4, <1>5, <1>6

-----------------------------------------------------------------------------
(* Steps that change no task                                               *)

\* The thread th has gone from from to to.
Moved(th, from, to) ==
    /\ pc[th] = from /\ pc' \in [All -> Pcs] /\ pc'[th] = to
    /\ \A b \in All : b # th => pc'[b] = pc[b]

\* What Goto does.
LEMMA GotoFacts ==
    ASSUME WorkerTypes, NEW th \in All, NEW from, NEW to \in Pcs, Goto(th, from, to)
    PROVE  Moved(th, from, to)
  BY DEF WorkerTypes, Goto, Moved

\* The worker is not one of the threads that call.
LEMMA ThreadFacts ==
    /\ Worker \in All /\ Worker \notin Threads /\ None \notin All
    /\ \A a \in Threads : a \in All /\ a # Worker
    /\ \A th \in All : th \in Threads \/ th = Worker
  BY WorkerAssumption DEF All

\* The parts of the invariant about tasks, when neither they nor the queues
\* change.
LEMMA FrameStep ==
    ASSUME WorkerQueueInv, UNCHANGED <<tasks, schedule, task, ready, delayed, running, arg, todo>>,
           InOp' <=> InOp,
           pc'[Worker] = "drop" <=> pc[Worker] = "drop",
           pc'[Worker] = "check" <=> pc[Worker] = "check",
           pc[Worker] = "end" => pc'[Worker] = "end",
           Ended' => Ended \/ (running # 0 /\ Kind(running) \in EndKinds),
           signalled' # {} => signalled # {} \/ running \in tasks \/ Held(running),
           \A th \in All : pc[th] = "retain" => pc'[th] = "retain"
    PROVE  QueueInv' /\ OrderInv' /\ StateInv' /\ WorkInv' /\ CountInv'
  <1>1. QueueInv /\ OrderInv /\ StateInv /\ WorkInv /\ CountInv
    BY DEF WorkerQueueInv
  <1>2. /\ Ids' = Ids /\ (\A t : Kind(t)' = Kind(t)) /\ (\A t : Held(t)' <=> Held(t))
        /\ (\A t : Taken(t)' <=> Taken(t)) /\ (\A t : Waiting(t)' <=> Waiting(t))
    <2>1. Ids' = Ids /\ \A t : Kind(t)' = Kind(t)
      BY DEF Ids, Kind
    <2>2. \A t : Held(t)' <=> Held(t)
      BY Zenon DEF Held
    <2>3. \A t : Taken(t)' <=> Taken(t)
      BY DEF Taken
    <2>4. \A t : Waiting(t)' <=> Waiting(t)
      BY Zenon DEF Waiting
    <2> QED
      BY <2>1, <2>2, <2>3, <2>4
  <1>3. QueueInv'
    BY <1>1, <1>2 DEF QueueInv
  <1>4. OrderInv'
    <2>1. \A k \in EndKinds : k # "work"
      BY DEF EndKinds
    <2> QED
      BY <1>1, <1>2, <2>1 DEF OrderInv
  <1>5. StateInv'
    BY <1>1, <1>2 DEF StateInv
  <1>6. WorkInv'
    BY <1>1, <1>2 DEF WorkInv
  <1>7. CountInv'
    BY <1>1, <1>2 DEF CountInv, One
  <1> QED
    BY <1>3, <1>4, <1>5, <1>6, <1>7

\* A step of a calling thread in which no task changes.
LEMMA ThreadStep ==
    ASSUME WorkerQueueInv, NEW a \in Threads, NEW from, NEW to \in ThreadPcs \ {"retain", "await"},
           Moved(a, from, to), from # "retain",
           UNCHANGED <<disposed, tasks, schedule, task, ready, delayed, running, timer,
                       terminated, signalled, arg, todo>>,
           mutex' \in [queue : All \cup {None}, api : Threads \cup {None}],
           mode' \in {"Running", "Restricted", "Disposed"}, returned' \in BOOLEAN,
           mode' = mode \/ mutex.queue = None,
           MutexInv', ModeInv'
    PROVE  WorkerQueueInv'
  <1>1. /\ WorkerTypes /\ KindInv /\ MutexInv /\ ModeInv /\ WorkerInv /\ RetainInv
        /\ QueueInv /\ OrderInv /\ StateInv /\ WorkInv /\ CountInv
    BY DEF WorkerQueueInv
  <1>2. pc'[Worker] = pc[Worker] /\ \A th \in All : th # a => pc'[th] = pc[th]
    BY ThreadFacts DEF Moved
  <1>3. a \in All /\ pc'[a] # "retain" /\ pc[a] # "retain"
    BY ThreadFacts DEF Moved
  <1>4. WorkerTypes'
    <2>1. pc' \in [All -> Pcs] /\ pc'[Worker] \in WorkerPcs
      BY <1>1, <1>2 DEF Moved, WorkerTypes
    <2>2. ASSUME NEW b \in Threads PROVE pc'[b] \in ThreadPcs
      BY <1>1, <1>2, ThreadFacts DEF Moved, WorkerTypes
    <2>3. Ids' = Ids
      BY DEF Ids
    <2> QED
      BY <1>1, <2>1, <2>2, <2>3 DEF WorkerTypes
  <1>5. KindInv' /\ WorkerInv'
    BY <1>1, <1>2 DEF KindInv, WorkerInv, Kind, Ids
  <1>6. RetainInv'
    <2> SUFFICES ASSUME NEW th \in All, pc'[th] = "retain"
                 PROVE  /\ arg'[th] \in tasks' /\ ~Waiting(arg[th])'
                        /\ task'[arg'[th]].after = "end" <=> th = Worker
                        /\ th # Worker => Kind(arg[th])' # "timer"
                        /\ Kind(arg[th])' = "work" => mode' = "Running"
      BY DEF RetainInv
    <2>1. pc[th] = "retain"
      BY <1>2, <1>3
    <2>2. mode' = mode
      BY <1>1, <2>1, ThreadFacts DEF MutexInv
    <2> QED
      BY <1>1, <2>1, <2>2 DEF RetainInv, Waiting, Kind
  <1>7. QueueInv' /\ OrderInv' /\ StateInv' /\ WorkInv' /\ CountInv'
    <2>1. InOp' <=> InOp
      BY <1>2 DEF InOp
    <2>2. Ended' <=> Ended
      BY DEF Ended
    <2> QED
      BY <1>2, <1>3, <2>1, <2>2, FrameStep
  <1> QED
    BY <1>4, <1>5, <1>6, <1>7 DEF WorkerQueueInv

\* EnterRestrictedMode().
LEMMA EnterRestrictedModeInv ==
    ASSUME WorkerQueueInv, NEW a \in Threads,
           NEW from, NEW to, <<from, to>> \in {<<"idle", "terminate">>, <<"restrict", "enqueue">>},
           EnterRestrictedMode(a, from, to), UNCHANGED mutex
    PROVE  WorkerQueueInv'
  <1>1. /\ WorkerTypes /\ MutexInv /\ ModeInv
    BY DEF WorkerQueueInv
  <1>2. /\ to \in ThreadPcs \ {"retain", "await"} /\ from # "retain" /\ to \in Pcs
        /\ \/ from = "idle" /\ to = "terminate"
           \/ from = "restrict" /\ to = "enqueue"
    BY DEF ThreadPcs, Pcs
  <1>3. /\ UNCHANGED <<mutex, disposed, tasks, schedule, task, ready, delayed, running, timer,
                       terminated, signalled, arg, todo, returned>>
        /\ mode' = IF mode = "Disposed" THEN mode ELSE "Restricted"
        /\ mutex.queue = None
    BY DEF EnterRestrictedMode, Free
  <1>4. Moved(a, from, to)
    BY <1>1, <1>2, ThreadFacts, GotoFacts DEF EnterRestrictedMode
  <1>5. mode' \in {"Restricted", "Disposed"} /\ (mode' = "Disposed" <=> mode = "Disposed")
    BY <1>1, <1>3 DEF WorkerTypes
  <1>6. MutexInv'
    BY <1>1, <1>2, <1>3, <1>4, ThreadFacts DEF MutexInv, Moved, Disposing, Kind
  <1>7. ModeInv'
    BY <1>1, <1>2, <1>3, <1>4, <1>5, ThreadFacts DEF ModeInv, Moved
  <1> QED
    BY <1>1, <1>2, <1>3, <1>4, <1>5, <1>6, <1>7, ThreadStep DEF WorkerTypes

\* Nothing is enqueued after Dispose().
LEMMA RejectedInv ==
    ASSUME WorkerQueueInv, NEW a \in Threads, mode = "Disposed",
           NEW from, NEW to,
           <<from, to>> \in {<<"terminate", "idle">>, <<"idle", "idle">>, <<"enqueue", "stop">>},
           Goto(a, from, to), UNCHANGED <<mutex, tasks, schedule, task, arg>>,
           UNCHANGED <<mode, disposed, ready, delayed, running, timer, terminated,
                       signalled, todo, returned>>
    PROVE  WorkerQueueInv'
  <1>1. /\ WorkerTypes /\ MutexInv /\ ModeInv
    BY DEF WorkerQueueInv
  <1>2. /\ to \in ThreadPcs \ {"retain", "await"} /\ from # "retain" /\ to \in Pcs
        /\ \/ from = "terminate" /\ to = "idle"
           \/ from = "idle" /\ to = "idle"
           \/ from = "enqueue" /\ to = "stop"
    BY DEF ThreadPcs, Pcs
  <1>3. Moved(a, from, to)
    BY <1>1, <1>2, ThreadFacts, GotoFacts
  <1>4. MutexInv'
    BY <1>1, <1>2, <1>3, ThreadFacts DEF MutexInv, Moved, Disposing, Kind
  <1>5. ModeInv'
    BY <1>1, <1>2, <1>3, ThreadFacts DEF ModeInv, Moved
  <1> QED
    BY <1>1, <1>2, <1>3, <1>4, <1>5, ThreadStep DEF WorkerTypes

\* Firestore::Dispose() locks its mutex.
LEMMA DisposeInv ==
    ASSUME WorkerQueueInv, NEW a \in Threads, Dispose(a)
    PROVE  WorkerQueueInv'
  <1>1. /\ WorkerTypes /\ MutexInv /\ ModeInv
    BY DEF WorkerQueueInv
  <1>2. Moved(a, "lock", "restrict")
    BY <1>1, ThreadFacts, GotoFacts DEF Dispose, Pcs, ThreadPcs
  <1>3. /\ UNCHANGED <<mode, disposed, tasks, schedule, task, ready, delayed, running, timer,
                       terminated, signalled, arg, todo, returned>>
        /\ mutex.api = None /\ mutex' = [mutex EXCEPT !.api = a]
    BY DEF Dispose, Free
  <1>4. /\ mutex' \in [queue : All \cup {None}, api : Threads \cup {None}]
        /\ mutex'.queue = mutex.queue /\ mutex'.api = a
    BY <1>1, <1>3 DEF WorkerTypes
  <1>5. MutexInv'
    BY <1>1, <1>2, <1>3, <1>4, ThreadFacts DEF MutexInv, Moved, Disposing, Kind
  <1>6. ModeInv'
    <2>1. "restrict" \notin (Disposing \ {"restrict"}) \cup {"terminate"}
      OBVIOUS
    <2> QED
      BY <1>1, <1>2, <1>3, <2>1, ThreadFacts DEF ModeInv, Moved, Ended, Kind, Ids
  <1>7. "restrict" \in ThreadPcs \ {"retain", "await"}
    BY DEF ThreadPcs
  <1> QED
    BY <1>1, <1>2, <1>3, <1>4, <1>5, <1>6, <1>7, ThreadStep DEF WorkerTypes

\* A thread begins to wait for Firestore's mutex, or looks at the client.
LEMMA WaitForMutexInv ==
    ASSUME WorkerQueueInv, NEW a \in Threads,
           DisposeCall(a) \/ EnsureClientConfigured(a) \/ ClientConfigured(a)
    PROVE  WorkerQueueInv'
  <1>1. /\ WorkerTypes /\ MutexInv /\ ModeInv
    BY DEF WorkerQueueInv
  <1>2. PICK from, to : /\ Goto(a, from, to)
                        /\ \/ from = "idle" /\ to = "lock"
                           \/ from = "idle" /\ to = "ensure"
                           \/ from = "ensure" /\ to = "idle"
    BY DEF DisposeCall, EnsureClientConfigured, ClientConfigured
  <1>3. to \in ThreadPcs \ {"retain", "await"} /\ to \in Pcs /\ from # "retain"
    BY <1>2 DEF ThreadPcs, Pcs
  <1>4. Moved(a, from, to)
    BY <1>1, <1>2, <1>3, ThreadFacts, GotoFacts
  <1>5. UNCHANGED <<mutex, mode, disposed, tasks, schedule, task, ready, delayed, running, timer,
                    terminated, signalled, arg, todo, returned>>
    BY DEF DisposeCall, EnsureClientConfigured, ClientConfigured
  <1>6. MutexInv'
    BY <1>1, <1>2, <1>4, <1>5, ThreadFacts DEF MutexInv, Moved, Disposing, Kind
  <1>7. ModeInv'
    <2>1. to \notin Disposing \cup {"terminate", "retain"}
      BY <1>2 DEF Disposing
    <2> QED
      BY <1>1, <1>2, <1>4, <1>5, <2>1, ThreadFacts DEF ModeInv, Moved, Ended, Kind, Ids
  <1> QED
    BY <1>1, <1>3, <1>4, <1>5, <1>6, <1>7, ThreadStep DEF WorkerTypes

\* The future that Dispose() waits for has a value.
LEMMA DisposeWaitInv ==
    ASSUME WorkerQueueInv, NEW a \in Threads, DisposeWait(a)
    PROVE  WorkerQueueInv'
  <1>1. /\ WorkerTypes /\ MutexInv /\ ModeInv
    BY DEF WorkerQueueInv
  <1>2. Moved(a, "wait", "stop")
    BY <1>1, ThreadFacts, GotoFacts DEF DisposeWait, Pcs, ThreadPcs
  <1>3. /\ UNCHANGED <<mutex, mode, disposed, tasks, schedule, task, ready, delayed, running, timer,
                       terminated, signalled, arg, todo, returned>>
        /\ signalled # {}
    BY DEF DisposeWait
  <1>4. MutexInv'
    BY <1>1, <1>2, <1>3, ThreadFacts DEF MutexInv, Moved, Disposing, Kind
  <1>5. mode # "Running"
    BY <1>1, <1>3 DEF ModeInv, Ended
  <1>6. ModeInv'
    BY <1>1, <1>2, <1>3, <1>5, ThreadFacts DEF ModeInv, Moved
  <1>7. "stop" \in ThreadPcs \ {"retain", "await"}
    BY DEF ThreadPcs
  <1> QED
    BY <1>1, <1>2, <1>3, <1>4, <1>6, <1>7, ThreadStep DEF WorkerTypes

\* AsyncQueue::Dispose().
LEMMA DisposeQueueInv ==
    ASSUME WorkerQueueInv, NEW a \in Threads, DisposeQueue(a)
    PROVE  WorkerQueueInv'
  <1>1. /\ WorkerTypes /\ MutexInv /\ ModeInv
    BY DEF WorkerQueueInv
  <1>2. Moved(a, "stop", "swap")
    BY <1>1, ThreadFacts, GotoFacts DEF DisposeQueue, Pcs, ThreadPcs
  <1>3. /\ UNCHANGED <<mutex, disposed, tasks, schedule, task, ready, delayed, running, timer,
                       terminated, signalled, arg, todo, returned>>
        /\ mode' = "Disposed" /\ mutex.queue = None
    BY DEF DisposeQueue, Free
  <1>4. MutexInv'
    BY <1>1, <1>2, <1>3, ThreadFacts DEF MutexInv, Moved, Disposing, Kind
  <1>5. \A th \in All : pc'[th] # "retain"
    BY <1>1, <1>2, <1>3, ThreadFacts DEF MutexInv, Moved
  <1>6. ModeInv'
    BY <1>1, <1>2, <1>3, <1>5, ThreadFacts DEF ModeInv, Moved
  <1>7. "swap" \in ThreadPcs \ {"retain", "await"}
    BY DEF ThreadPcs
  <1> QED
    BY <1>1, <1>2, <1>3, <1>4, <1>6, <1>7, ThreadStep DEF WorkerTypes

\* Dispose() has dealt with all tasks and turns to the user executor.
LEMMA DisposeUserExecutorInv ==
    ASSUME WorkerQueueInv, NEW a \in Threads, DisposeUserExecutor(a)
    PROVE  WorkerQueueInv'
  <1>1. /\ WorkerTypes /\ MutexInv /\ ModeInv
    BY DEF WorkerQueueInv
  <1>2. PICK to \in {"join", "leave"} : Goto(a, "cancel", to)
    BY DEF DisposeUserExecutor
  <1>3. to \in ThreadPcs \ {"retain", "await"} /\ to \in Pcs
    BY <1>2 DEF ThreadPcs, Pcs
  <1>4. Moved(a, "cancel", to)
    BY <1>1, <1>2, <1>3, ThreadFacts, GotoFacts
  <1>5. /\ UNCHANGED <<mutex, mode, disposed, tasks, schedule, task, ready, delayed, running, timer,
                       terminated, signalled, arg, todo, returned>>
        /\ todo[a] = {}
    BY DEF DisposeUserExecutor
  <1>6. MutexInv'
    BY <1>1, <1>2, <1>4, <1>5, ThreadFacts DEF MutexInv, Moved, Disposing, Kind
  <1>7. disposed /\ mode = "Disposed" /\ signalled # {}
    BY <1>1, <1>4 DEF ModeInv, Moved
  <1>8. ModeInv'
    BY <1>1, <1>2, <1>4, <1>5, <1>7, ThreadFacts DEF ModeInv, Moved
  <1> QED
    BY <1>1, <1>3, <1>4, <1>5, <1>6, <1>8, ThreadStep DEF WorkerTypes

\* Dispose() returns when no callback is left either.
LEMMA DisposeReturnInv ==
    ASSUME WorkerQueueInv, NEW a \in Threads, DisposeReturn(a)
    PROVE  WorkerQueueInv'
  <1>1. /\ WorkerTypes /\ MutexInv /\ ModeInv
    BY DEF WorkerQueueInv
  <1>2. PICK from \in {"join", "leave"} : Goto(a, from, "idle")
    BY DEF DisposeReturn
  <1>3. Moved(a, from, "idle")
    BY <1>1, <1>2, ThreadFacts, GotoFacts DEF Pcs, ThreadPcs
  <1>4. /\ UNCHANGED <<mode, disposed, tasks, schedule, task, ready, delayed, running, timer,
                       terminated, signalled, arg, todo>>
        /\ returned' = TRUE /\ mutex' = [mutex EXCEPT !.api = None]
    BY DEF DisposeReturn
  <1>5. /\ mutex' \in [queue : All \cup {None}, api : Threads \cup {None}]
        /\ mutex'.queue = mutex.queue /\ mutex'.api = None /\ mutex.api = a
    BY <1>1, <1>3, <1>4 DEF WorkerTypes, MutexInv, Moved, Disposing
  <1>6. /\ todo[a] = {}
        /\ \A b \in Threads : b # a => pc[b] \notin Disposing /\ todo[b] = {}
                                    /\ ~(pc[b] = "retain" /\ Kind(arg[b]) = "dispose")
    BY <1>1, <1>3, <1>5 DEF MutexInv, Disposing, Moved
  <1>7. MutexInv'
    BY <1>1, <1>3, <1>4, <1>5, <1>6, ThreadFacts DEF MutexInv, Moved, Disposing, Kind
  <1>8. disposed /\ mode = "Disposed"
    BY <1>1, <1>3 DEF ModeInv, Moved
  <1>9. ModeInv'
    BY <1>1, <1>3, <1>4, <1>6, <1>8, ThreadFacts DEF ModeInv, Moved
  <1>10. "idle" \in ThreadPcs \ {"retain", "await"} /\ from # "retain"
    BY DEF ThreadPcs
  <1> QED
    BY <1>1, <1>3, <1>4, <1>5, <1>7, <1>9, <1>10, ThreadStep DEF WorkerTypes

\* A step of an operation in which no task changes.
LEMMA OperationStep ==
    ASSUME WorkerQueueInv, NEW from \in {"op", "terminate", "signal", "clear"},
           NEW to \in {"end", "terminate"}, Moved(Worker, from, to),
           UNCHANGED <<mutex, mode, disposed, tasks, schedule, task, ready, delayed, running,
                       arg, todo, returned>>,
           timer' \in {timer, 0}, terminated' \in BOOLEAN, terminated => terminated',
           signalled \subseteq signalled', signalled' \subseteq Threads,
           Ended' => Ended \/ (running # 0 /\ Kind(running) \in EndKinds),
           WorkerInv'
    PROVE  WorkerQueueInv'
  <1>1. /\ WorkerTypes /\ KindInv /\ MutexInv /\ ModeInv /\ WorkerInv /\ RetainInv
        /\ QueueInv /\ OrderInv /\ StateInv /\ WorkInv /\ CountInv
    BY DEF WorkerQueueInv
  <1>2. /\ pc[Worker] = from /\ pc'[Worker] = to
        /\ \A a \in Threads : pc'[a] = pc[a]
        /\ \A th \in All : pc'[th] = "retain" <=> pc[th] = "retain"
    BY ThreadFacts DEF Moved
  <1>3. /\ Ids' = Ids /\ (\A t : Kind(t)' = Kind(t)) /\ (\A t : Waiting(t)' <=> Waiting(t))
    <2>1. Ids' = Ids /\ \A t : Kind(t)' = Kind(t)
      BY DEF Ids, Kind
    <2>2. \A t : Waiting(t)' <=> Waiting(t)
      BY Zenon DEF Waiting
    <2> QED
      BY <2>1, <2>2
  <1>4. WorkerTypes'
    <2>1. to \in WorkerPcs
      BY DEF WorkerPcs
    <2> QED
      BY <1>1, <1>2, <1>3, <2>1 DEF WorkerTypes, Moved
  <1>5. KindInv' /\ MutexInv'
    BY <1>1, <1>2, <1>3 DEF KindInv, MutexInv
  <1>6. running # 0 /\ running \in Ids
    BY <1>1, <1>2 DEF WorkerInv, WorkerTypes
  <1>7. ModeInv'
    <2>1. mode = "Running" => ~Ended'
      BY <1>1, <1>6 DEF ModeInv
    <2>2. signalled # {} => signalled' # {}
      OBVIOUS
    <2> QED
      BY <1>1, <1>2, <1>3, <2>1, <2>2 DEF ModeInv
  <1>8. RetainInv'
    BY <1>1, <1>2, <1>3 DEF RetainInv
  <1>9. QueueInv' /\ OrderInv' /\ StateInv' /\ WorkInv' /\ CountInv'
    <2>1. InOp' <=> InOp
      BY <1>2 DEF InOp
    <2>2. running \in tasks \/ Held(running)
      BY <1>1, <1>2 DEF StateInv, InOp
    <2> QED
      BY <1>2, <2>1, <2>2, FrameStep
  <1> QED
    BY <1>4, <1>5, <1>7, <1>8, <1>9 DEF WorkerInv, WorkerQueueInv

\* Work and ClearPersistence() end.
LEMMA WorkEndsInv ==
    ASSUME WorkerQueueInv, Work \/ ClearPersistenceOp
    PROVE  WorkerQueueInv'
  <1>1. WorkerTypes /\ WorkerInv
    BY DEF WorkerQueueInv
  <1>2. PICK from \in {"op", "terminate", "signal", "clear"} : Goto(Worker, from, "end")
    BY DEF Work, ClearPersistenceOp
  <1>3. UNCHANGED <<mutex, mode, disposed, tasks, schedule, task, ready, delayed, running, timer,
                    terminated, signalled, arg, todo, returned>>
    BY DEF Work, ClearPersistenceOp
  <1>4. Moved(Worker, from, "end")
    BY <1>1, <1>2, ThreadFacts, GotoFacts DEF Pcs, WorkerPcs
  <1>5. signalled # {} => terminated \/ from = "terminate"
    BY <1>1, <1>4 DEF WorkerInv, Moved
  <1>6. from # "terminate"
    BY <1>2, <1>4 DEF Work, ClearPersistenceOp, Goto, Moved
  <1>7. WorkerInv'
    BY <1>1, <1>3, <1>4, <1>5, <1>6 DEF WorkerInv, Moved, Kind
  <1>8. Ended' => Ended
    BY <1>3 DEF Ended
  <1> QED
    BY <1>1, <1>3, <1>4, <1>7, <1>8, OperationStep DEF WorkerTypes

\* A timer is not scheduled while the queue is restricted.
LEMMA NoTimerInv ==
    ASSUME WorkerQueueInv, Goto(Worker, "op", "end"), timer' = 0,
           UNCHANGED <<mutex, mode, disposed, tasks, schedule, task, ready, delayed, running,
                       terminated, signalled, arg, todo, returned>>
    PROVE  WorkerQueueInv'
  <1>1. WorkerTypes /\ WorkerInv
    BY DEF WorkerQueueInv
  <1>2. Moved(Worker, "op", "end")
    BY <1>1, ThreadFacts, GotoFacts DEF Pcs, WorkerPcs
  <1>3. 0 \notin schedule
    <2>1. Ids = 1..Len(task) /\ Len(task) \in Nat
      BY <1>1 DEF WorkerTypes, Ids
    <2> QED
      BY <1>1, <2>1 DEF WorkerTypes
  <1>4. WorkerInv'
    BY <1>1, <1>2, <1>3 DEF WorkerInv, Moved, Kind
  <1>5. Ended' => Ended
    BY DEF Ended
  <1> QED
    BY <1>1, <1>2, <1>4, <1>5, OperationStep DEF WorkerTypes

\* The operation of Dispose() fulfils the promise.
LEMMA SignalDisposingInv ==
    ASSUME WorkerQueueInv, SignalDisposing
    PROVE  WorkerQueueInv'
  <1>1. WorkerTypes /\ WorkerInv /\ KindInv
    BY DEF WorkerQueueInv
  <1>2. Moved(Worker, "signal", "terminate")
    BY <1>1, ThreadFacts, GotoFacts DEF SignalDisposing, Pcs, WorkerPcs
  <1>3. /\ UNCHANGED <<mutex, mode, disposed, tasks, schedule, task, ready, delayed, running, timer,
                       terminated, arg, todo, returned>>
        /\ signalled' = signalled \cup {task[running].owner}
    BY DEF SignalDisposing
  <1>4. running # 0 /\ Kind(running) = "dispose" /\ running \in Ids
    BY <1>1, <1>2 DEF WorkerInv, WorkerTypes, Moved
  <1>5. task[running].owner \in Threads
    BY <1>1, <1>4 DEF KindInv
  <1>6. WorkerInv'
    BY <1>1, <1>2, <1>3, <1>4 DEF WorkerInv, Moved, Kind, EndKinds
  <1>7. running # 0 /\ Kind(running) \in EndKinds
    BY <1>4 DEF EndKinds
  <1>8. signalled \subseteq signalled' /\ signalled' \subseteq Threads
    BY <1>1, <1>3, <1>5 DEF WorkerTypes
  <1> QED
    BY <1>1, <1>2, <1>3, <1>6, <1>7, <1>8, OperationStep DEF WorkerTypes

-----------------------------------------------------------------------------
(* The timer                                                               *)

\* ExecutorLibdispatch::Cancel() takes the task of the timer over.
LEMMA FoundStep ==
    ASSUME WorkerQueueInv, NEW from \in {"op", "terminate"}, Moved(Worker, from, "drop"),
           timer \in schedule, tasks' = tasks \ {timer}, schedule' = schedule \ {timer},
           arg' = [arg EXCEPT ![Worker] = timer],
           terminated' = (terminated \/ from = "terminate"),
           UNCHANGED <<mutex, mode, disposed, task, ready, delayed, running, timer, signalled,
                       todo, returned>>
    PROVE  WorkerQueueInv'
  <1>1. /\ WorkerTypes /\ KindInv /\ MutexInv /\ ModeInv /\ WorkerInv /\ RetainInv
        /\ QueueInv /\ OrderInv /\ StateInv /\ WorkInv /\ CountInv
    BY DEF WorkerQueueInv
  <1>2. /\ pc[Worker] = from /\ pc'[Worker] = "drop"
        /\ \A a \in Threads : pc'[a] = pc[a]
        /\ \A th \in All : pc'[th] = "retain" <=> pc[th] = "retain"
        /\ \A th \in All : pc[th] = "retain" => th \in Threads
    BY ThreadFacts DEF Moved
  <1>3. /\ Ids' = Ids /\ (\A t : Kind(t)' = Kind(t)) /\ (\A t : Waiting(t)' <=> Waiting(t))
        /\ \A t : Held(t)' <=> Held(t)
    <2>1. Ids' = Ids /\ \A t : Kind(t)' = Kind(t)
      BY DEF Ids, Kind
    <2>2. \A t : Waiting(t)' <=> Waiting(t)
      BY Zenon DEF Waiting
    <2>3. \A t : Held(t)' <=> Held(t)
      BY Zenon DEF Held
    <2> QED
      BY <2>1, <2>2, <2>3
  <1>4. /\ arg' \in [All -> Nat] /\ arg'[Worker] = timer /\ \A a \in Threads : arg'[a] = arg[a]
    <2>1. timer \in Nat
      BY <1>1 DEF WorkerTypes, Ids
    <2> QED
      BY <1>1, <2>1, ThreadFacts DEF WorkerTypes
  <1>5. timer \in tasks /\ timer \in Ids /\ Kind(timer) = "timer" /\ timer # 0
    <2>1. Ids = 1..Len(task) /\ Len(task) \in Nat
      BY <1>1 DEF WorkerTypes, Ids
    <2> QED
      BY <1>1, <2>1 DEF WorkerTypes, KindInv
  <1>6. running # 0 /\ running \in Ids
    BY <1>1, <1>2 DEF WorkerInv, WorkerTypes
  <1>7. from = "terminate" => Kind(running) \in EndKinds /\ running # timer
    BY <1>1, <1>2, <1>5 DEF WorkerInv, EndKinds
  <1>8. ~terminated /\ (from = "op" => signalled = {})
    BY <1>1, <1>2 DEF WorkerInv
  <1>9. Ended' => Ended \/ (running # 0 /\ Kind(running) \in EndKinds)
    BY <1>1, <1>6, <1>7 DEF Ended, WorkerTypes
  <1>10. WorkerTypes'
    <2>1. "drop" \in WorkerPcs
      BY DEF WorkerPcs
    <2>2. \A th \in All : arg'[th] \in Ids \cup {0}
      BY <1>1, <1>4, <1>5, ThreadFacts DEF WorkerTypes
    <2> QED
      BY <1>1, <1>2, <1>3, <1>4, <2>1, <2>2 DEF WorkerTypes, Moved
  <1>11. KindInv' /\ MutexInv'
    BY <1>1, <1>2, <1>3, <1>4 DEF KindInv, MutexInv
  <1>12. ModeInv'
    <2>1. mode = "Running" => ~Ended'
      BY <1>1, <1>6, <1>9 DEF ModeInv
    <2> QED
      BY <1>1, <1>2, <1>3, <2>1 DEF ModeInv
  <1>13. WorkerInv'
    BY <1>1, <1>2, <1>3, <1>4, <1>5, <1>6, <1>8 DEF WorkerInv
  <1>14. RetainInv'
    <2> SUFFICES ASSUME NEW th \in All, pc'[th] = "retain"
                 PROVE  /\ arg'[th] \in tasks' /\ ~Waiting(arg[th])'
                        /\ task'[arg'[th]].after = "end" <=> th = Worker
                        /\ th # Worker => Kind(arg[th])' # "timer"
                        /\ Kind(arg[th])' = "work" => mode' = "Running"
      BY DEF RetainInv
    <2>1. pc[th] = "retain" /\ th \in Threads /\ th # Worker
      BY <1>2, ThreadFacts
    <2>2. arg'[th] = arg[th]
      BY <1>4, <2>1
    <2>3. PICK u : u = arg[th]
      OBVIOUS
    <2>4. u \in tasks /\ ~Waiting(u) /\ task[u].after # "end" /\ Kind(u) # "timer"
          /\ (Kind(u) = "work" => mode = "Running")
      BY <1>1, <2>1, <2>3 DEF RetainInv
    <2>5. Waiting(arg[th])' <=> Waiting(u)'
      BY <2>2, <2>3 DEF Waiting
    <2>6. Kind(arg[th])' = Kind(u)'
      BY <2>2, <2>3 DEF Kind
    <2> QED
      BY <1>3, <1>5, <2>1, <2>2, <2>3, <2>4, <2>5, <2>6
  <1>15. QueueInv'
    BY <1>1, <1>3 DEF QueueInv
  <1>16. OrderInv'
    <2>1. \A k \in EndKinds : k # "work"
      BY DEF EndKinds
    <2> QED
      BY <1>1, <1>3, <1>9, <2>1 DEF OrderInv
  <1>17. StateInv'
    <2>1. InOp' /\ InOp
      BY <1>2 DEF InOp
    <2>2. running \in tasks \/ Held(running)
      BY <1>1, <1>2, <2>1 DEF StateInv
    <2>3. running \in tasks' \/ Held(running) \/ signalled = {}
      BY <1>7, <1>8, <2>2
    <2> QED
      BY <1>1, <1>2, <1>3, <1>4, <2>1, <2>3 DEF StateInv
  <1>18. WorkInv'
    <2>1. \A th \in All : pc[th] = "retain" => arg'[th] = arg[th]
      BY <1>2, <1>4
    <2> QED
      BY <1>1, <1>2, <1>3, <2>1 DEF WorkInv
  <1>19. CountInv'
    <2>1. \A t : ~Taken(t) /\ (Taken(t)' <=> t = timer)
      BY <1>2, <1>4 DEF Taken
    <2> QED
      BY <1>1, <1>3, <1>5, <2>1 DEF CountInv, One
  <1> QED
    BY <1>10, <1>11, <1>12, <1>13, <1>14, <1>15, <1>16, <1>17, <1>18, <1>19 DEF WorkerQueueInv

\* DelayedOperation::Cancel() from an operation.
LEMMA CancelTimerInv ==
    ASSUME WorkerQueueInv, CancelTimer
    PROVE  WorkerQueueInv'
  <1>1. WorkerTypes /\ WorkerInv
    BY DEF WorkerQueueInv
  <1>2. /\ pc[Worker] = "op"
        /\ UNCHANGED <<mutex, mode, disposed, task, ready, delayed, running, timer,
                       terminated, signalled, todo, user, returned>>
    BY DEF CancelTimer
  <1>3. CASE timer \in schedule
    <2>1. /\ tasks' = tasks \ {timer} /\ schedule' = schedule \ {timer}
          /\ arg' = [arg EXCEPT ![Worker] = timer] /\ Goto(Worker, "op", "drop")
      BY <1>2, <1>3 DEF CancelTimer, FindTimer, Goto
    <2>2. Moved(Worker, "op", "drop")
      BY <1>1, <2>1, ThreadFacts, GotoFacts DEF Pcs, WorkerPcs
    <2>3. PICK from \in {"op", "terminate"} : from = "op"
      OBVIOUS
    <2>4. terminated' = (terminated \/ from = "terminate")
      BY <1>1, <1>2, <2>3 DEF WorkerTypes
    <2>5. Moved(Worker, from, "drop")
      BY <2>2, <2>3
    <2> QED
      BY <1>2, <1>3, <2>1, <2>4, <2>5, FoundStep
  <1>4. CASE timer \notin schedule
    <2>1. Goto(Worker, "op", "end") /\ UNCHANGED <<tasks, schedule, arg>>
      BY <1>2, <1>4 DEF CancelTimer, FindTimer, Goto
    <2>2. Work
      BY <1>2, <2>1 DEF Work
    <2> QED
      BY <2>2, WorkEndsInv
  <1> QED
    BY <1>3, <1>4

\* FirestoreClient::TerminateInternal().
LEMMA TerminateInternalInv ==
    ASSUME WorkerQueueInv, TerminateInternal
    PROVE  WorkerQueueInv'
  <1>1. WorkerTypes /\ WorkerInv
    BY DEF WorkerQueueInv
  <1>2. /\ pc[Worker] = "terminate" /\ terminated' = TRUE
        /\ UNCHANGED <<mutex, mode, disposed, task, ready, delayed, running, timer,
                       signalled, todo, returned>>
    BY DEF TerminateInternal
  <1>3. CASE ~terminated /\ timer \in schedule
    <2>1. /\ tasks' = tasks \ {timer} /\ schedule' = schedule \ {timer}
          /\ arg' = [arg EXCEPT ![Worker] = timer] /\ Goto(Worker, "terminate", "drop")
      BY <1>2, <1>3 DEF TerminateInternal, FindTimer, Goto
    <2>2. Moved(Worker, "terminate", "drop")
      BY <1>1, <2>1, ThreadFacts, GotoFacts DEF Pcs, WorkerPcs
    <2>3. PICK from \in {"op", "terminate"} : from = "terminate"
      OBVIOUS
    <2>4. terminated' = (terminated \/ from = "terminate")
      BY <1>2, <2>3
    <2>5. Moved(Worker, from, "drop")
      BY <2>2, <2>3
    <2> QED
      BY <1>2, <1>3, <2>1, <2>4, <2>5, FoundStep
  <1>4. CASE terminated \/ timer \notin schedule
    <2>1. Goto(Worker, "terminate", "end") /\ UNCHANGED <<tasks, schedule, arg>>
      BY <1>2, <1>4 DEF TerminateInternal, FindTimer, Goto
    <2>2. Moved(Worker, "terminate", "end")
      BY <1>1, <2>1, ThreadFacts, GotoFacts DEF Pcs, WorkerPcs
    <2>3. timer \notin schedule
      BY <1>1, <1>4 DEF WorkerInv
    <2>4. running # 0 /\ Kind(running) \in EndKinds
      BY <1>1, <1>2 DEF WorkerInv
    <2>5. WorkerInv'
      BY <1>1, <1>2, <2>1, <2>2, <2>3 DEF WorkerInv, Moved, Kind
    <2> QED
      BY <1>1, <1>2, <2>1, <2>2, <2>4, <2>5, OperationStep DEF WorkerTypes
  <1> QED
    BY <1>3, <1>4

-----------------------------------------------------------------------------
(* Steps that change a task                                                *)

\* What Task::Create() fixes is the same in k and l.
Static(k, l) == /\ k.kind = l.kind /\ k.owner = l.owner
                /\ k.immediate = l.immediate /\ k.after = l.after

\* Release() and Retain().
LEMMA ReleasedFacts ==
    ASSUME NEW k \in Task, NEW n \in Int
    PROVE  /\ Released(k, n) \in Task /\ Static(Released(k, n), k)
           /\ Released(k, n).refs = k.refs - n /\ Released(k, n).state = k.state
           /\ Released(k, n).executor = k.executor
  BY DEF Released, Task, Static

\* Task::Cancel().
LEMMA CancelledFacts ==
    ASSUME NEW k \in Task
    PROVE  /\ Cancelled(k) \in Task /\ Static(Cancelled(k), k) /\ Cancelled(k).refs = k.refs
           /\ Cancelled(k).state = IF k.state = "Initial" THEN "Cancelled" ELSE k.state
  <1>1. CASE k.state = "Initial"
    <2>1. PICK i : i = [k EXCEPT !.state = "Cancelled"]
      OBVIOUS
    <2>2. /\ i \in Task /\ Static(i, k) /\ i.refs = k.refs /\ i.state = "Cancelled"
      BY <2>1 DEF Task, Static, States
    <2>3. PICK j : j = [i EXCEPT !.executor = FALSE]
      OBVIOUS
    <2>4. /\ j \in Task /\ Static(j, k) /\ j.refs = k.refs /\ j.state = "Cancelled"
      BY <2>2, <2>3 DEF Task, Static
    <2>5. Cancelled(k) = j
      BY <1>1, <2>1, <2>3 DEF Cancelled
    <2> QED
      BY <1>1, <2>4, <2>5
  <1>2. CASE k.state = "Running"
    <2>1. Cancelled(k) = [k EXCEPT !.executor = FALSE]
      BY <1>2 DEF Cancelled
    <2> QED
      BY <1>2, <2>1 DEF Task, Static
  <1>3. CASE k.state \notin {"Initial", "Running"}
    <2>1. Cancelled(k) = k
      BY <1>3 DEF Cancelled
    <2> QED
      BY <1>3, <2>1 DEF Static
  <1> QED
    BY <1>1, <1>2, <1>3

\* One task changes.
LEMMA UpdateFacts ==
    ASSUME WorkerTypes, NEW t \in Ids, NEW k \in Task, Static(k, task[t]),
           task' = [task EXCEPT ![t] = k]
    PROVE  /\ task' \in Seq(Task) /\ Ids' = Ids
           /\ \A u \in Ids : Kind(u)' = Kind(u) /\ Static(task'[u], task[u])
           /\ task'[t] = k /\ \A u \in Ids : u # t => task'[u] = task[u]
  <1>1. task \in Seq(Task) /\ Ids = DOMAIN task
    BY DEF WorkerTypes, Ids
  <1>2. task' \in Seq(Task) /\ DOMAIN task' = DOMAIN task
    BY <1>1
  <1>3. task'[t] = k /\ \A u \in Ids : u # t => task'[u] = task[u]
    BY <1>1
  <1> QED
    BY <1>1, <1>2, <1>3 DEF Ids, Kind, Static

\* Where task ids begin.
LEMMA IdFacts ==
    ASSUME WorkerTypes
    PROVE  /\ Ids = 1..Len(task) /\ Len(task) \in Nat /\ Ids \subseteq Nat /\ 0 \notin Ids
           /\ \A t \in Ids : task[t] \in Task
  <1>1. Ids = 1..Len(task) /\ Len(task) \in Nat
    BY DEF WorkerTypes, Ids
  <1> QED
    BY <1>1 DEF WorkerTypes, Ids

\* The tasks keep their kinds, and none is scheduled.
LEMMA KindStep ==
    ASSUME WorkerTypes, KindInv, Ids' = Ids,
           \A u \in Ids : Kind(u)' = Kind(u) /\ Static(task'[u], task[u]),
           schedule' \subseteq schedule, timer' = timer
    PROVE  KindInv'
  <1>1. \A u \in Ids : /\ task'[u].immediate = task[u].immediate
                       /\ task'[u].after = task[u].after /\ task'[u].owner = task[u].owner
    BY DEF Static
  <1>2. schedule \subseteq Ids /\ timer \in Ids \cup {0}
    BY DEF WorkerTypes
  <1>3. \A u \in Ids' : /\ task'[u].immediate <=> Kind(u)' # "timer"
                        /\ task'[u].after = "wait" <=> Kind(u)' = "dispose"
                        /\ Kind(u)' = "dispose" => task'[u].owner \in Threads
    BY <1>1 DEF KindInv
  <1>4. \A u \in schedule' : Kind(u)' = "timer"
    BY <1>2 DEF KindInv
  <1>5. timer' # 0 => Kind(timer)' = "timer"
    <2>1. timer # 0 => Kind(timer) = "timer" /\ timer \in Ids
      BY <1>2 DEF KindInv
    <2>2. Kind(timer)' = task'[timer].kind
      BY DEF Kind
    <2> QED
      BY <2>1, <2>2 DEF Kind
  <1> QED
    BY <1>3, <1>4, <1>5 DEF KindInv

\* The worker cancels or looks at the task of the timer.
LEMMA TouchStep ==
    ASSUME WorkerQueueInv, NEW from \in {"op", "drop", "check"}, NEW to \in {"check", "end"},
           Moved(Worker, from, to), NEW t \in Ids, NEW k \in Task, Static(k, task[t]),
           Kind(t) = "timer", task' = [task EXCEPT ![t] = k],
           \/ k.state = task[t].state
           \/ task[t].state = "Initial" /\ k.state = "Cancelled",
           from = "drop" => to = "end" /\ arg[Worker] = t /\ k.state # "Initial",
           arg' \in [All -> Nat], \A a \in Threads : arg'[a] = arg[a],
           arg'[Worker] = IF to = "check" THEN t ELSE 0,
           from # "op" => arg[Worker] = t,
           k.refs = task[t].refs - One(from # "op") + One(to = "check"),
           UNCHANGED <<mutex, mode, disposed, tasks, schedule, ready, delayed, running, timer,
                       terminated, signalled, todo, returned>>
    PROVE  WorkerQueueInv'
  <1>1. /\ WorkerTypes /\ KindInv /\ MutexInv /\ ModeInv /\ WorkerInv /\ RetainInv
        /\ QueueInv /\ OrderInv /\ StateInv /\ WorkInv /\ CountInv
    BY DEF WorkerQueueInv
  <1>2. /\ pc[Worker] = from /\ pc'[Worker] = to
        /\ \A a \in Threads : pc'[a] = pc[a]
        /\ \A th \in All : pc'[th] = "retain" <=> pc[th] = "retain"
        /\ \A th \in All : pc[th] = "retain" => th \in Threads
    BY ThreadFacts DEF Moved
  <1>3. /\ task' \in Seq(Task) /\ Ids' = Ids
        /\ \A u \in Ids : Kind(u)' = Kind(u) /\ Static(task'[u], task[u])
        /\ task'[t] = k /\ \A u \in Ids : u # t => task'[u] = task[u]
    BY <1>1, UpdateFacts
  <1>4. /\ (\A u : Waiting(u)' <=> Waiting(u)) /\ (\A u : Held(u)' <=> Held(u))
        /\ (Ended' <=> Ended)
    <2>1. \A u : Waiting(u)' <=> Waiting(u)
      BY Zenon DEF Waiting
    <2>2. \A u : Held(u)' <=> Held(u)
      BY Zenon DEF Held
    <2>3. Ended' <=> Ended
      BY DEF Ended
    <2> QED
      BY <2>1, <2>2, <2>3
  <1>5. running # 0 /\ running \in Ids /\ 0 \notin Ids /\ InOp /\ InOp'
    BY <1>1, <1>2, IdFacts DEF WorkerInv, WorkerTypes, InOp
  <1>6. WorkerTypes'
    <2>1. to \in WorkerPcs
      BY DEF WorkerPcs
    <2>2. \A th \in All : arg'[th] \in Ids \cup {0}
      BY <1>1, ThreadFacts DEF WorkerTypes
    <2> QED
      BY <1>1, <1>2, <1>3, <2>1, <2>2 DEF WorkerTypes, Moved
  <1>7. KindInv'
    BY <1>1, <1>3, KindStep
  <1>8. \A th \in All : pc[th] = "retain" => arg'[th] = arg[th] /\ arg[th] \in Ids
    BY <1>1, <1>2 DEF RetainInv, WorkerTypes
  <1>9. MutexInv'
    <2>1. ASSUME NEW a \in Threads, pc'[a] = "retain", Kind(arg[a])' = "dispose"
          PROVE  mutex.api = a
      <3>1. pc[a] = "retain" /\ arg'[a] = arg[a] /\ arg[a] \in Ids
        BY <1>2, <1>8, <2>1, ThreadFacts
      <3>2. Kind(arg[a])' = Kind(arg[a])
        BY <1>3, <3>1 DEF Kind
      <3> QED
        BY <1>1, <2>1, <3>1, <3>2 DEF MutexInv
    <2> QED
      BY <1>1, <1>2, <2>1 DEF MutexInv
  <1>10. ModeInv'
    BY <1>1, <1>2, <1>3, <1>4 DEF ModeInv
  <1>11. WorkerInv'
    BY <1>1, <1>2, <1>3, <1>5 DEF WorkerInv, Kind
  <1>12. RetainInv'
    <2> SUFFICES ASSUME NEW th \in All, pc'[th] = "retain"
                 PROVE  /\ arg'[th] \in tasks' /\ ~Waiting(arg[th])'
                        /\ task'[arg'[th]].after = "end" <=> th = Worker
                        /\ th # Worker => Kind(arg[th])' # "timer"
                        /\ Kind(arg[th])' = "work" => mode' = "Running"
      BY DEF RetainInv
    <2>1. PICK u : u = arg[th]
      OBVIOUS
    <2>2. pc[th] = "retain" /\ u \in Ids /\ arg'[th] = u
      BY <1>2, <1>8, <2>1
    <2>3. /\ u \in tasks /\ ~Waiting(u) /\ (task[u].after = "end" <=> th = Worker)
          /\ (th # Worker => Kind(u) # "timer") /\ (Kind(u) = "work" => mode = "Running")
      BY <1>1, <2>1, <2>2 DEF RetainInv
    <2>4. (Waiting(arg[th])' <=> Waiting(u)') /\ Kind(arg[th])' = Kind(u)'
      BY <2>2 DEF Waiting, Kind
    <2> QED
      BY <1>3, <1>4, <2>2, <2>3, <2>4 DEF Static
  <1>13. QueueInv'
    BY <1>1, <1>3 DEF QueueInv, WorkerTypes
  <1>14. OrderInv'
    <2>1. \A i \in DOMAIN ready : ready[i] \in Ids
      BY <1>1 DEF WorkerTypes, InSeq
    <2>2. \A u : InSeq(u, ready) => u \in Ids
      BY <1>1 DEF WorkerTypes
    <2> QED
      BY <1>1, <1>3, <1>4, <1>5, <2>1, <2>2 DEF OrderInv
  <1>15. StateInv'
    <2>1. \A u \in Ids : task'[u].state = "Running" <=> u = running /\ InOp'
      BY <1>1, <1>3, <1>5 DEF StateInv
    <2>2. ASSUME NEW u \in Ids, task'[u].state \in {"Initial", "Running"}
          PROVE  u \in tasks' \/ Held(u)' \/ (u = running /\ InOp')
      <3>1. task[u].state \in {"Initial", "Running"}
        BY <1>3, <2>2
      <3>2. CASE from = "drop" /\ u = t
        BY <1>3, <2>1, <2>2, <3>2
      <3>3. CASE ~(from = "drop" /\ u = t)
        BY <1>1, <1>2, <1>4, <1>5, <3>1, <3>3 DEF StateInv
      <3> QED
        BY <3>2, <3>3
    <2>3. \/ running \in tasks \/ Held(running)
          \/ signalled = {} /\ from = "drop"
      BY <1>1, <1>2, <1>5 DEF StateInv
    <2>4. \/ running \in tasks' \/ Held(running)'
          \/ signalled' = {} /\ pc'[Worker] \in {"drop", "end"}
      BY <1>2, <1>4, <2>3
    <2> QED
      BY <1>3, <2>1, <2>2, <2>4 DEF StateInv
  <1>16. WorkInv'
    <2>1. ASSUME NEW u \in Ids, Kind(u) = "work"
          PROVE  /\ task'[u].state # "Cancelled"
                 /\ task'[u].state = "Initial" =>
                       \/ \E th \in All : pc'[th] = "retain" /\ arg'[th] = u
                       \/ InSeq(u, ready)
                       \/ u = running
      <3>1. task'[u] = task[u]
        BY <1>3, <2>1
      <3> QED
        BY <1>1, <1>2, <1>8, <2>1, <3>1 DEF WorkInv
    <2> QED
      BY <1>3, <2>1 DEF WorkInv
  <1>17. CountInv'
    <2>1. \A u \in Ids : Taken(u) <=> u = t /\ from # "op"
      BY <1>2 DEF Taken
    <2>2. \A u \in Ids : Taken(u)' <=> u = t /\ to = "check"
      BY <1>2, <1>5 DEF Taken
    <2>3. ASSUME NEW u \in Ids
          PROVE  task'[u].refs = One(u \in tasks) + One(Waiting(u)) + One(Held(u)) + One(Taken(u)')
      <3>1. /\ task[u].refs = One(u \in tasks) + One(Waiting(u)) + One(Held(u)) + One(Taken(u))
            /\ One(u \in tasks) \in Int /\ One(Waiting(u)) \in Int /\ One(Held(u)) \in Int
        BY <1>1 DEF CountInv, One
      <3>2. CASE u = t
        <4>1. One(Taken(u)) = One(from # "op") /\ One(Taken(u)') = One(to = "check")
          BY <2>1, <2>2, <3>2 DEF One
        <4>2. One(from # "op") \in Int /\ One(to = "check") \in Int
          BY DEF One
        <4>3. task'[u].refs = task[u].refs - One(from # "op") + One(to = "check")
          BY <1>3, <3>2
        <4> QED
          BY <3>1, <4>1, <4>2, <4>3
      <3>3. CASE u # t
        <4>1. One(Taken(u)) = One(Taken(u)')
          BY <2>1, <2>2, <3>3 DEF One
        <4> QED
          BY <1>3, <3>1, <3>3, <4>1
      <3> QED
        BY <3>2, <3>3
    <2> QED
      BY <1>3, <1>4, <2>3 DEF CountInv, One
  <1> QED
    BY <1>6, <1>7, <1>9, <1>10, <1>11, <1>12, <1>13, <1>14, <1>15, <1>16, <1>17 DEF WorkerQueueInv

\* Task::Cancel() of the timer.
LEMMA CancelFoundInv ==
    ASSUME WorkerQueueInv, CancelFound
    PROVE  WorkerQueueInv'
  <1>1. WorkerTypes /\ WorkerInv
    BY DEF WorkerQueueInv
  <1>2. Moved(Worker, "drop", "end")
    BY <1>1, ThreadFacts, GotoFacts DEF CancelFound, Pcs, WorkerPcs
  <1>3. PICK t : t = arg[Worker]
    OBVIOUS
  <1>4. t \in Ids /\ Kind(t) = "timer" /\ task[t] \in Task
    BY <1>1, <1>2, <1>3, ThreadFacts, IdFacts DEF WorkerInv, WorkerTypes, Moved
  <1>5. PICK k : k = Released(Cancelled(task[t]), 1)
    OBVIOUS
  <1>6. /\ k \in Task /\ Static(k, task[t]) /\ k.refs = task[t].refs - 1
        /\ k.state = IF task[t].state = "Initial" THEN "Cancelled" ELSE task[t].state
    <2>1. PICK c : c = Cancelled(task[t])
      OBVIOUS
    <2>2. /\ c \in Task /\ Static(c, task[t]) /\ c.refs = task[t].refs
          /\ c.state = IF task[t].state = "Initial" THEN "Cancelled" ELSE task[t].state
      BY <1>4, <2>1, CancelledFacts
    <2>3. k \in Task /\ Static(k, c) /\ k.refs = c.refs - 1 /\ k.state = c.state
      BY <1>5, <2>1, <2>2, ReleasedFacts
    <2> QED
      BY <2>2, <2>3 DEF Static
  <1>7. task' = [task EXCEPT ![t] = k]
    BY <1>3, <1>5, Zenon DEF CancelFound
  <1>8. /\ arg' \in [All -> Nat] /\ arg'[Worker] = 0 /\ \A a \in Threads : arg'[a] = arg[a]
    <2>1. arg' = [arg EXCEPT ![Worker] = 0]
      BY DEF CancelFound
    <2> QED
      BY <1>1, <2>1, ThreadFacts DEF WorkerTypes
  <1>9. PICK from \in {"op", "drop", "check"}, to \in {"check", "end"} : from = "drop" /\ to = "end"
    OBVIOUS
  <1>10. k.refs = task[t].refs - One(from # "op") + One(to = "check")
    BY <1>4, <1>6, <1>9 DEF One, Task
  <1>11. UNCHANGED <<mutex, mode, disposed, tasks, schedule, ready, delayed, running, timer,
                     terminated, signalled, todo, returned>>
    BY DEF CancelFound
  <1>12. k.state = task[t].state \/ (task[t].state = "Initial" /\ k.state = "Cancelled")
    BY <1>6
  <1>13. k.state # "Initial"
    BY <1>6
  <1>14. Moved(Worker, from, to) /\ arg'[Worker] = IF to = "check" THEN t ELSE 0
    BY <1>2, <1>8, <1>9
  <1> QED
    BY <1>3, <1>4, <1>6, <1>7, <1>8, <1>9, <1>10, <1>11, <1>12, <1>13, <1>14, TouchStep

\* IsIdScheduled() retains the task of the timer.
LEMMA IsIdScheduledInv ==
    ASSUME WorkerQueueInv, IsIdScheduled
    PROVE  WorkerQueueInv'
  <1>1. WorkerTypes /\ KindInv
    BY DEF WorkerQueueInv
  <1>2. Moved(Worker, "op", "check")
    BY <1>1, ThreadFacts, GotoFacts DEF IsIdScheduled, Pcs, WorkerPcs
  <1>3. PICK t : t = timer
    OBVIOUS
  <1>4. t \in Ids /\ Kind(t) = "timer" /\ task[t] \in Task /\ t \in Nat
    BY <1>1, <1>3, IdFacts DEF IsIdScheduled, KindInv, WorkerTypes
  <1>5. PICK k : k = [task[t] EXCEPT !.refs = @ + 1]
    OBVIOUS
  <1>6. k \in Task /\ Static(k, task[t]) /\ k.refs = task[t].refs + 1 /\ k.state = task[t].state
    BY <1>4, <1>5 DEF Task, Static
  <1>7. task' = [task EXCEPT ![t] = k]
    BY <1>3, <1>5, Zenon DEF IsIdScheduled
  <1>8. /\ arg' \in [All -> Nat] /\ arg'[Worker] = t /\ \A a \in Threads : arg'[a] = arg[a]
    <2>1. arg' = [arg EXCEPT ![Worker] = t]
      BY <1>3 DEF IsIdScheduled
    <2> QED
      BY <1>1, <1>4, <2>1, ThreadFacts DEF WorkerTypes
  <1>9. PICK from \in {"op", "drop", "check"}, to \in {"check", "end"} : from = "op" /\ to = "check"
    OBVIOUS
  <1>10. k.refs = task[t].refs - One(from # "op") + One(to = "check")
    BY <1>4, <1>6, <1>9 DEF One, Task
  <1>11. UNCHANGED <<mutex, mode, disposed, tasks, schedule, ready, delayed, running, timer,
                     terminated, signalled, todo, returned>>
    BY DEF IsIdScheduled
  <1>12. Moved(Worker, from, to) /\ arg'[Worker] = IF to = "check" THEN t ELSE 0
    BY <1>2, <1>8, <1>9
  <1> QED
    BY <1>4, <1>6, <1>7, <1>8, <1>9, <1>10, <1>11, <1>12, TouchStep

\* AwaitIfRunning() and the release of the task.
LEMMA AwaitIfRunningInv ==
    ASSUME WorkerQueueInv, AwaitIfRunning
    PROVE  WorkerQueueInv'
  <1>1. WorkerTypes /\ WorkerInv
    BY DEF WorkerQueueInv
  <1>2. Moved(Worker, "check", "end")
    BY <1>1, ThreadFacts, GotoFacts DEF AwaitIfRunning, Pcs, WorkerPcs
  <1>3. PICK t : t = arg[Worker]
    OBVIOUS
  <1>4. t \in Ids /\ Kind(t) = "timer" /\ task[t] \in Task
    BY <1>1, <1>2, <1>3, ThreadFacts, IdFacts DEF WorkerInv, WorkerTypes, Moved
  <1>5. PICK k : k = Released(task[t], 1)
    OBVIOUS
  <1>6. k \in Task /\ Static(k, task[t]) /\ k.refs = task[t].refs - 1 /\ k.state = task[t].state
    BY <1>4, <1>5, ReleasedFacts
  <1>7. task' = [task EXCEPT ![t] = k]
    BY <1>3, <1>5, Zenon DEF AwaitIfRunning
  <1>8. /\ arg' \in [All -> Nat] /\ arg'[Worker] = 0 /\ \A a \in Threads : arg'[a] = arg[a]
    <2>1. arg' = [arg EXCEPT ![Worker] = 0]
      BY DEF AwaitIfRunning
    <2> QED
      BY <1>1, <2>1, ThreadFacts DEF WorkerTypes
  <1>9. PICK from \in {"op", "drop", "check"}, to \in {"check", "end"} : from = "check" /\ to = "end"
    OBVIOUS
  <1>10. k.refs = task[t].refs - One(from # "op") + One(to = "check")
    BY <1>4, <1>6, <1>9 DEF One, Task
  <1>11. UNCHANGED <<mutex, mode, disposed, tasks, schedule, ready, delayed, running, timer,
                     terminated, signalled, todo, returned>>
    BY DEF AwaitIfRunning
  <1>12. Moved(Worker, from, to) /\ arg'[Worker] = IF to = "check" THEN t ELSE 0
    BY <1>2, <1>8, <1>9
  <1> QED
    BY <1>3, <1>4, <1>6, <1>7, <1>8, <1>9, <1>10, <1>11, <1>12, TouchStep

-----------------------------------------------------------------------------
(* libdispatch                                                             *)

\* The queue with one more task at its end.
LEMMA ReadyAppend ==
    ASSUME WorkerTypes, QueueInv, OrderInv, NEW t \in Ids, ~InSeq(t, ready),
           ready' = Append(ready, t), Ids' = Ids, \A u \in Ids : Kind(u)' = Kind(u),
           Kind(t) = "work" => \A u \in Ids : Kind(u) \notin EndKinds
    PROVE  /\ ready' \in Seq(Nat) /\ \A u : InSeq(u, ready') <=> (InSeq(u, ready) \/ u = t)
           /\ \A i, j \in DOMAIN ready' : i # j => ready'[i] # ready'[j]
           /\ \A i, j \in DOMAIN ready' :
                 Kind(ready[i])' = "work" /\ Kind(ready[j])' \in EndKinds => i < j
  <1>1. ready \in Seq(Nat) /\ t \in Nat
    BY IdFacts DEF WorkerTypes
  <1>2. ready' \in Seq(Nat) /\ \A u : InSeq(u, ready') <=> (InSeq(u, ready) \/ u = t)
    BY <1>1, AppendFacts
  <1>3. PICK n \in Nat : n = Len(ready)
    BY <1>1
  <1>4. /\ DOMAIN ready = 1..n /\ DOMAIN ready' = 1..(n + 1) /\ ready'[n + 1] = t
        /\ \A i \in 1..n : ready'[i] = ready[i]
    BY <1>1, <1>3
  <1>5. \A i \in 1..(n + 1) : i \in 1..n \/ i = n + 1
    OBVIOUS
  <1>6. \A i \in 1..n : ready[i] # t /\ ready[i] \in Ids
    BY <1>4 DEF InSeq, WorkerTypes
  <1>7. \A i, j \in DOMAIN ready' : i # j => ready'[i] # ready'[j]
    BY <1>4, <1>5, <1>6 DEF QueueInv
  <1>8. ASSUME NEW i \in DOMAIN ready', NEW j \in DOMAIN ready',
               Kind(ready[i])' = "work", Kind(ready[j])' \in EndKinds
        PROVE  i < j
    <2>1. ready'[i] \in Ids /\ ready'[j] \in Ids
      BY <1>4, <1>5, <1>6
    <2>2. Kind(ready'[i]) = "work" /\ Kind(ready'[j]) \in EndKinds
      <3>1. Kind(ready[i])' = task'[ready'[i]].kind /\ Kind(ready[j])' = task'[ready'[j]].kind
        BY DEF Kind
      <3>2. /\ task'[ready'[i]].kind = Kind(ready'[i])
            /\ task'[ready'[j]].kind = Kind(ready'[j])
        BY <2>1 DEF Kind
      <3> QED
        BY <1>8, <3>1, <3>2
    <2>3. i \in 1..n
      BY <1>4, <1>5, <2>1, <2>2
    <2>4. CASE j \in 1..n
      BY <1>4, <2>2, <2>3, <2>4 DEF OrderInv
    <2>5. CASE j = n + 1
      BY <2>3, <2>5
    <2> QED
      BY <1>4, <1>5, <2>4, <2>5
  <1> QED
    BY <1>2, <1>7, <1>8

\* The queue without its first task.
LEMMA ReadyTail ==
    ASSUME WorkerTypes, QueueInv, OrderInv, ready # <<>>, ready' = Tail(ready), task' = task
    PROVE  /\ ready' \in Seq(Nat) /\ InSeq(Head(ready), ready)
           /\ \A u : InSeq(u, ready') <=> (InSeq(u, ready) /\ u # Head(ready))
           /\ \A i, j \in DOMAIN ready' : i # j => ready'[i] # ready'[j]
           /\ \A i, j \in DOMAIN ready' :
                 Kind(ready[i])' = "work" /\ Kind(ready[j])' \in EndKinds => i < j
           /\ Kind(Head(ready)) \in EndKinds => \A u : InSeq(u, ready') => Kind(u) # "work"
  <1>1. ready \in Seq(Nat)
    BY DEF WorkerTypes
  <1>2. PICK n \in Nat : n = Len(ready)
    BY <1>1
  <1>3. n > 0 /\ ready' \in Seq(Nat) /\ Head(ready) = ready[1]
    BY <1>1, <1>2, EmptySeq
  <1>4. /\ DOMAIN ready = 1..n /\ DOMAIN ready' = 1..(n - 1)
        /\ \A i \in 1..(n - 1) : ready'[i] = ready[i + 1]
    BY <1>1, <1>2, <1>3, HeadTailProperties
  <1>5. /\ \A i \in 1..(n - 1) : i + 1 \in 1..n /\ i + 1 # 1
        /\ \A i \in 1..n : i = 1 \/ (i - 1 \in 1..(n - 1) /\ (i - 1) + 1 = i)
        /\ 1 \in 1..n
    BY <1>3
  <1>6. InSeq(Head(ready), ready)
    BY <1>3, <1>4, <1>5 DEF InSeq
  <1>7. \A u : InSeq(u, ready') => InSeq(u, ready) /\ u # Head(ready)
    BY <1>3, <1>4, <1>5 DEF InSeq, QueueInv
  <1>8. \A u : InSeq(u, ready) /\ u # Head(ready) => InSeq(u, ready')
    <2> SUFFICES ASSUME NEW i \in 1..n, ready[i] # Head(ready) PROVE InSeq(ready[i], ready')
      BY <1>4 DEF InSeq
    <2>1. i - 1 \in 1..(n - 1) /\ (i - 1) + 1 = i
      BY <1>3, <1>5
    <2>2. ready'[i - 1] = ready[i]
      BY <1>4, <2>1
    <2> QED
      BY <1>4, <2>1, <2>2 DEF InSeq
  <1>9. \A i, j \in DOMAIN ready' : i # j => ready'[i] # ready'[j]
    <2> SUFFICES ASSUME NEW i \in 1..(n - 1), NEW j \in 1..(n - 1), i # j
                 PROVE  ready'[i] # ready'[j]
      BY <1>4
    <2>1. i + 1 # j + 1
      OBVIOUS
    <2> QED
      BY <1>4, <1>5, <2>1 DEF QueueInv
  <1>10. \A i, j \in DOMAIN ready' :
            Kind(ready[i])' = "work" /\ Kind(ready[j])' \in EndKinds => i < j
    <2> SUFFICES ASSUME NEW i \in 1..(n - 1), NEW j \in 1..(n - 1),
                        Kind(ready[i])' = "work", Kind(ready[j])' \in EndKinds
                 PROVE  i < j
      BY <1>4
    <2>1. Kind(ready[i + 1]) = "work" /\ Kind(ready[j + 1]) \in EndKinds
      BY <1>4 DEF Kind
    <2>2. i + 1 < j + 1
      BY <1>4, <1>5, <2>1 DEF OrderInv
    <2> QED
      BY <2>2
  <1>11. ASSUME Kind(Head(ready)) \in EndKinds, NEW u, InSeq(u, ready')
         PROVE  Kind(u) # "work"
    <2>1. PICK i \in 1..(n - 1) : u = ready[i + 1]
      BY <1>4, <1>11 DEF InSeq
    <2>2. ~(i + 1 < 1)
      OBVIOUS
    <2> QED
      BY <1>3, <1>4, <1>5, <1>11, <2>1, <2>2 DEF OrderInv
  <1> QED
    BY <1>3, <1>6, <1>7, <1>8, <1>9, <1>10, <1>11

\* Retain() and the call of libdispatch.
LEMMA RetainStep ==
    ASSUME WorkerQueueInv, NEW th \in All, Retain(th)
    PROVE  WorkerQueueInv'
  <1>1. /\ WorkerTypes /\ KindInv /\ MutexInv /\ ModeInv /\ WorkerInv /\ RetainInv
        /\ QueueInv /\ OrderInv /\ StateInv /\ WorkInv /\ CountInv
    BY DEF WorkerQueueInv
  <1>2. PICK t : t = arg[th]
    OBVIOUS
  <1>3. /\ pc[th] = "retain" /\ mutex' = [mutex EXCEPT !.queue = None]
        /\ arg' = [arg EXCEPT ![th] = 0]
        /\ UNCHANGED <<mode, disposed, tasks, schedule, running, timer, terminated, signalled,
                       todo, returned>>
    BY DEF Retain, Goto
  <1>4. /\ t \in tasks /\ ~Waiting(t) /\ (task[t].after = "end" <=> th = Worker)
        /\ (Kind(t) = "work" => mode = "Running")
    BY <1>1, <1>2, <1>3 DEF RetainInv
  <1>5. t \in Ids /\ task[t] \in Task /\ 0 \notin Ids
    BY <1>1, <1>4, IdFacts DEF WorkerTypes
  <1>6. PICK to \in {"idle", "wait", "end"} : to = task[t].after
    BY <1>5 DEF Task
  <1>7. Moved(th, "retain", to)
    <2>1. Goto(th, "retain", to)
      BY <1>2, <1>6 DEF Retain
    <2>2. to \in Pcs
      BY DEF Pcs, ThreadPcs, WorkerPcs
    <2> QED
      BY <1>1, <2>1, <2>2, GotoFacts
  <1>8. /\ pc[th] = "retain" /\ pc'[th] = to /\ (to = "end" <=> th = Worker)
        /\ \A o \in All : o # th => pc'[o] = pc[o]
        /\ \A o \in All : pc'[o] # "retain"
    <2>1. \A o \in All : pc[o] = "retain" => o = th
      BY <1>1, <1>3 DEF MutexInv
    <2> QED
      BY <1>4, <1>6, <1>7, <2>1 DEF Moved
  <1>9. /\ mutex' \in [queue : All \cup {None}, api : Threads \cup {None}]
        /\ mutex'.api = mutex.api
    BY <1>1, <1>3 DEF WorkerTypes
  <1>10. /\ arg' \in [All -> Nat] /\ arg'[th] = 0 /\ \A o \in All : o # th => arg'[o] = arg[o]
    BY <1>1, <1>3 DEF WorkerTypes
  <1>11. PICK k : k = [task[t] EXCEPT !.refs = @ + 1]
    OBVIOUS
  <1>12. k \in Task /\ Static(k, task[t]) /\ k.refs = task[t].refs + 1 /\ k.state = task[t].state
    BY <1>5, <1>11 DEF Task, Static
  <1>13. task' = [task EXCEPT ![t] = k]
    BY <1>2, <1>11, Zenon DEF Retain
  <1>14. /\ task' \in Seq(Task) /\ Ids' = Ids
         /\ \A u \in Ids : Kind(u)' = Kind(u) /\ Static(task'[u], task[u])
         /\ task'[t] = k /\ \A u \in Ids : u # t => task'[u] = task[u]
    BY <1>1, <1>5, <1>12, <1>13, UpdateFacts
  <1>15. \A u \in Ids : task'[u].state = task[u].state
    BY <1>12, <1>14
  <1>16. ~InSeq(t, ready) /\ t \notin delayed /\ t # running
    BY <1>4 DEF Waiting
  <1>17. /\ Kind(t) = "work" => ~Ended /\ \A u \in Ids : Kind(u) \notin EndKinds
         /\ to = "wait" <=> Kind(t) = "dispose"
         /\ task[t].immediate <=> Kind(t) # "timer"
         /\ mode = "Running" => Kind(t) # "dispose"
    BY <1>1, <1>4, <1>5, <1>6 DEF ModeInv, KindInv, EndKinds
  <1>18. /\ ready' \in Seq(Nat)
         /\ delayed' = IF Kind(t) = "timer" THEN delayed \cup {t} ELSE delayed
         /\ \A u : InSeq(u, ready') <=> (InSeq(u, ready) \/ (u = t /\ Kind(t) # "timer"))
         /\ \A i, j \in DOMAIN ready' : i # j => ready'[i] # ready'[j]
         /\ \A i, j \in DOMAIN ready' :
                 Kind(ready[i])' = "work" /\ Kind(ready[j])' \in EndKinds => i < j
    <2>1. CASE Kind(t) # "timer"
      <3>1. ready' = Append(ready, t) /\ delayed' = delayed
        BY <1>2, <1>17, <2>1 DEF Retain
      <3> QED
        BY <1>1, <1>5, <1>14, <1>16, <1>17, <2>1, <3>1, ReadyAppend
    <2>2. CASE Kind(t) = "timer"
      <3>1. ready' = ready /\ delayed' = delayed \cup {t}
        BY <1>2, <1>17, <2>2 DEF Retain
      <3>2. \A i \in DOMAIN ready : ready[i] \in Ids
        BY <1>1 DEF WorkerTypes, InSeq
      <3>3. \A i \in DOMAIN ready : Kind(ready[i])' = Kind(ready[i])
        BY <1>14, <3>1, <3>2 DEF Kind
      <3> QED
        BY <1>1, <2>2, <3>1, <3>3 DEF WorkerTypes, QueueInv, OrderInv
    <2> QED
      BY <2>1, <2>2
  <1>19. \A u : Waiting(u)' <=> (Waiting(u) \/ u = t)
    BY <1>3, <1>18 DEF Waiting
  <1>20. /\ (\A u : Held(u)' <=> Held(u)) /\ (Ended' <=> Ended)
         /\ \A u : Taken(u)' <=> Taken(u)
    <2>1. \A u : Held(u)' <=> Held(u)
      BY <1>3, Zenon DEF Held
    <2>2. Ended' <=> Ended
      BY <1>3 DEF Ended
    <2>3. \A u : Taken(u)' <=> Taken(u)
      <3>1. CASE th = Worker
        BY <1>8, <3>1 DEF Taken
      <3>2. CASE th # Worker
        BY <1>8, <1>10, <3>2, ThreadFacts DEF Taken
      <3> QED
        BY <3>1, <3>2
    <2> QED
      BY <2>1, <2>2, <2>3
  <1>21. WorkerTypes'
    <2>1. \A a \in Threads : pc'[a] \in ThreadPcs
      BY <1>1, <1>8, ThreadFacts DEF WorkerTypes, ThreadPcs
    <2>2. pc'[Worker] \in WorkerPcs
      BY <1>1, <1>8, ThreadFacts DEF WorkerTypes, WorkerPcs
    <2>3. \A o \in All : arg'[o] \in Ids \cup {0}
      BY <1>1, <1>10 DEF WorkerTypes
    <2>4. delayed' \subseteq Ids /\ \A x : InSeq(x, ready') => x \in Ids
      BY <1>1, <1>5, <1>18 DEF WorkerTypes
    <2>5. pc' \in [All -> Pcs]
      BY <1>7 DEF Moved
    <2> QED
      BY <1>1, <1>3, <1>9, <1>10, <1>14, <1>18, <2>1, <2>2, <2>3, <2>4, <2>5 DEF WorkerTypes
  <1>22. KindInv'
    BY <1>1, <1>3, <1>14, KindStep
  <1>23. MutexInv'
    <2>1. \A o \in All : pc'[o] # "retain"
      BY <1>8
    <2>2. ASSUME NEW a \in Threads
          PROVE  /\ pc'[a] \in Disposing => mutex'.api = a
                 /\ todo'[a] # {} => pc'[a] \in {"cancel", "await"}
                 /\ pc'[a] = "await" => arg'[a] \in todo'[a]
      <3>1. CASE a = th
        <4>1. todo[a] = {}
          BY <1>1, <1>8, <3>1 DEF MutexInv
        <4>2. to = "wait" => mutex.api = a
          BY <1>1, <1>2, <1>3, <1>17, <3>1 DEF MutexInv
        <4> QED
          BY <1>3, <1>8, <1>9, <3>1, <4>1, <4>2 DEF Disposing
      <3>2. CASE a # th
        BY <1>1, <1>3, <1>8, <1>9, <1>10, <3>2, ThreadFacts DEF MutexInv
      <3> QED
        BY <3>1, <3>2
    <2> QED
      BY <2>1, <2>2, ThreadFacts DEF MutexInv
  <1>24. ModeInv'
    <2>1. ASSUME NEW a \in Threads
          PROVE  /\ mode = "Running" => pc'[a] \notin (Disposing \ {"restrict"}) \cup {"terminate"}
                 /\ pc'[a] \in {"stop", "swap", "cancel", "await", "join", "leave"} => signalled # {}
                 /\ pc'[a] \in {"swap", "cancel", "await", "join", "leave"} => mode = "Disposed"
                 /\ pc'[a] \in {"cancel", "await", "join", "leave"} => disposed
      <3>1. CASE a = th
        BY <1>8, <1>17, <3>1 DEF Disposing
      <3>2. CASE a # th
        BY <1>1, <1>8, <3>2, ThreadFacts DEF ModeInv
      <3> QED
        BY <3>1, <3>2
    <2>2. mode = "Running" => ~Ended' /\ \A u \in Ids' : Kind(u)' \notin EndKinds
      BY <1>1, <1>14, <1>20 DEF ModeInv
    <2>3. mode = "Disposed" => signalled # {} /\ \A o \in All : pc'[o] # "retain"
      BY <1>1, <1>8 DEF ModeInv
    <2> QED
      BY <1>1, <1>3, <2>1, <2>2, <2>3 DEF ModeInv
  <1>25. WorkerInv'
    <2>1. CASE th = Worker
      BY <1>1, <1>3, <1>8, <2>1 DEF WorkerInv
    <2>2. CASE th # Worker
      <3>1. pc'[Worker] = pc[Worker] /\ arg'[Worker] = arg[Worker]
        BY <1>8, <1>10, <2>2, ThreadFacts
      <3>2. pc[Worker] # "idle" => running \in Ids /\ Kind(running)' = Kind(running)
        BY <1>1, <1>3, <1>14 DEF WorkerInv, WorkerTypes, Kind
      <3>3. pc[Worker] \in {"drop", "check"} => Kind(arg[Worker])' = Kind(arg[Worker])
        BY <1>1, <1>14, <3>1, ThreadFacts DEF WorkerInv, WorkerTypes, Kind
      <3> QED
        BY <1>1, <1>3, <3>1, <3>2, <3>3 DEF WorkerInv
    <2> QED
      BY <2>1, <2>2
  <1>26. RetainInv'
    BY <1>8 DEF RetainInv
  <1>27. QueueInv'
    <2>1. running \notin delayed' /\ ~InSeq(running, ready')
      BY <1>1, <1>16, <1>18 DEF QueueInv
    <2>2. \A u \in delayed' : ~InSeq(u, ready') /\ Kind(u)' = "timer"
      BY <1>1, <1>5, <1>14, <1>16, <1>18 DEF QueueInv, WorkerTypes
    <2> QED
      BY <1>3, <1>18, <2>1, <2>2 DEF QueueInv
  <1>28. OrderInv'
    <2>1. running # 0 => running \in Ids /\ Kind(running)' = Kind(running)
      BY <1>1, <1>3, <1>14 DEF WorkerTypes, Kind
    <2>2. ASSUME Ended \/ (running # 0 /\ Kind(running) \in EndKinds), NEW u, InSeq(u, ready')
          PROVE  Kind(u)' # "work"
      <3>1. u \in Ids
        BY <1>1, <1>5, <1>18, <2>2 DEF WorkerTypes
      <3>2. u = t => Kind(t) # "work"
        BY <1>17, <2>1, <2>2
      <3>3. Kind(u) # "work"
        BY <1>1, <1>18, <2>2, <3>2 DEF OrderInv
      <3> QED
        BY <1>14, <3>1, <3>3
    <2>3. Ended /\ running # 0 => Kind(running) # "work"
      BY <1>1 DEF OrderInv
    <2> QED
      BY <1>3, <1>18, <1>20, <2>1, <2>2, <2>3 DEF OrderInv
  <1>29. InOp' <=> InOp
    BY <1>8, ThreadFacts DEF InOp
  <1>30. StateInv'
    <2>1. /\ pc[Worker] = "drop" => pc'[Worker] = "drop" /\ arg'[Worker] = arg[Worker]
          /\ pc[Worker] \in {"drop", "end"} => pc'[Worker] \in {"drop", "end"}
      BY <1>8, <1>10, ThreadFacts
    <2>2. \A u \in Ids' : task'[u].state = "Running" <=> u = running' /\ InOp'
      BY <1>1, <1>3, <1>14, <1>15, <1>29 DEF StateInv
    <2>3. ASSUME NEW u \in Ids', task'[u].state \in {"Initial", "Running"}
          PROVE  \/ u \in tasks' \/ Held(u)'
                 \/ pc'[Worker] = "drop" /\ arg'[Worker] = u
                 \/ u = running' /\ InOp'
      BY <1>1, <1>3, <1>14, <1>15, <1>20, <1>29, <2>1, <2>3 DEF StateInv
    <2>4. InOp' => \/ running' \in tasks' \/ Held(running)'
                   \/ signalled' = {} /\ pc'[Worker] \in {"drop", "end"}
      <3>1. Held(running) <=> Held(running)'
        BY <1>3, Zenon DEF Held
      <3> QED
        BY <1>1, <1>3, <1>29, <2>1, <3>1 DEF StateInv
    <2> QED
      BY <2>2, <2>3, <2>4 DEF StateInv
  <1>31. WorkInv'
    <2>1. ASSUME NEW u \in Ids, Kind(u) = "work"
          PROVE  /\ task'[u].state # "Cancelled"
                 /\ task'[u].state = "Initial" => InSeq(u, ready') \/ u = running
      <3>1. \A o \in All : pc[o] = "retain" /\ arg[o] = u => u = t
        BY <1>1, <1>2, <1>3 DEF MutexInv
      <3> QED
        BY <1>1, <1>15, <1>18, <2>1, <3>1 DEF WorkInv
    <2> QED
      BY <1>3, <1>14, <2>1 DEF WorkInv
  <1>32. CountInv'
    <2>1. ASSUME NEW u \in Ids
          PROVE  task'[u].refs = One(u \in tasks) + One(Waiting(u)') + One(Held(u)) + One(Taken(u))
      <3>1. /\ task[u].refs = One(u \in tasks) + One(Waiting(u)) + One(Held(u)) + One(Taken(u))
            /\ One(u \in tasks) \in Int /\ One(Taken(u)) \in Int /\ One(Held(u)) \in Int
        BY <1>1 DEF CountInv, One
      <3>2. CASE u = t
        <4>1. One(Waiting(u)) = 0 /\ One(Waiting(u)') = 1
          BY <1>4, <1>19, <3>2 DEF One
        <4> QED
          BY <1>12, <1>14, <3>1, <3>2, <4>1
      <3>3. CASE u # t
        <4>1. One(Waiting(u)) = One(Waiting(u)')
          BY <1>19, <3>3 DEF One
        <4> QED
          BY <1>14, <3>1, <3>3, <4>1
      <3> QED
        BY <3>2, <3>3
    <2> QED
      BY <1>3, <1>14, <1>20, <2>1 DEF CountInv, One
  <1> QED
    BY <1>21, <1>22, <1>23, <1>24, <1>25, <1>26, <1>27, <1>28, <1>30, <1>31, <1>32
       DEF WorkerQueueInv

\* dispatch_after_f(): a timer is due.
LEMMA ElapseInv ==
    ASSUME WorkerQueueInv, NEW t, Elapse(t)
    PROVE  WorkerQueueInv'
  <1>1. /\ WorkerTypes /\ KindInv /\ MutexInv /\ ModeInv /\ WorkerInv /\ RetainInv
        /\ QueueInv /\ OrderInv /\ StateInv /\ WorkInv /\ CountInv
    BY DEF WorkerQueueInv
  <1>2. /\ t \in delayed /\ delayed' = delayed \ {t} /\ ready' = Append(ready, t)
        /\ UNCHANGED <<mutex, mode, disposed, tasks, schedule, task, running,
                       timer, terminated, signalled, pc, arg, todo, returned>>
    BY DEF Elapse
  <1>3. t \in Ids /\ Kind(t) = "timer" /\ ~InSeq(t, ready)
    BY <1>1, <1>2 DEF WorkerTypes, QueueInv
  <1>4. Ids' = Ids /\ \A u : Kind(u)' = Kind(u)
    BY <1>2 DEF Ids, Kind
  <1>5. /\ ready' \in Seq(Nat) /\ \A u : InSeq(u, ready') <=> (InSeq(u, ready) \/ u = t)
        /\ \A i, j \in DOMAIN ready' : i # j => ready'[i] # ready'[j]
        /\ \A i, j \in DOMAIN ready' :
              Kind(ready[i])' = "work" /\ Kind(ready[j])' \in EndKinds => i < j
    BY <1>1, <1>2, <1>3, <1>4, ReadyAppend
  <1>6. \A u : Waiting(u)' <=> Waiting(u)
    BY <1>2, <1>5 DEF Waiting
  <1>7. /\ (\A u : Held(u)' <=> Held(u)) /\ (\A u : Taken(u)' <=> Taken(u))
        /\ (Ended' <=> Ended) /\ (InOp' <=> InOp)
    <2>1. \A u : Held(u)' <=> Held(u)
      BY <1>2, Zenon DEF Held
    <2>2. \A u : Taken(u)' <=> Taken(u)
      BY <1>2, Zenon DEF Taken
    <2> QED
      BY <1>2, <2>1, <2>2 DEF Ended, InOp
  <1>8. WorkerTypes'
    BY <1>1, <1>2, <1>3, <1>4, <1>5 DEF WorkerTypes
  <1>9. KindInv' /\ MutexInv' /\ ModeInv' /\ WorkerInv'
    <2>1. KindInv'
      BY <1>1, <1>2, <1>4 DEF KindInv
    <2>2. MutexInv'
      BY <1>1, <1>2 DEF MutexInv, Kind
    <2>3. ModeInv'
      BY <1>1, <1>2, <1>4, <1>7 DEF ModeInv
    <2>4. WorkerInv'
      BY <1>1, <1>2 DEF WorkerInv, Kind
    <2> QED
      BY <2>1, <2>2, <2>3, <2>4
  <1>10. RetainInv'
    <2>1. \A th : (Waiting(arg[th])' <=> Waiting(arg[th])) /\ Kind(arg[th])' = Kind(arg[th])
      BY <1>2, <1>5 DEF Waiting, Kind
    <2> QED
      BY <1>1, <1>2, <2>1 DEF RetainInv
  <1>11. QueueInv'
    BY <1>1, <1>2, <1>4, <1>5 DEF QueueInv
  <1>12. OrderInv'
    BY <1>1, <1>2, <1>3, <1>4, <1>5, <1>7 DEF OrderInv
  <1>13. StateInv'
    <2>1. Held(running)' <=> Held(running)
      BY <1>2, Zenon DEF Held
    <2> QED
      BY <1>1, <1>2, <1>4, <1>7, <2>1 DEF StateInv
  <1>14. WorkInv'
    BY <1>1, <1>2, <1>4, <1>5 DEF WorkInv
  <1>15. CountInv'
    BY <1>1, <1>2, <1>4, <1>6, <1>7 DEF CountInv, One
  <1> QED
    BY <1>8, <1>9, <1>10, <1>11, <1>12, <1>13, <1>14, <1>15 DEF WorkerQueueInv

\* InvokeAsync(): libdispatch takes the first task.
LEMMA InvokeInv ==
    ASSUME WorkerQueueInv, Invoke
    PROVE  WorkerQueueInv'
  <1>1. /\ WorkerTypes /\ KindInv /\ MutexInv /\ ModeInv /\ WorkerInv /\ RetainInv
        /\ QueueInv /\ OrderInv /\ StateInv /\ WorkInv /\ CountInv
    BY DEF WorkerQueueInv
  <1>2. /\ ready # <<>> /\ running' = Head(ready) /\ ready' = Tail(ready)
        /\ UNCHANGED <<mutex, mode, disposed, tasks, schedule, task, delayed,
                       timer, terminated, signalled, arg, todo, returned>>
    BY DEF Invoke
  <1>3. Moved(Worker, "idle", "invoke")
    BY <1>1, ThreadFacts, GotoFacts DEF Invoke, Pcs, WorkerPcs
  <1>4. /\ pc[Worker] = "idle" /\ pc'[Worker] = "invoke" /\ running = 0
        /\ \A a \in Threads : pc'[a] = pc[a]
        /\ \A th \in All : pc'[th] = "retain" <=> pc[th] = "retain"
    BY <1>1, <1>3, ThreadFacts DEF Moved, WorkerInv
  <1>5. PICK t : t = Head(ready)
    OBVIOUS
  <1>6. /\ ready' \in Seq(Nat) /\ InSeq(t, ready)
        /\ \A u : InSeq(u, ready') <=> (InSeq(u, ready) /\ u # t)
        /\ \A i, j \in DOMAIN ready' : i # j => ready'[i] # ready'[j]
        /\ \A i, j \in DOMAIN ready' :
              Kind(ready[i])' = "work" /\ Kind(ready[j])' \in EndKinds => i < j
        /\ Kind(t) \in EndKinds => \A u : InSeq(u, ready') => Kind(u) # "work"
    BY <1>1, <1>2, <1>5, ReadyTail
  <1>7. t \in Ids /\ t # 0 /\ t \notin delayed /\ running' = t /\ 0 \notin Ids
    BY <1>1, <1>2, <1>5, <1>6, IdFacts DEF WorkerTypes, QueueInv
  <1>8. Ids' = Ids /\ \A u : Kind(u)' = Kind(u)
    BY <1>2 DEF Ids, Kind
  <1>9. \A u \in Ids : Waiting(u)' <=> Waiting(u)
    BY <1>2, <1>4, <1>6, <1>7 DEF Waiting
  <1>10. /\ (\A u : Held(u)' <=> Held(u)) /\ (\A u : Taken(u)' <=> Taken(u))
        /\ (Ended' <=> Ended) /\ ~InOp' /\ ~InOp
    <2>1. \A u : Held(u)' <=> Held(u)
      BY <1>2, Zenon DEF Held
    <2>2. \A u : Taken(u)' <=> Taken(u)
      BY <1>4 DEF Taken
    <2> QED
      BY <1>2, <1>4, <2>1, <2>2 DEF Ended, InOp
  <1>11. WorkerTypes'
    <2>1. pc' \in [All -> Pcs] /\ pc'[Worker] \in WorkerPcs
      BY <1>3, <1>4 DEF Moved, WorkerPcs
    <2> QED
      BY <1>1, <1>2, <1>4, <1>6, <1>7, <1>8, <2>1 DEF WorkerTypes
  <1>12. KindInv' /\ MutexInv' /\ ModeInv' /\ WorkerInv'
    <2>1. KindInv'
      BY <1>1, <1>2, <1>8 DEF KindInv
    <2>2. MutexInv'
      BY <1>1, <1>2, <1>4 DEF MutexInv, Kind
    <2>3. ModeInv'
      BY <1>1, <1>2, <1>4, <1>8, <1>10 DEF ModeInv
    <2>4. WorkerInv'
      BY <1>1, <1>2, <1>4, <1>7 DEF WorkerInv
    <2> QED
      BY <2>1, <2>2, <2>3, <2>4
  <1>13. RetainInv'
    <2> SUFFICES ASSUME NEW th \in All, pc[th] = "retain"
                 PROVE  ~Waiting(arg[th])'
      BY <1>1, <1>2, <1>4 DEF RetainInv, Kind
    <2>1. PICK u : u = arg[th]
      OBVIOUS
    <2>2. u \in Ids /\ ~Waiting(u)
      BY <1>1, <2>1 DEF RetainInv, WorkerTypes
    <2>3. ~Waiting(u)'
      BY <1>9, <2>2
    <2> QED
      BY <1>2, <2>1, <2>3 DEF Waiting
  <1>14. QueueInv'
    BY <1>1, <1>2, <1>6, <1>7, <1>8 DEF QueueInv
  <1>15. OrderInv'
    <2>1. Ended \/ Kind(t) \in EndKinds => \A u : InSeq(u, ready') => Kind(u) # "work"
      BY <1>1, <1>6 DEF OrderInv
    <2>2. Ended => Kind(t) # "work"
      BY <1>1, <1>6 DEF OrderInv
    <2>3. Kind(running)' = Kind(t)
      BY <1>2, <1>7 DEF Kind
    <2> QED
      BY <1>6, <1>8, <1>10, <2>1, <2>2, <2>3 DEF OrderInv
  <1>16. StateInv'
    BY <1>1, <1>2, <1>4, <1>8, <1>10 DEF StateInv
  <1>17. WorkInv'
    BY <1>1, <1>2, <1>4, <1>6, <1>7, <1>8 DEF WorkInv
  <1>18. CountInv'
    BY <1>1, <1>2, <1>8, <1>9, <1>10 DEF CountInv, One
  <1> QED
    BY <1>11, <1>12, <1>13, <1>14, <1>15, <1>16, <1>17, <1>18 DEF WorkerQueueInv

\* libdispatch is done with the task it invoked.
LEMMA FinishStep ==
    ASSUME WorkerQueueInv, NEW from \in {"invoke", "end"}, Moved(Worker, from, "idle"),
           NEW k \in Task, Static(k, task[running]), k.state \in {"Cancelled", "Done"},
           task[running].state = "Cancelled" <=> k.state = "Cancelled",
           task' = [task EXCEPT ![running] = k], running' = 0,
           NEW found \in BOOLEAN, found => running \in tasks,
           k.refs = task[running].refs - 1 - One(found),
           tasks' = IF found THEN tasks \ {running} ELSE tasks,
           schedule' = IF found THEN schedule \ {running} ELSE schedule,
           UNCHANGED <<mutex, mode, disposed, ready, delayed, timer,
                       terminated, signalled, arg, todo, returned>>
    PROVE  WorkerQueueInv'
  <1>1. /\ WorkerTypes /\ KindInv /\ MutexInv /\ ModeInv /\ WorkerInv /\ RetainInv
        /\ QueueInv /\ OrderInv /\ StateInv /\ WorkInv /\ CountInv
    BY DEF WorkerQueueInv
  <1>2. /\ pc[Worker] = from /\ pc'[Worker] = "idle" /\ pc' \in [All -> Pcs]
        /\ \A a \in Threads : pc'[a] = pc[a]
        /\ \A th \in All : pc'[th] = "retain" <=> pc[th] = "retain"
    BY ThreadFacts DEF Moved
  <1>3. PICK t : t = running
    OBVIOUS
  <1>4. t \in Ids /\ 0 \notin Ids /\ t \notin delayed /\ ~InSeq(t, ready) /\ task[t] \in Task
    BY <1>1, <1>2, <1>3, IdFacts DEF WorkerInv, WorkerTypes, QueueInv
  <1>5. /\ task' \in Seq(Task) /\ Ids' = Ids
        /\ \A u \in Ids : Kind(u)' = Kind(u) /\ Static(task'[u], task[u])
        /\ task'[t] = k /\ \A u \in Ids : u # t => task'[u] = task[u]
    BY <1>1, <1>3, <1>4, UpdateFacts
  <1>6. /\ \A u \in Ids : Waiting(u)' <=> (Waiting(u) /\ u # t)
        /\ Waiting(t)
    BY <1>3, <1>4 DEF Waiting
  <1>7. /\ (\A u : Held(u)' <=> Held(u)) /\ (\A u : ~Taken(u)' /\ ~Taken(u))
        /\ (Ended' <=> Ended) /\ ~InOp'
    <2>1. \A u : Held(u)' <=> Held(u)
      BY Zenon DEF Held
    <2>2. \A u : ~Taken(u)' /\ ~Taken(u)
      BY <1>2 DEF Taken
    <2> QED
      BY <1>2, <2>1, <2>2 DEF Ended, InOp
  <1>8. /\ tasks' \subseteq tasks /\ schedule' \subseteq schedule /\ schedule' \subseteq tasks'
        /\ \A u \in tasks : u # t => u \in tasks'
    BY <1>1, <1>3 DEF WorkerTypes
  <1>9. WorkerTypes'
    BY <1>1, <1>2, <1>5, <1>8 DEF WorkerTypes, WorkerPcs
  <1>10. KindInv'
    BY <1>1, <1>5, <1>8, KindStep
  <1>11. ASSUME NEW th \in All, pc[th] = "retain"
         PROVE  /\ arg[th] \in tasks' /\ ~Waiting(arg[th])'
                /\ task'[arg'[th]].after = task[arg[th]].after
                /\ Kind(arg[th])' = Kind(arg[th])
    <2>1. PICK u : u = arg[th]
      OBVIOUS
    <2>2. u \in Ids /\ u \in tasks /\ ~Waiting(u) /\ u # t
      BY <1>1, <1>3, <1>11, <2>1 DEF RetainInv, WorkerTypes, Waiting
    <2>3. u \in tasks' /\ ~Waiting(u)' /\ task'[u] = task[u]
      BY <1>5, <1>6, <1>8, <2>2
    <2>4. Waiting(arg[th])' <=> Waiting(u)'
      BY <2>1 DEF Waiting
    <2> QED
      BY <2>1, <2>3, <2>4 DEF Kind
  <1>12. MutexInv'
    <2>1. ASSUME NEW a \in Threads, pc'[a] = "retain", Kind(arg[a])' = "dispose"
          PROVE  mutex.api = a
      BY <1>1, <1>2, <1>11, <2>1, ThreadFacts DEF MutexInv
    <2> QED
      BY <1>1, <1>2, <2>1 DEF MutexInv
  <1>13. ModeInv'
    <2>1. disposed => mode = "Disposed" /\ tasks' = {}
      BY <1>1, <1>8 DEF ModeInv
    <2> QED
      BY <1>1, <1>2, <1>5, <1>7, <2>1 DEF ModeInv
  <1>14. WorkerInv'
    BY <1>1, <1>2, <1>8 DEF WorkerInv
  <1>15. RetainInv'
    BY <1>1, <1>2, <1>11 DEF RetainInv
  <1>16. QueueInv'
    BY <1>1, <1>4, <1>5 DEF QueueInv, WorkerTypes
  <1>17. OrderInv'
    <2>1. \A i \in DOMAIN ready : ready[i] \in Ids
      BY <1>1 DEF WorkerTypes, InSeq
    <2>2. \A u : InSeq(u, ready) => u \in Ids
      BY <1>1 DEF WorkerTypes
    <2> QED
      BY <1>1, <1>5, <1>7, <2>1, <2>2 DEF OrderInv
  <1>18. StateInv'
    <2>1. ASSUME NEW u \in Ids PROVE task'[u].state # "Running"
      <3>1. u # t => task[u].state # "Running"
        BY <1>1, <1>3 DEF StateInv
      <3> QED
        BY <1>5, <3>1
    <2>2. ASSUME NEW u \in Ids, task'[u].state = "Initial" PROVE u \in tasks' \/ Held(u)'
      <3>1. u # t /\ task[u].state = "Initial"
        BY <1>5, <2>2
      <3> QED
        BY <1>1, <1>2, <1>3, <1>7, <1>8, <3>1 DEF StateInv
    <2> QED
      BY <1>5, <1>7, <2>1, <2>2 DEF StateInv
  <1>19. WorkInv'
    <2>1. ASSUME NEW u \in Ids, Kind(u) = "work"
          PROVE  /\ task'[u].state # "Cancelled"
                 /\ task'[u].state = "Initial" =>
                       \/ \E th \in All : pc'[th] = "retain" /\ arg'[th] = u
                       \/ InSeq(u, ready)
                       \/ u = running'
      <3>1. CASE u = t
        BY <1>1, <1>3, <1>5, <2>1, <3>1 DEF WorkInv
      <3>2. CASE u # t
        BY <1>1, <1>2, <1>3, <1>5, <2>1, <3>2 DEF WorkInv
      <3> QED
        BY <3>1, <3>2
    <2> QED
      BY <1>5, <2>1 DEF WorkInv
  <1>20. CountInv'
    <2>1. ASSUME NEW u \in Ids
          PROVE  task'[u].refs = One(u \in tasks') + One(Waiting(u)') + One(Held(u)) + One(Taken(u)')
      <3>1. /\ task[u].refs = One(u \in tasks) + One(Waiting(u)) + One(Held(u)) + One(Taken(u))
            /\ One(u \in tasks) \in Int /\ One(Waiting(u)) \in Int /\ One(Held(u)) \in Int
            /\ One(Taken(u)) = 0 /\ One(Taken(u)') = 0
        BY <1>1, <1>7 DEF CountInv, One
      <3>2. CASE u = t
        <4>1. One(Waiting(u)) = 1 /\ One(Waiting(u)') = 0
          BY <1>4, <1>6, <3>2 DEF One
        <4>2. One(u \in tasks') = One(u \in tasks) - One(found) /\ One(found) \in Int
          BY <1>3, <3>2 DEF One
        <4>3. task'[u].refs = task[u].refs - 1 - One(found)
          BY <1>3, <1>5, <3>2
        <4> QED
          BY <3>1, <4>1, <4>2, <4>3
      <3>3. CASE u # t
        <4>1. One(Waiting(u)) = One(Waiting(u)') /\ One(u \in tasks') = One(u \in tasks)
          BY <1>6, <1>8, <3>3 DEF One
        <4> QED
          BY <1>5, <3>1, <3>3, <4>1
      <3> QED
        BY <3>2, <3>3
    <2>2. \A u \in Ids : One(Held(u)') = One(Held(u))
      BY <1>7 DEF One
    <2> QED
      BY <1>5, <2>1, <2>2 DEF CountInv
  <1> QED
    BY <1>9, <1>10, <1>12, <1>13, <1>14, <1>15, <1>16, <1>17, <1>18, <1>19, <1>20
       DEF WorkerQueueInv

\* The second critical section of ExecuteAndRelease().
LEMMA CompleteInv ==
    ASSUME WorkerQueueInv, Complete
    PROVE  WorkerQueueInv'
  <1>1. WorkerTypes /\ WorkerInv /\ StateInv
    BY DEF WorkerQueueInv
  <1>2. Moved(Worker, "end", "idle")
    BY <1>1, ThreadFacts, GotoFacts DEF Complete, Pcs, WorkerPcs
  <1>3. running \in Ids /\ task[running] \in Task /\ task[running].state = "Running"
    <2>1. pc[Worker] = "end"
      BY <1>2 DEF Moved
    <2>2. running \in Ids
      BY <1>1, <2>1 DEF WorkerInv, WorkerTypes
    <2>3. InOp
      BY <2>1 DEF InOp
    <2> QED
      BY <1>1, <2>2, <2>3, IdFacts DEF StateInv
  <1>4. PICK found \in BOOLEAN : found = (task[running].executor /\ running \in tasks)
    BY <1>3 DEF Task
  <1>5. PICK d : d = [task[running] EXCEPT !.state = "Done"]
    OBVIOUS
  <1>6. d \in Task /\ Static(d, task[running]) /\ d.refs = task[running].refs /\ d.state = "Done"
    BY <1>3, <1>5 DEF Task, Static, States
  <1>7. PICK n \in Int : n = IF found THEN 2 ELSE 1
    OBVIOUS
  <1>8. PICK k : k = Released(d, n)
    OBVIOUS
  <1>9. /\ k \in Task /\ Static(k, task[running]) /\ k.state = "Done"
        /\ k.refs = task[running].refs - 1 - One(found)
    <2>1. k \in Task /\ Static(k, d) /\ k.refs = d.refs - n /\ k.state = "Done"
      BY <1>6, <1>7, <1>8, ReleasedFacts
    <2>2. task[running].refs \in Int
      BY <1>3 DEF Task
    <2> QED
      BY <1>6, <1>7, <2>1, <2>2 DEF Static, One
  <1>10. /\ task' = [task EXCEPT ![running] = k]
         /\ tasks' = IF found THEN tasks \ {running} ELSE tasks
         /\ schedule' = IF found THEN schedule \ {running} ELSE schedule
         /\ running' = 0
         /\ UNCHANGED <<mutex, mode, disposed, ready, delayed, timer,
                        terminated, signalled, arg, todo, returned>>
    BY <1>4, <1>5, <1>7, <1>8, Zenon DEF Complete
  <1>11. PICK from \in {"invoke", "end"} : from = "end"
    OBVIOUS
  <1>12. (found => running \in tasks) /\ Moved(Worker, from, "idle")
    BY <1>2, <1>4, <1>11
  <1> QED
    BY <1>3, <1>9, <1>10, <1>12, FinishStep

\* The first critical section of ExecuteAndRelease(), for a task that was not
\* cancelled.
LEMMA BeginStep ==
    ASSUME WorkerQueueInv, NEW to, to = Entry(Kind(running)), Moved(Worker, "invoke", to),
           NEW k \in Task, Static(k, task[running]), k.refs = task[running].refs,
           k.state = "Running", task[running].state = "Initial",
           task' = [task EXCEPT ![running] = k],
           UNCHANGED <<mutex, mode, disposed, tasks, schedule, ready, delayed, running,
                       timer, terminated, signalled, arg, todo, returned>>
    PROVE  WorkerQueueInv'
  <1>1. /\ WorkerTypes /\ KindInv /\ MutexInv /\ ModeInv /\ WorkerInv /\ RetainInv
        /\ QueueInv /\ OrderInv /\ StateInv /\ WorkInv /\ CountInv
    BY DEF WorkerQueueInv
  <1>2. PICK t : t = running
    OBVIOUS
  <1>3. t \in Ids /\ t # 0 /\ task[t] \in Task
    BY <1>1, <1>2, IdFacts DEF WorkerInv, WorkerTypes, Moved
  <1>4. /\ to \in {"op", "terminate", "signal", "clear"}
        /\ to = "terminate" => Kind(t) = "terminate"
        /\ to = "signal" => Kind(t) = "dispose"
    <2>1. Kind(t) \in {"work", "timer", "terminate", "dispose", "clear"}
      BY <1>3 DEF Task, Kind, Kinds
    <2> QED
      BY <1>2, <2>1 DEF Entry
  <1>5. /\ pc[Worker] = "invoke" /\ pc'[Worker] = to /\ pc' \in [All -> Pcs]
        /\ \A a \in Threads : pc'[a] = pc[a]
        /\ \A th \in All : pc'[th] = "retain" <=> pc[th] = "retain"
    BY <1>4, ThreadFacts DEF Moved
  <1>6. /\ task' \in Seq(Task) /\ Ids' = Ids
        /\ \A u \in Ids : Kind(u)' = Kind(u) /\ Static(task'[u], task[u])
        /\ task'[t] = k /\ \A u \in Ids : u # t => task'[u] = task[u]
    BY <1>1, <1>2, <1>3, UpdateFacts
  <1>7. \A u \in Ids : task'[u].refs = task[u].refs
    BY <1>2, <1>6
  <1>8. /\ (\A u : Waiting(u)' <=> Waiting(u)) /\ (\A u : Held(u)' <=> Held(u))
        /\ (\A u : ~Taken(u)' /\ ~Taken(u)) /\ (Ended' <=> Ended) /\ InOp' /\ ~InOp
    <2>1. \A u : Waiting(u)' <=> Waiting(u)
      BY Zenon DEF Waiting
    <2>2. \A u : Held(u)' <=> Held(u)
      BY Zenon DEF Held
    <2>3. \A u : ~Taken(u)' /\ ~Taken(u)
      BY <1>4, <1>5 DEF Taken
    <2> QED
      BY <1>4, <1>5, <2>1, <2>2, <2>3 DEF Ended, InOp
  <1>9. WorkerTypes'
    BY <1>1, <1>4, <1>5, <1>6 DEF WorkerTypes, WorkerPcs
  <1>10. KindInv'
    BY <1>1, <1>6, KindStep
  <1>11. ASSUME NEW th \in All, pc[th] = "retain"
         PROVE  /\ ~Waiting(arg[th])'
                /\ task'[arg'[th]].after = task[arg[th]].after
                /\ Kind(arg[th])' = Kind(arg[th])
    <2>1. PICK u : u = arg[th]
      OBVIOUS
    <2>2. u \in Ids /\ ~Waiting(u)
      BY <1>1, <1>11, <2>1 DEF RetainInv, WorkerTypes
    <2>3. ~Waiting(u)' /\ task'[u].after = task[u].after /\ Kind(u)' = Kind(u)
      BY <1>6, <1>8, <2>2 DEF Static
    <2>4. (Waiting(arg[th])' <=> Waiting(u)') /\ Kind(arg[th])' = Kind(u)'
      BY <2>1 DEF Waiting, Kind
    <2> QED
      BY <2>1, <2>3, <2>4
  <1>12. MutexInv'
    <2>1. ASSUME NEW a \in Threads, pc'[a] = "retain", Kind(arg[a])' = "dispose"
          PROVE  mutex.api = a
      BY <1>1, <1>5, <1>11, <2>1, ThreadFacts DEF MutexInv
    <2> QED
      BY <1>1, <1>5, <2>1 DEF MutexInv
  <1>13. ModeInv'
    BY <1>1, <1>5, <1>6, <1>8 DEF ModeInv
  <1>14. WorkerInv'
    <2>1. Kind(running)' = Kind(t)
      BY <1>2, <1>3, <1>6 DEF Kind
    <2>2. \A x \in {"terminate", "dispose"} : x \in EndKinds
      BY DEF EndKinds
    <2>3. signalled # {} => terminated
      BY <1>1, <1>5 DEF WorkerInv
    <2> QED
      BY <1>1, <1>2, <1>3, <1>4, <1>5, <2>1, <2>2, <2>3 DEF WorkerInv
  <1>15. RetainInv'
    BY <1>1, <1>5, <1>11 DEF RetainInv
  <1>16. QueueInv'
    BY <1>1, <1>6 DEF QueueInv, WorkerTypes
  <1>17. OrderInv'
    <2>1. \A i \in DOMAIN ready : ready[i] \in Ids
      BY <1>1 DEF WorkerTypes, InSeq
    <2>2. \A u : InSeq(u, ready) => u \in Ids
      BY <1>1 DEF WorkerTypes
    <2>3. Kind(running)' = Kind(running)
      BY <1>2, <1>3, <1>6 DEF Kind
    <2> QED
      BY <1>1, <1>6, <1>8, <2>1, <2>2, <2>3 DEF OrderInv
  <1>18. StateInv'
    <2>1. \A u \in Ids : task'[u].state = "Running" <=> u = t
      BY <1>1, <1>2, <1>6, <1>8 DEF StateInv
    <2>2. ASSUME NEW u \in Ids, task'[u].state = "Initial" PROVE u \in tasks' \/ Held(u)'
      <3>1. u # t /\ task[u].state = "Initial"
        BY <1>6, <2>2
      <3> QED
        BY <1>1, <1>2, <1>5, <1>8, <3>1 DEF StateInv
    <2>3. t \in tasks' \/ Held(t)'
      BY <1>1, <1>2, <1>3, <1>5, <1>8 DEF StateInv
    <2>4. Held(running)' <=> Held(t)'
      BY <1>2 DEF Held
    <2> QED
      BY <1>2, <1>6, <1>8, <2>1, <2>2, <2>3, <2>4 DEF StateInv
  <1>19. WorkInv'
    <2>1. ASSUME NEW u \in Ids, Kind(u) = "work"
          PROVE  /\ task'[u].state # "Cancelled"
                 /\ task'[u].state = "Initial" =>
                       \/ \E th \in All : pc'[th] = "retain" /\ arg'[th] = u
                       \/ InSeq(u, ready)
                       \/ u = running'
      <3>1. CASE u = t
        BY <1>6, <3>1
      <3>2. CASE u # t
        BY <1>1, <1>5, <1>6, <2>1, <3>2 DEF WorkInv
      <3> QED
        BY <3>1, <3>2
    <2> QED
      BY <1>6, <2>1 DEF WorkInv
  <1>20. CountInv'
    BY <1>1, <1>6, <1>7, <1>8 DEF CountInv, One
  <1> QED
    BY <1>9, <1>10, <1>12, <1>13, <1>14, <1>15, <1>16, <1>17, <1>18, <1>19, <1>20
       DEF WorkerQueueInv

\* The first critical section of ExecuteAndRelease().
LEMMA ExecuteInv ==
    ASSUME WorkerQueueInv, Execute
    PROVE  WorkerQueueInv'
  <1>1. WorkerTypes /\ WorkerInv /\ StateInv
    BY DEF WorkerQueueInv
  <1>2. pc[Worker] = "invoke"
    BY Zenon DEF Execute
  <1>3. running \in Ids /\ task[running] \in Task /\ task[running].state # "Running"
    BY <1>1, <1>2, IdFacts DEF WorkerInv, WorkerTypes, StateInv, InOp
  <1>4. UNCHANGED <<mutex, mode, disposed, tasks, schedule, ready, delayed,
                    timer, terminated, signalled, arg, todo, returned>>
    BY DEF Execute
  <1>5. CASE task[running].state = "Initial"
    <2>1. PICK to : to = Entry(Kind(running))
      OBVIOUS
    <2>2. to \in Pcs
      <3>1. Kind(running) \in {"work", "timer", "terminate", "dispose", "clear"}
        BY <1>3 DEF Task, Kind, Kinds
      <3> QED
        BY <2>1, <3>1 DEF Entry, Pcs, WorkerPcs
    <2>3. Goto(Worker, "invoke", to) /\ running' = running
      BY <1>5, <2>1 DEF Execute, Kind
    <2>4. Moved(Worker, "invoke", to)
      BY <1>1, <2>2, <2>3, ThreadFacts, GotoFacts
    <2>5. PICK k : k = [task[running] EXCEPT !.state = "Running"]
      OBVIOUS
    <2>6. /\ k \in Task /\ Static(k, task[running]) /\ k.refs = task[running].refs
          /\ k.state = "Running"
      BY <1>3, <2>5 DEF Task, Static, States
    <2>7. task' = [task EXCEPT ![running] = k]
      BY <1>5, <2>5, Zenon DEF Execute
    <2> QED
      BY <1>4, <1>5, <2>1, <2>3, <2>4, <2>6, <2>7, BeginStep
  <1>6. CASE task[running].state # "Initial"
    <2>1. task[running].state \in {"Cancelled", "Done"}
      BY <1>3, <1>6 DEF Task, States
    <2>2. Goto(Worker, "invoke", "idle") /\ running' = 0
      BY <1>6, Zenon DEF Execute
    <2>3. Moved(Worker, "invoke", "idle")
      BY <1>1, <2>2, ThreadFacts, GotoFacts DEF Pcs, WorkerPcs
    <2>4. PICK k : k = Released(task[running], 1)
      OBVIOUS
    <2>5. PICK found \in BOOLEAN : ~found
      OBVIOUS
    <2>6. /\ k \in Task /\ Static(k, task[running]) /\ k.state = task[running].state
          /\ k.refs = task[running].refs - 1
      BY <1>3, <2>4, ReleasedFacts
    <2>7. k.refs = task[running].refs - 1 - One(found)
      BY <1>3, <2>5, <2>6 DEF Task, One
    <2>8. task' = [task EXCEPT ![running] = k]
      BY <1>6, <2>4, Zenon DEF Execute
    <2>9. /\ tasks' = IF found THEN tasks \ {running} ELSE tasks
          /\ schedule' = IF found THEN schedule \ {running} ELSE schedule
      BY <1>4, <2>5
    <2>10. PICK from \in {"invoke", "end"} : from = "invoke"
      OBVIOUS
    <2>11. Moved(Worker, from, "idle")
      BY <2>3, <2>10
    <2> QED
      BY <1>4, <2>1, <2>2, <2>5, <2>6, <2>7, <2>8, <2>9, <2>11, FinishStep
  <1> QED
    BY <1>5, <1>6

-----------------------------------------------------------------------------
(* ExecutorLibdispatch::Dispose()                                          *)

\* One thread at a time has local_tasks.
LEMMA OnlyDisposer ==
    ASSUME MutexInv, NEW a \in Threads, pc[a] \in Disposing, NEW b \in Threads, b # a
    PROVE  todo[b] = {}
  BY DEF MutexInv, Disposing

\* Dispose() takes all tasks from the executor.
LEMMA DisposeSwapInv ==
    ASSUME WorkerQueueInv, NEW a \in Threads, DisposeSwap(a)
    PROVE  WorkerQueueInv'
  <1>1. /\ WorkerTypes /\ KindInv /\ MutexInv /\ ModeInv /\ WorkerInv /\ RetainInv
        /\ QueueInv /\ OrderInv /\ StateInv /\ WorkInv /\ CountInv
    BY DEF WorkerQueueInv
  <1>2. /\ disposed' = TRUE /\ todo' = [todo EXCEPT ![a] = tasks] /\ tasks' = {} /\ schedule' = {}
        /\ UNCHANGED <<mutex, mode, task, ready, delayed, running, timer,
                       terminated, signalled, arg, returned>>
    BY DEF DisposeSwap
  <1>3. Moved(a, "swap", "cancel")
    BY <1>1, ThreadFacts, GotoFacts DEF DisposeSwap, Pcs, ThreadPcs
  <1>4. /\ pc[a] = "swap" /\ pc'[a] = "cancel" /\ pc' \in [All -> Pcs] /\ pc'[Worker] = pc[Worker]
        /\ \A b \in Threads : b # a => pc'[b] = pc[b]
        /\ a \in All
    BY <1>3, ThreadFacts DEF Moved
  <1>5. /\ mode = "Disposed" /\ signalled # {} /\ \A th \in All : pc[th] # "retain"
    BY <1>1, <1>4 DEF ModeInv
  <1>6. \A th \in All : pc'[th] # "retain"
    BY <1>3, <1>4, <1>5 DEF Moved
  <1>7. todo[a] = {} /\ \A b \in Threads : todo[b] = {}
    <2>1. todo[a] = {}
      BY <1>1, <1>4 DEF MutexInv
    <2>2. pc[a] \in Disposing
      BY <1>4 DEF Disposing
    <2> QED
      BY <1>1, <2>1, <2>2, OnlyDisposer
  <1>8. /\ todo' \in [Threads -> SUBSET Nat] /\ todo'[a] = tasks
        /\ \A b \in Threads : b # a => todo'[b] = {}
    <2>1. tasks \in SUBSET Nat /\ todo \in [Threads -> SUBSET Nat]
      BY <1>1, IdFacts DEF WorkerTypes
    <2> QED
      BY <1>2, <1>7, <2>1
  <1>9. \A u : ~Held(u) /\ (Held(u)' <=> u \in tasks)
    BY <1>7, <1>8 DEF Held
  <1>10. Ids' = Ids /\ \A u : Kind(u)' = Kind(u)
    BY <1>2 DEF Ids, Kind
  <1>11. /\ (\A u : Waiting(u)' <=> Waiting(u)) /\ (\A u : Taken(u)' <=> Taken(u))
         /\ (Ended' <=> Ended) /\ (InOp' <=> InOp)
    <2>1. \A u : Waiting(u)' <=> Waiting(u)
      BY <1>2, Zenon DEF Waiting
    <2>2. \A u : Taken(u)' <=> Taken(u)
      BY <1>2, <1>4 DEF Taken
    <2> QED
      BY <1>2, <1>4, <2>1, <2>2 DEF Ended, InOp
  <1>12. WorkerTypes'
    <2>1. \A b \in Threads : pc'[b] \in ThreadPcs /\ todo'[b] \subseteq Ids
      BY <1>1, <1>4, <1>8 DEF WorkerTypes, ThreadPcs
    <2> QED
      BY <1>1, <1>2, <1>4, <1>8, <1>10, <2>1 DEF WorkerTypes
  <1>13. KindInv'
    BY <1>1, <1>2, <1>10 DEF KindInv
  <1>14. MutexInv'
    <2>1. mutex.api = a
      BY <1>1, <1>4 DEF MutexInv, Disposing
    <2> QED
      BY <1>1, <1>2, <1>4, <1>6, <1>8, <2>1, ThreadFacts DEF MutexInv
  <1>15. ModeInv'
    <2>1. returned => \A b \in Threads : todo'[b] = {}
      BY <1>1, <1>8 DEF ModeInv
    <2> QED
      BY <1>1, <1>2, <1>4, <1>5, <1>6, <2>1 DEF ModeInv
  <1>16. WorkerInv'
    BY <1>1, <1>2, <1>4 DEF WorkerInv, Kind
  <1>17. RetainInv'
    BY <1>6 DEF RetainInv
  <1>18. QueueInv' /\ OrderInv'
    BY <1>1, <1>2, <1>10, <1>11 DEF QueueInv, OrderInv
  <1>19. StateInv'
    <2>1. Held(running)' <=> running \in tasks
      BY <1>2, <1>7, <1>8 DEF Held
    <2> QED
      BY <1>1, <1>2, <1>4, <1>5, <1>9, <1>10, <1>11, <2>1 DEF StateInv
  <1>20. WorkInv'
    BY <1>1, <1>2, <1>5, <1>10 DEF WorkInv
  <1>21. CountInv'
    <2>1. ASSUME NEW u \in Ids
          PROVE  task'[u].refs = One(u \in tasks') + One(Waiting(u)) + One(Held(u)') + One(Taken(u))
      <3>1. /\ task[u].refs = One(u \in tasks) + One(Waiting(u)) + One(Held(u)) + One(Taken(u))
            /\ One(u \in tasks) \in Int /\ One(Waiting(u)) \in Int /\ One(Taken(u)) \in Int
        BY <1>1 DEF CountInv, One
      <3>2. One(u \in tasks') = 0 /\ One(Held(u)) = 0 /\ One(Held(u)') = One(u \in tasks)
        BY <1>2, <1>9 DEF One
      <3> QED
        BY <1>2, <3>1, <3>2
    <2> QED
      BY <1>10, <1>11, <2>1 DEF CountInv, One
  <1> QED
    BY <1>12, <1>13, <1>14, <1>15, <1>16, <1>17, <1>18, <1>19, <1>20, <1>21
       DEF WorkerQueueInv

\* Dispose() deals with one of its tasks; r: it gives up its reference.
LEMMA DisposeStep ==
    ASSUME WorkerQueueInv, NEW a \in Threads,
           NEW from \in {"cancel", "await"}, NEW to \in {"cancel", "await"}, Moved(a, from, to),
           NEW t \in todo[a], NEW k \in Task, Static(k, task[t]), NEW r \in BOOLEAN,
           k.refs = task[t].refs - One(r), r => k.state \notin {"Initial", "Running"},
           k.state = IF task[t].state = "Initial" THEN "Cancelled" ELSE task[t].state,
           task' = [task EXCEPT ![t] = k],
           todo' = [todo EXCEPT ![a] = IF r THEN @ \ {t} ELSE @],
           arg' \in [All -> Nat], \A th \in All : th # a => arg'[th] = arg[th],
           arg'[a] \in Ids \cup {0}, to = "await" => arg'[a] = t /\ ~r,
           UNCHANGED <<mutex, mode, disposed, tasks, schedule, ready, delayed,
                       running, timer, terminated, signalled, returned>>
    PROVE  WorkerQueueInv'
  <1>1. /\ WorkerTypes /\ KindInv /\ MutexInv /\ ModeInv /\ WorkerInv /\ RetainInv
        /\ QueueInv /\ OrderInv /\ StateInv /\ WorkInv /\ CountInv
    BY DEF WorkerQueueInv
  <1>2. /\ pc[a] = from /\ pc'[a] = to /\ pc' \in [All -> Pcs] /\ pc'[Worker] = pc[Worker]
        /\ \A b \in Threads : b # a => pc'[b] = pc[b]
        /\ a \in All /\ arg'[Worker] = arg[Worker]
    BY ThreadFacts DEF Moved
  <1>3. /\ mode = "Disposed" /\ disposed /\ tasks = {} /\ signalled # {} /\ ~returned
        /\ \A th \in All : pc[th] # "retain"
    BY <1>1, <1>2 DEF ModeInv
  <1>4. \A th \in All : pc'[th] # "retain"
    BY <1>2, <1>3 DEF Moved
  <1>5. \A b \in Threads : b # a => todo[b] = {}
    <2>1. pc[a] \in Disposing
      BY <1>2 DEF Disposing
    <2> QED
      BY <1>1, <2>1, OnlyDisposer
  <1>6. t \in Ids /\ task[t] \in Task /\ 0 \notin Ids
    BY <1>1, IdFacts DEF WorkerTypes
  <1>7. /\ todo' \in [Threads -> SUBSET Nat] /\ todo'[a] = IF r THEN todo[a] \ {t} ELSE todo[a]
        /\ \A b \in Threads : b # a => todo'[b] = {}
    <2>1. todo \in [Threads -> SUBSET Nat]
      BY <1>1 DEF WorkerTypes
    <2> QED
      BY <1>5, <2>1
  <1>8. /\ \A u : Held(u) <=> u \in todo[a]
        /\ \A u : Held(u)' <=> (u \in todo[a] /\ ~(r /\ u = t))
    BY <1>5, <1>7 DEF Held
  <1>9. /\ task' \in Seq(Task) /\ Ids' = Ids
        /\ \A u \in Ids : Kind(u)' = Kind(u) /\ Static(task'[u], task[u])
        /\ task'[t] = k /\ \A u \in Ids : u # t => task'[u] = task[u]
    BY <1>1, <1>6, UpdateFacts
  <1>10. /\ (\A u : Waiting(u)' <=> Waiting(u)) /\ (\A u : Taken(u)' <=> Taken(u))
         /\ (Ended' <=> Ended) /\ (InOp' <=> InOp) /\ Ended
    <2>1. \A u : Waiting(u)' <=> Waiting(u)
      BY Zenon DEF Waiting
    <2>2. \A u : Taken(u)' <=> Taken(u)
      BY <1>2 DEF Taken
    <2> QED
      BY <1>2, <1>3, <2>1, <2>2 DEF Ended, InOp
  <1>11. Kind(t) = "work" => task[t].state # "Initial"
    <2> SUFFICES ASSUME Kind(t) = "work", task[t].state = "Initial" PROVE FALSE
      OBVIOUS
    <2>1. InSeq(t, ready) \/ t = running
      BY <1>1, <1>3, <1>6 DEF WorkInv
    <2> QED
      BY <1>1, <1>6, <1>10, <2>1 DEF OrderInv
  <1>12. WorkerTypes'
    <2>1. \A b \in Threads : pc'[b] \in ThreadPcs /\ todo'[b] \subseteq Ids
      BY <1>1, <1>2, <1>7 DEF WorkerTypes, ThreadPcs
    <2>2. \A th \in All : arg'[th] \in Ids \cup {0}
      BY <1>1 DEF WorkerTypes
    <2> QED
      BY <1>1, <1>2, <1>7, <1>9, <2>1, <2>2 DEF WorkerTypes
  <1>13. KindInv'
    BY <1>1, <1>9, KindStep
  <1>14. MutexInv'
    <2>1. mutex.api = a
      BY <1>1, <1>2 DEF MutexInv, Disposing
    <2>2. to = "await" => arg'[a] \in todo'[a]
      BY <1>7
    <2>3. \A b \in Threads : b # a => pc'[b] # "await"
      BY <1>1, <1>2, <1>5 DEF MutexInv
    <2>4. \A b \in Threads : b # a => (pc'[b] \in Disposing => mutex.api = b)
      BY <1>1, <1>2 DEF MutexInv
    <2> QED
      BY <1>2, <1>4, <1>7, <2>1, <2>2, <2>3, <2>4, ThreadFacts DEF MutexInv
  <1>15. ModeInv'
    BY <1>1, <1>2, <1>3, <1>4 DEF ModeInv
  <1>16. WorkerInv'
    <2>1. running # 0 => Kind(running)' = Kind(running)
      BY <1>1, <1>9 DEF WorkerTypes, Kind
    <2>2. arg[Worker] # 0 => Kind(arg[Worker])' = Kind(arg[Worker])
      BY <1>1, <1>2, <1>9, ThreadFacts DEF WorkerTypes, Kind
    <2> QED
      BY <1>1, <1>2, <2>1, <2>2 DEF WorkerInv
  <1>17. RetainInv'
    BY <1>4 DEF RetainInv
  <1>18. QueueInv'
    BY <1>1, <1>9 DEF QueueInv, WorkerTypes
  <1>19. OrderInv'
    <2>1. \A i \in DOMAIN ready : ready[i] \in Ids
      BY <1>1 DEF WorkerTypes, InSeq
    <2>2. \A u : InSeq(u, ready) => u \in Ids
      BY <1>1 DEF WorkerTypes
    <2>3. running # 0 => Kind(running)' = Kind(running)
      BY <1>1, <1>9 DEF WorkerTypes, Kind
    <2> QED
      BY <1>1, <1>9, <1>10, <2>1, <2>2, <2>3 DEF OrderInv
  <1>20. StateInv'
    <2>1. \A u \in Ids : task'[u].state = "Running" <=> u = running /\ InOp'
      BY <1>1, <1>6, <1>9, <1>10 DEF StateInv
    <2>2. ASSUME NEW u \in Ids, task'[u].state \in {"Initial", "Running"}
          PROVE  \/ u \in tasks' \/ Held(u)'
                 \/ pc'[Worker] = "drop" /\ arg'[Worker] = u
                 \/ u = running' /\ InOp'
      <3>1. task[u].state \in {"Initial", "Running"} /\ ~(r /\ u = t)
        BY <1>9, <2>2
      <3> QED
        BY <1>1, <1>2, <1>8, <1>10, <3>1 DEF StateInv
    <2>3. InOp => running \in Ids /\ ~(r /\ running = t)
      <3> SUFFICES ASSUME InOp PROVE running \in Ids /\ ~(r /\ running = t)
        OBVIOUS
      <3>1. running \in Ids
        BY <1>1 DEF InOp, WorkerInv, WorkerTypes
      <3>2. task[running].state = "Running"
        BY <1>1, <3>1 DEF StateInv
      <3> QED
        BY <3>1, <3>2
    <2>4. InOp => running \in tasks \/ running \in todo[a]
      BY <1>1, <1>3, <1>8 DEF StateInv
    <2>5. InOp => Held(running)'
      BY <1>3, <1>7, <2>3, <2>4 DEF Held
    <2> QED
      BY <1>9, <1>10, <2>1, <2>2, <2>5 DEF StateInv
  <1>21. WorkInv'
    <2>1. ASSUME NEW u \in Ids, Kind(u) = "work"
          PROVE  /\ task'[u].state # "Cancelled"
                 /\ task'[u].state = "Initial" => InSeq(u, ready) \/ u = running
      <3>1. task'[u].state = task[u].state
        BY <1>9, <1>11, <2>1
      <3> QED
        BY <1>1, <1>3, <2>1, <3>1 DEF WorkInv
    <2> QED
      BY <1>9, <2>1 DEF WorkInv
  <1>22. CountInv'
    <2>1. ASSUME NEW u \in Ids
          PROVE  task'[u].refs = One(u \in tasks) + One(Waiting(u)) + One(Held(u)') + One(Taken(u))
      <3>1. /\ task[u].refs = One(u \in tasks) + One(Waiting(u)) + One(Held(u)) + One(Taken(u))
            /\ One(u \in tasks) \in Int /\ One(Waiting(u)) \in Int /\ One(Taken(u)) \in Int
            /\ One(r) \in Int /\ One(Held(u)) \in Int
        BY <1>1 DEF CountInv, One
      <3>2. CASE u = t
        <4>1. One(Held(u)) = 1 /\ One(Held(u)') = 1 - One(r)
          BY <1>8, <3>2 DEF One
        <4>2. task'[u].refs = task[u].refs - One(r)
          BY <1>9, <3>2
        <4> QED
          BY <3>1, <4>1, <4>2
      <3>3. CASE u # t
        <4>1. One(Held(u)) = One(Held(u)')
          BY <1>8, <3>3 DEF One
        <4> QED
          BY <1>9, <3>1, <3>3, <4>1
      <3> QED
        BY <3>2, <3>3
    <2> QED
      BY <1>9, <1>10, <2>1 DEF CountInv, One
  <1> QED
    BY <1>12, <1>13, <1>14, <1>15, <1>16, <1>17, <1>18, <1>19, <1>20, <1>21, <1>22
       DEF WorkerQueueInv

\* Task::Cancel() in the loop of Dispose().
LEMMA DisposeCancelInv ==
    ASSUME WorkerQueueInv, NEW a \in Threads, NEW t \in todo[a], DisposeCancel(a, t)
    PROVE  WorkerQueueInv'
  <1>1. WorkerTypes
    BY DEF WorkerQueueInv
  <1>2. t \in Ids /\ task[t] \in Task /\ a \in All /\ t \in Nat
    BY <1>1, IdFacts, ThreadFacts DEF WorkerTypes
  <1>3. PICK c : c = Cancelled(task[t])
    OBVIOUS
  <1>4. /\ c \in Task /\ Static(c, task[t]) /\ c.refs = task[t].refs
        /\ c.state = IF task[t].state = "Initial" THEN "Cancelled" ELSE task[t].state
    BY <1>2, <1>3, CancelledFacts
  <1>5. UNCHANGED <<mutex, mode, disposed, tasks, schedule, ready, delayed,
                    running, timer, terminated, signalled, returned>>
    BY DEF DisposeCancel
  <1>6. CASE task[t].state = "Running"
    <2>1. /\ Goto(a, "cancel", "await") /\ arg' = [arg EXCEPT ![a] = t] /\ todo' = todo
          /\ task' = [task EXCEPT ![t] = c]
      BY <1>3, <1>6, Zenon DEF DisposeCancel
    <2>2. Moved(a, "cancel", "await")
      BY <1>1, <1>2, <2>1, GotoFacts DEF Pcs, ThreadPcs
    <2>3. PICK r \in BOOLEAN : ~r
      OBVIOUS
    <2>4. todo' = [todo EXCEPT ![a] = IF r THEN @ \ {t} ELSE @]
      BY <1>1, <2>1, <2>3 DEF WorkerTypes
    <2>5. c.refs = task[t].refs - One(r)
      BY <1>2, <1>4, <2>3 DEF Task, One
    <2>6. /\ arg' \in [All -> Nat] /\ arg'[a] = t /\ \A th \in All : th # a => arg'[th] = arg[th]
      BY <1>1, <1>2, <2>1 DEF WorkerTypes
    <2>7. PICK from \in {"cancel", "await"}, to \in {"cancel", "await"} :
             from = "cancel" /\ to = "await"
      OBVIOUS
    <2>8. Moved(a, from, to)
      BY <2>2, <2>7
    <2>9. task' = [task EXCEPT ![t] = c] /\ arg'[a] \in Ids \cup {0}
      BY <1>2, <2>1, <2>6
    <2>10. r => c.state \notin {"Initial", "Running"}
      BY <2>3
    <2>11. to = "await" => arg'[a] = t /\ ~r
      BY <2>3, <2>6
    <2> QED
      BY <1>4, <1>5, <2>4, <2>5, <2>6, <2>8, <2>9, <2>10, <2>11, DisposeStep
  <1>7. CASE task[t].state # "Running"
    <2>1. PICK k : k = Released(c, 1)
      OBVIOUS
    <2>2. /\ Goto(a, "cancel", "cancel") /\ arg' = arg /\ todo' = [todo EXCEPT ![a] = @ \ {t}]
          /\ task' = [task EXCEPT ![t] = k]
      BY <1>3, <1>7, <2>1, Zenon DEF DisposeCancel
    <2>3. Moved(a, "cancel", "cancel")
      BY <1>1, <1>2, <2>2, GotoFacts DEF Pcs, ThreadPcs
    <2>4. PICK r \in BOOLEAN : r
      OBVIOUS
    <2>5. todo' = [todo EXCEPT ![a] = IF r THEN @ \ {t} ELSE @]
      BY <2>2, <2>4
    <2>6. k \in Task /\ Static(k, c) /\ k.refs = c.refs - 1 /\ k.state = c.state
      BY <1>4, <2>1, ReleasedFacts
    <2>7. /\ Static(k, task[t]) /\ k.refs = task[t].refs - One(r)
          /\ k.state = IF task[t].state = "Initial" THEN "Cancelled" ELSE task[t].state
          /\ k.state \notin {"Initial", "Running"}
      BY <1>4, <1>7, <2>4, <2>6 DEF Static, One
    <2>8. /\ arg' \in [All -> Nat] /\ arg'[a] \in Ids \cup {0}
          /\ \A th \in All : th # a => arg'[th] = arg[th]
      BY <1>1, <1>2, <2>2 DEF WorkerTypes
    <2>9. PICK from \in {"cancel", "await"}, to \in {"cancel", "await"} :
             from = "cancel" /\ to = "cancel"
      OBVIOUS
    <2>10. Moved(a, from, to) /\ to # "await"
      BY <2>3, <2>9
    <2> QED
      BY <1>5, <2>2, <2>4, <2>5, <2>6, <2>7, <2>8, <2>10, DisposeStep
  <1> QED
    BY <1>6, <1>7

\* The task that Dispose() waits for is done.
LEMMA DisposeAwaitInv ==
    ASSUME WorkerQueueInv, NEW a \in Threads, DisposeAwait(a)
    PROVE  WorkerQueueInv'
  <1>1. WorkerTypes /\ MutexInv
    BY DEF WorkerQueueInv
  <1>2. PICK t : t = arg[a]
    OBVIOUS
  <1>3. Moved(a, "await", "cancel")
    BY <1>1, ThreadFacts, GotoFacts DEF DisposeAwait, Pcs, ThreadPcs
  <1>4. t \in todo[a] /\ t \in Ids /\ task[t] \in Task /\ a \in All
    BY <1>1, <1>2, <1>3, IdFacts, ThreadFacts DEF MutexInv, WorkerTypes, Moved
  <1>5. PICK k : k = Released(task[t], 1)
    OBVIOUS
  <1>6. /\ task' = [task EXCEPT ![t] = k] /\ todo' = [todo EXCEPT ![a] = @ \ {t}]
        /\ arg' = [arg EXCEPT ![a] = 0] /\ task[t].state \in {"Cancelled", "Done"}
        /\ UNCHANGED <<mutex, mode, disposed, tasks, schedule, ready, delayed,
                       running, timer, terminated, signalled, returned>>
    BY <1>2, <1>5, Zenon DEF DisposeAwait
  <1>7. PICK r \in BOOLEAN : r
    OBVIOUS
  <1>8. k \in Task /\ Static(k, task[t]) /\ k.refs = task[t].refs - 1 /\ k.state = task[t].state
    BY <1>4, <1>5, ReleasedFacts
  <1>9. /\ k.refs = task[t].refs - One(r) /\ k.state \notin {"Initial", "Running"}
        /\ k.state = IF task[t].state = "Initial" THEN "Cancelled" ELSE task[t].state
    BY <1>6, <1>7, <1>8 DEF One
  <1>10. todo' = [todo EXCEPT ![a] = IF r THEN @ \ {t} ELSE @]
    BY <1>6, <1>7
  <1>11. /\ arg' \in [All -> Nat] /\ arg'[a] \in Ids \cup {0}
         /\ \A th \in All : th # a => arg'[th] = arg[th]
    BY <1>1, <1>4, <1>6 DEF WorkerTypes
  <1>12. PICK from \in {"cancel", "await"}, to \in {"cancel", "await"} :
            from = "await" /\ to = "cancel"
    OBVIOUS
  <1>13. Moved(a, from, to)
    BY <1>3, <1>12
  <1>14. /\ task' = [task EXCEPT ![t] = k]
         /\ UNCHANGED <<mutex, mode, disposed, tasks, schedule, ready, delayed,
                        running, timer, terminated, signalled, returned>>
    BY <1>6
  <1>15. to = "await" => arg'[a] = t /\ ~r
    BY <1>12
  <1> QED
    BY <1>4, <1>8, <1>9, <1>10, <1>11, <1>13, <1>14, <1>15, DisposeStep

-----------------------------------------------------------------------------
(* Execute() and Schedule() of the executor                                *)

\* What the callers of the executor ask for: the mode admits the kind of task.
MayCreate(th, kind, from, after) ==
    /\ after = "wait" <=> kind = "dispose"
    /\ after = "end" <=> th = Worker
    /\ th = Worker => kind \in {"work", "timer"} /\ from = "op"
    /\ th # Worker => kind # "timer" /\ from \in {"idle", "terminate", "enqueue"}
    /\ kind \in {"work", "timer"} => mode = "Running"
    /\ kind \in EndKinds => mode # "Running"
    /\ kind = "dispose" => from = "enqueue"

\* A new task at the end of the sequence of all tasks.
LEMMA CreatedFacts ==
    ASSUME WorkerTypes, NEW new \in Task, task' = Append(task, new), NEW t, t = Len(task) + 1
    PROVE  /\ task' \in Seq(Task) /\ Ids' = Ids \cup {t} /\ t \in Nat /\ t \notin Ids /\ t # 0
           /\ task'[t] = new /\ \A u \in Ids : task'[u] = task[u] /\ u # t
  <1>1. task \in Seq(Task) /\ Ids = DOMAIN task /\ Ids' = DOMAIN task'
    BY DEF WorkerTypes, Ids
  <1>2. PICK n \in Nat : n = Len(task)
    BY <1>1
  <1>3. /\ task' \in Seq(Task) /\ DOMAIN task = 1..n /\ DOMAIN task' = 1..(n + 1)
        /\ task'[n + 1] = new /\ \A u \in 1..n : task'[u] = task[u]
    BY <1>1, <1>2
  <1>4. 1..(n + 1) = 1..n \cup {n + 1} /\ n + 1 \notin 1..n
    OBVIOUS
  <1> QED
    BY <1>1, <1>2, <1>3, <1>4

\* The critical section of Execute() or Schedule().
LEMMA SubmitStep ==
    ASSUME WorkerQueueInv, NEW th \in All, NEW kind \in Kinds, NEW immediate \in BOOLEAN, NEW from,
           NEW after \in {"idle", "wait", "end"}, Submit(th, kind, immediate, from, after),
           mutex.queue = None, mode # "Disposed", MayCreate(th, kind, from, after),
           immediate <=> kind # "timer",
           timer' = timer \/ (kind = "timer" /\ timer' = Len(task) + 1),
           UNCHANGED <<mode, disposed, ready, delayed, running, terminated, signalled,
                       todo, returned>>
    PROVE  WorkerQueueInv'
  <1>1. /\ WorkerTypes /\ KindInv /\ MutexInv /\ ModeInv /\ WorkerInv /\ RetainInv
        /\ QueueInv /\ OrderInv /\ StateInv /\ WorkInv /\ CountInv
    BY DEF WorkerQueueInv
  <1>2. ~disposed
    BY <1>1 DEF ModeInv
  <1>3. PICK t : t = Len(task) + 1
    OBVIOUS
  <1>4. PICK new : new = NewTask(kind, th, immediate, after)
    OBVIOUS
  <1>5. /\ Goto(th, from, "retain") /\ task' = Append(task, new) /\ tasks' = tasks \cup {t}
        /\ schedule' = IF immediate THEN schedule ELSE schedule \cup {t}
        /\ mutex' = [mutex EXCEPT !.queue = th] /\ arg' = [arg EXCEPT ![th] = t]
    BY <1>2, <1>3, <1>4, Zenon DEF Submit
  <1>6. /\ new \in Task /\ new.state = "Initial" /\ new.refs = 1 /\ new.kind = kind
        /\ new.owner = th /\ new.immediate = immediate /\ new.after = after
    BY <1>4 DEF NewTask, Task, States
  <1>7. /\ task' \in Seq(Task) /\ Ids' = Ids \cup {t} /\ t \in Nat /\ t \notin Ids /\ t # 0
        /\ task'[t] = new /\ \A u \in Ids : task'[u] = task[u] /\ u # t
    BY <1>1, <1>3, <1>5, <1>6, CreatedFacts
  <1>8. /\ \A u \in Ids : Kind(u)' = Kind(u)
        /\ Kind(t)' = kind /\ 0 \notin Ids
    BY <1>1, <1>6, <1>7, IdFacts DEF Kind
  <1>9. /\ pc[th] = from /\ pc'[th] = "retain" /\ pc' \in [All -> Pcs]
        /\ \A o \in All : o # th => pc'[o] = pc[o]
    <2>1. Moved(th, from, "retain")
      BY <1>1, <1>5, GotoFacts DEF Pcs, ThreadPcs
    <2> QED
      BY <2>1 DEF Moved
  <1>10. \A o \in All : pc[o] # "retain"
    BY <1>1, ThreadFacts DEF MutexInv
  <1>11. \A o \in All : pc'[o] = "retain" => o = th
    BY <1>9, <1>10
  <1>12. /\ mutex' \in [queue : All \cup {None}, api : Threads \cup {None}]
         /\ mutex'.queue = th /\ mutex'.api = mutex.api
    BY <1>1, <1>5 DEF WorkerTypes
  <1>13. /\ arg' \in [All -> Nat] /\ arg'[th] = t /\ \A o \in All : o # th => arg'[o] = arg[o]
    BY <1>1, <1>5, <1>7 DEF WorkerTypes
  <1>14. ~Waiting(t) /\ ~Held(t) /\ ~Taken(t) /\ t \notin tasks /\ t \notin schedule
    <2>1. ~Waiting(t)
      BY <1>1, <1>7 DEF Waiting, WorkerTypes
    <2>2. ~Held(t)
      BY <1>1, <1>7 DEF Held, WorkerTypes
    <2>3. ~Taken(t)
      BY <1>1, <1>7, ThreadFacts DEF Taken, WorkerTypes
    <2> QED
      BY <1>1, <1>7, <2>1, <2>2, <2>3 DEF WorkerTypes
  <1>15. /\ (\A u : Waiting(u)' <=> Waiting(u)) /\ (\A u : Held(u)' <=> Held(u))
         /\ (\A u : Taken(u)' <=> Taken(u)) /\ (Ended' <=> Ended) /\ (InOp' <=> InOp)
    <2>1. \A u : Waiting(u)' <=> Waiting(u)
      BY Zenon DEF Waiting
    <2>2. \A u : Held(u)' <=> Held(u)
      BY Zenon DEF Held
    <2>3. CASE th = Worker
      BY <1>9, <2>1, <2>2, <2>3 DEF Taken, Ended, InOp, MayCreate
    <2>4. CASE th # Worker
      BY <1>9, <1>13, <2>1, <2>2, <2>4, ThreadFacts DEF Taken, Ended, InOp
    <2> QED
      BY <2>3, <2>4
  <1>16. /\ th = Worker => pc[Worker] = "op" /\ pc'[Worker] = "retain"
         /\ th # Worker => pc'[Worker] = pc[Worker] /\ arg'[Worker] = arg[Worker]
    BY <1>9, <1>13, ThreadFacts DEF MayCreate
  <1>17. timer' \in Ids' \cup {0} /\ (timer' # 0 => Kind(timer)' = "timer")
    <2>1. CASE timer' = timer
      <3>1. timer \in Ids \cup {0} /\ (timer # 0 => Kind(timer) = "timer")
        BY <1>1 DEF WorkerTypes, KindInv
      <3>2. Kind(timer)' = task'[timer].kind
        BY <2>1 DEF Kind
      <3> QED
        BY <1>7, <2>1, <3>1, <3>2 DEF Kind
    <2>2. CASE timer' = t /\ kind = "timer"
      BY <1>6, <1>7, <2>2 DEF Kind
    <2> QED
      BY <1>3, <2>1, <2>2
  <1>18. WorkerTypes'
    <2>1. \A a \in Threads : pc'[a] \in ThreadPcs
      BY <1>1, <1>9, ThreadFacts DEF WorkerTypes, ThreadPcs
    <2>2. pc'[Worker] \in WorkerPcs
      BY <1>1, <1>16 DEF WorkerTypes, WorkerPcs
    <2>3. \A o \in All : arg'[o] \in Ids' \cup {0}
      BY <1>1, <1>7, <1>13 DEF WorkerTypes
    <2>4. tasks' \subseteq Ids' /\ schedule' \subseteq tasks' /\ delayed' \subseteq Ids'
      BY <1>1, <1>5, <1>7 DEF WorkerTypes
    <2>5. /\ \A x : InSeq(x, ready') => x \in Ids'
          /\ running' \in Ids' \cup {0} /\ \A a \in Threads : todo'[a] \subseteq Ids'
      BY <1>1, <1>7 DEF WorkerTypes
    <2> QED
      BY <1>1, <1>7, <1>9, <1>12, <1>13, <1>17, <2>1, <2>2, <2>3, <2>4, <2>5 DEF WorkerTypes
  <1>19. KindInv'
    <2>1. \A u \in Ids : /\ task'[u].immediate <=> Kind(u)' # "timer"
                         /\ task'[u].after = "wait" <=> Kind(u)' = "dispose"
                         /\ Kind(u)' = "dispose" => task'[u].owner \in Threads
      BY <1>1, <1>7, <1>8 DEF KindInv
    <2>2. /\ task'[t].immediate <=> Kind(t)' # "timer"
          /\ task'[t].after = "wait" <=> Kind(t)' = "dispose"
          /\ Kind(t)' = "dispose" => task'[t].owner \in Threads
      BY <1>6, <1>7, <1>8, ThreadFacts DEF MayCreate
    <2>3. \A u \in schedule' : Kind(u)' = "timer"
      BY <1>1, <1>5, <1>8 DEF KindInv, WorkerTypes
    <2> QED
      BY <1>7, <1>17, <2>1, <2>2, <2>3 DEF KindInv
  <1>20. MutexInv'
    <2>1. ASSUME NEW a \in Threads
          PROVE  /\ pc'[a] \in Disposing => mutex'.api = a
                 /\ pc'[a] = "retain" /\ Kind(arg[a])' = "dispose" => mutex'.api = a
                 /\ todo'[a] # {} => pc'[a] \in {"cancel", "await"}
                 /\ pc'[a] = "await" => arg'[a] \in todo'[a]
      <3>1. CASE a = th
        <4>1. from \in {"idle", "terminate", "enqueue"}
          BY <3>1, ThreadFacts DEF MayCreate
        <4>2. todo[a] = {}
          BY <1>1, <1>9, <3>1, <4>1 DEF MutexInv
        <4>3. kind = "dispose" => mutex.api = a
          BY <1>1, <1>9, <3>1 DEF MutexInv, Disposing, MayCreate
        <4>4. Kind(arg[a])' = Kind(t)'
          BY <1>13, <3>1 DEF Kind
        <4> QED
          BY <1>8, <1>9, <1>12, <3>1, <4>2, <4>3, <4>4 DEF Disposing
      <3>2. CASE a # th
        <4>1. pc'[a] = pc[a] /\ arg'[a] = arg[a] /\ pc[a] # "retain"
          BY <1>9, <1>10, <1>13, <3>2, ThreadFacts
        <4> QED
          BY <1>1, <1>12, <4>1 DEF MutexInv
      <3> QED
        BY <3>1, <3>2
    <2> QED
      BY <1>11, <1>12, <2>1 DEF MutexInv
  <1>21. ModeInv'
    <2>1. ASSUME NEW a \in Threads
          PROVE  /\ mode = "Running" => pc'[a] \notin (Disposing \ {"restrict"}) \cup {"terminate"}
                 /\ pc'[a] \in {"stop", "swap", "cancel", "await", "join", "leave"} => signalled # {}
                 /\ pc'[a] \in {"swap", "cancel", "await", "join", "leave"} => mode = "Disposed"
                 /\ pc'[a] \in {"cancel", "await", "join", "leave"} => disposed
      <3>1. CASE a = th
        BY <1>9, <3>1 DEF Disposing
      <3>2. CASE a # th
        BY <1>1, <1>9, <3>2, ThreadFacts DEF ModeInv
      <3> QED
        BY <3>1, <3>2
    <2>2. mode = "Running" => ~Ended' /\ \A u \in Ids' : Kind(u)' \notin EndKinds
      BY <1>1, <1>7, <1>8, <1>15 DEF ModeInv, MayCreate
    <2> QED
      BY <1>1, <1>2, <2>1, <2>2 DEF ModeInv
  <1>22. WorkerInv'
    <2>1. running # 0 => running \in Ids /\ Kind(running)' = Kind(running)
      BY <1>1, <1>7 DEF WorkerTypes, Kind
    <2>2. terminated => timer' \notin schedule'
      <3> SUFFICES ASSUME terminated PROVE timer' \notin schedule'
        OBVIOUS
      <3>1. mode # "Running"
        BY <1>1 DEF ModeInv, Ended
      <3>2. schedule' = schedule /\ timer' = timer
        BY <1>5, <3>1 DEF MayCreate
      <3> QED
        BY <1>1, <3>2 DEF WorkerInv
    <2>3. CASE th = Worker
      BY <1>1, <1>16, <2>2, <2>3 DEF WorkerInv
    <2>4. CASE th # Worker
      <3>1. arg[Worker] # 0 => Kind(arg[Worker])' = Kind(arg[Worker])
        BY <1>1, <1>7, <1>16, <2>4, ThreadFacts DEF WorkerTypes, Kind
      <3> QED
        BY <1>1, <1>16, <2>1, <2>2, <2>4, <3>1 DEF WorkerInv
    <2> QED
      BY <2>3, <2>4
  <1>23. RetainInv'
    <2>1. /\ t \in tasks' /\ ~Waiting(t)' /\ (task'[t].after = "end" <=> th = Worker)
          /\ (th # Worker => Kind(t)' # "timer") /\ (Kind(t)' = "work" => mode' = "Running")
      BY <1>5, <1>6, <1>7, <1>8, <1>14, <1>15 DEF MayCreate
    <2>2. (Waiting(arg[th])' <=> Waiting(t)') /\ Kind(arg[th])' = Kind(t)'
      BY <1>13 DEF Waiting, Kind
    <2> QED
      BY <1>11, <1>13, <2>1, <2>2 DEF RetainInv
  <1>24. QueueInv'
    BY <1>1, <1>7, <1>8 DEF QueueInv, WorkerTypes
  <1>25. OrderInv'
    <2>1. \A i \in DOMAIN ready : ready[i] \in Ids
      BY <1>1 DEF WorkerTypes, InSeq
    <2>2. \A u : InSeq(u, ready) => u \in Ids
      BY <1>1 DEF WorkerTypes
    <2>3. running # 0 => Kind(running)' = Kind(running)
      BY <1>1, <1>7 DEF WorkerTypes, Kind
    <2>4. \A i \in DOMAIN ready : Kind(ready[i])' = Kind(ready[i])
      BY <1>7, <2>1 DEF Kind
    <2> QED
      BY <1>1, <1>8, <1>15, <2>2, <2>3, <2>4 DEF OrderInv
  <1>26. StateInv'
    <2>1. \A u \in Ids' : task'[u].state = "Running" <=> u = running /\ InOp'
      <3>1. \A u \in Ids : task'[u].state = "Running" <=> u = running /\ InOp'
        BY <1>1, <1>7, <1>15 DEF StateInv
      <3>2. t # running /\ task'[t].state # "Running"
        BY <1>6, <1>7, <1>14 DEF Waiting
      <3> QED
        BY <1>7, <3>1, <3>2
    <2>2. ASSUME NEW u \in Ids, task'[u].state \in {"Initial", "Running"}
          PROVE  \/ u \in tasks' \/ Held(u)'
                 \/ pc'[Worker] = "drop" /\ arg'[Worker] = u
                 \/ u = running' /\ InOp'
      BY <1>1, <1>5, <1>7, <1>15, <1>16, <2>2 DEF StateInv
    <2>3. InOp' => \/ running \in tasks \/ Held(running)
                   \/ signalled = {} /\ pc'[Worker] \in {"drop", "end"}
      BY <1>1, <1>15, <1>16 DEF StateInv
    <2>4. Held(running)' <=> Held(running)
      BY Zenon DEF Held
    <2> QED
      BY <1>5, <1>7, <2>1, <2>2, <2>3, <2>4 DEF StateInv
  <1>27. WorkInv'
    <2>1. ASSUME NEW u \in Ids, Kind(u) = "work"
          PROVE  /\ task'[u].state # "Cancelled"
                 /\ task'[u].state = "Initial" => InSeq(u, ready') \/ u = running'
      BY <1>1, <1>7, <1>10, <2>1 DEF WorkInv
    <2>2. task'[t].state = "Initial" /\ pc'[th] = "retain" /\ arg'[th] = t
      BY <1>6, <1>7, <1>9, <1>13
    <2> QED
      BY <1>7, <1>8, <2>1, <2>2 DEF WorkInv
  <1>28. CountInv'
    <2>1. ASSUME NEW u \in Ids
          PROVE  task'[u].refs = One(u \in tasks') + One(Waiting(u)) + One(Held(u)) + One(Taken(u))
      <3>1. task[u].refs = One(u \in tasks) + One(Waiting(u)) + One(Held(u)) + One(Taken(u))
        BY <1>1 DEF CountInv
      <3>2. One(u \in tasks') = One(u \in tasks)
        BY <1>5, <1>7 DEF One
      <3> QED
        BY <1>7, <3>1, <3>2
    <2>2. task'[t].refs = One(t \in tasks') + One(Waiting(t)) + One(Held(t)) + One(Taken(t))
      <3>1. One(t \in tasks') = 1 /\ One(Waiting(t)) = 0 /\ One(Held(t)) = 0 /\ One(Taken(t)) = 0
        BY <1>5, <1>14 DEF One
      <3> QED
        BY <1>6, <1>7, <3>1
    <2> QED
      BY <1>7, <1>15, <2>1, <2>2 DEF CountInv, One
  <1> QED
    BY <1>18, <1>19, <1>20, <1>21, <1>22, <1>23, <1>24, <1>25, <1>26, <1>27, <1>28
       DEF WorkerQueueInv

\* Enqueue().
LEMMA EnqueueInv ==
    ASSUME WorkerQueueInv, NEW a \in Threads, Enqueue(a)
    PROVE  WorkerQueueInv'
  <1>1. /\ mutex.queue = None /\ mode = "Running" /\ Submit(a, "work", TRUE, "idle", "idle")
        /\ UNCHANGED <<mode, disposed, ready, delayed, running, timer, terminated,
                       signalled, todo, returned>>
    BY DEF Enqueue, Free
  <1>2. PICK kind \in Kinds, after \in {"idle", "wait", "end"}, immediate \in BOOLEAN :
           kind = "work" /\ after = "idle" /\ immediate = TRUE
    BY DEF Kinds
  <1>3. a \in All /\ MayCreate(a, kind, "idle", after)
    BY <1>1, <1>2, ThreadFacts DEF MayCreate, EndKinds
  <1>4. Submit(a, kind, immediate, "idle", after)
    BY <1>1, <1>2
  <1> QED
    BY <1>1, <1>2, <1>3, <1>4, SubmitStep

\* EnqueueEvenWhileRestricted().
LEMMA EnqueueEvenWhileRestrictedInv ==
    ASSUME WorkerQueueInv, NEW a \in Threads, NEW kind \in {"terminate", "dispose", "clear"},
           NEW from, NEW accepted, NEW rejected,
           <<kind, from, accepted, rejected>> \in
               {<<"terminate", "terminate", "idle", "idle">>, <<"clear", "idle", "idle", "idle">>,
                <<"dispose", "enqueue", "wait", "stop">>},
           EnqueueEvenWhileRestricted(a, kind, from, accepted, rejected)
    PROVE  WorkerQueueInv'
  <1>1. /\ mutex.queue = None
        /\ UNCHANGED <<mode, disposed, ready, delayed, running, timer, terminated,
                       signalled, todo, returned>>
    BY DEF EnqueueEvenWhileRestricted, Free
  <1>2. \/ kind = "terminate" /\ from = "terminate" /\ accepted = "idle" /\ rejected = "idle"
        \/ kind = "clear" /\ from = "idle" /\ accepted = "idle" /\ rejected = "idle"
        \/ kind = "dispose" /\ from = "enqueue" /\ accepted = "wait" /\ rejected = "stop"
    OBVIOUS
  <1>3. CASE mode = "Disposed"
    <2>1. Goto(a, from, rejected) /\ UNCHANGED <<mutex, tasks, schedule, task, arg>>
      BY <1>3 DEF EnqueueEvenWhileRestricted
    <2>2. <<from, rejected>> \in
             {<<"terminate", "idle">>, <<"idle", "idle">>, <<"enqueue", "stop">>}
      BY <1>2
    <2> QED
      BY <1>1, <1>3, <2>1, <2>2, RejectedInv
  <1>4. CASE mode # "Disposed"
    <2>1. Submit(a, kind, TRUE, from, accepted)
      BY <1>4 DEF EnqueueEvenWhileRestricted
    <2>2. pc[a] = from
      <3>1. ~disposed
        BY <1>4 DEF WorkerQueueInv, ModeInv
      <3>2. Goto(a, from, "retain")
        BY <2>1, <3>1, Zenon DEF Submit
      <3> QED
        BY <3>2 DEF Goto
    <2>3. PICK immediate \in BOOLEAN : immediate = TRUE
      OBVIOUS
    <2>4. kind \in Kinds /\ accepted \in {"idle", "wait", "end"} /\ kind # "timer"
      BY <1>2 DEF Kinds
    <2>5. kind \in EndKinds => mode # "Running"
      BY <1>2, <2>2 DEF WorkerQueueInv, ModeInv, Disposing, EndKinds
    <2>6. a \in All /\ MayCreate(a, kind, from, accepted)
      BY <1>2, <2>5, ThreadFacts DEF MayCreate
    <2>7. Submit(a, kind, immediate, from, accepted)
      BY <2>1, <2>3
    <2> QED
      BY <1>1, <1>4, <2>3, <2>4, <2>6, <2>7, SubmitStep
  <1> QED
    BY <1>3, <1>4

\* EnqueueRelaxed() from an operation.
LEMMA WorkEnqueuesInv ==
    ASSUME WorkerQueueInv, WorkEnqueues
    PROVE  WorkerQueueInv'
  <1>1. /\ mutex.queue = None /\ mode = "Running" /\ Submit(Worker, "work", TRUE, "op", "end")
        /\ UNCHANGED <<mode, disposed, ready, delayed, running, timer, terminated,
                       signalled, todo, returned>>
    BY DEF WorkEnqueues, Free
  <1>2. PICK kind \in Kinds, after \in {"idle", "wait", "end"}, immediate \in BOOLEAN :
           kind = "work" /\ after = "end" /\ immediate = TRUE
    BY DEF Kinds
  <1>3. Worker \in All /\ MayCreate(Worker, kind, "op", after)
    BY <1>1, <1>2, ThreadFacts DEF MayCreate, EndKinds
  <1>4. Submit(Worker, kind, immediate, "op", after)
    BY <1>1, <1>2
  <1> QED
    BY <1>1, <1>2, <1>3, <1>4, SubmitStep

\* EnqueueAfterDelay().
LEMMA EnqueueAfterDelayInv ==
    ASSUME WorkerQueueInv, EnqueueAfterDelay
    PROVE  WorkerQueueInv'
  <1>1. CASE mode = "Running"
    <2>1. /\ mutex.queue = None /\ Submit(Worker, "timer", FALSE, "op", "end")
          /\ timer' = Len(task) + 1
          /\ UNCHANGED <<mode, disposed, ready, delayed, running, terminated,
                         signalled, todo, returned>>
      BY <1>1 DEF EnqueueAfterDelay, Free
    <2>2. PICK kind \in Kinds, after \in {"idle", "wait", "end"}, immediate \in BOOLEAN :
             kind = "timer" /\ after = "end" /\ immediate = FALSE
      BY DEF Kinds
    <2>3. Worker \in All /\ MayCreate(Worker, kind, "op", after)
      BY <1>1, <2>2, ThreadFacts DEF MayCreate, EndKinds
    <2>4. Submit(Worker, kind, immediate, "op", after)
      BY <2>1, <2>2
    <2> QED
      BY <1>1, <2>1, <2>2, <2>3, <2>4, SubmitStep
  <1>2. CASE mode # "Running"
    BY <1>2, NoTimerInv, Zenon DEF EnqueueAfterDelay
  <1> QED
    BY <1>1, <1>2

-----------------------------------------------------------------------------
(* The specification                                                       *)

\* The invariant holds initially.
LEMMA QueueInit ==
    ASSUME Init
    PROVE  WorkerQueueInv
  <1>1. task = <<>> /\ ready = <<>> /\ Ids = {} /\ \A x : ~InSeq(x, ready)
    BY DEF Init, Ids, InSeq
  <1>2. /\ pc \in [All -> Pcs] /\ \A th \in All : pc[th] = "idle"
    BY DEF Init, Pcs, ThreadPcs
  <1>3. Worker \in All /\ \A a \in Threads : a \in All /\ todo[a] = {}
    BY ThreadFacts DEF Init
  <1>4. WorkerTypes
    <2>1. mutex \in [queue : All \cup {None}, api : Threads \cup {None}]
      BY DEF Init
    <2>2. task \in Seq(Task) /\ ready \in Seq(Nat)
      BY <1>1
    <2>3. arg \in [All -> Nat] /\ todo \in [Threads -> SUBSET Nat] /\ \A th \in All : arg[th] = 0
      BY DEF Init
    <2>4. "idle" \in ThreadPcs /\ "idle" \in WorkerPcs
      BY DEF ThreadPcs, WorkerPcs
    <2> QED
      BY <1>1, <1>2, <1>3, <2>1, <2>2, <2>3, <2>4 DEF Init, WorkerTypes
  <1>5. KindInv /\ QueueInv /\ WorkInv /\ CountInv /\ OrderInv
    <2>1. DOMAIN ready = {}
      BY <1>1
    <2>2. ~Ended
      BY DEF Init, Ended
    <2> QED
      BY <1>1, <2>1, <2>2 DEF Init, KindInv, QueueInv, WorkInv, CountInv, OrderInv
  <1>6. MutexInv /\ ModeInv /\ RetainInv
    BY <1>1, <1>2, <1>3 DEF Init, MutexInv, ModeInv, RetainInv, Ended, Disposing
  <1>7. WorkerInv /\ StateInv
    BY <1>1, <1>2, <1>3 DEF Init, WorkerInv, StateInv, InOp
  <1> QED
    BY <1>4, <1>5, <1>6, <1>7 DEF WorkerQueueInv

\* Steps of a thread in a call it has begun.
LEMMA ContinueInv ==
    ASSUME WorkerQueueInv, NEW a \in Threads, Continue(a)
    PROVE  WorkerQueueInv'
  <1>1. CASE Retain(a)
    BY <1>1, ThreadFacts, RetainStep
  <1>2. CASE TerminateEnqueue(a)
    BY <1>2, EnqueueEvenWhileRestrictedInv DEF TerminateEnqueue
  <1>3. CASE DisposeRestrict(a)
    BY <1>3, EnterRestrictedModeInv DEF DisposeRestrict
  <1>4. CASE DisposeEnqueue(a)
    BY <1>4, EnqueueEvenWhileRestrictedInv DEF DisposeEnqueue
  <1>5. CASE \E t \in todo[a] : DisposeCancel(a, t)
    BY <1>5, DisposeCancelInv
  <1> QED
    BY <1>1, <1>2, <1>3, <1>4, <1>5, DisposeWaitInv, DisposeQueueInv, DisposeSwapInv,
       DisposeAwaitInv, DisposeInv, WaitForMutexInv, DisposeUserExecutorInv, DisposeReturnInv
       DEF Continue

\* Steps of the dispatch queue.
LEMMA ServeInv ==
    ASSUME WorkerQueueInv, Serve
    PROVE  WorkerQueueInv'
  BY ThreadFacts, InvokeInv, ExecuteInv, WorkEndsInv, WorkEnqueuesInv, EnqueueAfterDelayInv,
     CancelTimerInv, CancelFoundInv, IsIdScheduledInv, AwaitIfRunningInv, SignalDisposingInv,
     TerminateInternalInv, RetainStep, CompleteInv DEF Serve

\* Every step preserves the invariant.
LEMMA QueueNext ==
    ASSUME WorkerQueueInv, [Next]_vars
    PROVE  WorkerQueueInv'
  <1>1. ASSUME NEW a \in Threads, TerminateAsync(a) PROVE WorkerQueueInv'
    BY <1>1, EnterRestrictedModeInv DEF TerminateAsync
  <1>2. ASSUME NEW a \in Threads, ClearPersistence(a) PROVE WorkerQueueInv'
    BY <1>2, EnqueueEvenWhileRestrictedInv DEF ClearPersistence
  <1>3. CASE UNCHANGED <<mutex, mode, disposed, tasks, schedule, task, ready, delayed, running,
                         timer, terminated, signalled, pc, arg, todo, returned>>
    BY <1>3 DEF WorkerQueueInv, WorkerTypes, KindInv, MutexInv, ModeInv, WorkerInv,
       RetainInv, QueueInv, OrderInv, StateInv, WorkInv, CountInv, Ids, Kind, Held, Taken,
       Waiting, InOp, Ended, One
  <1>4. CASE UNCHANGED vars
    BY <1>3, <1>4 DEF vars
  <1>5. ASSUME NEW a \in Threads, RunCallback(a) \/ EndCallback(a)
        PROVE  WorkerQueueInv'
    BY <1>3, <1>5 DEF RunCallback, EndCallback
  <1>6. CASE ExecuteCallback
    BY <1>3, <1>6 DEF ExecuteCallback
  <1> QED
    BY <1>1, <1>2, <1>4, <1>5, <1>6, EnqueueInv, WaitForMutexInv, ContinueInv, ElapseInv, ServeInv
       DEF Next

\* The inductive invariant.
LEMMA QueueInvariant == Spec => []WorkerQueueInv
  <1>1. Init => WorkerQueueInv
    BY QueueInit
  <1>2. WorkerQueueInv /\ [Next]_vars => WorkerQueueInv'
    BY QueueNext
  <1> QED
    BY <1>1, <1>2, PTL DEF Spec

-----------------------------------------------------------------------------
(* The user executor                                                       *)

\* A disposed user executor has no callback that waits, and Dispose() returns
\* only after it has disposed it.
UserInv ==
    /\ user \in [disposed : BOOLEAN, pending : Nat, runner : Threads \cup {None}]
    /\ user.disposed => user.pending = 0
    /\ returned => user.disposed
    /\ \A a \in Threads : pc[a] \in {"join", "leave"} => user.disposed

\* A thread moves, but not to the end of Dispose().
MovesElsewhere ==
    /\ \E th \in All : \E to \in Pcs \ {"join", "leave"} : pc' = [pc EXCEPT ![th] = to]
    /\ UNCHANGED <<user, returned>>

\* Such a move says nothing of the user executor.
LEMMA ElsewhereUser ==
    ASSUME WorkerTypes, UserInv, MovesElsewhere
    PROVE  UserInv'
  <1>1. PICK th \in All, to \in Pcs \ {"join", "leave"} : pc' = [pc EXCEPT ![th] = to]
    BY DEF MovesElsewhere
  <1>2. \A a \in Threads : pc'[a] \in {"join", "leave"} => pc[a] \in {"join", "leave"}
    BY <1>1, ThreadFacts DEF WorkerTypes
  <1> QED
    BY <1>2 DEF UserInv, MovesElsewhere

\* The steps that begin or end with Goto.
LEMMA GotoElsewhere ==
    ASSUME NEW th \in All, NEW from, NEW to \in Pcs \ {"join", "leave"}, Goto(th, from, to),
           UNCHANGED <<user, returned>>
    PROVE  MovesElsewhere
  BY DEF Goto, MovesElsewhere

\* Execute() and Schedule().
LEMMA SubmitElsewhere ==
    ASSUME NEW th \in All, NEW kind, NEW immediate, NEW from, NEW after \in Pcs \ {"join", "leave"},
           Submit(th, kind, immediate, from, after), UNCHANGED <<user, returned>>
    PROVE  MovesElsewhere
  <1>1. "retain" \in Pcs \ {"join", "leave"}
    BY DEF Pcs, ThreadPcs
  <1>2. Goto(th, from, after) \/ Goto(th, from, "retain")
    BY DEF Submit
  <1> QED
    BY <1>1, <1>2, GotoElsewhere

\* Retain().
LEMMA RetainElsewhere ==
    ASSUME WorkerQueueInv, NEW th \in All, Retain(th)
    PROVE  MovesElsewhere
  <1>1. WorkerTypes /\ RetainInv
    BY DEF WorkerQueueInv
  <1>2. Goto(th, "retain", task[arg[th]].after) /\ UNCHANGED <<user, returned>>
    BY DEF Retain
  <1>3. arg[th] \in Ids
    BY <1>1, <1>2 DEF Goto, RetainInv, WorkerTypes
  <1>4. task[arg[th]].after \in {"idle", "wait", "end"}
    BY <1>1, <1>3, IdFacts DEF Task
  <1>5. task[arg[th]].after \in Pcs \ {"join", "leave"}
    BY <1>4 DEF Pcs, ThreadPcs, WorkerPcs
  <1> QED
    BY <1>2, <1>5, GotoElsewhere

\* The operations and the dispatch queue.
LEMMA ServeElsewhere ==
    ASSUME WorkerQueueInv, Serve
    PROVE  MovesElsewhere
  <1> DEFINE Elsewhere == Pcs \ {"join", "leave"}
  <1>1. /\ "idle" \in Elsewhere /\ "invoke" \in Elsewhere /\ "op" \in Elsewhere
        /\ "terminate" \in Elsewhere /\ "signal" \in Elsewhere /\ "clear" \in Elsewhere
        /\ "end" \in Elsewhere /\ "drop" \in Elsewhere /\ "check" \in Elsewhere
    BY DEF Pcs, WorkerPcs
  <1>2. Worker \in All
    BY ThreadFacts
  <1> HIDE DEF Elsewhere
  <1>3. ASSUME NEW from, NEW to \in Elsewhere, Goto(Worker, from, to), UNCHANGED <<user, returned>>
        PROVE  MovesElsewhere
    BY <1>2, <1>3, GotoElsewhere DEF Elsewhere
  <1>4. ASSUME FindTimer, UNCHANGED <<user, returned>> PROVE MovesElsewhere
    BY <1>1, <1>2, <1>4 DEF FindTimer, MovesElsewhere, Elsewhere
  <1>5. CASE Invoke \/ Work \/ CancelFound \/ IsIdScheduled \/ AwaitIfRunning
               \/ SignalDisposing \/ ClearPersistenceOp \/ Complete
    <2>1. /\ UNCHANGED <<user, returned>>
          /\ \E from : \/ Goto(Worker, from, "invoke") \/ Goto(Worker, from, "end")
                       \/ Goto(Worker, from, "check") \/ Goto(Worker, from, "terminate")
                       \/ Goto(Worker, from, "idle")
      BY <1>5 DEF Invoke, Work, CancelFound, IsIdScheduled, AwaitIfRunning, SignalDisposing,
         ClearPersistenceOp, Complete
    <2> QED
      BY <1>1, <1>3, <2>1
  <1>6. CASE Execute
    <2>1. WorkerTypes /\ WorkerInv
      BY DEF WorkerQueueInv
    <2>2. pc[Worker] = "invoke" /\ UNCHANGED <<user, returned>>
      BY <1>6 DEF Execute
    <2>3. running \in Ids
      BY <2>1, <2>2 DEF WorkerInv, WorkerTypes
    <2>4. task[running].kind \in Kinds
      BY <2>1, <2>3, IdFacts DEF Task
    <2>5. Entry(task[running].kind) \in Elsewhere
      BY <1>1, <2>4 DEF Entry, Kinds
    <2>6. Goto(Worker, "invoke", Entry(task[running].kind)) \/ Goto(Worker, "invoke", "idle")
      BY <1>6 DEF Execute
    <2> QED
      BY <1>1, <1>3, <2>2, <2>5, <2>6
  <1>7. CASE WorkEnqueues
    BY <1>1, <1>2, <1>7, SubmitElsewhere DEF WorkEnqueues, Elsewhere
  <1>8. CASE EnqueueAfterDelay
    <2>1. /\ UNCHANGED <<user, returned>>
          /\ \/ Submit(Worker, "timer", FALSE, "op", "end")
             \/ Goto(Worker, "op", "end")
      BY <1>8 DEF EnqueueAfterDelay
    <2> QED
      BY <1>1, <1>2, <1>3, <2>1, SubmitElsewhere DEF Elsewhere
  <1>9. CASE CancelTimer
    BY <1>4, <1>9 DEF CancelTimer
  <1>10. CASE TerminateInternal
    <2>1. /\ UNCHANGED <<user, returned>>
          /\ FindTimer \/ pc' = [pc EXCEPT ![Worker] = "end"]
      BY <1>10 DEF TerminateInternal
    <2> QED
      BY <1>1, <1>2, <1>4, <2>1 DEF MovesElsewhere, Elsewhere
  <1>11. CASE Retain(Worker)
    BY <1>2, <1>11, RetainElsewhere
  <1> QED
    BY <1>5, <1>6, <1>7, <1>8, <1>9, <1>10, <1>11 DEF Serve

\* Calls that begin, and all of Dispose() before the user executor.
LEMMA CallElsewhere ==
    ASSUME WorkerQueueInv, NEW a \in Threads,
           \/ Enqueue(a) \/ TerminateAsync(a) \/ ClearPersistence(a)
           \/ EnsureClientConfigured(a) \/ DisposeCall(a)
           \/ Continue(a) /\ ~DisposeUserExecutor(a) /\ ~DisposeReturn(a)
    PROVE  MovesElsewhere
  <1> DEFINE Elsewhere == Pcs \ {"join", "leave"}
  <1>1. /\ "idle" \in Elsewhere /\ "terminate" \in Elsewhere /\ "ensure" \in Elsewhere
        /\ "lock" \in Elsewhere /\ "restrict" \in Elsewhere /\ "enqueue" \in Elsewhere
        /\ "wait" \in Elsewhere /\ "stop" \in Elsewhere /\ "swap" \in Elsewhere
        /\ "cancel" \in Elsewhere /\ "await" \in Elsewhere
    BY DEF Pcs, ThreadPcs
  <1>2. a \in All
    BY ThreadFacts
  <1> HIDE DEF Elsewhere
  <1>3. ASSUME NEW from, NEW to \in Elsewhere, Goto(a, from, to), UNCHANGED <<user, returned>>
        PROVE  MovesElsewhere
    BY <1>2, <1>3, GotoElsewhere DEF Elsewhere
  <1>4. ASSUME NEW kind, NEW from, NEW yes \in Elsewhere, NEW no \in Elsewhere,
               EnqueueEvenWhileRestricted(a, kind, from, yes, no)
        PROVE  MovesElsewhere
    <2>1. /\ UNCHANGED <<user, returned>>
          /\ Goto(a, from, no) \/ Submit(a, kind, TRUE, from, yes)
      BY <1>4 DEF EnqueueEvenWhileRestricted
    <2> QED
      BY <1>2, <1>3, <1>4, <2>1, SubmitElsewhere DEF Elsewhere
  <1>5. CASE Enqueue(a)
    BY <1>1, <1>2, <1>5, SubmitElsewhere DEF Enqueue, Elsewhere
  <1>6. CASE TerminateAsync(a) \/ DisposeRestrict(a)
    BY <1>1, <1>3, <1>6 DEF TerminateAsync, DisposeRestrict, EnterRestrictedMode
  <1>7. CASE ClearPersistence(a) \/ TerminateEnqueue(a) \/ DisposeEnqueue(a)
    BY <1>1, <1>4, <1>7 DEF ClearPersistence, TerminateEnqueue, DisposeEnqueue
  <1>8. CASE \/ EnsureClientConfigured(a) \/ DisposeCall(a) \/ ClientConfigured(a) \/ Dispose(a)
             \/ DisposeWait(a) \/ DisposeQueue(a) \/ DisposeSwap(a) \/ DisposeAwait(a)
    <2>1. /\ UNCHANGED <<user, returned>>
          /\ \E from : \/ Goto(a, from, "ensure") \/ Goto(a, from, "lock")
                       \/ Goto(a, from, "idle") \/ Goto(a, from, "restrict")
                       \/ Goto(a, from, "stop") \/ Goto(a, from, "swap")
                       \/ Goto(a, from, "cancel")
      BY <1>8 DEF EnsureClientConfigured, DisposeCall, ClientConfigured, Dispose, DisposeWait,
         DisposeQueue, DisposeSwap, DisposeAwait
    <2> QED
      BY <1>1, <1>3, <2>1
  <1>9. CASE \E t \in todo[a] : DisposeCancel(a, t)
    <2>1. /\ UNCHANGED <<user, returned>>
          /\ Goto(a, "cancel", "await") \/ Goto(a, "cancel", "cancel")
      BY <1>9 DEF DisposeCancel
    <2> QED
      BY <1>1, <1>3, <2>1
  <1>10. CASE Retain(a)
    BY <1>2, <1>10, RetainElsewhere
  <1> QED
    BY <1>5, <1>6, <1>7, <1>8, <1>9, <1>10 DEF Continue

\* Every step preserves UserInv.
LEMMA UserNext ==
    ASSUME WorkerQueueInv, UserInv, [Next]_vars
    PROVE  UserInv'
  <1>1. WorkerTypes
    BY DEF WorkerQueueInv
  <1>2. ASSUME NEW a \in Threads, DisposeUserExecutor(a) PROVE UserInv'
    BY <1>2 DEF DisposeUserExecutor, UserInv
  <1>3. ASSUME NEW a \in Threads, DisposeReturn(a) PROVE UserInv'
    <2>1. user' = user /\ user.disposed
      BY <1>3 DEF DisposeReturn, UserInv
    <2> QED
      BY <2>1 DEF UserInv
  <1>4. CASE ExecuteCallback
    BY <1>4 DEF ExecuteCallback, UserInv
  <1>5. ASSUME NEW a \in Threads, RunCallback(a) PROVE UserInv'
    <2>1. /\ user.pending > 0 /\ user' = [user EXCEPT !.pending = @ - 1, !.runner = a]
          /\ UNCHANGED <<pc, returned>>
      BY <1>5 DEF RunCallback
    <2>2. user.pending \in Nat /\ user.pending - 1 \in Nat /\ user.disposed \in BOOLEAN
      BY <2>1 DEF UserInv
    <2>3. user.disposed = FALSE
      BY <2>1, <2>2 DEF UserInv
    <2>4. user' = [disposed |-> FALSE, pending |-> user.pending - 1, runner |-> a]
      BY <2>1, <2>3 DEF UserInv
    <2> QED
      BY <2>1, <2>2, <2>3, <2>4 DEF UserInv
  <1>6. ASSUME NEW a \in Threads, EndCallback(a) PROVE UserInv'
    BY <1>6 DEF EndCallback, UserInv
  <1>7. CASE UNCHANGED <<pc, user, returned>>
    BY <1>7 DEF UserInv
  <1>8. ASSUME NEW t \in delayed, Elapse(t) PROVE UserInv'
    BY <1>7, <1>8 DEF Elapse
  <1>9. CASE UNCHANGED vars
    BY <1>7, <1>9 DEF vars
  <1> QED
    BY <1>1, <1>2, <1>3, <1>4, <1>5, <1>6, <1>8, <1>9, ServeElsewhere, CallElsewhere,
       ElsewhereUser DEF Next

\* The inductive invariant with the user executor.
LEMMA UserInvariant == Spec => [](WorkerQueueInv /\ UserInv)
  <1>1. Init => WorkerQueueInv /\ UserInv
    <2>1. Init => UserInv
      BY ThreadFacts DEF Init, UserInv
    <2> QED
      BY <2>1, QueueInit
  <1>2. WorkerQueueInv /\ UserInv /\ [Next]_vars => (WorkerQueueInv /\ UserInv)'
    BY QueueNext, UserNext
  <1> QED
    BY <1>1, <1>2, PTL DEF Spec

-----------------------------------------------------------------------------
\* The reference count of a task is the number of its owners, whichever thread
\* releases it last, and a task is not freed before libdispatch retains it.
THEOREM RefCountsAreExact == Spec => []TasksAreOwned
  BY QueueInvariant, QueueConsequences, PTL

\* "The Executor guarantees that this operation will either execute before
\* `Dispose` completes or not at all": for any number of concurrent Dispose()s,
\* on the worker queue and on the user executor.
THEOREM NothingOutlivesDispose == Spec => []NothingRunsAfterDispose
  <1>1. WorkerQueueInv /\ UserInv => NothingRunsAfterDispose
    BY QueueConsequences DEF AllTasksEnded, UserInv, NothingRunsAfterDispose
  <1> QED
    BY <1>1, UserInvariant, PTL

\* No ordinary operation runs after TerminateInternal().
THEOREM TerminationIsLast == Spec => []NoWorkAfterTermination
  BY QueueInvariant, QueueConsequences, PTL

\* An operation that Enqueue() accepted is never cancelled.
THEOREM WorkIsKept == Spec => []AcceptedWorkIsNotDropped
  BY QueueInvariant, QueueConsequences, PTL

\* Every variable has the type its declaration says; in particular no
\* reference count is ever negative.
THEOREM QueueTypes == Spec => []WorkerTypeOK
  <1>1. ASSUME WorkerQueueInv, UserInv PROVE WorkerTypeOK
    <2>1. WorkerTypes /\ CountInv
      BY <1>1 DEF WorkerQueueInv
    <2>2. Ids = TaskIds /\ DOMAIN ready = 1..Len(ready)
      BY <2>1 DEF WorkerTypes, Ids, TaskIds
    <2>3. ASSUME NEW t \in Ids
          PROVE  task[t] \in [state : {"Initial", "Cancelled", "Running", "Done"},
                              refs : Nat, executor : BOOLEAN, owner : All,
                              kind : {"work", "timer", "terminate", "dispose", "clear"},
                              immediate : BOOLEAN, after : {"idle", "wait", "end"}]
      <3>1. task[t] \in Task
        BY <2>1, IdFacts
      <3>2. task[t].refs \in Nat
        BY <2>1 DEF CountInv, One
      <3> QED
        BY <3>1, <3>2 DEF Task, States, Kinds
    <2>4. \A i \in 1..Len(ready) : ready[i] \in Ids
      BY <2>1, <2>2 DEF WorkerTypes, InSeq
    <2> QED
      BY <1>1, <2>1, <2>2, <2>3, <2>4 DEF WorkerTypes, WorkerTypeOK, UserInv
  <1> QED
    BY <1>1, UserInvariant, PTL
=============================================================================
