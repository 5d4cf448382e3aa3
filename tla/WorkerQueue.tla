---------------------------- MODULE WorkerQueue ----------------------------
(***************************************************************************)
(* The serial queue on which all of a Firestore client runs, and how the   *)
(* client is shut down while other threads use it:                         *)
(*                                                                         *)
(*   Firestore, FirestoreClient  api/firestore.cc, core/firestore_client.cc*)
(*   AsyncQueue                  util/async_queue.cc                       *)
(*   ExecutorLibdispatch         util/executor_libdispatch.mm              *)
(*   Task                        util/task.cc                              *)
(*   the user executor           a second ExecutorLibdispatch, see below   *)
(*   the dispatch queues         libdispatch (external)                    *)
(*                                                                         *)
(* Unlike in the other modules, threads interleave.  A critical section of *)
(* the executor's or of a task's mutex makes no call that blocks, so it is *)
(* one step; AsyncQueue's mutex is held across the calls into the executor *)
(* and Firestore's mutex across the whole of Dispose(), so their holders   *)
(* are variables.  A task is freed when its reference count reaches zero.  *)
(*                                                                         *)
(* The callbacks of the application run on an executor of the same class.  *)
(* It is modelled by what this module shows of that class: a callback runs *)
(* before Dispose() completes or not at all, and Dispose() waits for one   *)
(* that is running, unless it is called from it.                           *)
(***************************************************************************)
EXTENDS Naturals, Sequences, FiniteSets

CONSTANTS
    Threads,    \* threads that call into the client
    Worker,     \* the thread that runs the dispatch queue
    None,       \* no thread
    Calls,      \* what the threads call, of {"Enqueue", "TerminateAsync",
                \* "ClearPersistence", "EnsureClientConfigured", "Dispose"}
    MaxTasks,   \* bound: no call begins after so many tasks were created
    MaxCallbacks \* bound: callbacks that wait to be run

ASSUME WorkerAssumption ==
    /\ Worker \notin Threads
    /\ None \notin Threads \cup {Worker}
    /\ {"executor", "libdispatch"} \cap (Threads \cup {Worker}) = {}
    /\ MaxTasks \in Nat /\ MaxCallbacks \in Nat

VARIABLES
    mutex,      \* who holds [queue |-> AsyncQueue::mutex_,
                \*            api |-> Firestore::mutex_]
    mode,       \* AsyncQueue::mode_
    disposed,   \* ExecutorLibdispatch::disposed_
    tasks,      \* ExecutorLibdispatch::tasks_
    schedule,   \* ExecutorLibdispatch::schedule_
    task,       \* the tasks ever created, see NewTask
    ready,      \* libdispatch: tasks to be invoked, in order
    delayed,    \* libdispatch: tasks that are not due
    running,    \* libdispatch: the task being invoked, or 0
    timer,      \* the DelayedOperation kept by the client (lru_callback_), or 0
    terminated, \* TerminateInternal() has run: remote_store_ is null
    signalled,  \* the signal_disposing promises that are fulfilled
    pc,         \* where each thread is
    arg,        \* the task each thread is dealing with, or 0
    todo,       \* local_tasks of each thread in Dispose()
    user,       \* FirestoreClient::user_executor_: [disposed |-> disposed_,
                \* pending |-> callbacks to be run, runner |-> who runs one]
    returned    \* history: some Dispose() has returned

vars == <<mutex, mode, disposed, tasks, schedule, task, ready, delayed,
          running, timer, terminated, signalled, pc, arg, todo, user,
          returned>>

All == Threads \cup {Worker}

\* executor: executor_ is not null; after: where the creator continues.
NewTask(kind, owner, immediate, after) ==
    [state |-> "Initial", refs |-> 1, executor |-> TRUE, kind |-> kind,
     owner |-> owner, immediate |-> immediate, after |-> after]

Free(m) == mutex[m] = None

Room == Len(task) < MaxTasks

Goto(th, from, to) == pc[th] = from /\ pc' = [pc EXCEPT ![th] = to]

-----------------------------------------------------------------------------
(* ExecutorLibdispatch: Execute() and Schedule(), called with AsyncQueue's *)
(* mutex held.  The task enters tasks_ under the executor's mutex; only    *)
(* after that is released, libdispatch becomes its second owner.           *)

\* The first part, from Task::Create() to the end of the critical section.
Submit(th, kind, immediate, from, after) ==
    LET t == Len(task) + 1
        new == NewTask(kind, th, immediate, after)
    IN  IF disposed
        THEN /\ Goto(th, from, after)
             /\ task' = Append(task, [new EXCEPT !.refs = 0])
             /\ UNCHANGED <<mutex, tasks, schedule, arg>>
        ELSE /\ Goto(th, from, "retain")
             /\ task' = Append(task, new)
             /\ tasks' = tasks \cup {t}
             /\ schedule' = IF immediate THEN schedule ELSE schedule \cup {t}
             /\ mutex' = [mutex EXCEPT !.queue = th]
             /\ arg' = [arg EXCEPT ![th] = t]

\* Mutant: every task waits for the time it is scheduled for.
RetainDelayed(th) ==
    LET t == arg[th]
    IN  /\ Goto(th, "retain", task[t].after)
        /\ task' = [task EXCEPT ![t].refs = @ + 1]
        /\ delayed' = delayed \cup {t}
        /\ mutex' = [mutex EXCEPT !.queue = None]
        /\ arg' = [arg EXCEPT ![th] = 0]
        /\ UNCHANGED <<mode, disposed, tasks, schedule, ready, running,
                       timer, terminated, signalled, todo, user, returned>>

\* The second part: Retain() and dispatch_async_f() or dispatch_after_f();
\* then AsyncQueue's mutex is released.
Retain(th) ==
    LET t == arg[th]
    IN  /\ Goto(th, "retain", task[t].after)
        /\ task' = [task EXCEPT ![t].refs = @ + 1]
        /\ IF task[t].immediate
           THEN ready' = Append(ready, t) /\ UNCHANGED delayed
           ELSE delayed' = delayed \cup {t} /\ UNCHANGED ready
        /\ mutex' = [mutex EXCEPT !.queue = None]
        /\ arg' = [arg EXCEPT ![th] = 0]
        /\ UNCHANGED <<mode, disposed, tasks, schedule, running, timer,
                       terminated, signalled, todo, user, returned>>

-----------------------------------------------------------------------------
(* Task                                                                    *)

\* The critical section of Cancel().  The caller gives up its reference when
\* Cancel() returns; it has to wait for a task that another thread runs.
Cancelled(k) ==
    CASE k.state = "Initial" -> [k EXCEPT !.state = "Cancelled",
                                          !.executor = FALSE]
      [] k.state = "Running" -> [k EXCEPT !.executor = FALSE]
      [] OTHER -> k

Released(k, n) == [k EXCEPT !.refs = @ - n]

-----------------------------------------------------------------------------
(* Calls of the threads, through FirestoreClient and AsyncQueue.           *)

\* Enqueue() and EnqueueRelaxed(); when they return false nothing changes.
Enqueue(a) ==
    /\ "Enqueue" \in Calls /\ Room
    /\ Free("queue")
    /\ mode = "Running"
    /\ Submit(a, "work", TRUE, "idle", "idle")
    /\ UNCHANGED <<mode, disposed, ready, delayed, running, timer,
                   terminated, signalled, todo, user, returned>>

\* Mutant: mode_ is left as it is.
EnterRestrictedModeNot(a, from, to) ==
    /\ Free("queue")
    /\ Goto(a, from, to)
    /\ UNCHANGED <<mode, disposed, tasks, schedule, task, ready, delayed,
                   running, timer, terminated, signalled, arg, todo, user,
                   returned>>

\* AsyncQueue::EnterRestrictedMode(), at the beginning of TerminateAsync()
\* and of FirestoreClient::Dispose().
EnterRestrictedMode(a, from, to) ==
    /\ Free("queue")
    /\ Goto(a, from, to)
    /\ mode' = IF mode = "Disposed" THEN mode ELSE "Restricted"
    /\ UNCHANGED <<disposed, tasks, schedule, task, ready, delayed, running,
                   timer, terminated, signalled, arg, todo, user, returned>>

EnqueueEvenWhileRestricted(a, kind, from, accepted, rejected) ==
    /\ Free("queue")
    /\ IF mode = "Disposed"
       THEN /\ Goto(a, from, rejected)
            /\ UNCHANGED <<mutex, tasks, schedule, task, arg>>
       ELSE Submit(a, kind, TRUE, from, accepted)
    /\ UNCHANGED <<mode, disposed, ready, delayed, running, timer,
                   terminated, signalled, todo, user, returned>>

TerminateAsync(a) ==
    /\ "TerminateAsync" \in Calls /\ Room
    /\ EnterRestrictedMode(a, "idle", "terminate")
    /\ UNCHANGED mutex

TerminateEnqueue(a) ==
    EnqueueEvenWhileRestricted(a, "terminate", "terminate", "idle", "idle")

\* Firestore::ClearPersistence().
ClearPersistence(a) ==
    /\ "ClearPersistence" \in Calls /\ Room
    /\ EnqueueEvenWhileRestricted(a, "clear", "idle", "idle", "idle")

\* Every call of the API begins with EnsureClientConfigured(), which locks
\* Firestore::mutex_ to look at a client that exists here already: the thread
\* waits for the mutex...
EnsureClientConfigured(a) ==
    /\ "EnsureClientConfigured" \in Calls
    /\ Goto(a, "idle", "ensure")
    /\ UNCHANGED <<mutex, mode, disposed, tasks, schedule, task, ready,
                   delayed, running, timer, terminated, signalled, arg, todo,
                   user, returned>>

\* ... and has it for an instant.
ClientConfigured(a) ==
    /\ Free("api")
    /\ Goto(a, "ensure", "idle")
    /\ UNCHANGED <<mutex, mode, disposed, tasks, schedule, task, ready,
                   delayed, running, timer, terminated, signalled, arg, todo,
                   user, returned>>

-----------------------------------------------------------------------------
(* Firestore::Dispose(): FirestoreClient::Dispose() with mutex_ locked.    *)

\* The call is made: the thread waits for mutex_, whoever holds it.
DisposeCall(a) ==
    /\ "Dispose" \in Calls
    /\ Goto(a, "idle", "lock")
    /\ UNCHANGED <<mutex, mode, disposed, tasks, schedule, task, ready,
                   delayed, running, timer, terminated, signalled, arg, todo,
                   user, returned>>

Dispose(a) ==
    /\ Free("api")
    /\ Goto(a, "lock", "restrict")
    /\ mutex' = [mutex EXCEPT !.api = a]
    /\ UNCHANGED <<mode, disposed, tasks, schedule, task, ready, delayed,
                   running, timer, terminated, signalled, arg, todo, user,
                   returned>>

DisposeRestrict(a) ==
    EnterRestrictedMode(a, "restrict", "enqueue") /\ UNCHANGED mutex

DisposeEnqueue(a) ==
    EnqueueEvenWhileRestricted(a, "dispose", "enqueue", "wait", "stop")

\* Mutant: the future is not waited for.
DisposeWaitNot(a) ==
    /\ Goto(a, "wait", "stop")
    /\ UNCHANGED <<mutex, mode, disposed, tasks, schedule, task, ready,
                   delayed, running, timer, terminated, signalled, arg, todo,
                   user, returned>>

\* signal_disposing.get_future().wait()
DisposeWait(a) ==
    /\ a \in signalled
    /\ Goto(a, "wait", "stop")
    /\ UNCHANGED <<mutex, mode, disposed, tasks, schedule, task, ready,
                   delayed, running, timer, terminated, signalled, arg, todo,
                   user, returned>>

\* AsyncQueue::Dispose().
DisposeQueue(a) ==
    /\ Free("queue")
    /\ Goto(a, "stop", "swap")
    /\ mode' = "Disposed"
    /\ UNCHANGED <<mutex, disposed, tasks, schedule, task, ready, delayed,
                   running, timer, terminated, signalled, arg, todo, user,
                   returned>>

\* ExecutorLibdispatch::Dispose(): the critical section...
DisposeSwap(a) ==
    /\ Goto(a, "swap", "cancel")
    /\ disposed' = TRUE
    /\ todo' = [todo EXCEPT ![a] = tasks]
    /\ tasks' = {}
    /\ schedule' = {}
    /\ UNCHANGED <<mutex, mode, task, ready, delayed, running, timer,
                   terminated, signalled, arg, user, returned>>

\* ... and the loop over local_tasks, in any order.
DisposeCancel(a, t) ==
    /\ pc[a] = "cancel" /\ t \in todo[a]
    /\ IF task[t].state = "Running"
       THEN /\ Goto(a, "cancel", "await")
            /\ arg' = [arg EXCEPT ![a] = t]
            /\ task' = [task EXCEPT ![t] = Cancelled(@)]
            /\ UNCHANGED todo
       ELSE /\ Goto(a, "cancel", "cancel")
            /\ task' = [task EXCEPT ![t] = Released(Cancelled(@), 1)]
            /\ todo' = [todo EXCEPT ![a] = @ \ {t}]
            /\ UNCHANGED arg
    /\ UNCHANGED <<mutex, mode, disposed, tasks, schedule, ready, delayed,
                   running, timer, terminated, signalled, user, returned>>

\* AwaitLocked() returns.
DisposeAwait(a) ==
    LET t == arg[a]
    IN  /\ Goto(a, "await", "cancel")
        /\ task[t].state \in {"Cancelled", "Done"}
        /\ task' = [task EXCEPT ![t] = Released(@, 1)]
        /\ todo' = [todo EXCEPT ![a] = @ \ {t}]
        /\ arg' = [arg EXCEPT ![a] = 0]
        /\ UNCHANGED <<mutex, mode, disposed, tasks, schedule, ready,
                       delayed, running, timer, terminated, signalled, user,
                       returned>>

\* user_executor_->Dispose(): callbacks that have not begun never run; the
\* first Dispose() waits for one that runs on another thread.
DisposeUserExecutor(a) ==
    LET waits == ~user.disposed /\ user.runner \notin {None, a}
    IN  /\ todo[a] = {}
        /\ Goto(a, "cancel", IF waits THEN "join" ELSE "leave")
        /\ user' = [user EXCEPT !.disposed = TRUE, !.pending = 0]
        /\ UNCHANGED <<mutex, mode, disposed, tasks, schedule, task, ready,
                       delayed, running, timer, terminated, signalled, arg,
                       todo, returned>>

DisposeReturn(a) ==
    /\ pc[a] = "leave" \/ (pc[a] = "join" /\ user.runner = None)
    /\ Goto(a, pc[a], "idle")
    /\ mutex' = [mutex EXCEPT !.api = None]
    /\ returned' = TRUE
    /\ UNCHANGED <<mode, disposed, tasks, schedule, task, ready, delayed,
                   running, timer, terminated, signalled, arg, todo, user>>

-----------------------------------------------------------------------------
(* Callbacks of the application, on the serial queue of the user executor. *)
(* A thread that runs one may make any of the calls above.                 *)

\* user_executor_->Execute() in the last part of an operation that has a
\* callback; a disposed executor drops it.
ExecuteCallback ==
    /\ pc[Worker] = "end"
    /\ task[running].kind \in {"work", "terminate", "clear"}
    /\ ~user.disposed
    /\ user.pending < MaxCallbacks
    /\ user' = [user EXCEPT !.pending = @ + 1]
    /\ UNCHANGED <<mutex, mode, disposed, tasks, schedule, task, ready,
                   delayed, running, timer, terminated, signalled, pc, arg,
                   todo, returned>>

RunCallback(a) ==
    /\ pc[a] = "idle"
    /\ user.runner = None /\ user.pending > 0
    /\ user' = [user EXCEPT !.pending = @ - 1, !.runner = a]
    /\ UNCHANGED <<mutex, mode, disposed, tasks, schedule, task, ready,
                   delayed, running, timer, terminated, signalled, pc, arg,
                   todo, returned>>

EndCallback(a) ==
    /\ pc[a] = "idle"
    /\ user.runner = a
    /\ user' = [user EXCEPT !.runner = None]
    /\ UNCHANGED <<mutex, mode, disposed, tasks, schedule, task, ready,
                   delayed, running, timer, terminated, signalled, pc, arg,
                   todo, returned>>

-----------------------------------------------------------------------------
(* The dispatch queue (external) and Task::ExecuteAndRelease().            *)

\* dispatch_after_f(): the task becomes due.
Elapse(t) ==
    /\ t \in delayed
    /\ delayed' = delayed \ {t}
    /\ ready' = Append(ready, t)
    /\ UNCHANGED <<mutex, mode, disposed, tasks, schedule, task, running,
                   timer, terminated, signalled, pc, arg, todo, user,
                   returned>>

\* InvokeAsync()
Invoke ==
    /\ ready # <<>>
    /\ Goto(Worker, "idle", "invoke")
    /\ running' = Head(ready)
    /\ ready' = Tail(ready)
    /\ UNCHANGED <<mutex, mode, disposed, tasks, schedule, task, delayed,
                   timer, terminated, signalled, arg, todo, user, returned>>

\* Where the operation of a task begins.
Entry(kind) == CASE kind \in {"work", "timer"} -> "op"
                 [] kind = "terminate" -> "terminate"
                 [] kind = "dispose" -> "signal"
                 [] kind = "clear" -> "clear"

\* Mutant: ExecuteAndRelease() does not look at state_.
ExecuteRegardless ==
    LET k == task[running]
    IN  /\ Goto(Worker, "invoke", Entry(k.kind))
        /\ task' = [task EXCEPT ![running].state = "Running"]
        /\ UNCHANGED <<mutex, mode, disposed, tasks, schedule, ready,
                       delayed, running, timer, terminated, signalled, arg,
                       todo, user, returned>>

\* The first critical section of ExecuteAndRelease(): a cancelled task is
\* only released.
Execute ==
    LET k == task[running]
    IN  /\ pc[Worker] = "invoke"
        /\ IF k.state = "Initial"
           THEN /\ Goto(Worker, "invoke", Entry(k.kind))
                /\ task' = [task EXCEPT ![running].state = "Running"]
                /\ UNCHANGED running
           ELSE /\ Goto(Worker, "invoke", "idle")
                /\ task' = [task EXCEPT ![running] = Released(@, 1)]
                /\ running' = 0
        /\ UNCHANGED <<mutex, mode, disposed, tasks, schedule, ready,
                       delayed, timer, terminated, signalled, arg, todo,
                       user, returned>>

\* The second one, with ExecutorLibdispatch::OnCompletion() and the final
\* Release().
Complete ==
    LET found == task[running].executor /\ running \in tasks
        done  == [task[running] EXCEPT !.state = "Done"]
    IN  /\ Goto(Worker, "end", "idle")
        /\ task' = [task EXCEPT ![running] =
                      Released(done, IF found THEN 2 ELSE 1)]
        /\ tasks' = IF found THEN tasks \ {running} ELSE tasks
        /\ schedule' = IF found THEN schedule \ {running} ELSE schedule
        /\ running' = 0
        /\ UNCHANGED <<mutex, mode, disposed, ready, delayed, timer,
                       terminated, signalled, arg, todo, user, returned>>

-----------------------------------------------------------------------------
(* Operations.  Ordinary work makes at most one of the calls below.        *)

Work ==
    /\ Goto(Worker, "op", "end")
    /\ UNCHANGED <<mutex, mode, disposed, tasks, schedule, task, ready,
                   delayed, running, timer, terminated, signalled, arg, todo,
                   user, returned>>

\* EnqueueRelaxed() from an operation.
WorkEnqueues ==
    /\ Room
    /\ Free("queue")
    /\ mode = "Running"
    /\ Submit(Worker, "work", TRUE, "op", "end")
    /\ UNCHANGED <<mode, disposed, ready, delayed, running, timer,
                   terminated, signalled, todo, user, returned>>

\* EnqueueAfterDelay(), as ScheduleLruGarbageCollection() calls it: first
\* from Initialize(), then from the operation it scheduled.
EnqueueAfterDelay ==
    /\ Room
    /\ Free("queue")
    /\ timer \in {0, running}
    /\ IF mode = "Running"
       THEN /\ Submit(Worker, "timer", FALSE, "op", "end")
            /\ timer' = Len(task) + 1
       ELSE /\ Goto(Worker, "op", "end")
            /\ timer' = 0
            /\ UNCHANGED <<mutex, tasks, schedule, task, arg>>
    /\ UNCHANGED <<mode, disposed, ready, delayed, running, terminated,
                   signalled, todo, user, returned>>

\* Mutant: the task stays in tasks_.
FindTimerKeepsTask ==
    IF timer \in schedule
    THEN /\ schedule' = schedule \ {timer}
         /\ arg' = [arg EXCEPT ![Worker] = timer]
         /\ pc' = [pc EXCEPT ![Worker] = "drop"]
         /\ UNCHANGED tasks
    ELSE /\ pc' = [pc EXCEPT ![Worker] = "end"]
         /\ UNCHANGED <<tasks, schedule, arg>>

\* The critical section of ExecutorLibdispatch::Cancel().
FindTimer ==
    IF timer \in schedule
    THEN /\ tasks' = tasks \ {timer}
         /\ schedule' = schedule \ {timer}
         /\ arg' = [arg EXCEPT ![Worker] = timer]
         /\ pc' = [pc EXCEPT ![Worker] = "drop"]
    ELSE /\ pc' = [pc EXCEPT ![Worker] = "end"]
         /\ UNCHANGED <<tasks, schedule, arg>>

\* DelayedOperation::Cancel() from an operation.
CancelTimer ==
    /\ pc[Worker] = "op"
    /\ FindTimer
    /\ UNCHANGED <<mutex, mode, disposed, task, ready, delayed, running,
                   timer, terminated, signalled, todo, user, returned>>

\* Task::Cancel() on the worker, which never waits: no other task is running.
CancelFound ==
    LET t == arg[Worker]
    IN  /\ Goto(Worker, "drop", "end")
        /\ task' = [task EXCEPT ![t] = Released(Cancelled(@), 1)]
        /\ arg' = [arg EXCEPT ![Worker] = 0]
        /\ UNCHANGED <<mutex, mode, disposed, tasks, schedule, ready,
                       delayed, running, timer, terminated, signalled, todo,
                       user, returned>>

\* DelayedOperation::operator bool(): IsIdScheduled() retains the task...
IsIdScheduled ==
    /\ timer \in schedule
    /\ Goto(Worker, "op", "check")
    /\ task' = [task EXCEPT ![timer].refs = @ + 1]
    /\ arg' = [arg EXCEPT ![Worker] = timer]
    /\ UNCHANGED <<mutex, mode, disposed, tasks, schedule, ready, delayed,
                   running, timer, terminated, signalled, todo, user,
                   returned>>

\* ... and releases it after AwaitIfRunning(), which does not wait here.
AwaitIfRunning ==
    LET t == arg[Worker]
    IN  /\ Goto(Worker, "check", "end")
        /\ task' = [task EXCEPT ![t] = Released(@, 1)]
        /\ arg' = [arg EXCEPT ![Worker] = 0]
        /\ UNCHANGED <<mutex, mode, disposed, tasks, schedule, ready,
                       delayed, running, timer, terminated, signalled, todo,
                       user, returned>>

\* Mutant: the promise is never fulfilled.
SignalDisposingNever ==
    /\ Goto(Worker, "signal", "terminate")
    /\ UNCHANGED <<mutex, mode, disposed, tasks, schedule, task, ready,
                   delayed, running, timer, terminated, signalled, arg, todo,
                   user, returned>>

\* The operation of FirestoreClient::Dispose() begins.
SignalDisposing ==
    /\ Goto(Worker, "signal", "terminate")
    /\ signalled' = signalled \cup {task[running].owner}
    /\ UNCHANGED <<mutex, mode, disposed, tasks, schedule, task, ready,
                   delayed, running, timer, terminated, arg, todo, user,
                   returned>>

\* FirestoreClient::TerminateInternal().
TerminateInternal ==
    /\ pc[Worker] = "terminate"
    /\ IF terminated
       THEN /\ pc' = [pc EXCEPT ![Worker] = "end"]
            /\ UNCHANGED <<tasks, schedule, arg>>
       ELSE FindTimer
    /\ terminated' = TRUE
    /\ UNCHANGED <<mutex, mode, disposed, task, ready, delayed, running,
                   timer, signalled, todo, user, returned>>

\* The operation of ClearPersistence() locks Firestore::mutex_ and, in
\* is_terminated(), AsyncQueue's.
ClearPersistenceOp ==
    /\ Free("api") /\ Free("queue")
    /\ Goto(Worker, "clear", "end")
    /\ UNCHANGED <<mutex, mode, disposed, tasks, schedule, task, ready,
                   delayed, running, timer, terminated, signalled, arg, todo,
                   user, returned>>

-----------------------------------------------------------------------------
Init ==
    /\ mutex = [queue |-> None, api |-> None]
    /\ mode = "Running"
    /\ disposed = FALSE
    /\ tasks = {} /\ schedule = {} /\ task = <<>>
    /\ ready = <<>> /\ delayed = {} /\ running = 0
    /\ timer = 0 /\ terminated = FALSE /\ signalled = {}
    /\ pc = [th \in All |-> "idle"]
    /\ arg = [th \in All |-> 0]
    /\ todo = [a \in Threads |-> {}]
    /\ user = [disposed |-> FALSE, pending |-> 0, runner |-> None]
    /\ returned = FALSE

\* What a thread does to complete the calls it has begun.
Continue(a) ==
    \/ Retain(a)
    \/ TerminateEnqueue(a)
    \/ ClientConfigured(a)
    \/ Dispose(a)
    \/ DisposeRestrict(a)
    \/ DisposeEnqueue(a)
    \/ DisposeWait(a)
    \/ DisposeQueue(a)
    \/ DisposeSwap(a)
    \/ \E t \in todo[a] : DisposeCancel(a, t)
    \/ DisposeAwait(a)
    \/ DisposeUserExecutor(a)
    \/ DisposeReturn(a)

\* What the dispatch queue does with its tasks.
Serve ==
    \/ Invoke
    \/ Execute
    \/ Work
    \/ WorkEnqueues
    \/ EnqueueAfterDelay
    \/ CancelTimer
    \/ CancelFound
    \/ IsIdScheduled
    \/ AwaitIfRunning
    \/ SignalDisposing
    \/ TerminateInternal
    \/ ClearPersistenceOp
    \/ Retain(Worker)
    \/ Complete

Next ==
    \/ \E a \in Threads : Enqueue(a)
    \/ \E a \in Threads : TerminateAsync(a)
    \/ \E a \in Threads : ClearPersistence(a)
    \/ \E a \in Threads : EnsureClientConfigured(a)
    \/ \E a \in Threads : DisposeCall(a)
    \/ \E a \in Threads : Continue(a)
    \/ ExecuteCallback
    \/ \E a \in Threads : RunCallback(a)
    \/ \E a \in Threads : EndCallback(a)
    \/ \E t \in delayed : Elapse(t)
    \/ Serve

Spec == Init /\ [][Next]_vars

\* Threads are scheduled, libdispatch runs what it was given, and a callback,
\* which may make calls, ends when they return.
FairSpec ==
    /\ Spec
    /\ \A a \in Threads : WF_vars(Continue(a)) /\ SF_vars(EndCallback(a))
    /\ WF_vars(Serve)

-----------------------------------------------------------------------------
(* Properties                                                              *)

TaskIds == 1..Len(task)

\* Every variable has the type its declaration says.
WorkerTypeOK ==
    /\ mutex \in [queue : All \cup {None}, api : Threads \cup {None}]
    /\ mode \in {"Running", "Restricted", "Disposed"}
    /\ disposed \in BOOLEAN /\ terminated \in BOOLEAN /\ returned \in BOOLEAN
    /\ schedule \subseteq tasks /\ tasks \subseteq TaskIds
    /\ \A t \in TaskIds :
          task[t] \in [state : {"Initial", "Cancelled", "Running", "Done"},
                       refs : Nat, executor : BOOLEAN, owner : All,
                       kind : {"work", "timer", "terminate", "dispose", "clear"},
                       immediate : BOOLEAN, after : {"idle", "wait", "end"}]
    /\ \A i \in 1..Len(ready) : ready[i] \in TaskIds
    /\ delayed \subseteq TaskIds
    /\ running \in TaskIds \cup {0} /\ timer \in TaskIds \cup {0}
    /\ signalled \subseteq Threads
    /\ \A th \in All : arg[th] \in TaskIds \cup {0}
    /\ \A a \in Threads : todo[a] \subseteq TaskIds
    /\ user \in [disposed : BOOLEAN, pending : Nat, runner : Threads \cup {None}]

\* Who owns a reference to task t: the executor while t is in tasks_,
\* libdispatch until it has run t, and a thread that took t over from tasks_
\* or retained it.
Owners(t) ==
    {o \in {"executor"} : t \in tasks} \cup
    {o \in {"libdispatch"} : \/ t \in delayed \cup {running}
                             \/ \E i \in 1..Len(ready) : ready[i] = t} \cup
    {a \in Threads : t \in todo[a]} \cup
    {w \in {Worker} : pc[w] \in {"drop", "check"} /\ arg[w] = t}

\* The reference count of every task is the number of its owners, so that it
\* is freed once and not before the last of them is done with it, and a task
\* that Execute() or Schedule() is about to retain has not been freed by a
\* concurrent Dispose().
TasksAreOwned ==
    /\ \A t \in TaskIds : task[t].refs = Cardinality(Owners(t))
    /\ \A th \in All : pc[th] = "retain" => task[arg[th]].refs > 0

\* "The Executor guarantees that this operation will either execute before
\* `Dispose` completes or not at all" (AsyncQueue::Wrap()): when Dispose() has
\* returned, no task is running or will ever run or call the executor back, and
\* no callback of the application begins.
NothingRunsAfterDispose ==
    returned =>
      /\ \A t \in TaskIds : task[t].refs > 0 =>
           task[t].state \in {"Cancelled", "Done"}
      /\ user.pending = 0

\* No ordinary operation runs once TerminateInternal() has reset the remote
\* store and the local store that it would use.
NoWorkAfterTermination ==
    pc[Worker] = "op" /\ task[running].kind = "work" => ~terminated

\* An operation that Enqueue() accepted is never cancelled, not even by a
\* Dispose() that comes before it has run.
AcceptedWorkIsNotDropped ==
    \A t \in TaskIds : task[t].kind = "work" => task[t].state # "Cancelled"

\* The operation of ClearPersistence() waits for Firestore::mutex_ while a
\* Dispose() holds that mutex and waits for the queue: neither ever goes on.
BlockedByClear == pc[Worker] = "clear" /\ mutex.api # None

\* A callback of the application waits for Firestore::mutex_ while a Dispose()
\* holds that mutex and waits for the callback to end.
BlockedByCallback ==
    /\ user.runner # None /\ pc[user.runner] \in {"ensure", "lock"}
    /\ mutex.api # None /\ pc[mutex.api] = "join"

Disposing == {"restrict", "enqueue", "wait", "stop", "swap", "cancel", "await",
              "join", "leave"}

\* A Dispose() that has Firestore::mutex_ returns, whatever the queues and the
\* other threads are doing, with two exceptions: an operation of
\* ClearPersistence() that runs at the same time, and a callback that runs at
\* the same time and calls into Firestore.
DisposeReturns ==
    \A a \in Threads :
        pc[a] \in Disposing
            ~> (pc[a] = "idle" \/ BlockedByClear \/ BlockedByCallback)

\* Every operation that Enqueue() accepted is eventually executed, unless the
\* queue hangs in an operation of ClearPersistence().
AcceptedWorkRuns ==
    \A t \in 1..MaxTasks :
        (t \in TaskIds /\ task[t].kind = "work") ~>
        ((t \in TaskIds /\ task[t].state = "Done") \/ BlockedByClear)
=============================================================================
