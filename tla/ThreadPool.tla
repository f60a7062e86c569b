----------------------------- MODULE ThreadPool -----------------------------
(* The thread pool (src/runtime/thread_pool.cpp) with its unbounded queue      *)
(* (include/concurrency/queue.hpp) and the wait group that counts its tasks    *)
(* (include/concurrency/wait_group.hpp, src/concurrency/futex.cpp).            *)
(*                                                                             *)
(* Clients hand tasks to Execute while the owner stops the pool with Wait,     *)
(* SignalStop and WaitForStop, as Runtime::Stop does, or with Shutdown.  A     *)
(* task may hand another one to Execute (a strand submits itself again).       *)
(* What happens under mutex_ is one step; a worker that sleeps on the          *)
(* condition variable and an owner that sleeps on the futex must be woken up.  *)
EXTENDS Integers, FiniteSets, Sequences

CONSTANTS
    Worker,
    Task,         \* tasks, each handed to Execute at most once
    NoTask,
    Spawned       \* per task: the task it hands to Execute, or NoTask

ASSUME PoolAssumption ==
    /\ IsFiniteSet(Worker) /\ IsFiniteSet(Task) /\ NoTask \notin Task
    /\ Spawned \in [Task -> Task \union {NoTask}]

VARIABLES
    buffer,       \* buffer_ of the queue
    is_closed,    \* is_closed_ of the queue
    pending,      \* counter_ of pending_tasks_
    dropped,      \* history: tasks that Clear dropped
    call,         \* per task: how far its Execute is
    worker,       \* per worker: where it is in Routine, and its task
    ran,          \* per task: how often it ran
    owner,        \* where the owner is
    futex,        \* inside Wait: the next step, and the counter it loaded
    awaited       \* tasks whose Execute had begun when the owner began to wait

queue == <<buffer, is_closed, dropped>>
waiting == <<owner, futex, awaited>>
vars == <<queue, pending, call, worker, ran, waiting>>

At(state, task) == [state |-> state, task |-> task]
Loop == [at |-> "load", count |-> 0]

Init ==
    /\ buffer = <<>> /\ is_closed = FALSE
    /\ pending = 0 /\ dropped = 0
    /\ call = [t \in Task |-> "new"]
    /\ worker = [w \in Worker |-> At("take", NoTask)]
    /\ ran = [t \in Task |-> 0]
    /\ owner = "running" /\ futex = Loop /\ awaited = {}

----------------------------------------------------------------------------
(* Execute.                                                                  *)

FromClients == Task \ {Spawned[t] : t \in Task}

\* pending_tasks_.Add()
Add(t) ==
    /\ t \in FromClients /\ call[t] = "new"
    /\ call' = [call EXCEPT ![t] = "put"]
    /\ pending' = pending + 1
    /\ UNCHANGED <<queue, worker, ran, waiting>>

Sleeping == {w \in Worker : worker[w].state = "sleeping"}
Woken(ws) == [w \in Worker |-> IF w \in ws THEN At("take", NoTask) ELSE worker[w]]

\* notify_one: some worker that sleeps, if there is one.
NotifyOne == IF Sleeping = {} THEN worker' = worker
                              ELSE \E w \in Sleeping : worker' = Woken({w})

\* tasks_.Put(task), which a closed queue refuses.
Put(t) ==
    /\ call[t] = "put"
    /\ call' = [call EXCEPT ![t] = IF is_closed THEN "refused" ELSE "returned"]
    /\ IF is_closed THEN UNCHANGED <<buffer, worker>>
                    ELSE buffer' = Append(buffer, t) /\ NotifyOne
    /\ UNCHANGED <<is_closed, dropped, pending, ran, waiting>>

\* Done: the counter, and the wake-up if it was the last task.
DoneRefused(t) ==
    /\ call[t] = "refused"
    /\ pending' = pending - 1
    /\ call' = [call EXCEPT ![t] = IF pending = 1 THEN "wake" ELSE "returned"]
    /\ UNCHANGED <<queue, worker, ran, waiting>>

WakeAll == futex' = IF futex.at = "asleep" THEN Loop ELSE futex

WakeRefused(t) ==
    /\ call[t] = "wake"
    /\ call' = [call EXCEPT ![t] = "returned"]
    /\ WakeAll
    /\ UNCHANGED <<queue, pending, worker, ran, owner, awaited>>

----------------------------------------------------------------------------
(* Routine.                                                                  *)

Leaves == is_closed /\ buffer = <<>>

\* A plausible mistake: the front of the queue is read and not removed.
FrontIsKept == buffer

BufferAfterTake == IF buffer = <<>> THEN <<>> ELSE Tail(buffer)

\* Take: the worker leaves, sleeps, or takes the front of the queue.
Take(w) ==
    /\ worker[w].state = "take"
    /\ worker' = [worker EXCEPT ![w] =
                    IF Leaves THEN At("left", NoTask)
                    ELSE IF buffer = <<>> THEN At("sleeping", NoTask)
                    ELSE At("run", Head(buffer))]
    /\ buffer' = BufferAfterTake
    /\ UNCHANGED <<is_closed, dropped, pending, call, ran, waiting>>

\* A plausible mistake: a task that comes from a worker is not counted.
SpawnNotCounted(spawns) == pending

CountAfterSpawn(spawns) == IF spawns THEN pending + 1 ELSE pending

\* task->Task(), which may begin an Execute of its own.
RunTask(w) ==
    LET t == worker[w].task
        spawns == Spawned[t] # NoTask
    IN  /\ worker[w].state = "run"
        /\ ran' = [ran EXCEPT ![t] = @ + 1]
        /\ call' = IF spawns THEN [call EXCEPT ![Spawned[t]] = "put"] ELSE call
        /\ pending' = CountAfterSpawn(spawns)
        /\ worker' = [worker EXCEPT ![w].state = "running"]
        /\ UNCHANGED <<queue, waiting>>

\* The task returns when the Execute it called has returned.
Returned(t) == Spawned[t] # NoTask => call[Spawned[t]] = "returned"

Done(w) ==
    /\ worker[w].state = "running" /\ Returned(worker[w].task)
    /\ pending' = pending - 1
    /\ worker' = [worker EXCEPT ![w] = At(IF pending = 1 THEN "wake" ELSE "take", NoTask)]
    /\ UNCHANGED <<queue, call, ran, waiting>>

Wake(w) ==
    /\ worker[w].state = "wake"
    /\ worker' = [worker EXCEPT ![w] = At("take", NoTask)]
    /\ WakeAll
    /\ UNCHANGED <<queue, pending, call, ran, owner, awaited>>

----------------------------------------------------------------------------
(* The owner.                                                                *)

BeginWait ==
    /\ owner = "running"
    /\ owner' = "wait"
    /\ awaited' = {t \in Task : call[t] # "new"}
    /\ UNCHANGED <<queue, pending, call, worker, ran, futex>>

\* The loop of Wait: the counter is loaded; Wait returns when it is zero.
Load ==
    /\ owner \in {"wait", "wait again"} /\ futex.at = "load"
    /\ futex' = IF pending = 0 THEN Loop ELSE [at |-> "compare", count |-> pending]
    /\ owner' = IF pending # 0 THEN owner ELSE IF owner = "wait" THEN "close" ELSE "join"
    /\ UNCHANGED <<queue, pending, call, worker, ran, awaited>>

\* A plausible mistake: the wait does not compare the counter again.
NotCompared == TRUE

NotChanged == pending = futex.count

\* FUTEX_WAIT sleeps only if the counter still has the loaded value.
Compare ==
    /\ futex.at = "compare"
    /\ futex' = IF NotChanged THEN [futex EXCEPT !.at = "asleep"] ELSE Loop
    /\ UNCHANGED <<queue, pending, call, worker, ran, owner, awaited>>

\* SignalStop: Close, which wakes all workers.
SignalStop ==
    /\ owner = "close"
    /\ owner' = "wait again"
    /\ is_closed' = TRUE
    /\ worker' = Woken(Sleeping)
    /\ UNCHANGED <<buffer, dropped, pending, call, ran, futex, awaited>>

\* Shutdown: Clear drops the queued tasks without counting them as done.
Shutdown ==
    /\ owner = "running"
    /\ owner' = "join"
    /\ is_closed' = TRUE /\ buffer' = <<>> /\ dropped' = Len(buffer)
    /\ worker' = Woken(Sleeping)
    /\ UNCHANGED <<pending, call, ran, futex, awaited>>

Join ==
    /\ owner = "join"
    /\ \A w \in Worker : worker[w].state = "left"
    /\ owner' = "stopped"
    /\ UNCHANGED <<queue, pending, call, worker, ran, futex, awaited>>

\* The pool is stopped and nobody is inside Execute.
Finished == /\ owner = "stopped"
            /\ \A t \in Task : call[t] \in {"new", "returned"}
            /\ UNCHANGED vars

ExecuteStep(t) == Put(t) \/ DoneRefused(t) \/ WakeRefused(t)
WorkerStep(w) == Take(w) \/ RunTask(w) \/ Done(w) \/ Wake(w)
OwnerStep == Load \/ Compare \/ SignalStop \/ Join

Next ==
    \/ \E t \in Task : Add(t) \/ ExecuteStep(t)
    \/ \E w \in Worker : WorkerStep(w)
    \/ BeginWait \/ Shutdown \/ OwnerStep \/ Finished

Spec == Init /\ [][Next]_vars

\* The threads run: a call of Execute returns, a worker that is awake goes on,
\* and so does the owner once it has begun to stop the pool.
FairSpec ==
    /\ Spec
    /\ \A t \in Task : WF_vars(ExecuteStep(t))
    /\ \A w \in Worker : WF_vars(WorkerStep(w))
    /\ WF_vars(OwnerStep)

----------------------------------------------------------------------------
Counted == Cardinality({t \in Task : call[t] \in {"put", "refused"}})
Held == {w \in Worker : worker[w].state \in {"run", "running"}}

\* The wait group counts each task from before it is queued until it has run or
\* was refused, and no longer, while several threads are inside Execute and Done.
\* The tasks that Shutdown drops stay counted for good.
CountIsExact == pending = Counted + Len(buffer) + Cardinality(Held) + dropped

\* When Wait returns, every task that was handed to Execute before the owner
\* began to wait has run, and everything those tasks handed to Execute, too.
WaitMeansDone ==
    owner \in {"close", "wait again"} =>
        \A t \in awaited : /\ ran[t] = 1
                           /\ Spawned[t] # NoTask => ran[Spawned[t]] = 1

\* The owner that has begun to stop the pool comes to the end: no wake-up of the
\* condition variable or of the futex is lost.
StopReturns == owner \in {"wait", "join"} ~> owner = "stopped"
============================================================================
