------------------------------- MODULE Strand -------------------------------
(***************************************************************************)
(* IStrandImpl (include/runtime/strand_impl.hpp), the asynchronous mutex   *)
(* under AsyncMutex and PacketBatcher: any thread may hand it a task, and  *)
(* the tasks run one at a time, in batches, on a thread of the underlying  *)
(* executor.                                                               *)
(*                                                                         *)
(* tasks_ is taken at the level of its two operations (BatchedLFQueue).    *)
(* The strand is itself an intrusive task, so being queued twice in the    *)
(* executor would corrupt the executor's list.  A task that itself submits *)
(* to the strand is a producer like any other.  The executor accepts what  *)
(* it is given: a pool whose queue is closed drops it (ThreadPool), and    *)
(* what was handed to the strand then stays where it is.                   *)
(***************************************************************************)
EXTENDS Integers, Sequences, FiniteSets

CONSTANTS
  Producer,   \* threads that call Process
  Worker,     \* threads of the underlying executor
  MaxCalls    \* calls of Process per producer

ASSUME ProducerAssumption == IsFiniteSet(Producer)
ASSUME WorkerAssumption == IsFiniteSet(Worker) /\ Worker # {}
ASSUME MaxCallsAssumption == MaxCalls \in Nat

VARIABLES
  tasks,      \* tasks_, oldest first
  submitted,  \* submitted_
  refs,       \* refs_ of RefCounted
  freed,      \* the implementation object has been deleted
  owned,      \* the AsyncMutex or PacketBatcher that owns it still exists
  scheduled,  \* entries of the strand in the executor's queue
  ppc,        \* where each producer is inside Process
  calls,      \* calls of Process made by each producer
  wpc,        \* where each worker is inside Task
  batch,      \* the rest of the batch a worker is processing
  num_tasks,  \* tasks of that batch already processed
  executed    \* tasks in the order in which they ran

poolVars == <<scheduled, wpc, batch, num_tasks, executed>>
vars == <<tasks, submitted, refs, freed, owned, ppc, calls, poolVars>>

\* The k-th task of producer p.
Task == Producer \X (1 .. MaxCalls)

Init ==
  /\ tasks = <<>>
  /\ submitted = 0
  /\ refs = 1
  /\ freed = FALSE
  /\ owned = TRUE
  /\ scheduled = 0
  /\ ppc = [p \in Producer |-> "idle"]
  /\ calls = [p \in Producer |-> 0]
  /\ wpc = [w \in Worker |-> "idle"]
  /\ batch = [w \in Worker |-> <<>>]
  /\ num_tasks = [w \in Worker |-> 0]
  /\ executed = <<>>

-----------------------------------------------------------------------------
\* Process, first statement: tasks_.Push.
Push(p) ==
  /\ owned
  /\ ppc[p] = "idle"
  /\ calls[p] < MaxCalls
  /\ calls' = [calls EXCEPT ![p] = @ + 1]
  /\ tasks' = Append(tasks, <<p, calls[p] + 1>>)
  /\ ppc' = [ppc EXCEPT ![p] = "pushed"]
  /\ UNCHANGED <<submitted, refs, freed, owned, poolVars>>

\* Faulty: a counter that is still negative schedules the strand, too.
NoneSubmitted == submitted <= 0

FirstSubmitted == submitted = 0

\* submitted_.fetch_add(1): whoever finds 0 schedules the strand.
FetchAdd(p) ==
  /\ ppc[p] = "pushed"
  /\ submitted' = submitted + 1
  /\ ppc' = [ppc EXCEPT ![p] = IF FirstSubmitted THEN "submit" ELSE "idle"]
  /\ UNCHANGED <<tasks, refs, freed, owned, calls, poolVars>>

\* Faulty: the queue entry holds no reference.
NoRefer == refs' = refs

Refer == refs' = refs + 1

\* Refer and underlying_->Execute(this).
Submit(p) ==
  /\ ppc[p] = "submit"
  /\ Refer
  /\ scheduled' = scheduled + 1
  /\ ppc' = [ppc EXCEPT ![p] = "idle"]
  /\ UNCHANGED <<tasks, submitted, freed, owned, calls, wpc, batch, num_tasks, executed>>

Queued == scheduled > 0

\* A worker takes the strand from the executor's queue and enters Task.
Start(w) ==
  /\ wpc[w] = "idle"
  /\ Queued
  /\ scheduled' = scheduled - 1
  /\ wpc' = [wpc EXCEPT ![w] = "pop"]
  /\ UNCHANGED <<tasks, submitted, refs, freed, owned, ppc, calls, batch, num_tasks, executed>>

\* Faulty: the order of the stack, newest first.
NewestFirst == [i \in DOMAIN tasks |-> tasks[Len(tasks) + 1 - i]]

OldestFirst == tasks

\* tasks_.TryPopAll; an empty batch ends Task without Derefer.
TryPopAll(w) ==
  /\ wpc[w] = "pop"
  /\ tasks' = <<>>
  /\ batch' = [batch EXCEPT ![w] = OldestFirst]
  /\ num_tasks' = [num_tasks EXCEPT ![w] = 0]
  /\ wpc' = [wpc EXCEPT ![w] = IF tasks = <<>> THEN "idle" ELSE "process"]
  /\ UNCHANGED <<submitted, refs, freed, owned, ppc, calls, scheduled, executed>>

\* Faulty: the processed task is not counted.
NotCounted(n) == n

OneCounted(n) == n + 1

\* ProcessBatch: one turn of its loop.
ProcessOne(w) ==
  /\ wpc[w] = "process"
  /\ batch[w] # <<>>
  /\ executed' = Append(executed, Head(batch[w]))
  /\ batch' = [batch EXCEPT ![w] = Tail(@)]
  /\ num_tasks' = [num_tasks EXCEPT ![w] = OneCounted(@)]
  /\ UNCHANGED <<tasks, submitted, refs, freed, owned, ppc, calls, scheduled, wpc>>

\* Faulty: Task leaves without looking for more work.
NoMoreCame(w) == FALSE

MoreCame(w) == submitted > num_tasks[w]

\* submitted_.fetch_sub(num_tasks): more than that means more work has come.
FetchSub(w) ==
  /\ wpc[w] = "process"
  /\ batch[w] = <<>>
  /\ submitted' = submitted - num_tasks[w]
  /\ wpc' = [wpc EXCEPT ![w] = IF MoreCame(w) THEN "resubmit" ELSE "derefer"]
  /\ num_tasks' = [num_tasks EXCEPT ![w] = 0]
  /\ UNCHANGED <<tasks, refs, freed, owned, ppc, calls, scheduled, batch, executed>>

\* Refer and underlying_->Execute(this), from inside Task.
Resubmit(w) ==
  /\ wpc[w] = "resubmit"
  /\ Refer
  /\ scheduled' = scheduled + 1
  /\ wpc' = [wpc EXCEPT ![w] = "derefer"]
  /\ UNCHANGED <<tasks, submitted, freed, owned, ppc, calls, batch, num_tasks, executed>>

\* Derefer: the last reference deletes the object.
DropReference ==
  /\ refs' = refs - 1
  /\ freed' = (freed \/ refs = 1)

Derefer(w) ==
  /\ wpc[w] = "derefer"
  /\ DropReference
  /\ wpc' = [wpc EXCEPT ![w] = "idle"]
  /\ UNCHANGED <<tasks, submitted, owned, ppc, calls, scheduled, batch, num_tasks, executed>>

\* ~AsyncMutex / ~PacketBatcher, once no thread is inside a call on it.
Release ==
  /\ owned
  /\ \A p \in Producer : ppc[p] = "idle"
  /\ owned' = FALSE
  /\ DropReference
  /\ UNCHANGED <<tasks, submitted, ppc, calls, poolVars>>

Process(p) == Push(p) \/ FetchAdd(p) \/ Submit(p)

RunTask(w) ==
  \/ Start(w) \/ TryPopAll(w) \/ ProcessOne(w)
  \/ FetchSub(w) \/ Resubmit(w) \/ Derefer(w)

Next ==
  \/ \E p \in Producer : Process(p)
  \/ \E w \in Worker : RunTask(w)
  \/ Release

Spec == Init /\ [][Next]_vars

\* A thread inside Process finishes it, and the executor runs what is queued.
FairSpec ==
  /\ Spec
  /\ \A p \in Producer : WF_vars(FetchAdd(p) \/ Submit(p))
  /\ \A w \in Worker : WF_vars(RunTask(w))

-----------------------------------------------------------------------------
\* The types of the strand's fields and of the threads' program counters.
TypeOK ==
  /\ tasks \in Seq(Task)
  /\ submitted \in Int
  /\ refs \in Int
  /\ freed \in BOOLEAN
  /\ owned \in BOOLEAN
  /\ scheduled \in Nat
  /\ ppc \in [Producer -> {"idle", "pushed", "submit"}]
  /\ calls \in [Producer -> 0 .. MaxCalls]
  /\ wpc \in [Worker -> {"idle", "pop", "process", "resubmit", "derefer"}]
  /\ batch \in [Worker -> Seq(Task)]
  /\ num_tasks \in [Worker -> Nat]
  /\ executed \in Seq(Task)

Pushed == {p \in Producer : ppc[p] = "pushed"}
Submitting == {p \in Producer : ppc[p] = "submit"}
Resubmitting == {w \in Worker : wpc[w] = "resubmit"}
Running == {w \in Worker : wpc[w] \in {"pop", "process"}}
InTask == {w \in Worker : wpc[w] # "idle"}

OwnerRefs == IF owned THEN 1 ELSE 0

\* Somebody has taken on the duty to run what is in tasks_.
Duties ==
  Cardinality(Submitting) + Cardinality(Resubmitting) + scheduled + Cardinality(Running)

\* The strand is a mutex: it is never queued twice in the executor (its
\* intrusive node could not stand it), and no two workers are in TryPopAll or
\* ProcessBatch at once.
AtMostOneRun == Duties <= 1

\* submitted_ counts what is queued or being processed, less the tasks whose
\* producers have pushed but not yet counted; it may be negative for a while.
CounterExact ==
  \A w \in Worker :
    (\A v \in Worker \ {w} : wpc[v] # "process") =>
      submitted + Cardinality(Pushed) = Len(tasks) + Len(batch[w]) + num_tasks[w]

\* Task never meets an empty queue, so its early return, which would leak the
\* reference taken by Refer, is never taken.
BatchNeverEmpty == (\E w \in Worker : wpc[w] = "pop") => tasks # <<>>

\* A queued task is never forgotten: if nobody has the duty to run the strand,
\* a producer that has yet to count its push will take it.
NoLostTask == tasks # <<>> => Duties = 1 \/ Pushed # {}

\* The object is deleted only when no thread can touch it again and no task is
\* left in it; references are exactly its owner, its queue entry and its runs.
ReferencesExact ==
  /\ refs = OwnerRefs + scheduled + Cardinality(InTask)
  /\ freed <=> refs = 0
  /\ freed => tasks = <<>> /\ Submitting = {}

\* The tasks of one producer run once each and in the order it pushed them.
RunsInOrder ==
  \A p \in Producer : \A i, j \in DOMAIN executed :
    executed[i][1] = p /\ executed[j][1] = p /\ i < j => executed[i][2] < executed[j][2]

\* Every task handed to Process is eventually run, even if the owner goes away.
EveryTaskRuns ==
  \A t \in Task : calls[t[1]] >= t[2] ~> \E i \in DOMAIN executed : executed[i] = t
=============================================================================
