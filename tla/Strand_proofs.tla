--------------------------- MODULE Strand_proofs ---------------------------
(***************************************************************************)
(* Proofs about Strand for any finite sets of producers and workers.       *)
(*                                                                         *)
(* None of the safety properties is inductive alone.  What carries them is *)
(* that somebody has the duty to run the strand exactly while submitted_   *)
(* is positive (DutyIffPositive), together with the exact meaning of the   *)
(* counter; mutual exclusion, the absence of empty batches and of lost     *)
(* tasks, and the safety of the last Derefer all follow from the two.      *)
(***************************************************************************)
EXTENDS Strand, FiniteSetTheorems, SequenceTheorems, TLAPS

\* Outside ProcessBatch a worker holds no part of a batch.
NothingHeld ==
  \A w \in Worker : wpc[w] # "process" => batch[w] = <<>> /\ num_tasks[w] = 0

DutyIffPositive == Duties = (IF submitted >= 1 THEN 1 ELSE 0)

References ==
  /\ refs = OwnerRefs + scheduled + Cardinality(InTask)
  /\ freed <=> refs = 0
  /\ ~owned => \A p \in Producer : ppc[p] = "idle"

IInv == TypeOK /\ NothingHeld /\ CounterExact /\ DutyIffPositive /\ References

-----------------------------------------------------------------------------
LEMMA CardAdd ==
  ASSUME NEW S, IsFiniteSet(S), NEW x, x \notin S
  PROVE  /\ IsFiniteSet(S \cup {x})
         /\ Cardinality(S \cup {x}) = Cardinality(S) + 1
BY FS_AddElement

LEMMA CardRemove ==
  ASSUME NEW S, IsFiniteSet(S), NEW x \in S
  PROVE  /\ IsFiniteSet(S \ {x})
         /\ Cardinality(S \ {x}) = Cardinality(S) - 1
BY FS_RemoveElement

LEMMA CardSubset ==
  ASSUME NEW S, IsFiniteSet(S), NEW T, T \subseteq S
  PROVE  IsFiniteSet(T) /\ Cardinality(T) \in Nat
<1>1. IsFiniteSet(T)
  BY FS_Subset
<1> QED BY <1>1, FS_CardinalityType

\* The sets of threads the counters range over are finite.
LEMMA FiniteThreads ==
  /\ IsFiniteSet(Pushed) /\ Cardinality(Pushed) \in Nat
  /\ IsFiniteSet(Submitting) /\ Cardinality(Submitting) \in Nat
  /\ IsFiniteSet(Resubmitting) /\ Cardinality(Resubmitting) \in Nat
  /\ IsFiniteSet(Running) /\ Cardinality(Running) \in Nat
  /\ IsFiniteSet(InTask) /\ Cardinality(InTask) \in Nat
<1>1. Pushed \subseteq Producer /\ Submitting \subseteq Producer
  BY DEF Pushed, Submitting
<1>2. Resubmitting \subseteq Worker /\ Running \subseteq Worker /\ InTask \subseteq Worker
  BY DEF Resubmitting, Running, InTask
<1> QED
  BY <1>1, <1>2, CardSubset, ProducerAssumption, WorkerAssumption

\* Every field has its type initially and keeps it in every step.
LEMMA InitType == Init => TypeOK
<1> USE MaxCallsAssumption
<1> SUFFICES ASSUME Init PROVE TypeOK
  OBVIOUS
<1>1. tasks \in Seq(Task) /\ executed \in Seq(Task) /\ batch \in [Worker -> Seq(Task)]
  BY DEF Init
<1>2. /\ submitted \in Int /\ refs \in Int /\ scheduled \in Nat
      /\ calls \in [Producer -> 0 .. MaxCalls] /\ num_tasks \in [Worker -> Nat]
  BY DEF Init
<1>3. /\ freed \in BOOLEAN /\ owned \in BOOLEAN
      /\ ppc \in [Producer -> {"idle", "pushed", "submit"}]
      /\ wpc \in [Worker -> {"idle", "pop", "process", "resubmit", "derefer"}]
  BY DEF Init
<1> QED BY <1>1, <1>2, <1>3 DEF TypeOK

LEMMA NextType == TypeOK /\ [Next]_vars => TypeOK'
<1> USE MaxCallsAssumption
<1> SUFFICES ASSUME TypeOK, [Next]_vars PROVE TypeOK'
  OBVIOUS
<1> USE DEF TypeOK
<1>1. ASSUME NEW p \in Producer, Push(p) PROVE TypeOK'
  <2>1. <<p, calls[p] + 1>> \in Task
    BY <1>1 DEF Push, Task
  <2> QED BY <1>1, <2>1 DEF Push, poolVars
<1>2. ASSUME NEW p \in Producer, FetchAdd(p) PROVE TypeOK'
  BY <1>2 DEF FetchAdd, FirstSubmitted, poolVars
<1>3. ASSUME NEW p \in Producer, Submit(p) PROVE TypeOK'
  BY <1>3 DEF Submit, Refer
<1>4. ASSUME NEW w \in Worker, Start(w) PROVE TypeOK'
  BY <1>4 DEF Start, Queued
<1>5. ASSUME NEW w \in Worker, TryPopAll(w) PROVE TypeOK'
  BY <1>5 DEF TryPopAll, OldestFirst
<1>6. ASSUME NEW w \in Worker, ProcessOne(w) PROVE TypeOK'
  BY <1>6 DEF ProcessOne, OneCounted
<1>7. ASSUME NEW w \in Worker, FetchSub(w) PROVE TypeOK'
  BY <1>7 DEF FetchSub, MoreCame
<1>8. ASSUME NEW w \in Worker, Resubmit(w) PROVE TypeOK'
  BY <1>8 DEF Resubmit, Refer
<1>9. ASSUME NEW w \in Worker, Derefer(w) PROVE TypeOK'
  BY <1>9 DEF Derefer, DropReference
<1>10. CASE Release
  <2>1. refs' \in Int
    BY <1>10 DEF Release, DropReference
  <2>2. freed' \in BOOLEAN
    BY <1>10, Zenon DEF Release, DropReference
  <2>3. owned' \in BOOLEAN
    BY <1>10, Zenon DEF Release
  <2> QED BY <1>10, <2>1, <2>2, <2>3 DEF Release, poolVars
<1>11. CASE UNCHANGED vars
  BY <1>11 DEF vars, poolVars
<1> QED
  BY <1>1, <1>2, <1>3, <1>4, <1>5, <1>6, <1>7, <1>8, <1>9, <1>10, <1>11
  DEF Next, Process, RunTask

\* TypeOK is an invariant of the strand.
THEOREM TypeCorrect == Spec => []TypeOK
BY InitType, NextType, PTL DEF Spec

-----------------------------------------------------------------------------
\* The inductive invariant holds initially.
LEMMA InitIInv == Init => IInv
<1> SUFFICES ASSUME Init PROVE IInv
  OBVIOUS
<1>1. Pushed = {} /\ Submitting = {} /\ Resubmitting = {} /\ Running = {} /\ InTask = {}
  BY DEF Init, Pushed, Submitting, Resubmitting, Running, InTask
<1>2. Cardinality({}) = 0
  BY FS_EmptySet
<1>3. CounterExact /\ NothingHeld
  BY <1>1, <1>2 DEF Init, CounterExact, NothingHeld
<1>4. DutyIffPositive
  BY <1>1, <1>2 DEF Init, DutyIffPositive, Duties
<1>5. References
  BY <1>1, <1>2 DEF Init, References, OwnerRefs
<1> QED BY InitType, <1>3, <1>4, <1>5 DEF IInv

\* Process, one step at a time.
LEMMA PushIInv ==
  ASSUME IInv, TypeOK', NEW p \in Producer, Push(p)
  PROVE  IInv'
<1> USE DEF IInv
<1>1. p \notin Pushed /\ Pushed' = Pushed \cup {p}
  BY DEF Push, Pushed, TypeOK
<1>2. Cardinality(Pushed') = Cardinality(Pushed) + 1
  BY <1>1, CardAdd, FiniteThreads
<1>3. /\ Submitting' = Submitting /\ Resubmitting' = Resubmitting
      /\ Running' = Running /\ InTask' = InTask
  BY DEF Push, Submitting, Resubmitting, Running, InTask, TypeOK, poolVars
<1>4. Len(tasks') = Len(tasks) + 1
  BY DEF Push, TypeOK
<1>5. CounterExact'
  <2> SUFFICES ASSUME NEW w \in Worker, \A v \in Worker \ {w} : wpc'[v] # "process"
               PROVE  submitted' + Cardinality(Pushed') = Len(tasks') + Len(batch'[w]) + num_tasks'[w]
    BY DEF CounterExact
  <2>1. submitted + Cardinality(Pushed) = Len(tasks) + Len(batch[w]) + num_tasks[w]
    BY DEF CounterExact, Push, poolVars
  <2>2. Len(tasks) \in Nat /\ Len(batch[w]) \in Nat /\ num_tasks[w] \in Nat
    BY DEF TypeOK
  <2>3. /\ submitted' = submitted
        /\ Len(batch'[w]) = Len(batch[w]) /\ num_tasks'[w] = num_tasks[w]
    BY DEF Push, poolVars
  <2>4. submitted \in Int
    BY DEF TypeOK
  <2>5. Cardinality(Pushed) \in Nat
    BY FiniteThreads
  <2>6. submitted' + Cardinality(Pushed') = (submitted + Cardinality(Pushed)) + 1
    BY <1>2, <2>3, <2>4, <2>5
  <2>7. Len(tasks') + Len(batch'[w]) + num_tasks'[w] = (Len(tasks) + Len(batch[w]) + num_tasks[w]) + 1
    <3>1. PICK a \in Nat : a = Len(tasks)
      BY <2>2
    <3>2. PICK b \in Nat : b = Len(batch[w])
      BY <2>2
    <3>3. PICK c \in Nat : c = num_tasks[w]
      BY <2>2
    <3>4. (a + 1) + b + c = (a + b + c) + 1
      OBVIOUS
    <3> QED BY <1>4, <2>3, <3>1, <3>2, <3>3, <3>4
  <2> QED BY <2>1, <2>6, <2>7
<1>6. DutyIffPositive'
  BY <1>3 DEF DutyIffPositive, Duties, Push, poolVars
<1>7. References'
  BY <1>3 DEF References, OwnerRefs, Push, TypeOK, poolVars
<1>8. NothingHeld'
  BY DEF NothingHeld, Push, poolVars
<1> QED BY <1>5, <1>6, <1>7, <1>8

LEMMA FetchAddIInv ==
  ASSUME IInv, TypeOK', NEW p \in Producer, FetchAdd(p)
  PROVE  IInv'
<1> USE DEF IInv
<1>1. p \in Pushed /\ Pushed' = Pushed \ {p}
  BY DEF FetchAdd, FirstSubmitted, Pushed, TypeOK
<1>2. Cardinality(Pushed') = Cardinality(Pushed) - 1
  BY <1>1, CardRemove, FiniteThreads
<1>3. Resubmitting' = Resubmitting /\ Running' = Running /\ InTask' = InTask
  BY DEF FetchAdd, FirstSubmitted, Resubmitting, Running, InTask, TypeOK, poolVars
<1>4. Cardinality(Submitting') = Cardinality(Submitting) + (IF submitted = 0 THEN 1 ELSE 0)
  <2>1. CASE submitted = 0
    <3>1. p \notin Submitting /\ Submitting' = Submitting \cup {p}
      BY <2>1 DEF FetchAdd, FirstSubmitted, Submitting, TypeOK
    <3> QED BY <2>1, <3>1, CardAdd, FiniteThreads
  <2>2. CASE submitted # 0
    <3>1. Submitting' = Submitting
      BY <2>2 DEF FetchAdd, FirstSubmitted, Submitting, TypeOK
    <3> QED BY <2>2, <3>1, FiniteThreads
  <2> QED BY <2>1, <2>2
<1>5. CounterExact'
  <2> SUFFICES ASSUME NEW w \in Worker, \A v \in Worker \ {w} : wpc'[v] # "process"
               PROVE  submitted' + Cardinality(Pushed') = Len(tasks') + Len(batch'[w]) + num_tasks'[w]
    BY DEF CounterExact
  <2>1. submitted + Cardinality(Pushed) = Len(tasks) + Len(batch[w]) + num_tasks[w]
    BY DEF CounterExact, FetchAdd, FirstSubmitted, poolVars
  <2>2. Len(tasks) \in Nat /\ Len(batch[w]) \in Nat /\ num_tasks[w] \in Nat
    BY DEF TypeOK
  <2>3. /\ submitted' = submitted + 1 /\ Len(tasks') = Len(tasks)
        /\ Len(batch'[w]) = Len(batch[w]) /\ num_tasks'[w] = num_tasks[w]
    BY DEF FetchAdd, FirstSubmitted, poolVars
  <2>4. submitted \in Int
    BY DEF TypeOK
  <2>5. Cardinality(Pushed) \in Nat
    BY FiniteThreads
  <2>6. (submitted + 1) + (Cardinality(Pushed) - 1) = Len(tasks) + Len(batch[w]) + num_tasks[w]
    BY <2>1, <2>2, <2>4, <2>5
  <2> QED BY <2>3, <2>6, <1>2
<1>6. DutyIffPositive'
  BY <1>3, <1>4, FiniteThreads DEF DutyIffPositive, Duties, FetchAdd, FirstSubmitted, TypeOK, poolVars
<1>7. References'
  BY <1>3 DEF References, OwnerRefs, FetchAdd, FirstSubmitted, TypeOK, poolVars
<1>8. NothingHeld'
  BY DEF NothingHeld, FetchAdd, FirstSubmitted, poolVars
<1> QED BY <1>5, <1>6, <1>7, <1>8

LEMMA SubmitIInv ==
  ASSUME IInv, TypeOK', NEW p \in Producer, Submit(p)
  PROVE  IInv'
<1> USE DEF IInv
<1>1. p \in Submitting /\ Submitting' = Submitting \ {p}
  BY DEF Submit, Refer, Submitting, TypeOK
<1>2. Cardinality(Submitting') = Cardinality(Submitting) - 1
  BY <1>1, CardRemove, FiniteThreads
<1>3. /\ Pushed' = Pushed /\ Resubmitting' = Resubmitting
      /\ Running' = Running /\ InTask' = InTask
  BY DEF Submit, Refer, Pushed, Resubmitting, Running, InTask, TypeOK
<1>4. CounterExact'
  BY <1>3 DEF CounterExact, Submit, Refer
<1>5. DutyIffPositive'
  BY <1>2, <1>3, FiniteThreads DEF DutyIffPositive, Duties, Submit, Refer, TypeOK
<1>6. References'
  <2>1. owned
    BY DEF References, Submit, Refer
  <2> QED BY <1>3, <2>1, FiniteThreads DEF References, OwnerRefs, Submit, Refer, TypeOK
<1>7. NothingHeld'
  BY DEF NothingHeld, Submit, Refer
<1> QED BY <1>4, <1>5, <1>6, <1>7

\* Task, one step at a time.
LEMMA StartIInv ==
  ASSUME IInv, TypeOK', NEW w \in Worker, Start(w)
  PROVE  IInv'
<1> USE DEF IInv
<1>1. w \notin Running /\ Running' = Running \cup {w}
  BY DEF Start, Queued, Running, TypeOK
<1>2. w \notin InTask /\ InTask' = InTask \cup {w}
  BY DEF Start, Queued, InTask, TypeOK
<1>3. /\ Cardinality(Running') = Cardinality(Running) + 1
      /\ Cardinality(InTask') = Cardinality(InTask) + 1
  BY <1>1, <1>2, CardAdd, FiniteThreads
<1>4. Pushed' = Pushed /\ Submitting' = Submitting /\ Resubmitting' = Resubmitting
  BY DEF Start, Queued, Pushed, Submitting, Resubmitting, TypeOK
<1>5. CounterExact'
  BY <1>4 DEF CounterExact, Start, Queued, TypeOK
<1>6. DutyIffPositive'
  BY <1>3, <1>4, FiniteThreads DEF DutyIffPositive, Duties, Start, Queued, TypeOK
<1>7. References'
  <2>1. refs = OwnerRefs + scheduled + Cardinality(InTask)
    BY DEF References
  <2>2. /\ scheduled \in Nat /\ scheduled' = scheduled - 1
        /\ refs' = refs /\ owned' = owned /\ freed' = freed /\ ppc' = ppc
    BY DEF Start, Queued, TypeOK
  <2>3. refs' = OwnerRefs' + scheduled' + Cardinality(InTask')
    BY <1>3, <2>1, <2>2, FiniteThreads DEF OwnerRefs
  <2> QED BY <2>2, <2>3 DEF References
<1>8. NothingHeld'
  BY DEF NothingHeld, Start, Queued, TypeOK
<1> QED BY <1>5, <1>6, <1>7, <1>8

\* While a worker is in TryPopAll or ProcessBatch it is the only one.
LEMMA OnlyOneRuns ==
  ASSUME IInv, NEW w \in Running
  PROVE  Running = {w} /\ scheduled = 0 /\ submitted >= 1 /\ Submitting = {} /\ Resubmitting = {}
<1> USE DEF IInv
<1>1. Cardinality(Running \ {w}) = Cardinality(Running) - 1 /\ IsFiniteSet(Running \ {w})
  BY CardRemove, FiniteThreads
<1>2. Cardinality(Running \ {w}) \in Nat
  BY <1>1, FS_CardinalityType
<1>3. /\ Cardinality(Running \ {w}) = 0 /\ scheduled = 0 /\ submitted >= 1
      /\ Cardinality(Submitting) = 0 /\ Cardinality(Resubmitting) = 0
  BY <1>1, <1>2, FiniteThreads DEF DutyIffPositive, Duties, TypeOK
<1>4. Running \ {w} = {} /\ Submitting = {} /\ Resubmitting = {}
  BY <1>1, <1>3, FS_EmptySet, FiniteThreads
<1> QED BY <1>3, <1>4

\* A worker about to pop meets a queue that is not empty.
LEMMA PopMeetsTasks ==
  ASSUME IInv, NEW w \in Worker, wpc[w] = "pop"
  PROVE  tasks # <<>>
<1> USE DEF IInv
<1>1. w \in Running
  BY DEF Running
<1>2. \A v \in Worker \ {w} : wpc[v] # "process"
  BY <1>1, OnlyOneRuns DEF Running
<1>3. submitted + Cardinality(Pushed) = Len(tasks) + Len(batch[w]) + num_tasks[w]
  BY <1>2 DEF CounterExact
<1>4. Len(batch[w]) = 0 /\ num_tasks[w] = 0
  BY DEF NothingHeld
<1>5. Len(tasks) \in Nat
  BY DEF TypeOK
<1>6. Len(tasks) >= 1
  BY <1>1, <1>3, <1>4, <1>5, OnlyOneRuns, FiniteThreads DEF TypeOK
<1> QED BY <1>6

LEMMA TryPopAllIInv ==
  ASSUME IInv, TypeOK', NEW w \in Worker, TryPopAll(w)
  PROVE  IInv'
<1> USE DEF IInv
<1>1. tasks # <<>>
  BY PopMeetsTasks DEF TryPopAll, OldestFirst
<1>2. w \in Running /\ wpc[w] = "pop" /\ wpc'[w] = "process"
  BY <1>1 DEF TryPopAll, OldestFirst, Running, TypeOK
<1>3. /\ Running' = Running /\ InTask' = InTask /\ Pushed' = Pushed
      /\ Submitting' = Submitting /\ Resubmitting' = Resubmitting
  BY <1>1 DEF TryPopAll, OldestFirst, Running, InTask, Pushed, Submitting, Resubmitting, TypeOK
<1>4. \A v \in Worker \ {w} : wpc[v] # "process" /\ wpc'[v] # "process"
  BY <1>2, OnlyOneRuns DEF Running, TryPopAll, OldestFirst, TypeOK
<1>5. submitted + Cardinality(Pushed) = Len(tasks)
  <2>1. submitted + Cardinality(Pushed) = Len(tasks) + Len(batch[w]) + num_tasks[w]
    BY <1>4 DEF CounterExact
  <2>2. Len(batch[w]) = 0 /\ num_tasks[w] = 0
    BY <1>2 DEF NothingHeld
  <2>3. Len(tasks) \in Nat
    BY DEF TypeOK
  <2> QED BY <2>1, <2>2, <2>3, FiniteThreads
<1>6. /\ batch'[w] = tasks /\ num_tasks'[w] = 0 /\ tasks' = <<>>
      /\ submitted' = submitted
  BY DEF TryPopAll, OldestFirst, TypeOK
<1>7. CounterExact'
  <2> SUFFICES ASSUME NEW u \in Worker, \A v \in Worker \ {u} : wpc'[v] # "process"
               PROVE  submitted' + Cardinality(Pushed') = Len(tasks') + Len(batch'[u]) + num_tasks'[u]
    BY DEF CounterExact
  <2>1. u = w
    BY <1>2
  <2>2. Len(tasks) \in Nat /\ Len(tasks') = 0
    BY <1>6 DEF TypeOK
  <2> QED BY <1>3, <1>5, <1>6, <2>1, <2>2, FiniteThreads
<1>8. DutyIffPositive'
  BY <1>3, <1>6 DEF DutyIffPositive, Duties, TryPopAll, OldestFirst
<1>9. References'
  BY <1>3 DEF References, OwnerRefs, TryPopAll, OldestFirst
<1>10. NothingHeld'
  BY <1>1 DEF NothingHeld, TryPopAll, OldestFirst, TypeOK
<1> QED BY <1>7, <1>8, <1>9, <1>10

LEMMA ProcessOneIInv ==
  ASSUME IInv, TypeOK', NEW w \in Worker, ProcessOne(w)
  PROVE  IInv'
<1> USE DEF IInv
<1>1. w \in Running /\ wpc[w] = "process"
  BY DEF ProcessOne, OneCounted, Running
<1>2. /\ Running' = Running /\ InTask' = InTask /\ Pushed' = Pushed
      /\ Submitting' = Submitting /\ Resubmitting' = Resubmitting
  BY DEF ProcessOne, OneCounted, Running, InTask, Pushed, Submitting, Resubmitting
<1>3. \A v \in Worker \ {w} : wpc[v] # "process"
  BY <1>1, OnlyOneRuns DEF Running
<1>4. batch[w] \in Seq(Task) /\ batch[w] # <<>>
  BY DEF ProcessOne, OneCounted, TypeOK
<1>5. Len(Tail(batch[w])) = Len(batch[w]) - 1 /\ Len(batch[w]) \in Nat
  BY <1>4
<1>6. /\ Len(batch'[w]) = Len(batch[w]) - 1 /\ num_tasks'[w] = num_tasks[w] + 1
      /\ submitted' = submitted /\ tasks' = tasks /\ wpc' = wpc
  BY <1>5 DEF ProcessOne, OneCounted, TypeOK
<1>7. CounterExact'
  <2> SUFFICES ASSUME NEW u \in Worker, \A v \in Worker \ {u} : wpc'[v] # "process"
               PROVE  submitted' + Cardinality(Pushed') = Len(tasks') + Len(batch'[u]) + num_tasks'[u]
    BY DEF CounterExact
  <2>1. u = w
    BY <1>1, <1>6
  <2>2. submitted + Cardinality(Pushed) = Len(tasks) + Len(batch[w]) + num_tasks[w]
    BY <1>3 DEF CounterExact
  <2>3. PICK a \in Nat : a = Len(tasks)
    BY DEF TypeOK
  <2>4. PICK b \in Nat : b = Len(batch[w])
    BY <1>5
  <2>5. PICK c \in Nat : c = num_tasks[w]
    BY DEF TypeOK
  <2>6. a + (b - 1) + (c + 1) = a + b + c
    OBVIOUS
  <2> QED BY <1>2, <1>6, <2>1, <2>2, <2>3, <2>4, <2>5, <2>6
<1>8. DutyIffPositive'
  BY <1>2, <1>6 DEF DutyIffPositive, Duties, ProcessOne, OneCounted
<1>9. References'
  BY <1>2 DEF References, OwnerRefs, ProcessOne, OneCounted
<1>10. NothingHeld'
  BY <1>1 DEF NothingHeld, ProcessOne, OneCounted, TypeOK
<1> QED BY <1>7, <1>8, <1>9, <1>10

LEMMA FetchSubIInv ==
  ASSUME IInv, TypeOK', NEW w \in Worker, FetchSub(w)
  PROVE  IInv'
<1> USE DEF IInv
<1>1. w \in Running /\ wpc[w] = "process" /\ w \notin Resubmitting
  BY DEF FetchSub, MoreCame, Running, Resubmitting
<1>2. Running' = Running \ {w} /\ InTask' = InTask /\ Pushed' = Pushed /\ Submitting' = Submitting
  BY DEF FetchSub, MoreCame, Running, InTask, Pushed, Submitting, TypeOK
<1>3. \A v \in Worker \ {w} : wpc[v] # "process"
  BY <1>1, OnlyOneRuns DEF Running
<1>4. \A v \in Worker : wpc'[v] # "process" /\ batch'[v] = <<>> /\ num_tasks'[v] = 0
  BY <1>3 DEF FetchSub, MoreCame, NothingHeld, TypeOK
<1>5. submitted + Cardinality(Pushed) = Len(tasks) + num_tasks[w]
  <2>1. submitted + Cardinality(Pushed) = Len(tasks) + Len(batch[w]) + num_tasks[w]
    BY <1>3 DEF CounterExact
  <2>2. Len(batch[w]) = 0
    BY DEF FetchSub, MoreCame
  <2>3. Len(tasks) \in Nat
    BY DEF TypeOK
  <2> QED BY <2>1, <2>2, <2>3
<1>6. submitted \in Int /\ num_tasks[w] \in Nat /\ submitted' = submitted - num_tasks[w]
  BY DEF FetchSub, MoreCame, TypeOK
<1>7. CounterExact'
  <2> SUFFICES ASSUME NEW u \in Worker
               PROVE  submitted' + Cardinality(Pushed') = Len(tasks') + Len(batch'[u]) + num_tasks'[u]
    BY DEF CounterExact
  <2>1. Len(batch'[u]) = 0 /\ num_tasks'[u] = 0 /\ Len(tasks') = Len(tasks) /\ Len(tasks) \in Nat
    BY <1>4 DEF FetchSub, MoreCame, TypeOK
  <2>2. submitted' + Cardinality(Pushed) = Len(tasks)
    <3>1. PICK a \in Nat : a = Len(tasks)
      BY <2>1
    <3>2. PICK d \in Nat : d = Cardinality(Pushed)
      BY FiniteThreads
    <3>3. submitted + d = a + num_tasks[w]
      BY <1>5, <3>1, <3>2
    <3>4. (submitted - num_tasks[w]) + d = a
      BY <1>6, <3>3
    <3> QED BY <1>6, <3>1, <3>2, <3>4
  <2> QED BY <1>2, <2>1, <2>2
<1>8. DutyIffPositive'
  <2>1. Running = {w} /\ scheduled = 0 /\ Submitting = {} /\ Resubmitting = {}
    BY <1>1, OnlyOneRuns
  <2>2. Running' = {} /\ Submitting' = {} /\ scheduled' = 0
    BY <1>2, <2>1 DEF FetchSub, MoreCame
  <2>3. Cardinality({}) = 0 /\ Cardinality({w}) = 1
    BY FS_EmptySet, FS_Singleton
  <2>4. CASE submitted > num_tasks[w]
    <3>1. Resubmitting' = {w}
      BY <2>1, <2>4 DEF FetchSub, MoreCame, Resubmitting, TypeOK
    <3>2. submitted' >= 1
      BY <1>6, <2>4
    <3> QED BY <2>2, <2>3, <3>1, <3>2 DEF DutyIffPositive, Duties
  <2>5. CASE ~(submitted > num_tasks[w])
    <3>1. Resubmitting' = {}
      BY <2>1, <2>5 DEF FetchSub, MoreCame, Resubmitting, TypeOK
    <3>2. ~(submitted' >= 1)
      BY <1>6, <2>5
    <3> QED BY <2>2, <2>3, <3>1, <3>2 DEF DutyIffPositive, Duties
  <2> QED BY <2>4, <2>5
<1>9. References'
  BY <1>2 DEF References, OwnerRefs, FetchSub, MoreCame
<1>10. NothingHeld'
  BY <1>4 DEF NothingHeld
<1> QED BY <1>7, <1>8, <1>9, <1>10

LEMMA ResubmitIInv ==
  ASSUME IInv, TypeOK', NEW w \in Worker, Resubmit(w)
  PROVE  IInv'
<1> USE DEF IInv
<1>1. w \in Resubmitting /\ Resubmitting' = Resubmitting \ {w}
  BY DEF Resubmit, Refer, Resubmitting, TypeOK
<1>2. Cardinality(Resubmitting') = Cardinality(Resubmitting) - 1
  BY <1>1, CardRemove, FiniteThreads
<1>3. /\ Pushed' = Pushed /\ Submitting' = Submitting
      /\ Running' = Running /\ InTask' = InTask
  BY DEF Resubmit, Refer, Pushed, Submitting, Running, InTask, TypeOK
<1>4. CounterExact'
  <2> SUFFICES ASSUME NEW u \in Worker, \A v \in Worker \ {u} : wpc'[v] # "process"
               PROVE  submitted' + Cardinality(Pushed') = Len(tasks') + Len(batch'[u]) + num_tasks'[u]
    BY DEF CounterExact
  <2>1. \A v \in Worker \ {u} : wpc[v] # "process"
    BY DEF Resubmit, Refer, TypeOK
  <2> QED BY <1>3, <2>1 DEF CounterExact, Resubmit, Refer
<1>5. scheduled' = scheduled + 1 /\ refs' = refs + 1
  BY DEF Resubmit, Refer
<1>6. DutyIffPositive'
  <2>1. \A a, b, c, d \in Nat : a + (b - 1) + (c + 1) + d = a + b + c + d
    OBVIOUS
  <2>2. scheduled \in Nat /\ submitted' = submitted
    BY DEF Resubmit, TypeOK
  <2>3. Duties' = Duties
    BY <1>2, <1>3, <1>5, <2>1, <2>2, FiniteThreads DEF Duties
  <2> QED BY <2>2, <2>3 DEF DutyIffPositive
<1>7. References'
  <2>1. /\ refs = OwnerRefs + scheduled + Cardinality(InTask)
        /\ freed <=> refs = 0
    BY DEF References
  <2>a. /\ OwnerRefs \in Nat /\ OwnerRefs' = OwnerRefs
        /\ scheduled \in Nat /\ Cardinality(InTask) \in Nat
    BY FiniteThreads DEF OwnerRefs, Resubmit, Refer, TypeOK
  <2>2. refs' = OwnerRefs' + scheduled' + Cardinality(InTask')
    BY <1>3, <1>5, <2>1, <2>a
  <2>3. refs >= 1
    <3>1. w \in InTask
      BY DEF Resubmit, Refer, InTask
    <3>2. Cardinality(InTask) # 0
      BY <3>1, FS_EmptySet, FiniteThreads
    <3> QED BY <2>1, <2>a, <3>2 DEF TypeOK
  <2>4. refs # 0 /\ refs' # 0
    BY <1>5, <2>3 DEF TypeOK
  <2> QED BY <2>1, <2>2, <2>4 DEF References, Resubmit, Refer
<1>8. NothingHeld'
  BY DEF NothingHeld, Resubmit, Refer, TypeOK
<1> QED BY <1>4, <1>6, <1>7, <1>8

LEMMA DerefIInv ==
  ASSUME IInv, TypeOK', NEW w \in Worker, Derefer(w)
  PROVE  IInv'
<1> USE DEF IInv
<1>1. w \in InTask /\ InTask' = InTask \ {w}
  BY DEF Derefer, InTask, TypeOK
<1>2. Cardinality(InTask') = Cardinality(InTask) - 1
  BY <1>1, CardRemove, FiniteThreads
<1>3. /\ Pushed' = Pushed /\ Submitting' = Submitting
      /\ Running' = Running /\ Resubmitting' = Resubmitting
  BY DEF Derefer, Pushed, Submitting, Running, Resubmitting, TypeOK
<1>4. CounterExact'
  <2> SUFFICES ASSUME NEW u \in Worker, \A v \in Worker \ {u} : wpc'[v] # "process"
               PROVE  submitted' + Cardinality(Pushed') = Len(tasks') + Len(batch'[u]) + num_tasks'[u]
    BY DEF CounterExact
  <2>1. \A v \in Worker \ {u} : wpc[v] # "process"
    BY DEF Derefer, TypeOK
  <2> QED BY <1>3, <2>1 DEF CounterExact, Derefer
<1>5. DutyIffPositive'
  BY <1>3 DEF DutyIffPositive, Duties, Derefer
<1>6. References'
  <2>1. /\ refs = OwnerRefs + scheduled + Cardinality(InTask)
        /\ freed <=> refs = 0
    BY DEF References
  <2>a. /\ OwnerRefs \in Nat /\ OwnerRefs' = OwnerRefs
        /\ scheduled \in Nat /\ Cardinality(InTask) \in Nat
    BY FiniteThreads DEF OwnerRefs, Derefer, TypeOK
  <2>2. refs' = refs - 1 /\ owned' = owned /\ scheduled' = scheduled /\ ppc' = ppc
    BY DEF Derefer, DropReference
  <2>3. refs' = OwnerRefs' + scheduled' + Cardinality(InTask')
    BY <1>2, <2>1, <2>2, <2>a
  <2>4. Cardinality(InTask) # 0
    BY <1>1, FS_EmptySet, FiniteThreads
  <2>5. refs >= 1
    BY <2>1, <2>4, <2>a
  <2>6. ~freed /\ (refs = 1 <=> refs' = 0)
    BY <2>1, <2>2, <2>5 DEF TypeOK
  <2>7. freed' <=> refs' = 0
    BY <2>6, Zenon DEF Derefer, DropReference
  <2> QED BY <2>2, <2>3, <2>7 DEF References
<1>7. NothingHeld'
  BY DEF NothingHeld, Derefer, TypeOK
<1> QED BY <1>4, <1>5, <1>6, <1>7

LEMMA ReleaseIInv ==
  ASSUME IInv, TypeOK', Release
  PROVE  IInv'
<1> USE DEF IInv
<1>1. /\ Pushed' = Pushed /\ Submitting' = Submitting /\ InTask' = InTask
      /\ Running' = Running /\ Resubmitting' = Resubmitting
  BY DEF Release, Pushed, Submitting, InTask, Running, Resubmitting, poolVars
<1>2. CounterExact' /\ NothingHeld'
  BY <1>1 DEF CounterExact, NothingHeld, Release, poolVars
<1>3. DutyIffPositive'
  BY <1>1 DEF DutyIffPositive, Duties, Release, poolVars
<1>4. References'
  <2>1. owned /\ ~owned'
    BY Zenon DEF Release
  <2>2. refs = 1 + scheduled + Cardinality(InTask) /\ (freed <=> refs = 0)
    BY <2>1 DEF References, OwnerRefs
  <2>3. refs' = refs - 1 /\ scheduled' = scheduled /\ ppc' = ppc
    BY DEF Release, DropReference, poolVars
  <2>a. /\ scheduled \in Nat /\ Cardinality(InTask) \in Nat
        /\ \A a, b \in Nat : (1 + a + b) - 1 = 0 + a + b /\ 1 + a + b # 0
    BY FiniteThreads DEF TypeOK
  <2>4. refs' = 0 + scheduled' + Cardinality(InTask')
    BY <1>1, <2>2, <2>3, <2>a
  <2>5. ~freed /\ (refs = 1 <=> refs' = 0)
    <3>1. ~freed
      BY <2>2, <2>a
    <3>2. refs = 1 <=> refs' = 0
      BY <2>3 DEF TypeOK
    <3> QED BY <3>1, <3>2
  <2>6. freed' <=> refs' = 0
    BY <2>5, Zenon DEF Release, DropReference
  <2>7. \A p \in Producer : ppc'[p] = "idle"
    BY <2>3 DEF Release
  <2>8. OwnerRefs' = 0
    BY <2>1 DEF OwnerRefs
  <2> QED BY <2>1, <2>4, <2>6, <2>7, <2>8 DEF References
<1> QED BY <1>2, <1>3, <1>4

LEMMA NextIInv == IInv /\ [Next]_vars => IInv'
<1> SUFFICES ASSUME IInv, [Next]_vars PROVE IInv'
  OBVIOUS
<1>1. TypeOK'
  BY NextType DEF IInv
<1>2. CASE UNCHANGED vars
  BY <1>2 DEF vars, poolVars, IInv, TypeOK, NothingHeld, CounterExact, DutyIffPositive,
       Duties, References, OwnerRefs, Pushed, Submitting, Resubmitting, Running, InTask
<1>3. ASSUME NEW p \in Producer, Process(p) PROVE IInv'
  BY <1>1, <1>3, PushIInv, FetchAddIInv, SubmitIInv DEF Process
<1>4. ASSUME NEW w \in Worker, RunTask(w) PROVE IInv'
  BY <1>1, <1>4, StartIInv, TryPopAllIInv, ProcessOneIInv, FetchSubIInv, ResubmitIInv, DerefIInv
  DEF RunTask
<1>5. CASE Release
  BY <1>1, <1>5, ReleaseIInv
<1> QED BY <1>2, <1>3, <1>4, <1>5 DEF Next

\* The inductive invariant holds in every reachable state.
THEOREM Inductive == Spec => []IInv
BY InitIInv, NextIInv, PTL DEF Spec

-----------------------------------------------------------------------------
\* Once nobody has a duty, what is queued was pushed but not yet counted.
LEMMA IdleQueue ==
  ASSUME IInv, Duties = 0
  PROVE  Len(tasks) <= Cardinality(Pushed)
<1> USE DEF IInv
<1>1. submitted <= 0
  BY DEF DutyIffPositive, TypeOK
<1>2. PICK w \in Worker : TRUE
  BY WorkerAssumption
<1>3. /\ Cardinality(Running) = 0
  BY FiniteThreads DEF Duties, TypeOK
<1>4. \A v \in Worker : wpc[v] # "process"
  BY <1>3, FS_EmptySet, FiniteThreads DEF Running
<1>5. submitted + Cardinality(Pushed) = Len(tasks) + Len(batch[w]) + num_tasks[w]
  BY <1>4 DEF CounterExact
<1>6. Len(batch[w]) = 0 /\ num_tasks[w] = 0 /\ Len(tasks) \in Nat
  BY <1>4 DEF NothingHeld, TypeOK
<1> QED BY <1>1, <1>5, <1>6, FiniteThreads DEF TypeOK

\* The strand is a mutex, whatever the number of producers and workers: the
\* first Process to find submitted_ = 0 and the last Task to leave it positive
\* are the only ones that schedule it.
THEOREM MutualExclusion == Spec => []AtMostOneRun
<1>1. IInv => AtMostOneRun
  BY DEF IInv, DutyIffPositive, AtMostOneRun
<1> QED BY <1>1, Inductive, PTL

\* submitted_ is exact at every step of every interleaving.
THEOREM CounterIsExact == Spec => []CounterExact
<1>1. IInv => CounterExact
  BY DEF IInv
<1> QED BY <1>1, Inductive, PTL

\* Task's early return on an empty batch, which skips Derefer, is dead code.
THEOREM NoEmptyBatch == Spec => []BatchNeverEmpty
<1>1. IInv => BatchNeverEmpty
  BY PopMeetsTasks DEF BatchNeverEmpty
<1> QED BY <1>1, Inductive, PTL

\* A task in tasks_ always has somebody bound to schedule or to run it.
THEOREM NoTaskIsLost == Spec => []NoLostTask
<1>1. ASSUME IInv, tasks # <<>>, Duties # 1 PROVE Pushed # {}
  <2>1. Duties = 0
    BY <1>1 DEF IInv, DutyIffPositive
  <2>2. Len(tasks) <= Cardinality(Pushed)
    BY <1>1, <2>1, IdleQueue
  <2>3. Len(tasks) \in Nat /\ Len(tasks) # 0
    BY <1>1 DEF IInv, TypeOK
  <2>4. Cardinality(Pushed) # 0
    BY <2>2, <2>3, FiniteThreads
  <2> QED BY <2>4, FS_EmptySet
<1>2. IInv => NoLostTask
  BY <1>1 DEF NoLostTask
<1> QED BY <1>2, Inductive, PTL

\* The reference count is exact, and the last Derefer deletes a strand that no
\* thread will touch again and that holds no task.
THEOREM SafeDeletion == Spec => []ReferencesExact
<1>1. ASSUME IInv, freed PROVE tasks = <<>> /\ Submitting = {}
  <2>1. refs = 0 /\ refs = OwnerRefs + scheduled + Cardinality(InTask)
    BY <1>1 DEF IInv, References
  <2>2. OwnerRefs \in Nat /\ scheduled \in Nat /\ Cardinality(InTask) \in Nat
    BY <1>1, FiniteThreads DEF OwnerRefs, IInv, TypeOK
  <2>3. OwnerRefs = 0 /\ scheduled = 0 /\ Cardinality(InTask) = 0
    <3>1. \A a, b, c \in Nat : a + b + c = 0 => a = 0 /\ b = 0 /\ c = 0
      OBVIOUS
    <3> QED BY <2>1, <2>2, <3>1
  <2>4. InTask = {}
    BY <2>3, FS_EmptySet, FiniteThreads
  <2>5. ~owned
    BY <2>3 DEF OwnerRefs
  <2>6. Pushed = {} /\ Submitting = {}
    BY <1>1, <2>5 DEF IInv, References, Pushed, Submitting
  <2>7. Running = {} /\ Resubmitting = {}
    BY <2>4 DEF Running, Resubmitting, InTask
  <2>8. Cardinality({}) = 0
    BY FS_EmptySet
  <2>9. Duties = 0
    BY <2>3, <2>6, <2>7, <2>8 DEF Duties
  <2>10. Len(tasks) <= 0
    BY <1>1, <2>6, <2>8, <2>9, IdleQueue
  <2>11. tasks \in Seq(Task)
    BY <1>1 DEF IInv, TypeOK
  <2> QED BY <2>6, <2>10, <2>11
<1>2. IInv => ReferencesExact
  BY <1>1 DEF IInv, References, ReferencesExact
<1> QED BY <1>2, Inductive, PTL
=============================================================================
