----------------------------- MODULE ThreadPool -----------------------------
(***************************************************************************)
(* The thread pool of src/src/base/thread_pool.h: one mutex, a queue, and  *)
(* two condition variables, with one thread that calls start, put and stop *)
(* (the event loop of the proxy, main in the tests) and Workers that run   *)
(* runInThread.                                                            *)
(*                                                                         *)
(* A critical section is one step that needs mu_ to be free.  The one      *)
(* exception is the end of take's wait loop: a worker that has found the   *)
(* queue empty and is_running_ true goes to sleep in a second step, with   *)
(* mu_ held in between, because stop writes is_running_ and notifies       *)
(* without mu_.  In put nothing that it tests or waits for changes without *)
(* mu_, and its test and its wait are one step.                            *)
(***************************************************************************)
EXTENDS Integers, Sequences, FiniteSets

CONSTANTS
  Workers,          \* the threads of thread_group_
  max_queue_size_,  \* capacity of queue_
  NoWorker,         \* mu_ is free
  MaxTasks,         \* bound: tasks put
  MaxSpurious       \* bound: spurious wake-ups

ASSUME WorkersAssumption == IsFiniteSet(Workers) /\ NoWorker \notin Workers
ASSUME SizeAssumption    == max_queue_size_ \in Nat \ {0}
ASSUME BoundAssumption   == MaxTasks \in Nat /\ MaxSpurious \in Nat

VARIABLES
  is_running_,
  mu_,      \* the worker that holds the mutex between two steps
  queue_,
  main,     \* what the thread that owns the pool is doing
  pc,       \* where each worker is
  task,     \* the task each worker took, 0 for none
  nput,     \* history: tasks put so far; the n-th task is n
  ran,      \* history: the tasks that were run to their end
  nspurious \* spurious wake-ups so far

vars == <<is_running_, mu_, queue_, main, pc, task, nput, ran, nspurious>>

\* Mutant of isFull: one task too many is accepted.
isFull_late == Len(queue_) > max_queue_size_

isFull  == Len(queue_) = max_queue_size_
isEmpty == queue_ = <<>>

(***************************************************************************)
(* The workers asleep on cond_get_ that no notification has reached.       *)
(***************************************************************************)
Waiting == {w \in Workers : pc[w] = "waiting"}

Init ==
  /\ is_running_ = FALSE
  /\ mu_ = NoWorker
  /\ queue_ = <<>>
  /\ main = "idle"
  /\ pc = [w \in Workers |-> "new"]
  /\ task = [w \in Workers |-> 0]
  /\ nput = 0
  /\ ran = {}
  /\ nspurious = 0

(***************************************************************************)
(* start.  A thread created later in the loop is as good as one that is    *)
(* scheduled later.                                                        *)
(***************************************************************************)
start ==
  /\ main = "idle"
  /\ \A w \in Workers : pc[w] = "new"
  /\ is_running_' = TRUE
  /\ pc' = [w \in Workers |-> "loop"]
  /\ UNCHANGED <<mu_, queue_, main, task, nput, ran, nspurious>>

(***************************************************************************)
(* The owner calls put.  Before start it puts no more than the queue       *)
(* takes, as in src/src/test/test_main.cpp.                                *)
(***************************************************************************)
putCall ==
  /\ main = "idle"
  /\ nput < MaxTasks
  /\ is_running_ \/ Len(queue_) < max_queue_size_
  /\ main' = "put"
  /\ UNCHANGED <<is_running_, mu_, queue_, pc, task, nput, ran, nspurious>>

\* Mutant of notify_one_get: put wakes nobody.
notify_none == UNCHANGED pc

(***************************************************************************)
(* cond_get_.notify_one: some sleeping worker is woken, if there is one.   *)
(***************************************************************************)
notify_one_get ==
  IF Waiting = {} THEN UNCHANGED pc
  ELSE \E w \in Waiting : pc' = [pc EXCEPT ![w] = "take"]

put ==
  /\ main = "put"
  /\ mu_ = NoWorker
  /\ ~isFull
  /\ nput' = nput + 1
  /\ queue_' = Append(queue_, nput')
  /\ notify_one_get
  /\ main' = "idle"
  /\ UNCHANGED <<is_running_, mu_, task, ran, nspurious>>

putWait ==
  /\ main = "put"
  /\ mu_ = NoWorker
  /\ isFull
  /\ main' = "putwaiting"
  /\ UNCHANGED <<is_running_, mu_, queue_, pc, task, nput, ran, nspurious>>

(***************************************************************************)
(* stop: the flag, then the notification, then the join.                   *)
(***************************************************************************)
stop ==
  /\ main = "idle"
  /\ is_running_
  /\ is_running_' = FALSE
  /\ main' = "notify"
  /\ UNCHANGED <<mu_, queue_, pc, task, nput, ran, nspurious>>

notify_all ==
  /\ main = "notify"
  /\ pc' = [w \in Workers |-> IF pc[w] = "waiting" THEN "take" ELSE pc[w]]
  /\ main' = "join"
  /\ UNCHANGED <<is_running_, mu_, queue_, task, nput, ran, nspurious>>

join_all ==
  /\ main = "join"
  /\ \A w \in Workers : pc[w] = "exited"
  /\ main' = "stopped"
  /\ UNCHANGED <<is_running_, mu_, queue_, pc, task, nput, ran, nspurious>>

-----------------------------------------------------------------------------
(* runInThread *)

loop(w) ==
  /\ pc[w] = "loop"
  /\ pc' = [pc EXCEPT ![w] = IF is_running_ THEN "take" ELSE "exited"]
  /\ UNCHANGED <<is_running_, mu_, queue_, main, task, nput, ran, nspurious>>

\* Mutant of take: cond_put_ is not notified.
take_silent(w) ==
  /\ pc[w] = "take"
  /\ mu_ = NoWorker
  /\ ~isEmpty
  /\ task' = [task EXCEPT ![w] = Head(queue_)]
  /\ queue_' = Tail(queue_)
  /\ pc' = [pc EXCEPT ![w] = "run"]
  /\ UNCHANGED <<is_running_, mu_, main, nput, ran, nspurious>>

\* Mutant of take: the task put last is taken first.
take_last(w) ==
  /\ pc[w] = "take"
  /\ mu_ = NoWorker
  /\ ~isEmpty
  /\ task' = [task EXCEPT ![w] = queue_[Len(queue_)]]
  /\ queue_' = SubSeq(queue_, 1, Len(queue_) - 1)
  /\ main' = IF main = "putwaiting" THEN "put" ELSE main
  /\ pc' = [pc EXCEPT ![w] = "run"]
  /\ UNCHANGED <<is_running_, mu_, nput, ran, nspurious>>

(***************************************************************************)
(* take, from acquiring mu_ (also inside wait): a task, ...                *)
(***************************************************************************)
take(w) ==
  /\ pc[w] = "take"
  /\ mu_ = NoWorker
  /\ ~isEmpty
  /\ task' = [task EXCEPT ![w] = Head(queue_)]
  /\ queue_' = Tail(queue_)
  /\ main' = IF main = "putwaiting" THEN "put" ELSE main
  /\ pc' = [pc EXCEPT ![w] = "run"]
  /\ UNCHANGED <<is_running_, mu_, nput, ran, nspurious>>

(***************************************************************************)
(* ... NULL because the pool is stopping, ...                              *)
(***************************************************************************)
takeNull(w) ==
  /\ pc[w] = "take"
  /\ mu_ = NoWorker
  /\ isEmpty
  /\ ~is_running_
  /\ pc' = [pc EXCEPT ![w] = "loop"]
  /\ UNCHANGED <<is_running_, mu_, queue_, main, task, nput, ran, nspurious>>

\* Mutant of takeTest: the wait loop tests the queue only.
takeTest_stopped(w) ==
  /\ pc[w] = "take"
  /\ mu_ = NoWorker
  /\ isEmpty
  /\ mu_' = w
  /\ pc' = [pc EXCEPT ![w] = "towait"]
  /\ UNCHANGED <<is_running_, queue_, main, task, nput, ran, nspurious>>

(***************************************************************************)
(* ... or the decision to wait, carried out while mu_ is still held.       *)
(***************************************************************************)
takeTest(w) ==
  /\ pc[w] = "take"
  /\ mu_ = NoWorker
  /\ isEmpty
  /\ is_running_
  /\ mu_' = w
  /\ pc' = [pc EXCEPT ![w] = "towait"]
  /\ UNCHANGED <<is_running_, queue_, main, task, nput, ran, nspurious>>

wait(w) ==
  /\ pc[w] = "towait"
  /\ mu_' = NoWorker
  /\ pc' = [pc EXCEPT ![w] = "waiting"]
  /\ UNCHANGED <<is_running_, queue_, main, task, nput, ran, nspurious>>

\* Mutant of run: a task taken while the pool stops is dropped.
run_if_running(w) ==
  /\ pc[w] = "run"
  /\ ran' = IF is_running_ THEN ran \cup {task[w]} ELSE ran
  /\ task' = [task EXCEPT ![w] = 0]
  /\ pc' = [pc EXCEPT ![w] = "loop"]
  /\ UNCHANGED <<is_running_, mu_, queue_, main, nput, nspurious>>

(***************************************************************************)
(* t->run(), which returns.                                                *)
(***************************************************************************)
run(w) ==
  /\ pc[w] = "run"
  /\ ran' = ran \cup {task[w]}
  /\ task' = [task EXCEPT ![w] = 0]
  /\ pc' = [pc EXCEPT ![w] = "loop"]
  /\ UNCHANGED <<is_running_, mu_, queue_, main, nput, nspurious>>

(***************************************************************************)
(* The condition variables allow a wait to end without a notification.     *)
(***************************************************************************)
spuriousPut ==
  /\ main = "putwaiting"
  /\ nspurious < MaxSpurious
  /\ nspurious' = nspurious + 1
  /\ main' = "put"
  /\ UNCHANGED <<is_running_, mu_, queue_, pc, task, nput, ran>>

spuriousGet(w) ==
  /\ pc[w] = "waiting"
  /\ nspurious < MaxSpurious
  /\ nspurious' = nspurious + 1
  /\ pc' = [pc EXCEPT ![w] = "take"]
  /\ UNCHANGED <<is_running_, mu_, queue_, main, task, nput, ran>>

-----------------------------------------------------------------------------

Caller == start \/ putCall \/ stop
MainStep == put \/ putWait \/ notify_all \/ join_all
WorkerStep(w) ==
  loop(w) \/ take(w) \/ takeNull(w) \/ takeTest(w) \/ wait(w) \/ run(w)

Next == \/ Caller \/ MainStep \/ spuriousPut
        \/ \E w \in Workers : WorkerStep(w) \/ spuriousGet(w)

Spec == Init /\ [][Next]_vars

(***************************************************************************)
(* Fairness: the operating system schedules every thread that can run, a   *)
(* task ends, and a call of put or stop goes on.  Nothing makes the owner  *)
(* call, and nothing guarantees a spurious wake-up.                        *)
(***************************************************************************)
Fairness ==
  /\ WF_vars(MainStep)
  /\ \A w \in Workers : WF_vars(WorkerStep(w))

FairSpec == Spec /\ Fairness

-----------------------------------------------------------------------------
(* Correctness *)

(***************************************************************************)
(* Type correctness; mu_ is held exactly by the worker that is about to    *)
(* wait, and a worker has a task exactly while it runs it.                 *)
(***************************************************************************)
TypeOK ==
  /\ is_running_ \in BOOLEAN
  /\ queue_ \in Seq(1..MaxTasks)
  /\ Len(queue_) <= max_queue_size_
  /\ main \in {"idle", "put", "putwaiting", "notify", "join", "stopped"}
  /\ pc \in [Workers -> {"new", "loop", "take", "towait", "waiting", "run", "exited"}]
  /\ task \in [Workers -> 0..MaxTasks]
  /\ nput \in 0..MaxTasks
  /\ nspurious \in 0..MaxSpurious
  /\ ran \in SUBSET (1..MaxTasks)
  /\ mu_ \in Workers \cup {NoWorker}
  /\ \A w \in Workers : mu_ = w <=> pc[w] = "towait"
  /\ \A w \in Workers : task[w] # 0 <=> pc[w] = "run"

(***************************************************************************)
(* No task is stranded by a lost or misdirected notify_one: while some     *)
(* worker sleeps, every queued task has a worker of its own that is awake  *)
(* and on its way to take.                                                 *)
(***************************************************************************)
Awake == {w \in Workers : pc[w] \in {"loop", "take"}}
NoStrandedTask ==
  is_running_ /\ Waiting # {} => Len(queue_) <= Cardinality(Awake)

(***************************************************************************)
(* put sleeps only while the queue is full: no task taken is missed by it. *)
(***************************************************************************)
PutWaitsOnlyWhenFull == main = "putwaiting" => isFull

(***************************************************************************)
(* When stop has returned, every task that was taken has been run; what    *)
(* was put and not taken is still in the queue.                            *)
(***************************************************************************)
StopLosesNoTask ==
  main = "stopped" => 1..nput = ran \cup {queue_[i] : i \in 1..Len(queue_)}

(***************************************************************************)
(* The pool implements the abstract task queue, with its promise that a    *)
(* queued task and a free worker meet while the pool runs.                 *)
(***************************************************************************)
TQ == INSTANCE TaskQueue WITH Capacity <- max_queue_size_, open <- is_running_,
        accepted <- nput, queue <- queue_, running <- task, done <- ran
ImplementsTaskQueue == TQ!Spec

(***************************************************************************)
(* A call of put returns.                                                  *)
(***************************************************************************)
PutReturns == main \in {"put", "putwaiting"} ~> main = "idle"

(***************************************************************************)
(* stop returns if no worker is caught between testing is_running_ and the *)
(* end of the wait it decided on: the lost wake-up is the only obstacle.   *)
(***************************************************************************)
StopReturnsUnlessWakeupLost ==
  main = "join" /\ (\A w \in Workers : pc[w] \notin {"towait", "waiting"})
    ~> main = "stopped"

(***************************************************************************)
(* What src/src/test/test_main.cpp expects of stop: it returns.            *)
(***************************************************************************)
StopReturns == main = "notify" ~> main = "stopped"
=============================================================================
