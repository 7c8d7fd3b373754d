----------------------------- MODULE TaskQueue -----------------------------
(***************************************************************************)
(* What a thread pool promises its user: a bounded queue of tasks, started *)
(* in the order in which they were put, each by one worker and once.       *)
(* While the pool is open a free worker and a queued task find each other. *)
(* After the pool is closed a worker may still start a queued task, or     *)
(* leave it.                                                               *)
(***************************************************************************)
EXTENDS Integers, Sequences

CONSTANTS Workers, Capacity, MaxTasks

VARIABLES
  open,      \* the pool is running
  accepted,  \* how many tasks were put: tasks are 1, 2, ...
  queue,     \* tasks not started yet
  running,   \* the task each worker is running, 0 for none
  done       \* tasks that have been run

vars == <<open, accepted, queue, running, done>>

Init ==
  /\ open = FALSE
  /\ accepted = 0
  /\ queue = <<>>
  /\ running = [w \in Workers |-> 0]
  /\ done = {}

Open == ~open /\ open' = TRUE /\ UNCHANGED <<accepted, queue, running, done>>

Close == open /\ open' = FALSE /\ UNCHANGED <<accepted, queue, running, done>>

Put ==
  /\ accepted < MaxTasks
  /\ Len(queue) < Capacity
  /\ accepted' = accepted + 1
  /\ queue' = Append(queue, accepted')
  /\ UNCHANGED <<open, running, done>>

Take(w) ==
  /\ running[w] = 0
  /\ queue # <<>>
  /\ running' = [running EXCEPT ![w] = Head(queue)]
  /\ queue' = Tail(queue)
  /\ UNCHANGED <<open, accepted, done>>

Finish(w) ==
  /\ running[w] # 0
  /\ running' = [running EXCEPT ![w] = 0]
  /\ done' = done \cup {running[w]}
  /\ UNCHANGED <<open, accepted, queue>>

Next == Open \/ Close \/ Put \/ \E w \in Workers : Take(w) \/ Finish(w)

TakeWhileOpen == open /\ \E w \in Workers : Take(w)

Spec == /\ Init /\ [][Next]_vars
        /\ WF_vars(TakeWhileOpen)
        /\ \A w \in Workers : WF_vars(Finish(w))
=============================================================================
