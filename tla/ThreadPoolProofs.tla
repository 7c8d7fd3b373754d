-------------------------- MODULE ThreadPoolProofs --------------------------
(***************************************************************************)
(* Theorems about the thread pool, for any number of workers and tasks and *)
(* any size of the queue.                                                  *)
(***************************************************************************)
EXTENDS ThreadPool, FiniteSetTheorems, TLAPS

(***************************************************************************)
(* What put and take do to the queue.                                      *)
(***************************************************************************)
Queued(q) == {q[i] : i \in 1..Len(q)}

LEMMA AppendFacts ==
  ASSUME NEW S, NEW q \in Seq(S), NEW e \in S
  PROVE  /\ Append(q, e) \in Seq(S)
         /\ Len(Append(q, e)) = Len(q) + 1
         /\ Queued(Append(q, e)) = Queued(q) \cup {e}
<1>1. /\ Append(q, e) \in Seq(S)
      /\ Len(Append(q, e)) = Len(q) + 1
      /\ Len(q) \in Nat
      /\ \A i \in 1..Len(q) : Append(q, e)[i] = q[i]
      /\ Append(q, e)[Len(q) + 1] = e
  OBVIOUS
<1> DEFINE r == Append(q, e)
<1> HIDE DEF r
<1>2. Queued(r) = Queued(q) \cup {e}
  BY <1>1 DEF Queued, r
<1>3. QED
  BY <1>1, <1>2 DEF r

LEMMA TailFacts ==
  ASSUME NEW S, NEW q \in Seq(S), q # <<>>
  PROVE  /\ Head(q) \in S /\ Tail(q) \in Seq(S)
         /\ Len(Tail(q)) = Len(q) - 1 /\ Len(q) \in Nat \ {0}
         /\ Queued(q) = Queued(Tail(q)) \cup {Head(q)}
<1>1. /\ Head(q) \in S /\ Tail(q) \in Seq(S)
      /\ Len(q) \in Nat \ {0}
      /\ Len(Tail(q)) = Len(q) - 1
      /\ \A i \in 1..(Len(q) - 1) : Tail(q)[i] = q[i + 1]
      /\ Head(q) = q[1]
  OBVIOUS
<1> DEFINE r == Tail(q)
           n == Len(q)
<1>2. /\ n \in Nat \ {0} /\ Len(r) = n - 1
      /\ \A i \in 1..(n - 1) : r[i] = q[i + 1]
  BY <1>1
<1> HIDE DEF r, n
<1>3. ASSUME NEW i \in 1..n PROVE q[i] \in {r[j] : j \in 1..(n - 1)} \cup {q[1]}
  <2>1. CASE i = 1
    BY <2>1
  <2>2. CASE i # 1
    <3>1. i - 1 \in 1..(n - 1) /\ (i - 1) + 1 = i
      BY <1>2, <2>2
    <3>2. r[i - 1] = q[i]
      BY <1>2, <3>1
    <3>3. QED
      BY <3>1, <3>2
  <2>3. QED
    BY <2>1, <2>2
<1>4. ASSUME NEW j \in 1..(n - 1) PROVE r[j] \in {q[i] : i \in 1..n}
  <2>1. j + 1 \in 1..n
    BY <1>2
  <2>2. QED
    BY <1>2, <2>1
<1>5. q[1] \in {q[i] : i \in 1..n}
  BY <1>2
<1>6. {q[i] : i \in 1..n} = {r[j] : j \in 1..(n - 1)} \cup {q[1]}
  BY <1>3, <1>4, <1>5
<1>7. QED
  BY <1>1, <1>2, <1>6 DEF Queued, r, n

-----------------------------------------------------------------------------
(* Types *)

(***************************************************************************)
(* TypeOK is inductive with this: a call of put is made below the bound.   *)
(***************************************************************************)
Typed == TypeOK /\ (main \in {"put", "putwaiting"} => nput < MaxTasks)

LEMMA TypeInit == Init => Typed
<1> SUFFICES ASSUME Init PROVE Typed
  OBVIOUS
<1> USE SizeAssumption, BoundAssumption, WorkersAssumption DEF Init
<1>1. queue_ \in Seq(1..MaxTasks) /\ Len(queue_) <= max_queue_size_
  <2>1. <<>> \in Seq(1..MaxTasks) /\ Len(<<>>) = 0
    OBVIOUS
  <2>2. QED
    BY <2>1
<1>2. /\ is_running_ \in BOOLEAN /\ main = "idle" /\ ran \in SUBSET (1..MaxTasks)
      /\ nput \in 0..MaxTasks /\ nspurious \in 0..MaxSpurious
  <2>1. nput \in 0..MaxTasks /\ nspurious \in 0..MaxSpurious
    OBVIOUS
  <2>2. is_running_ \in BOOLEAN /\ main = "idle" /\ ran \in SUBSET (1..MaxTasks)
    BY Zenon
  <2>3. QED
    BY <2>1, <2>2
<1>3. /\ pc \in [Workers -> {"new", "loop", "take", "towait", "waiting", "run", "exited"}]
      /\ task \in [Workers -> 0..MaxTasks]
      /\ mu_ \in Workers \cup {NoWorker}
  OBVIOUS
<1>4. \A w \in Workers : /\ mu_ = w <=> pc[w] = "towait"
                         /\ task[w] # 0 <=> pc[w] = "run"
  <2>1. ASSUME NEW w \in Workers PROVE mu_ # w /\ pc[w] = "new" /\ task[w] = 0
    <3>1. mu_ = NoWorker /\ NoWorker # w
      OBVIOUS
    <3>2. pc[w] = "new" /\ task[w] = 0
      OBVIOUS
    <3>3. QED
      BY <3>1, <3>2, Zenon
  <2>2. QED
    BY <2>1
<1>5. QED
  BY <1>1, <1>2, <1>3, <1>4 DEF Typed, TypeOK

(***************************************************************************)
(* Every step keeps the types, and who holds mu_ and a task.               *)
(***************************************************************************)
LEMMA TypeStep ==
  ASSUME Typed, [Next]_vars
  PROVE  Typed'
<1> USE WorkersAssumption, SizeAssumption, BoundAssumption DEF Typed, TypeOK
<1>1. CASE start
  BY <1>1 DEF start
<1>2. CASE putCall
  BY <1>2 DEF putCall
<1>3. CASE stop \/ join_all \/ putWait \/ spuriousPut
  <2>1. /\ is_running_' \in BOOLEAN
        /\ main' \in {"idle", "put", "putwaiting", "notify", "join", "stopped"}
        /\ main' \in {"put", "putwaiting"} => main \in {"put", "putwaiting"}
    BY <1>3 DEF stop, join_all, putWait, spuriousPut
  <2>2. nspurious' \in 0..MaxSpurious
    BY <1>3 DEF stop, join_all, putWait, spuriousPut
  <2>3. UNCHANGED <<mu_, queue_, pc, task, nput, ran>>
    BY <1>3 DEF stop, join_all, putWait, spuriousPut
  <2>4. QED
    BY <2>1, <2>2, <2>3
<1>4. CASE notify_all
  BY <1>4 DEF notify_all
<1>5. CASE put
  <2>1. /\ nput' = nput + 1 /\ queue_' = Append(queue_, nput')
        /\ Len(queue_) # max_queue_size_
        /\ main' = "idle" /\ nput < MaxTasks
        /\ UNCHANGED <<is_running_, mu_, task, ran, nspurious>>
    BY <1>5 DEF put, isFull
  <2>2. nput' \in 1..MaxTasks
    BY <2>1
  <2>3. queue_' \in Seq(1..MaxTasks) /\ Len(queue_') = Len(queue_) + 1
    BY <2>1, <2>2, AppendFacts
  <2>4. Len(queue_) \in Nat
    OBVIOUS
  <2>5. Len(queue_') <= max_queue_size_
    BY <2>1, <2>3, <2>4
  <2>6. /\ pc' \in [Workers -> {"new", "loop", "take", "towait", "waiting", "run", "exited"}]
        /\ \A w \in Workers : \/ pc'[w] = pc[w]
                              \/ pc[w] = "waiting" /\ pc'[w] = "take"
    BY <1>5 DEF put, notify_one_get, Waiting
  <2>7. QED
    BY <2>1, <2>2, <2>3, <2>5, <2>6
<1>6. ASSUME NEW w \in Workers, take(w) PROVE Typed'
  <2>1. /\ Head(queue_) \in 1..MaxTasks
        /\ Tail(queue_) \in Seq(1..MaxTasks)
        /\ Len(Tail(queue_)) <= max_queue_size_
    BY <1>6, TailFacts DEF take, isEmpty
  <2>2. QED
    BY <1>6, <2>1 DEF take
<1>7. ASSUME NEW w \in Workers, takeTest(w) \/ wait(w) PROVE Typed'
  BY <1>7 DEF takeTest, wait
<1>8. ASSUME NEW w \in Workers, loop(w) PROVE Typed'
  BY <1>8 DEF loop
<1>9. ASSUME NEW w \in Workers, takeNull(w) PROVE Typed'
  BY <1>9 DEF takeNull
<1>10. ASSUME NEW w \in Workers, spuriousGet(w) PROVE Typed'
  BY <1>10 DEF spuriousGet
<1>11. ASSUME NEW w \in Workers, run(w) PROVE Typed'
  <2>1. task[w] \in 1..MaxTasks
    BY <1>11 DEF run
  <2>2. ran' \in SUBSET (1..MaxTasks)
    BY <1>11, <2>1 DEF run
  <2>3. /\ task' = [task EXCEPT ![w] = 0] /\ pc' = [pc EXCEPT ![w] = "loop"] /\ pc[w] = "run"
        /\ UNCHANGED <<is_running_, mu_, queue_, main, nput, nspurious>>
    BY <1>11 DEF run
  <2>4. QED
    BY <2>2, <2>3
<1>12. CASE UNCHANGED vars
  BY <1>12 DEF vars
<1>13. QED
  BY <1>1, <1>2, <1>3, <1>4, <1>5, <1>6, <1>7, <1>8, <1>9, <1>10, <1>11, <1>12
  DEF Next, Caller, MainStep, WorkerStep

LEMMA TypedAlways == Spec => []Typed
<1>1. Typed /\ [Next]_vars => Typed'
  BY TypeStep
<1>2. QED
  BY <1>1, TypeInit, PTL DEF Spec

(***************************************************************************)
(* Type correctness; mu_ is held exactly by a worker about to wait, and a  *)
(* worker has a task exactly while it runs it.                             *)
(***************************************************************************)
THEOREM TypeCorrect == Spec => []TypeOK
<1>1. Typed => TypeOK
  BY DEF Typed
<1>2. QED
  BY <1>1, TypedAlways, PTL

-----------------------------------------------------------------------------
(* No lost notification *)

(***************************************************************************)
(* A worker that has decided to wait found the queue empty, and it still   *)
(* is: put needs mu_.                                                      *)
(***************************************************************************)
DecidesOnEmpty == (\E w \in Workers : pc[w] = "towait") => queue_ = <<>>

LEMMA DecidesStep ==
  ASSUME Typed, DecidesOnEmpty, [Next]_vars
  PROVE  DecidesOnEmpty'
<1> USE WorkersAssumption DEF Typed, TypeOK, DecidesOnEmpty
<1>1. CASE start \/ notify_all
  BY <1>1 DEF start, notify_all
<1>2. CASE putCall \/ stop \/ join_all \/ putWait \/ spuriousPut \/ UNCHANGED vars
  BY <1>2 DEF putCall, stop, join_all, putWait, spuriousPut, vars
<1>3. CASE put
  <2>1. /\ \A w \in Workers : pc[w] # "towait"
        /\ \A w \in Workers : pc'[w] = "towait" => pc[w] = "towait"
    BY <1>3 DEF put, notify_one_get
  <2>2. QED
    BY <2>1
<1>4. ASSUME NEW w \in Workers, take(w) PROVE DecidesOnEmpty'
  <2>1. \A v \in Workers : pc[v] # "towait" /\ pc'[v] # "towait"
    BY <1>4 DEF take
  <2>2. QED
    BY <2>1
<1>5. ASSUME NEW w \in Workers,
             loop(w) \/ takeNull(w) \/ takeTest(w) \/ wait(w) \/ run(w) \/ spuriousGet(w)
      PROVE DecidesOnEmpty'
  BY <1>5 DEF loop, takeNull, takeTest, wait, run, spuriousGet, isEmpty
<1>6. QED
  BY <1>1, <1>2, <1>3, <1>4, <1>5 DEF Next, Caller, MainStep, WorkerStep

LEMMA AwakeFinite ==
  /\ IsFiniteSet(Awake) /\ Cardinality(Awake) \in Nat
  /\ IsFiniteSet(Awake') /\ Cardinality(Awake') \in Nat
<1>1. \A S : S \subseteq Workers => IsFiniteSet(S) /\ Cardinality(S) \in Nat
  BY WorkersAssumption, FS_Subset, FS_CardinalityType
<1>2. QED
  BY <1>1 DEF Awake

LEMMA OneMore ==
  ASSUME NEW S, IsFiniteSet(S), NEW x
  PROVE  /\ Cardinality(S) \in Nat
         /\ Cardinality(S \cup {x}) \in Nat
         /\ Cardinality(S \cup {x}) >= Cardinality(S)
         /\ x \notin S => Cardinality(S \cup {x}) = Cardinality(S) + 1
         /\ x \in S => Cardinality(S \ {x}) = Cardinality(S) - 1
<1>1. Cardinality(S) \in Nat
  BY FS_CardinalityType
<1>2. Cardinality(S \cup {x}) = IF x \in S THEN Cardinality(S) ELSE Cardinality(S) + 1
  BY FS_AddElement
<1>3. x \in S => Cardinality(S \ {x}) = Cardinality(S) - 1
  BY FS_RemoveElement
<1>4. QED
  BY <1>1, <1>2, <1>3

(***************************************************************************)
(* Each step that adds a task wakes a worker, and a worker goes to sleep   *)
(* only when nothing is queued.                                            *)
(***************************************************************************)
LEMMA StrandedStep ==
  ASSUME Typed, DecidesOnEmpty, NoStrandedTask, [Next]_vars
  PROVE  NoStrandedTask'
<1> DEFINE n == Len(queue_)
           a == Cardinality(Awake)
<1>0. n \in Nat /\ a \in Nat /\ a' \in Nat /\ Len(<<>>) = 0
  BY AwakeFinite DEF Typed, TypeOK
<1>1. CASE start
  <2>1. Waiting' = {}
    BY <1>1 DEF start, Waiting
  <2>2. QED
    BY <2>1 DEF NoStrandedTask
<1>2. CASE stop
  BY <1>2 DEF stop, NoStrandedTask
<1>3. CASE notify_all
  <2>1. Waiting' = {}
    BY <1>3 DEF notify_all, Waiting
  <2>2. QED
    BY <2>1 DEF NoStrandedTask
<1>4. CASE putCall \/ join_all \/ putWait \/ spuriousPut \/ UNCHANGED vars
  BY <1>4 DEF putCall, join_all, putWait, spuriousPut, vars, NoStrandedTask, Waiting, Awake
<1>5. CASE put
  <2>1. CASE Waiting = {}
    <3>1. Waiting' = {}
      BY <1>5, <2>1 DEF put, notify_one_get, Waiting
    <3>2. QED
      BY <3>1 DEF NoStrandedTask
  <2>2. CASE Waiting # {}
    <3>1. PICK w \in Waiting : pc' = [pc EXCEPT ![w] = "take"]
      BY <1>5, <2>2 DEF put, notify_one_get
    <3>2. Awake' = Awake \cup {w} /\ w \notin Awake
      BY <3>1 DEF Awake, Waiting, Typed, TypeOK
    <3>3. a' = a + 1
      BY <3>2, OneMore, AwakeFinite
    <3>4. n' = n + 1
      <4>1. queue_' = Append(queue_, nput') /\ queue_ \in Seq(1..MaxTasks)
        BY <1>5 DEF put, Typed, TypeOK
      <4>2. QED
        BY <4>1
    <3>5. is_running_' = is_running_
      BY <1>5 DEF put
    <3>6. is_running_ => n <= a
      BY <2>2 DEF NoStrandedTask
    <3>7. is_running_' => n' <= a'
      BY <1>0, <3>3, <3>4, <3>5, <3>6
    <3>8. QED
      BY <3>7 DEF NoStrandedTask
  <2>3. QED
    BY <2>1, <2>2
<1>6. ASSUME NEW w \in Workers, take(w) PROVE NoStrandedTask'
  <2>1. Awake' = Awake \ {w} /\ w \in Awake /\ Waiting' = Waiting
    BY <1>6 DEF take, Awake, Waiting, Typed, TypeOK
  <2>2. a' = a - 1
    BY <2>1, OneMore, AwakeFinite
  <2>3. n' = n - 1
    BY <1>6, TailFacts DEF take, isEmpty, Typed, TypeOK
  <2>4. is_running_' = is_running_
    BY <1>6 DEF take
  <2>5. is_running_ /\ Waiting # {} => n <= a
    BY DEF NoStrandedTask
  <2>6. is_running_' /\ Waiting' # {} => n' <= a'
    BY <1>0, <2>1, <2>2, <2>3, <2>4, <2>5
  <2>7. QED
    BY <2>6 DEF NoStrandedTask
<1>7. ASSUME NEW w \in Workers, takeTest(w) \/ takeNull(w) PROVE NoStrandedTask'
  <2>1. n' = 0
    BY <1>0, <1>7 DEF takeTest, takeNull, isEmpty
  <2>2. QED
    BY <1>0, <2>1 DEF NoStrandedTask
<1>8. ASSUME NEW w \in Workers, wait(w) PROVE NoStrandedTask'
  <2>1. queue_ = <<>> /\ queue_' = queue_
    BY <1>8 DEF wait, DecidesOnEmpty
  <2>2. n' = 0
    BY <1>0, <2>1
  <2>3. QED
    BY <1>0, <2>2 DEF NoStrandedTask
<1>9. ASSUME NEW w \in Workers, loop(w) \/ run(w) \/ spuriousGet(w) PROVE NoStrandedTask'
  <2>1. CASE is_running_
    <3>1. /\ Awake' = Awake \/ Awake' = Awake \cup {w}
          /\ Waiting' \subseteq Waiting
      BY <1>9, <2>1 DEF loop, run, spuriousGet, Awake, Waiting, Typed, TypeOK
    <3>2. a' >= a
      <4>1. Cardinality(Awake \cup {w}) >= Cardinality(Awake)
        BY OneMore, AwakeFinite
      <4>2. CASE Awake' = Awake
        BY <1>0, <4>2
      <4>3. CASE Awake' = Awake \cup {w}
        BY <4>1, <4>3
      <4>4. QED
        BY <3>1, <4>2, <4>3
    <3>3. queue_' = queue_
      BY <1>9 DEF loop, run, spuriousGet
    <3>4. Waiting # {} => n <= a
      BY <2>1 DEF NoStrandedTask
    <3>5. n' = n
      BY <3>3
    <3>6. Waiting' # {} => n' <= a'
      BY <1>0, <3>1, <3>2, <3>4, <3>5
    <3>7. QED
      BY <3>6 DEF NoStrandedTask
  <2>2. CASE ~is_running_
    BY <1>9, <2>2 DEF loop, run, spuriousGet, NoStrandedTask
  <2>3. QED
    BY <2>1, <2>2
<1>10. QED
  BY <1>1, <1>2, <1>3, <1>4, <1>5, <1>6, <1>7, <1>8, <1>9
  DEF Next, Caller, MainStep, WorkerStep

(***************************************************************************)
(* While the pool runs, no task is left in the queue for sleeping workers: *)
(* if some worker sleeps, every queued task has a worker of its own that   *)
(* is awake.                                                               *)
(***************************************************************************)
THEOREM NoneStranded == Spec => []NoStrandedTask
<1>1. Init => DecidesOnEmpty /\ NoStrandedTask
  BY DEF Init, DecidesOnEmpty, NoStrandedTask
<1>2. Typed /\ DecidesOnEmpty /\ [Next]_vars => DecidesOnEmpty'
  BY DecidesStep
<1>3. Typed /\ DecidesOnEmpty /\ NoStrandedTask /\ [Next]_vars => NoStrandedTask'
  BY StrandedStep
<1>4. QED
  BY <1>1, <1>2, <1>3, TypedAlways, PTL DEF Spec

-----------------------------------------------------------------------------
(* put sleeps, and stop returns, for a reason *)

(***************************************************************************)
(* A worker that takes a task wakes put: while put sleeps the queue is     *)
(* full, so that it misses no room.                                        *)
(***************************************************************************)
THEOREM PutWaitsForRoom == Spec => []PutWaitsOnlyWhenFull
<1>1. Init => PutWaitsOnlyWhenFull
  BY DEF Init, PutWaitsOnlyWhenFull
<1>2. ASSUME PutWaitsOnlyWhenFull, [Next]_vars PROVE PutWaitsOnlyWhenFull'
  <2> USE DEF PutWaitsOnlyWhenFull, isFull
  <2>1. CASE Caller
    BY <1>2, <2>1 DEF Caller, start, putCall, stop
  <2>2. CASE MainStep
    BY <1>2, <2>2 DEF MainStep, put, putWait, notify_all, join_all
  <2>3. CASE spuriousPut \/ UNCHANGED vars
    BY <1>2, <2>3 DEF spuriousPut, vars
  <2>4. ASSUME NEW w \in Workers, WorkerStep(w) \/ spuriousGet(w)
        PROVE PutWaitsOnlyWhenFull'
    BY <1>2, <2>4 DEF WorkerStep, loop, take, takeNull, takeTest, wait, run, spuriousGet
  <2>5. QED
    BY <1>2, <2>1, <2>2, <2>3, <2>4 DEF Next
<1>3. QED
  BY <1>1, <1>2, PTL DEF Spec

(***************************************************************************)
(* Every task that was put is queued, with a worker, or done; and when     *)
(* stop has returned no worker is left.                                    *)
(***************************************************************************)
Held == {task[w] : w \in {v \in Workers : pc[v] = "run"}}
Accounted == 1..nput = ran \cup Queued(queue_) \cup Held
StoppedAlone == main = "stopped" => \A w \in Workers : pc[w] = "exited"

LEMMA AloneStep ==
  ASSUME Typed, StoppedAlone, [Next]_vars
  PROVE  StoppedAlone'
<1> USE DEF Typed, TypeOK, StoppedAlone
<1>1. CASE Caller
  BY <1>1 DEF Caller, start, putCall, stop
<1>2. CASE MainStep
  BY <1>2 DEF MainStep, put, putWait, notify_all, join_all
<1>3. CASE spuriousPut \/ UNCHANGED vars
  BY <1>3 DEF spuriousPut, vars
<1>4. ASSUME NEW w \in Workers, WorkerStep(w) \/ spuriousGet(w) PROVE StoppedAlone'
  BY <1>4 DEF WorkerStep, loop, take, takeNull, takeTest, wait, run, spuriousGet
<1>5. QED
  BY <1>1, <1>2, <1>3, <1>4 DEF Next

LEMMA AccountedStep ==
  ASSUME Typed, Accounted, [Next]_vars
  PROVE  Accounted'
<1> USE DEF Accounted
<1>1. ASSUME UNCHANGED <<nput, ran, queue_, task>>,
             \A w \in Workers : pc[w] = "run" <=> pc'[w] = "run"
      PROVE Accounted'
  BY <1>1 DEF Held
<1>2. CASE Caller \/ spuriousPut \/ UNCHANGED vars
  BY <1>1, <1>2 DEF Caller, start, putCall, stop, spuriousPut, vars, Typed, TypeOK
<1>3. CASE putWait \/ notify_all \/ join_all
  BY <1>1, <1>3 DEF putWait, notify_all, join_all, Typed, TypeOK
<1>4. CASE put
  <2>1. /\ nput' = nput + 1 /\ queue_' = Append(queue_, nput')
        /\ nput \in Nat /\ nput < MaxTasks
        /\ UNCHANGED <<ran, task>>
    BY <1>4, BoundAssumption DEF put, Typed, TypeOK
  <2>2. queue_ \in Seq(1..MaxTasks) /\ nput' \in 1..MaxTasks
    BY <2>1, BoundAssumption DEF Typed, TypeOK
  <2>3. Queued(queue_') = Queued(queue_) \cup {nput'}
    <3> DEFINE S == 1..MaxTasks
    <3>1. queue_ \in Seq(S) /\ nput' \in S
      BY <2>2
    <3> HIDE DEF S
    <3>2. Queued(Append(queue_, nput')) = Queued(queue_) \cup {nput'}
      BY <3>1, AppendFacts
    <3>3. QED
      BY <2>1, <3>2
  <2>4. 1..nput' = 1..nput \cup {nput'}
    BY <2>1
  <2>5. \A w \in Workers : pc[w] = "run" <=> pc'[w] = "run"
    BY <1>4 DEF put, notify_one_get, Waiting, Typed, TypeOK
  <2>6. Held' = Held
    BY <2>1, <2>5 DEF Held
  <2>7. QED
    BY <2>1, <2>3, <2>4, <2>6
<1>5. ASSUME NEW w \in Workers, take(w) PROVE Accounted'
  <2>1. queue_ \in Seq(1..MaxTasks) /\ queue_ # <<>>
    BY <1>5 DEF take, isEmpty, Typed, TypeOK
  <2>2. /\ queue_' = Tail(queue_)
        /\ task' = [task EXCEPT ![w] = Head(queue_)]
        /\ pc' = [pc EXCEPT ![w] = "run"]
        /\ pc[w] = "take"
        /\ UNCHANGED <<nput, ran>>
    BY <1>5 DEF take
  <2>3. Queued(queue_) = Queued(queue_') \cup {Head(queue_)}
    BY <2>1, <2>2, TailFacts
  <2>4. Held' = Held \cup {Head(queue_)}
    BY <2>2 DEF Held, Typed, TypeOK
  <2>5. QED
    BY <2>2, <2>3, <2>4
<1>6. ASSUME NEW w \in Workers, run(w) PROVE Accounted'
  <2>1. /\ ran' = ran \cup {task[w]}
        /\ task' = [task EXCEPT ![w] = 0]
        /\ pc' = [pc EXCEPT ![w] = "loop"]
        /\ pc[w] = "run"
        /\ UNCHANGED <<nput, queue_>>
    BY <1>6 DEF run
  <2>2. Held = Held' \cup {task[w]}
    BY <2>1 DEF Held, Typed, TypeOK
  <2>3. QED
    BY <2>1, <2>2
<1>7. ASSUME NEW w \in Workers,
             loop(w) \/ takeNull(w) \/ takeTest(w) \/ wait(w) \/ spuriousGet(w)
      PROVE Accounted'
  BY <1>1, <1>7 DEF loop, takeNull, takeTest, wait, spuriousGet, Typed, TypeOK
<1>8. QED
  BY <1>2, <1>3, <1>4, <1>5, <1>6, <1>7 DEF Next, MainStep, WorkerStep

(***************************************************************************)
(* When stop has returned, every task that was taken has been run to its   *)
(* end, and every other one is still in the queue.                         *)
(***************************************************************************)
THEOREM StopLosesNone == Spec => []StopLosesNoTask
<1>1. Init => Accounted /\ StoppedAlone
  <2>1. SUFFICES ASSUME Init PROVE Accounted
    BY DEF Init, StoppedAlone
  <2>2. Queued(queue_) = {} /\ Held = {} /\ ran = {} /\ nput = 0
    <3>1. Len(<<>>) = 0
      OBVIOUS
    <3>2. QED
      BY <2>1, <3>1 DEF Init, Queued, Held
  <2>3. QED
    BY <2>2 DEF Accounted
<1>2. Typed /\ Accounted /\ [Next]_vars => Accounted'
  BY AccountedStep
<1>3. Typed /\ StoppedAlone /\ [Next]_vars => StoppedAlone'
  BY AloneStep
<1>4. Accounted /\ StoppedAlone => StopLosesNoTask
  <2>1. SUFFICES ASSUME Accounted, StoppedAlone, main = "stopped"
                 PROVE 1..nput = ran \cup {queue_[i] : i \in 1..Len(queue_)}
    BY DEF StopLosesNoTask
  <2>2. Held = {}
    BY <2>1 DEF Held, StoppedAlone
  <2>3. QED
    BY <2>1, <2>2 DEF Accounted, Queued
<1>5. QED
  BY <1>1, <1>2, <1>3, <1>4, TypedAlways, PTL DEF Spec

-----------------------------------------------------------------------------
(* Refinement *)

(***************************************************************************)
(* Every step of the pool is a step of the task queue or does not show.    *)
(***************************************************************************)
LEMMA StepIsQueueStep ==
  ASSUME Typed, [Next]_vars
  PROVE  [TQ!Next]_(TQ!vars)
<1> USE DEF Typed, TypeOK
<1>1. CASE start
  <2>1. CASE is_running_
    BY <1>1, <2>1 DEF start, TQ!vars
  <2>2. CASE ~is_running_
    BY <1>1, <2>2 DEF start, TQ!Open, TQ!Next
  <2>3. QED
    BY <2>1, <2>2
<1>2. CASE stop
  BY <1>2 DEF stop, TQ!Close, TQ!Next
<1>3. CASE put
  <2>1. Len(queue_) < max_queue_size_
    <3>1. Len(queue_) \in Nat /\ Len(queue_) <= max_queue_size_ /\ Len(queue_) # max_queue_size_
      BY <1>3 DEF put, isFull
    <3>2. QED
      BY <3>1, SizeAssumption
  <2>2. TQ!Put
    BY <1>3, <2>1 DEF put, TQ!Put
  <2>3. QED
    BY <2>2 DEF TQ!Next
<1>4. ASSUME NEW w \in Workers, take(w) PROVE TQ!Next
  <2>1. TQ!Take(w)
    BY <1>4 DEF take, isEmpty, TQ!Take
  <2>2. QED
    BY <2>1 DEF TQ!Next
<1>5. ASSUME NEW w \in Workers, run(w) PROVE TQ!Next
  <2>1. TQ!Finish(w)
    BY <1>5 DEF run, TQ!Finish
  <2>2. QED
    BY <2>1 DEF TQ!Next
<1>6. CASE putCall \/ putWait \/ notify_all \/ join_all \/ spuriousPut \/ UNCHANGED vars
  BY <1>6 DEF putCall, putWait, notify_all, join_all, spuriousPut, vars, TQ!vars
<1>7. ASSUME NEW w \in Workers,
             loop(w) \/ takeNull(w) \/ takeTest(w) \/ wait(w) \/ spuriousGet(w)
      PROVE UNCHANGED TQ!vars
  BY <1>7 DEF loop, takeNull, takeTest, wait, spuriousGet, TQ!vars
<1>8. QED
  BY <1>1, <1>2, <1>3, <1>4, <1>5, <1>6, <1>7 DEF Next, Caller, MainStep, WorkerStep

(***************************************************************************)
(* The pool is a bounded queue of tasks, each started in the order of put, *)
(* by one worker and once: the safety part of ImplementsTaskQueue.         *)
(***************************************************************************)
THEOREM PoolIsTaskQueue == Spec => TQ!Init /\ [][TQ!Next]_(TQ!vars)
<1>1. Init => TQ!Init
  BY DEF Init, TQ!Init
<1>2. Typed /\ [Next]_vars => [TQ!Next]_(TQ!vars)
  BY StepIsQueueStep
<1>3. QED
  BY <1>1, <1>2, TypedAlways, PTL DEF Spec
=============================================================================
