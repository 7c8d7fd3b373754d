------------------------ MODULE ConnectionPoolProofs ------------------------
(***************************************************************************)
(* Theorems about the pool of connections, for any number of threads,      *)
(* connections and addresses.                                              *)
(***************************************************************************)
EXTENDS ConnectionPool, FiniteSetTheorems, TLAPS

LEMMA ConnsFacts ==
  /\ pool_size_ \in Nat \ {0}
  /\ \A c \in Conns : c \in Int /\ c >= 0 /\ c < pool_size_
  /\ NoConn \notin Conns
  /\ \A c \in Conns : \A d \in 0..(c - 1) : d \in Conns
BY PoolAssumption DEF Conns, NoConn

(***************************************************************************)
(* The round robin stays within the pool, also for a negative count_.      *)
(***************************************************************************)
LEMMA ModInRange ==
  ASSUME NEW a \in Int, NEW b \in Nat \ {0}
  PROVE  a % b \in 0..(b - 1)
OBVIOUS

LEMMA RoundRobinInConns ==
  ASSUME TypeOK, NEW i \in Conns
  PROVE  roundRobin(i) \in Conns
<1>1. count_ \in Int /\ pool_size_ \in Nat \ {0} /\ i \in Int
  BY ConnsFacts, BoundsAssumption DEF TypeOK
<1>2. count_ % pool_size_ \in Int
  BY <1>1, ModInRange
<1>3. (count_ % pool_size_) + i \in Int
  BY <1>1, <1>2
<1>4. QED
  BY <1>1, <1>3, ModInRange DEF roundRobin, Conns

LEMMA EmptyWire == <<>> \in Seq(Threads)
OBVIOUS

(***************************************************************************)
(* The initial state has the types.                                        *)
(***************************************************************************)
LEMMA TypeInit == Init => TypeOK
BY ConnsFacts, PoolAssumption, BoundsAssumption DEF Init, TypeOK

(***************************************************************************)
(* Every step keeps the types, and which threads have a connection.        *)
(***************************************************************************)
LEMMA TypeStep ==
  ASSUME TypeOK, [Next]_vars
  PROVE  TypeOK'
<1> USE DEF TypeOK
<1>1. ASSUME NEW t \in Threads, getAvailable(t) PROVE TypeOK'
  <2>1. \E i \in Conns : conn' = [conn EXCEPT ![t] = roundRobin(i)] /\ roundRobin(i) \in Conns
    BY <1>1, RoundRobinInConns DEF getAvailable
  <2>2. count_' \in -(IntMax + 1)..IntMax
    BY <1>1, BoundsAssumption DEF getAvailable, inc
  <2>3. QED
    BY <1>1, <2>1, <2>2, ConnsFacts DEF getAvailable
<1>2. ASSUME NEW t \in Threads, getReopened(t) PROVE TypeOK'
  <2>1. PICK c \in Conns :
           /\ sock' = [sock EXCEPT ![c] = opened(c, sock)]
           /\ busy' = [busy EXCEPT ![c] = TRUE]
           /\ dead' = [d \in Conns |-> dead[d] \/ (d < c /\ ~busy[d])]
           /\ conn' = [conn EXCEPT ![t] = c]
    BY <1>2 DEF getReopened
  <2>2. sock' \in [Conns -> {"closed", "open", "broken"}]
    BY <2>1 DEF opened
  <2>3. dead' \in [Conns -> BOOLEAN]
    BY <2>1
  <2>4. QED
    BY <1>2, <2>1, <2>2, <2>3, ConnsFacts DEF getReopened
<1>3. ASSUME NEW t \in Threads, getNull(t) \/ giveUp(t) PROVE TypeOK'
  BY <1>3, ConnsFacts DEF getNull, giveUp
<1>4. ASSUME NEW t \in Threads, send(t) PROVE TypeOK'
  <2>1. conn[t] \in Conns
    BY <1>4 DEF send
  <2>2. wire' \in [Conns -> Seq(Threads)]
    BY <1>4, <2>1 DEF send
  <2>3. QED
    BY <1>4, <2>2 DEF send
<1>5. ASSUME NEW t \in Threads, recv(t) PROVE TypeOK'
  <2>1. conn[t] \in Conns /\ replies[conn[t]] \in Seq(Threads) /\ replies[conn[t]] # <<>>
    BY <1>5 DEF recv
  <2>2. Head(replies[conn[t]]) \in Threads /\ Tail(replies[conn[t]]) \in Seq(Threads)
    BY <2>1
  <2>3. QED
    BY <1>5, <2>1, <2>2 DEF recv
<1>6. ASSUME NEW t \in Threads, fail(t) PROVE TypeOK'
  BY <1>6 DEF fail
<1>7. ASSUME NEW t \in Threads, NEW status \in BOOLEAN, release(t, status) PROVE TypeOK'
  <2>1. conn[t] \in Conns /\ pc[t] \in {"ok", "failed"}
    BY <1>7 DEF release
  <2>2. busy' \in [Conns -> BOOLEAN] /\ dead' \in [Conns -> BOOLEAN]
    BY <1>7 DEF release
  <2>3. sock' \in [Conns -> {"closed", "open", "broken"}]
    <3> DEFINE s == IF status THEN sock ELSE [c \in Conns |-> "closed"]
               b == [busy EXCEPT ![conn[t]] = FALSE]
    <3>1. s \in [Conns -> {"closed", "open", "broken"}]
      OBVIOUS
    <3>2. \/ sock' = s
          \/ sock' = [c \in Conns |-> IF ~b[c] /\ opens(c, s) THEN opened(c, s) ELSE s[c]]
      BY <1>7 DEF release
    <3> HIDE DEF s, b
    <3>3. \A c \in Conns : opened(c, s) \in {"closed", "open", "broken"}
      BY <3>1 DEF opened
    <3>4. QED
      BY <3>1, <3>2, <3>3
  <2>4. wire' \in [Conns -> Seq(Threads)] /\ replies' \in [Conns -> Seq(Threads)]
    <3>1. CASE status
      BY <1>7, <3>1 DEF release
    <3>2. CASE ~status
      BY <1>7, <3>2, EmptyWire DEF release
    <3>3. QED
      BY <3>1, <3>2
  <2>5. last_checked_time_' \in Int
    <3>1. now \in Int
      BY BoundsAssumption
    <3>2. last_checked_time_' = now \/ last_checked_time_' = last_checked_time_
      BY <1>7 DEF release
    <3>3. QED
      BY <3>1, <3>2
  <2>6. QED
    BY <1>7, <2>1, <2>2, <2>3, <2>4, <2>5, ConnsFacts DEF release
<1>8. ASSUME NEW a \in Addrs, BackendUp(a) PROVE TypeOK'
  BY <1>8 DEF BackendUp, callVars
<1>9. ASSUME NEW a \in Addrs, BackendDown(a) PROVE TypeOK'
  <2>1. sock' \in [Conns -> {"closed", "open", "broken"}]
    BY <1>9 DEF BackendDown
  <2>2. wire' \in [Conns -> Seq(Threads)] /\ replies' \in [Conns -> Seq(Threads)]
    <3>1. wire' \in [Conns -> Seq(Threads)]
      BY <1>9, EmptyWire DEF BackendDown
    <3>2. CASE UNCHANGED replies
      BY <3>1, <3>2
    <3>3. CASE replies' = [c \in Conns |-> IF addr(c) = a THEN <<>> ELSE replies[c]]
      BY <3>1, <3>3, EmptyWire
    <3>4. QED
      BY <1>9, <3>2, <3>3 DEF BackendDown
  <2>3. QED
    BY <1>9, <2>1, <2>2 DEF BackendDown, callVars
<1>10. ASSUME NEW c \in Conns, BackendAnswers(c) PROVE TypeOK'
  <2>1. wire[c] \in Seq(Threads) /\ wire[c] # <<>> /\ replies[c] \in Seq(Threads)
    BY <1>10 DEF BackendAnswers
  <2>2. Head(wire[c]) \in Threads /\ Tail(wire[c]) \in Seq(Threads)
    BY <2>1
  <2>3. Append(replies[c], Head(wire[c])) \in Seq(Threads)
    BY <2>1, <2>2
  <2>4. QED
    BY <1>10, <2>2, <2>3 DEF BackendAnswers, callVars
<1>11. CASE Tick
  BY <1>11, BoundsAssumption DEF Tick, callVars
<1>12. CASE UNCHANGED vars
  BY <1>12 DEF vars
<1>13. QED
  BY <1>1, <1>2, <1>3, <1>4, <1>5, <1>6, <1>7, <1>8, <1>9, <1>10, <1>11, <1>12
  DEF Next, ThreadStep

(***************************************************************************)
(* Type correctness; a thread has a connection exactly from getConnection  *)
(* until its release.                                                      *)
(***************************************************************************)
THEOREM TypeCorrect == Spec => []TypeOK
<1>1. Init => TypeOK
  BY TypeInit
<1>2. TypeOK /\ [Next]_vars => TypeOK'
  BY TypeStep
<1>3. QED
  BY <1>1, <1>2, PTL DEF Spec

-----------------------------------------------------------------------------
(* The marks *)

(***************************************************************************)
(* A connection that is marked busy keeps its holder until the mark is     *)
(* cleared.                                                                *)
(***************************************************************************)
LEMMA BusyStep ==
  ASSUME TypeOK, BusyHeld, [Next]_vars
  PROVE  BusyHeld'
<1> USE DEF BusyHeld, TypeOK
<1>1. ASSUME NEW t \in Threads, getAvailable(t) PROVE BusyHeld'
  <2>1. PICK d : conn' = [conn EXCEPT ![t] = d]
    BY <1>1 DEF getAvailable
  <2>2. busy' = busy /\ conn[t] \notin Conns
    BY <1>1 DEF getAvailable
  <2>3. QED
    BY <2>1, <2>2
<1>2. ASSUME NEW t \in Threads, getReopened(t) PROVE BusyHeld'
  <2>1. PICK c \in Conns : /\ busy' = [busy EXCEPT ![c] = TRUE]
                           /\ conn' = [conn EXCEPT ![t] = c]
    BY <1>2 DEF getReopened
  <2>2. conn[t] \notin Conns
    BY <1>2 DEF getReopened
  <2>3. QED
    BY <2>1, <2>2
<1>3. ASSUME NEW t \in Threads, NEW status \in BOOLEAN, release(t, status) PROVE BusyHeld'
  <2>1. /\ busy' = [busy EXCEPT ![conn[t]] = FALSE]
        /\ conn' = [conn EXCEPT ![t] = NoConn]
        /\ conn[t] \in Conns
    BY <1>3 DEF release
  <2>2. QED
    BY <2>1
<1>4. ASSUME NEW t \in Threads,
             getNull(t) \/ giveUp(t) \/ send(t) \/ recv(t) \/ fail(t)
      PROVE BusyHeld'
  BY <1>4 DEF getNull, giveUp, send, recv, fail
<1>5. ASSUME \/ \E a \in Addrs : BackendUp(a) \/ BackendDown(a)
             \/ \E c \in Conns : BackendAnswers(c)
             \/ Tick
             \/ UNCHANGED vars
      PROVE BusyHeld'
  BY <1>5 DEF BackendUp, BackendDown, BackendAnswers, Tick, callVars, vars
<1>6. QED
  BY <1>1, <1>2, <1>3, <1>4, <1>5 DEF Next, ThreadStep

(***************************************************************************)
(* A connection marked busy is some thread's: none is lost to the pool,    *)
(* although whichever holder releases it first clears the mark.            *)
(***************************************************************************)
THEOREM BusyIsHeld == Spec => []BusyHeld
<1>1. Init => BusyHeld
  BY DEF Init, BusyHeld
<1>2. TypeOK /\ BusyHeld /\ [Next]_vars => BusyHeld'
  BY BusyStep
<1>3. QED
  BY <1>1, <1>2, TypeCorrect, PTL DEF Spec

(***************************************************************************)
(* Whoever marks a connection dead has found it closed, or closes it.      *)
(***************************************************************************)
LEMMA DeadStep ==
  ASSUME TypeOK, DeadIsClosed, [Next]_vars
  PROVE  DeadIsClosed'
<1> USE DEF DeadIsClosed, TypeOK
<1>1. ASSUME NEW t \in Threads, getReopened(t) PROVE DeadIsClosed'
  <2>1. PICK c \in Conns :
          /\ \A d \in 0..(c - 1) : busy[d] \/ ~opens(d, sock)
          /\ sock' = [sock EXCEPT ![c] = opened(c, sock)]
          /\ busy' = [busy EXCEPT ![c] = TRUE]
          /\ dead' = [d \in Conns |-> dead[d] \/ (d < c /\ ~busy[d])]
    BY <1>1 DEF getReopened
  <2>2. ASSUME NEW d \in Conns, dead'[d], ~busy'[d] PROVE sock'[d] = "closed"
    <3>1. d # c /\ ~busy[d] /\ sock'[d] = sock[d]
      BY <2>1, <2>2
    <3>2. CASE dead[d]
      BY <3>1, <3>2
    <3>3. CASE d < c
      <4>1. d \in 0..(c - 1)
        BY <3>3, ConnsFacts
      <4>2. QED
        BY <2>1, <3>1, <4>1 DEF opens
    <3>4. QED
      BY <2>1, <2>2, <3>2, <3>3
  <2>3. QED
    BY <2>2
<1>2. ASSUME NEW t \in Threads, getNull(t) PROVE DeadIsClosed'
  BY <1>2 DEF getNull, opens
<1>3. ASSUME NEW t \in Threads, NEW status \in BOOLEAN, release(t, status) PROVE DeadIsClosed'
  <2>1. conn[t] \in Conns
    BY <1>3 DEF release
  <2> DEFINE b == [busy EXCEPT ![conn[t]] = FALSE]
             d == IF status THEN [dead EXCEPT ![conn[t]] = FALSE] ELSE [c \in Conns |-> TRUE]
             s == IF status THEN sock ELSE [c \in Conns |-> "closed"]
  <2>2. \A c \in Conns : d[c] /\ ~b[c] => s[c] = "closed"
    BY <2>1
  <2>3. /\ busy' = b
        /\ \/ /\ sock' = [c \in Conns |-> IF ~b[c] /\ opens(c, s) THEN opened(c, s) ELSE s[c]]
              /\ dead' = [c \in Conns |-> IF b[c] THEN d[c] ELSE ~opens(c, s)]
           \/ sock' = s /\ dead' = d
    BY <1>3 DEF release
  <2> HIDE DEF b, d, s
  <2>4. CASE sock' = s /\ dead' = d
    BY <2>2, <2>3, <2>4
  <2>5. CASE /\ sock' = [c \in Conns |-> IF ~b[c] /\ opens(c, s) THEN opened(c, s) ELSE s[c]]
             /\ dead' = [c \in Conns |-> IF b[c] THEN d[c] ELSE ~opens(c, s)]
    BY <2>3, <2>5 DEF opens
  <2>6. QED
    BY <2>3, <2>4, <2>5
<1>4. ASSUME NEW t \in Threads,
             getAvailable(t) \/ giveUp(t) \/ send(t) \/ recv(t) \/ fail(t)
      PROVE DeadIsClosed'
  BY <1>4 DEF getAvailable, giveUp, send, recv, fail
<1>5. ASSUME NEW a \in Addrs, BackendDown(a) PROVE DeadIsClosed'
  BY <1>5 DEF BackendDown
<1>6. ASSUME \/ \E a \in Addrs : BackendUp(a)
             \/ \E c \in Conns : BackendAnswers(c)
             \/ Tick
             \/ UNCHANGED vars
      PROVE DeadIsClosed'
  BY <1>6 DEF BackendUp, BackendAnswers, Tick, callVars, vars
<1>7. QED
  BY <1>1, <1>2, <1>3, <1>4, <1>5, <1>6 DEF Next, ThreadStep

(***************************************************************************)
(* A connection marked dead that nobody uses is closed, whatever happens   *)
(* to the backends and however old last_checked_time_ is.                  *)
(***************************************************************************)
THEOREM DeadAreClosed == Spec => []DeadIsClosed
<1>1. Init => DeadIsClosed
  BY DEF Init, DeadIsClosed
<1>2. TypeOK /\ DeadIsClosed /\ [Next]_vars => DeadIsClosed'
  BY DeadStep
<1>3. QED
  BY <1>1, <1>2, TypeCorrect, PTL DEF Spec

-----------------------------------------------------------------------------
(* Answers left behind *)

(***************************************************************************)
(* The threads that may have an answer under way on c, and the invariant   *)
(* that there are no more answers than such threads.                       *)
(***************************************************************************)
Owed(c) == {t \in Threads : conn[t] = c /\ pc[t] \in {"sent", "failed"}}
Requests(c) == Len(wire[c])
Answers(c) == Len(replies[c])
Fits(c) == Requests(c) + Answers(c) <= Cardinality(Owed(c))
NoMoreThanOwed == \A c \in Conns : Fits(c)

LEMMA OwedFinite ==
  /\ \A c : IsFiniteSet(Owed(c)) /\ Cardinality(Owed(c)) \in Nat
  /\ \A c : IsFiniteSet(Owed(c)') /\ Cardinality(Owed(c)') \in Nat
<1>1. \A S : S \subseteq Threads => IsFiniteSet(S) /\ Cardinality(S) \in Nat
  BY EnoughAssumption, FS_Subset, FS_CardinalityType
<1>2. QED
  BY <1>1 DEF Owed

LEMMA OneMore ==
  ASSUME NEW S, IsFiniteSet(S), NEW x
  PROVE  /\ Cardinality(S) \in Nat
         /\ Cardinality(S \cup {x}) \in Nat
         /\ Cardinality(S \cup {x}) >= Cardinality(S)
         /\ x \notin S => Cardinality(S \cup {x}) = Cardinality(S) + 1
         /\ x \in S => Cardinality(S \ {x}) = Cardinality(S) - 1
<1>1. Cardinality(S) \in Nat
  BY FS_CardinalityType
<1>2. Cardinality(S \cup {x}) = IF x \in S THEN Cardinality(S) ELSE Cardinality(S) + 1
  BY FS_AddElement
<1>3. x \in S => Cardinality(S \ {x}) = Cardinality(S) - 1
  BY FS_RemoveElement
<1>4. QED
  BY <1>1, <1>2, <1>3

(***************************************************************************)
(* Neither the threads a connection owes nor what is on it changes.        *)
(***************************************************************************)
LEMMA OwedUnchanged ==
  ASSUME NoMoreThanOwed, UNCHANGED <<wire, replies>>,
         \A c \in Conns : Owed(c)' = Owed(c)
  PROVE  NoMoreThanOwed'
<1>1. ASSUME NEW c \in Conns
      PROVE Requests(c)' + Answers(c)' <= Cardinality(Owed(c)')
  <2>1. Requests(c) + Answers(c) <= Cardinality(Owed(c))
    BY DEF NoMoreThanOwed, Fits
  <2>2. Owed(c)' = Owed(c)
    OBVIOUS
  <2>3. Cardinality(Owed(c)') = Cardinality(Owed(c))
    BY <2>2
  <2>4. Requests(c)' = Requests(c) /\ Answers(c)' = Answers(c)
    BY DEF Requests, Answers
  <2>5. QED
    BY <2>1, <2>3, <2>4
<1>2. QED
  BY <1>1 DEF NoMoreThanOwed, Fits

LEMMA OwedStep ==
  ASSUME TypeOK, NoMoreThanOwed, [Next]_vars
  PROVE  NoMoreThanOwed'
<1> USE DEF NoMoreThanOwed
<1>0. ASSUME NEW c \in Conns
      PROVE  /\ wire[c] \in Seq(Threads) /\ replies[c] \in Seq(Threads)
             /\ Requests(c) \in Nat /\ Answers(c) \in Nat
             /\ Requests(c) + Answers(c) <= Cardinality(Owed(c))
  <2>1. wire[c] \in Seq(Threads) /\ replies[c] \in Seq(Threads)
    BY DEF TypeOK
  <2>2. Requests(c) \in Nat /\ Answers(c) \in Nat
    BY <2>1 DEF Requests, Answers
  <2>3. QED
    BY <2>1, <2>2 DEF Fits
<1>1. ASSUME NEW t \in Threads, getAvailable(t) \/ getReopened(t)
      PROVE NoMoreThanOwed'
  <2>1. PICK d : conn' = [conn EXCEPT ![t] = d]
    BY <1>1 DEF getAvailable, getReopened
  <2>2. \A c \in Conns : Owed(c)' = Owed(c)
    BY <1>1, <2>1 DEF getAvailable, getReopened, Owed, TypeOK
  <2>3. QED
    BY <1>1, <2>2, OwedUnchanged DEF getAvailable, getReopened
<1>2. ASSUME NEW t \in Threads, getNull(t) \/ giveUp(t) PROVE NoMoreThanOwed'
  <2>1. \A c \in Conns : Owed(c)' = Owed(c)
    BY <1>2 DEF getNull, giveUp, Owed, TypeOK
  <2>2. QED
    BY <1>2, <2>1, OwedUnchanged DEF getNull, giveUp
<1>3. ASSUME NEW t \in Threads, send(t) PROVE NoMoreThanOwed'
  <2>1. ASSUME NEW c \in Conns, c # conn[t] PROVE Fits(c)'
    <3>1. Owed(c)' = Owed(c) /\ wire'[c] = wire[c] /\ replies'[c] = replies[c]
      BY <1>3, <2>1 DEF send, Owed, TypeOK
    <3>2. Requests(c)' = Requests(c) /\ Answers(c)' = Answers(c)
      BY <3>1 DEF Requests, Answers
    <3>3. QED
      BY <1>0, <3>1, <3>2 DEF Fits
  <2>2. ASSUME NEW c \in Conns, c = conn[t] PROVE Fits(c)'
    <3>1. Owed(c)' = Owed(c) \cup {t} /\ t \notin Owed(c)
      BY <1>3, <2>2 DEF send, Owed, TypeOK
    <3>2. wire'[c] = Append(wire[c], t) /\ replies'[c] = replies[c]
      BY <1>3, <2>2 DEF send, TypeOK
    <3>3. Requests(c)' = Requests(c) + 1 /\ Answers(c)' = Answers(c)
      BY <1>0, <3>2 DEF Requests, Answers
    <3>4. Cardinality(Owed(c)') = Cardinality(Owed(c)) + 1 /\ Cardinality(Owed(c)) \in Nat
      BY <3>1, OneMore, OwedFinite
    <3>5. QED
      BY <1>0, <3>3, <3>4 DEF Fits
  <2>3. QED
    BY <2>1, <2>2
<1>4. ASSUME NEW t \in Threads, recv(t) PROVE NoMoreThanOwed'
  <2>1. ASSUME NEW c \in Conns, c # conn[t] PROVE Fits(c)'
    <3>1. Owed(c)' = Owed(c) /\ wire'[c] = wire[c] /\ replies'[c] = replies[c]
      BY <1>4, <2>1 DEF recv, Owed, TypeOK
    <3>2. Requests(c)' = Requests(c) /\ Answers(c)' = Answers(c)
      BY <3>1 DEF Requests, Answers
    <3>3. QED
      BY <1>0, <3>1, <3>2 DEF Fits
  <2>2. ASSUME NEW c \in Conns, c = conn[t] PROVE Fits(c)'
    <3>1. Owed(c)' = Owed(c) \ {t} /\ t \in Owed(c)
      BY <1>4, <2>2 DEF recv, Owed, TypeOK
    <3>2. replies'[c] = Tail(replies[c]) /\ wire'[c] = wire[c] /\ replies[c] # <<>>
      BY <1>4, <2>2 DEF recv, TypeOK
    <3>3. Answers(c)' = Answers(c) - 1 /\ Requests(c)' = Requests(c)
      BY <1>0, <3>2 DEF Requests, Answers
    <3>4. Cardinality(Owed(c)') = Cardinality(Owed(c)) - 1 /\ Cardinality(Owed(c)) \in Nat
      BY <3>1, OneMore, OwedFinite
    <3>5. QED
      BY <1>0, <3>3, <3>4 DEF Fits
  <2>3. QED
    BY <2>1, <2>2
<1>5. ASSUME NEW t \in Threads, fail(t) PROVE NoMoreThanOwed'
  <2>1. ASSUME NEW c \in Conns PROVE Fits(c)'
    <3>1. Owed(c)' = Owed(c) \/ Owed(c)' = Owed(c) \cup {t}
      BY <1>5 DEF fail, Owed, TypeOK
    <3>2. Cardinality(Owed(c)') >= Cardinality(Owed(c)) /\ Cardinality(Owed(c)) \in Nat
          /\ Cardinality(Owed(c)') \in Nat
      BY <3>1, OneMore, OwedFinite
    <3>3. Requests(c)' = Requests(c) /\ Answers(c)' = Answers(c)
      BY <1>5 DEF fail, Requests, Answers
    <3>4. QED
      BY <1>0, <3>2, <3>3 DEF Fits
  <2>2. QED
    BY <2>1
<1>6. ASSUME NEW t \in Threads, release(t, TRUE) PROVE NoMoreThanOwed'
  <2>1. \A c \in Conns : Owed(c)' = Owed(c)
    BY <1>6, ConnsFacts DEF release, Owed, TypeOK
  <2>2. UNCHANGED <<wire, replies>>
    BY <1>6 DEF release
  <2>3. QED
    BY <2>1, <2>2, OwedUnchanged
<1>7. ASSUME NEW t \in Threads, release(t, FALSE) PROVE NoMoreThanOwed'
  <2>1. \A c \in Conns : Requests(c)' = 0 /\ Answers(c)' = 0
    BY <1>7 DEF release, Requests, Answers
  <2>2. \A c \in Conns : Cardinality(Owed(c)') \in Nat
    BY OwedFinite
  <2>3. QED
    BY <2>1, <2>2 DEF Fits
<1>8. ASSUME NEW a \in Addrs, BackendDown(a) PROVE NoMoreThanOwed'
  <2>1. ASSUME NEW c \in Conns PROVE Fits(c)'
    <3>1. /\ wire'[c] = wire[c] \/ wire'[c] = <<>>
          /\ replies'[c] = replies[c] \/ replies'[c] = <<>>
      BY <1>8 DEF BackendDown
    <3>2. Len(<<>>) = 0
      OBVIOUS
    <3>3. /\ Requests(c)' <= Requests(c) /\ Answers(c)' <= Answers(c)
          /\ Requests(c)' \in Nat /\ Answers(c)' \in Nat
      BY <1>0, <3>1, <3>2 DEF Requests, Answers
    <3>4. Owed(c)' = Owed(c)
      BY <1>8 DEF BackendDown, callVars, Owed
    <3>5. Cardinality(Owed(c)') = Cardinality(Owed(c)) /\ Cardinality(Owed(c)) \in Nat
      BY <3>4, OwedFinite
    <3>6. QED
      BY <1>0, <3>3, <3>5 DEF Fits
  <2>2. QED
    BY <2>1
<1>9. ASSUME NEW d \in Conns, BackendAnswers(d) PROVE NoMoreThanOwed'
  <2>1. \A c \in Conns : Owed(c)' = Owed(c)
    BY <1>9 DEF BackendAnswers, callVars, Owed
  <2>2. ASSUME NEW c \in Conns PROVE Fits(c)'
    <3>1. CASE c # d
      <4>1. wire'[c] = wire[c] /\ replies'[c] = replies[c]
        BY <1>9, <3>1 DEF BackendAnswers, TypeOK
      <4>2. Requests(c)' = Requests(c) /\ Answers(c)' = Answers(c)
        BY <4>1 DEF Requests, Answers
      <4>3. QED
        BY <1>0, <2>1, <4>2 DEF Fits
    <3>2. CASE c = d
      <4>1. /\ wire'[c] = Tail(wire[c]) /\ wire[c] # <<>>
            /\ replies'[c] = Append(replies[c], Head(wire[c]))
        BY <1>9, <3>2 DEF BackendAnswers, TypeOK
      <4>2. Requests(c)' = Requests(c) - 1 /\ Answers(c)' = Answers(c) + 1
        BY <1>0, <4>1 DEF Requests, Answers
      <4>3. QED
        BY <1>0, <2>1, <4>2 DEF Fits
    <3>3. QED
      BY <3>1, <3>2
  <2>3. QED
    BY <2>2
<1>10. ASSUME (\E a \in Addrs : BackendUp(a)) \/ Tick \/ UNCHANGED vars
       PROVE NoMoreThanOwed'
  <2>1. UNCHANGED <<wire, replies, pc, conn>>
    BY <1>10 DEF BackendUp, Tick, callVars, vars
  <2>2. \A c \in Conns : Owed(c)' = Owed(c)
    BY <2>1 DEF Owed
  <2>3. QED
    BY <2>1, <2>2, OwedUnchanged
<1>11. QED
  BY <1>1, <1>2, <1>3, <1>4, <1>5, <1>6, <1>7, <1>8, <1>9, <1>10 DEF Next, ThreadStep

(***************************************************************************)
(* No answer is left on a connection that nobody has: the next user cannot *)
(* read the verdict on an earlier message.                                 *)
(***************************************************************************)
THEOREM NoneStale == Spec => []NoStaleAnswer
<1>1. Init => NoMoreThanOwed
  <2>1. SUFFICES ASSUME Init, NEW c \in Conns
                 PROVE Requests(c) + Answers(c) <= Cardinality(Owed(c))
    BY DEF NoMoreThanOwed, Fits
  <2>2. Requests(c) = 0 /\ Answers(c) = 0
    BY <2>1 DEF Init, Requests, Answers
  <2>3. Cardinality(Owed(c)) \in Nat
    BY OwedFinite
  <2>4. QED
    BY <2>2, <2>3
<1>2. TypeOK /\ NoMoreThanOwed /\ [Next]_vars => NoMoreThanOwed'
  BY OwedStep
<1>3. TypeOK /\ NoMoreThanOwed => NoStaleAnswer
  <2>1. SUFFICES ASSUME TypeOK, NoMoreThanOwed, NEW c \in Conns,
                        \A t \in Threads : conn[t] # c
                 PROVE wire[c] = <<>> /\ replies[c] = <<>>
    BY DEF NoStaleAnswer
  <2>2. Owed(c) = {}
    BY <2>1 DEF Owed
  <2>3. Cardinality(Owed(c)) = 0
    BY <2>2, FS_EmptySet
  <2>4. Requests(c) + Answers(c) <= 0
    BY <2>1, <2>3 DEF NoMoreThanOwed, Fits
  <2>5. wire[c] \in Seq(Threads) /\ replies[c] \in Seq(Threads)
    BY <2>1 DEF TypeOK
  <2>6. Requests(c) = 0 /\ Answers(c) = 0
    <3>1. Requests(c) \in Nat /\ Answers(c) \in Nat
      BY <2>5 DEF Requests, Answers
    <3>2. QED
      BY <2>4, <3>1
  <2>7. QED
    BY <2>5, <2>6 DEF Requests, Answers
<1>4. QED
  BY <1>1, <1>2, <1>3, TypeCorrect, PTL DEF Spec

-----------------------------------------------------------------------------
(* Enough connections *)

(***************************************************************************)
(* While some thread has no connection, some connection is not busy: each  *)
(* busy one has a holder, and there are as many connections as threads.    *)
(***************************************************************************)
LEMMA SomeNotBusy ==
  ASSUME TypeOK, BusyHeld, NEW t \in Threads, conn[t] \notin Conns
  PROVE  \E c \in Conns : ~busy[c]
<1> SUFFICES ASSUME \A c \in Conns : busy[c] PROVE FALSE
  OBVIOUS
<1> DEFINE holder == [c \in Conns |-> CHOOSE u \in Threads : conn[u] = c]
           others == Threads \ {t}
<1>1. \A c \in Conns : holder[c] \in Threads /\ conn[holder[c]] = c
  BY DEF BusyHeld
<1>2. holder \in [Conns -> others]
  BY <1>1
<1> HIDE DEF holder
<1>3. holder \in Injection(Conns, others)
  BY <1>1, <1>2 DEF Injection, IsInjective
<1>4. /\ IsFiniteSet(others)
      /\ Cardinality(others) = Cardinality(Threads) - 1
      /\ Cardinality(Threads) \in Nat
  BY EnoughAssumption, FS_RemoveElement, FS_CardinalityType
<1>5. Cardinality(Conns) <= Cardinality(others)
  BY <1>3, <1>4, FS_Injection
<1>6. Cardinality(Conns) = pool_size_
  <2>1. 0 \in Int /\ pool_size_ - 1 \in Int /\ ~(0 > pool_size_ - 1)
    BY ConnsFacts
  <2>2. Cardinality(0..(pool_size_ - 1)) = (pool_size_ - 1) - 0 + 1
    BY <2>1, FS_Interval, Zenon
  <2>3. QED
    BY <2>2, ConnsFacts DEF Conns
<1>7. QED
  BY <1>4, <1>5, <1>6, EnoughAssumption, ConnsFacts

(***************************************************************************)
(* getConnection returns NULL only if a backend refused: the pool never    *)
(* runs out of connections.                                                *)
(***************************************************************************)
THEOREM NullOnlyRefused == Spec => NullOnlyIfRefused
<1>1. ASSUME TypeOK, BusyHeld, [Next]_vars, NEW t \in Threads,
             pc[t] = "idle", pc'[t] = "null"
      PROVE  \E c \in Conns : ~busy[c] /\ addr(c) \notin up
  <2>1. getNull(t)
    <3>1. ASSUME NEW u \in Threads, ThreadStep(u) PROVE getNull(t)
      BY <1>1, <3>1 DEF TypeOK, ThreadStep, getAvailable, getReopened, getNull, giveUp,
           send, recv, fail, release
    <3>2. ASSUME \/ \E a \in Addrs : BackendUp(a) \/ BackendDown(a)
                 \/ \E c \in Conns : BackendAnswers(c)
                 \/ Tick
                 \/ UNCHANGED vars
          PROVE FALSE
      BY <1>1, <3>2 DEF BackendUp, BackendDown, BackendAnswers, Tick, callVars, vars
    <3>3. QED
      BY <1>1, <3>1, <3>2 DEF Next
  <2>2. PICK c \in Conns : ~busy[c]
    BY <1>1, SomeNotBusy DEF TypeOK
  <2>3. ~opens(c, sock)
    BY <2>1, <2>2 DEF getNull
  <2>4. QED
    BY <2>2, <2>3 DEF opens
<1>2. TypeOK /\ BusyHeld /\ [Next]_vars
        => [\A t \in Threads : pc[t] = "idle" /\ pc'[t] = "null" =>
              \E c \in Conns : ~busy[c] /\ addr(c) \notin up]_vars
  BY <1>1
<1>3. QED
  BY <1>2, TypeCorrect, BusyIsHeld, PTL DEF Spec, NullOnlyIfRefused

-----------------------------------------------------------------------------
(* Refinement *)

(***************************************************************************)
(* Every step of the pool is a step of ServiceCalls or does not show.      *)
(***************************************************************************)
LEMMA StepIsCallsStep ==
  ASSUME TypeOK, [Next]_vars
  PROVE  [Calls!Next]_(Calls!vars)
<1>1. ASSUME NEW t \in Threads, ThreadStep(t) PROVE Calls!Next
  <2>1. CASE getAvailable(t)
    <3>1. PICK c \in Conns : conn' = [conn EXCEPT ![t] = c]
      BY <2>1, RoundRobinInConns DEF getAvailable
    <3>2. Calls!Get(t, c)
      BY <2>1, <3>1 DEF getAvailable, Calls!Get
    <3>3. QED
      BY <3>2 DEF Calls!Next
  <2>2. CASE getReopened(t)
    <3>1. PICK c \in Conns : conn' = [conn EXCEPT ![t] = c]
      BY <2>2 DEF getReopened
    <3>2. Calls!Get(t, c)
      BY <2>2, <3>1 DEF getReopened, Calls!Get
    <3>3. QED
      BY <3>2 DEF Calls!Next
  <2>3. CASE getNull(t)
    BY <2>3 DEF getNull, Calls!GetNull, Calls!Next
  <2>4. CASE giveUp(t)
    BY <2>4 DEF giveUp, Calls!GiveUp, Calls!Next
  <2>5. CASE send(t)
    BY <2>5 DEF send, Calls!Send, Calls!Next
  <2>6. CASE recv(t)
    BY <2>6 DEF recv, Calls!Recv, Calls!Next
  <2>7. CASE fail(t)
    BY <2>7 DEF fail, Calls!Fail, Calls!Next
  <2>8. ASSUME NEW status \in BOOLEAN, release(t, status) PROVE Calls!Next
    <3>1. Calls!Release(t, status)
      BY <2>8 DEF release, Calls!Release, Calls!Empty
    <3>2. QED
      BY <3>1 DEF Calls!Next
  <2>9. QED
    BY <1>1, <2>1, <2>2, <2>3, <2>4, <2>5, <2>6, <2>7, <2>8 DEF ThreadStep
<1>2. ASSUME NEW a \in Addrs, BackendDown(a) PROVE Calls!Next
  <2> DEFINE lost == {c \in Conns : addr(c) = a}
  <2>1. Calls!Lose(lost)
    BY <1>2 DEF BackendDown, callVars, Calls!Lose
  <2>2. lost \in SUBSET Conns
    OBVIOUS
  <2> HIDE DEF lost
  <2>3. QED
    BY <2>1, <2>2 DEF Calls!Next
<1>3. ASSUME NEW c \in Conns, BackendAnswers(c) PROVE Calls!Next
  BY <1>3 DEF BackendAnswers, callVars, Calls!Serve, Calls!Next
<1>4. ASSUME (\E a \in Addrs : BackendUp(a)) \/ Tick \/ UNCHANGED vars
      PROVE UNCHANGED Calls!vars
  BY <1>4 DEF BackendUp, Tick, callVars, vars, Calls!vars
<1>5. QED
  BY <1>1, <1>2, <1>3, <1>4 DEF Next

(***************************************************************************)
(* The pool implements what the handlers see of it.  Whichever connections *)
(* are opened, closed, marked or chosen, each call goes through the steps  *)
(* of ServiceCalls, and a release after a failure leaves nothing behind.   *)
(***************************************************************************)
THEOREM PoolImplementsCalls == Spec => ImplementsServiceCalls
<1>1. Init => Calls!Init
  BY DEF Init, Calls!Init, Calls!Empty
<1>2. TypeOK /\ [Next]_vars => [Calls!Next]_(Calls!vars)
  BY StepIsCallsStep
<1>3. QED
  BY <1>1, <1>2, TypeCorrect, PTL DEF Spec, ImplementsServiceCalls, Calls!Spec
=============================================================================
