---------------------------- MODULE ProxyProofs ----------------------------
(***************************************************************************)
(* Theorems about Proxy and about ProxyMemory, which adds the pointers of  *)
(* its lists and of its pool, for any number of threads, descriptors,      *)
(* items, chunks and packages and any timeout.                             *)
(***************************************************************************)
EXTENDS ProxyMemory, SequenceTheorems, FiniteSetTheorems,
        WellFoundedInduction, TLAPS

-----------------------------------------------------------------------------
(* What list_add_tail and list_del_init do to a list of distinct entries *)

(***************************************************************************)
(* list_add_tail adds the entry, and only it, to a list it is not in.      *)
(***************************************************************************)
LEMMA AddTail ==
  ASSUME NEW S, NEW list \in Seq(S), NEW e \in S,
         IsInjective(list), e \notin Range(list)
  PROVE  /\ list_add_tail(e, list) \in Seq(S)
         /\ Len(list_add_tail(e, list)) = Len(list) + 1
         /\ IsInjective(list_add_tail(e, list))
         /\ Range(list_add_tail(e, list)) = Range(list) \cup {e}
<1> DEFINE new == Append(list, e)
<1>1. /\ new \in Seq(S)
      /\ Len(new) = Len(list) + 1
      /\ DOMAIN new = 1..(Len(list) + 1)
      /\ \A i \in 1..Len(list) : new[i] = list[i]
      /\ new[Len(list) + 1] = e
      /\ DOMAIN list = 1..Len(list)
      /\ Len(list) \in Nat
  OBVIOUS
<1> HIDE DEF new
<1>2. \A i \in 1..Len(list) : list[i] # e
  BY <1>1 DEF Range
<1>3. IsInjective(new)
  BY <1>1, <1>2 DEF IsInjective
<1>4. Range(new) = Range(list) \cup {e}
  BY <1>1 DEF Range
<1>5. QED
  BY <1>1, <1>3, <1>4 DEF new, list_add_tail

(***************************************************************************)
(* The domain of a sequence determines its length.                         *)
(***************************************************************************)
LEMMA SameLength ==
  ASSUME NEW m \in Nat, NEW n \in Nat, 1..m = 1..n
  PROVE  m = n
<1>1. m # 0 => m \in 1..n
  OBVIOUS
<1>2. n # 0 => n \in 1..m
  OBVIOUS
<1>3. QED
  BY <1>1, <1>2

(***************************************************************************)
(* list_del_init keeps the type of a list.                                 *)
(***************************************************************************)
LEMMA DelInitType ==
  ASSUME NEW S, NEW list \in Seq(S), NEW e
  PROVE  list_del_init(e, list) \in Seq(S)
<1>1. CASE e \in Range(list)
  <2> DEFINE at  == CHOOSE i \in 1..Len(list) : list[i] = e
             new == [i \in 1..(Len(list) - 1) |-> IF i < at THEN list[i] ELSE list[i + 1]]
  <2>1. at \in 1..Len(list)
    BY <1>1 DEF Range
  <2> HIDE DEF at
  <2>2. Len(list) - 1 \in Nat /\ \A i \in 1..(Len(list) - 1) : new[i] \in S
    BY <2>1
  <2>3. new \in Seq(S)
    BY <2>2
  <2>4. QED
    BY <1>1, <2>3 DEF list_del_init, at
<1>2. CASE e \notin Range(list)
  BY <1>2 DEF list_del_init
<1>3. QED
  BY <1>1, <1>2

(***************************************************************************)
(* list_del_init takes the entry, and only it, out of a list of distinct   *)
(* entries, and keeps the order of the others.                             *)
(***************************************************************************)
LEMMA DelInit ==
  ASSUME NEW S, NEW list \in Seq(S), NEW e, IsInjective(list)
  PROVE  LET new == list_del_init(e, list)
         IN  /\ IsInjective(new)
             /\ Range(new) = Range(list) \ {e}
             /\ e \in Range(list) => Len(new) = Len(list) - 1
             /\ \A i, j \in 1..Len(new) : i < j =>
                  \E k, l \in 1..Len(list) :
                    k < l /\ list[k] = new[i] /\ list[l] = new[j]
<1>1. CASE e \in Range(list)
  <2> DEFINE at  == CHOOSE i \in 1..Len(list) : list[i] = e
             new == [i \in 1..(Len(list) - 1) |-> IF i < at THEN list[i] ELSE list[i + 1]]
  <2>1. at \in 1..Len(list) /\ list[at] = e /\ Len(list) \in Nat /\ DOMAIN list = 1..Len(list)
    BY <1>1 DEF Range
  <2> HIDE DEF at
  <2>2. /\ DOMAIN new = 1..(Len(list) - 1)
        /\ \A i \in 1..(Len(list) - 1) :
             new[i] = IF i < at THEN list[i] ELSE list[i + 1]
    OBVIOUS
  <2>3. Len(new) = Len(list) - 1
    <3>1. \A i \in 1..(Len(list) - 1) : new[i] \in S
      BY <2>1
    <3>2. new \in Seq(S)
      BY <2>1, <3>1
    <3> HIDE DEF new
    <3>3. Len(new) \in Nat /\ DOMAIN new = 1..Len(new)
      BY <3>2
    <3>4. Len(list) - 1 \in Nat
      BY <2>1
    <3>5. 1..Len(new) = 1..(Len(list) - 1)
      BY <2>2, <3>3, Zenon
    <3>6. QED
      BY <3>3, <3>4, <3>5, SameLength
  <2>4. list_del_init(e, list) = new
    BY <1>1 DEF list_del_init, at
  <2> HIDE DEF new
  <2>5. IsInjective(new)
    <3>1. SUFFICES ASSUME NEW a \in 1..(Len(list) - 1), NEW b \in 1..(Len(list) - 1),
                          new[a] = new[b]
                   PROVE  a = b
      BY <2>2 DEF IsInjective
    <3> DEFINE from(m) == IF m < at THEN m ELSE m + 1
    <3>2. /\ from(a) \in 1..Len(list) /\ new[a] = list[from(a)]
          /\ from(b) \in 1..Len(list) /\ new[b] = list[from(b)]
      BY <2>1, <2>2
    <3>3. from(a) = from(b)
      <4> HIDE DEF from
      <4>1. QED
        BY <2>1, <3>1, <3>2 DEF IsInjective
    <3>4. QED
      BY <2>1, <3>3
  <2>6. Range(new) \subseteq Range(list) \ {e}
    BY <2>1, <2>2 DEF Range, IsInjective
  <2>7. Range(list) \ {e} \subseteq Range(new)
    <3>1. SUFFICES ASSUME NEW x \in Range(list) \ {e}
                   PROVE  x \in Range(new)
      OBVIOUS
    <3>2. PICK k \in 1..Len(list) : list[k] = x
      BY <2>1 DEF Range
    <3>3. k # at
      BY <2>1, <3>2
    <3>4. SUFFICES \E i \in 1..(Len(list) - 1) : new[i] = list[k]
      BY <2>2, <3>2 DEF Range
    <3>5. CASE k < at
      BY <2>1, <2>2, <3>5
    <3>6. CASE k > at
      <4>1. k - 1 \in 1..(Len(list) - 1) /\ ~(k - 1 < at) /\ (k - 1) + 1 = k
        BY <2>1, <3>6
      <4>2. QED
        BY <2>2, <4>1
    <3>7. QED
      BY <2>1, <3>3, <3>5, <3>6
  <2>8. ASSUME NEW i \in 1..Len(new), NEW j \in 1..Len(new), i < j
        PROVE  \E k, l \in 1..Len(list) : k < l /\ list[k] = new[i] /\ list[l] = new[j]
    <3> DEFINE from(m) == IF m < at THEN m ELSE m + 1
    <3>1. /\ from(i) \in 1..Len(list) /\ from(j) \in 1..Len(list)
          /\ from(i) < from(j)
          /\ list[from(i)] = new[i] /\ list[from(j)] = new[j]
      BY <2>1, <2>2, <2>3, <2>8
    <3>2. QED
      BY <3>1
  <2>9. QED
    BY <2>3, <2>4, <2>5, <2>6, <2>7, <2>8
<1>2. CASE e \notin Range(list)
  BY <1>2 DEF list_del_init
<1>3. QED
  BY <1>1, <1>2

USE DEF Items, NoItem, NoFd, Serials, Pkgs, Handlers,
        SetClientInfo, RemoveClientInfo, timer_add_event, timer_del_event,
        timer_uninit, mempool_destroy

-----------------------------------------------------------------------------
(* Type correctness *)

(***************************************************************************)
(* Sequences of any elements.                                              *)
(***************************************************************************)
LEMMA HeadTail ==
  ASSUME NEW S, NEW s \in Seq(S), s # <<>>
  PROVE  Head(s) \in S /\ Tail(s) \in Seq(S)
  OBVIOUS

(***************************************************************************)
(* A list something was appended to is not empty.                          *)
(***************************************************************************)
LEMMA AppendNotEmpty ==
  ASSUME NEW S, NEW s \in Seq(S), NEW e \in S
  PROVE  Append(s, e) # <<>>
<1>1. Len(Append(s, e)) = Len(s) + 1 /\ Len(s) \in Nat
  OBVIOUS
<1>2. QED
  BY <1>1

(***************************************************************************)
(* What mempool_free and timer_del_event leave in an item is a ClientInfo. *)
(***************************************************************************)
LEMMA WipedItem ==
  ASSUME NEW r \in ClientInfo
  PROVE  /\ [r EXCEPT !.cli_fd = LinkWord, !.cli_seq = LinkWord, !.expire_time = 0]
              \in ClientInfo
         /\ [r EXCEPT !.expire_time = 0] \in ClientInfo
  BY DEF ClientInfo

(***************************************************************************)
(* Proxy::Init leaves the worker in a well-typed state.                    *)
(***************************************************************************)
LEMMA TypeInit == Init => TypeOK
<1> SUFFICES ASSUME Init PROVE TypeOK
  OBVIOUS
<1>1. item \in [Items -> ClientInfo]
  BY SerialAssumption DEF Init, ClientInfo
<1>2. /\ alloc_pool_pos \in 0..NItems
      /\ serialized_no \in Serials
      /\ Len(req) <= MaxPkgs
  BY NItemsAssumption, SerialAssumption, BoundsAssumption DEF Init
<1>3. /\ DOMAIN client_info_map \subseteq Serials
      /\ \A s \in DOMAIN client_info_map : client_info_map[s] \in Items
  BY DEF Init
<1>4. /\ reuse \in Seq(Items) /\ timer \in Seq(Items)
      /\ fd_list \in [Fds -> Seq(Items)]
      /\ queue_ \in Seq([ci : Items, job : Pkgs])
      /\ req \in Seq(Fds)
  BY DEF Init
<1>5. /\ pc \in [Threads -> {"take", "run", "check", "store", "exit", "fault"}]
      /\ ci \in [Threads -> Items \cup {NoItem}]
      /\ content \in [Threads -> Pkgs \cup {0}]
      /\ job \in [Threads -> Pkgs \cup {0}]
      /\ \A t \in Threads : pc[t] = "take"
  BY DEF Init
<1>6. /\ ref_count \in Int /\ now \in Nat /\ current_time \in Nat
      /\ linked \in SUBSET Fds /\ replies \in SUBSET Replies
      /\ main = "idle" /\ main_ci = NoItem /\ main_fd = NoFd
  BY DEF Init
<1>7. destroyed \in BOOLEAN /\ is_running_ \in BOOLEAN
  BY Zenon DEF Init
<1>8. QED
  BY <1>1, <1>2, <1>3, <1>4, <1>5, <1>6, <1>7 DEF TypeOK

(***************************************************************************)
(* The item mempool_alloc hands out is one of the pool's.                  *)
(***************************************************************************)
LEMMA NextIsItem ==
  ASSUME TypeOK, mempool_can_alloc
  PROVE  mempool_next \in Items
<1>1. CASE reuse # <<>>
  BY <1>1, HeadTail DEF TypeOK, mempool_next
<1>2. CASE reuse = <<>>
  BY <1>2, NItemsAssumption DEF TypeOK, mempool_next, mempool_can_alloc
<1>3. QED
  BY <1>1, <1>2

(***************************************************************************)
(* ProcPkgCli, with its allocation and its entries in the indices, keeps   *)
(* the types.                                                              *)
(***************************************************************************)
LEMMA TypeProcPkgCli ==
  ASSUME TypeOK, NEW fd \in Fds, NEW cmd \in Cmds, ProcPkgCli(fd, cmd)
  PROVE  TypeOK'
<1> DEFINE c == mempool_next
<1>1. c \in Items
  BY NextIsItem DEF ProcPkgCli, mempool_alloc
<1>2. getHandler(cmd) \in Handlers
  BY DEF getHandler, cmd_handler_map_
<1>3. Len(req) + 1 \in Pkgs /\ Append(req, fd) \in Seq(Fds) /\ Len(Append(req, fd)) = Len(req) + 1
  BY BoundsAssumption DEF TypeOK, ProcPkgCli, PkgArrives
<1>4. item' \in [Items -> ClientInfo]
  BY <1>1, <1>2, <1>3, TimeoutAssumption DEF TypeOK, ProcPkgCli, ClientInfo
<1>5. /\ reuse' \in Seq(Items) /\ alloc_pool_pos' \in 0..NItems /\ ref_count' \in Int
      /\ serialized_no' \in Serials
  <2>1. mempool_alloc
    BY DEF ProcPkgCli
  <2>2. /\ reuse' \in Seq(Items) /\ alloc_pool_pos' \in 0..NItems
        /\ ref_count' \in Int
    <3>1. CASE reuse # <<>>
      <4>1. Tail(reuse) \in Seq(Items)
        BY <3>1, HeadTail DEF TypeOK
      <4>2. /\ reuse' = Tail(reuse) /\ alloc_pool_pos' = alloc_pool_pos
            /\ ref_count' = ref_count + 1
        BY <2>1, <3>1, Zenon DEF mempool_alloc
      <4>3. QED
        BY <4>1, <4>2 DEF TypeOK
    <3>2. CASE reuse = <<>>
      BY <2>1, <3>2, NItemsAssumption DEF TypeOK, mempool_alloc, mempool_can_alloc
    <3>3. QED
      BY <3>1, <3>2
  <2>3. serialized_no' \in Serials
    BY SerialAssumption DEF TypeOK, ProcPkgCli
  <2>4. QED
    BY <2>2, <2>3
<1>6. /\ DOMAIN client_info_map' \subseteq Serials
      /\ \A s \in DOMAIN client_info_map' : client_info_map'[s] \in Items
  BY <1>1 DEF TypeOK, ProcPkgCli
<1>7. fd_list' \in [Fds -> Seq(Items)] /\ timer' \in Seq(Items)
  BY <1>1 DEF TypeOK, ProcPkgCli, list_add_tail
<1>8. /\ req' \in Seq(Fds) /\ Len(req') <= MaxPkgs /\ req' # <<>>
      /\ main' = "put" /\ main_ci' \in Items
  <2>1. req' = Append(req, fd) /\ main' = "put" /\ main_ci' = c
    BY DEF ProcPkgCli
  <2>2. Append(req, fd) # <<>>
    BY AppendNotEmpty DEF TypeOK
  <2>3. QED
    BY <1>1, <1>3, <2>1, <2>2, BoundsAssumption
<1>9. QED
  BY <1>4, <1>5, <1>6, <1>7, <1>8 DEF TypeOK, ProcPkgCli, threadVars

(***************************************************************************)
(* DestroyClient, whatever serial number it is called with, keeps the      *)
(* types of all that it writes.                                            *)
(***************************************************************************)
LEMMA TypeDestroyClient ==
  ASSUME TypeOK, NEW sn, DestroyClient(sn)
  PROVE  /\ item' \in [Items -> ClientInfo]
         /\ reuse' \in Seq(Items) /\ ref_count' \in Int
         /\ DOMAIN client_info_map' \subseteq Serials
         /\ \A s \in DOMAIN client_info_map' : client_info_map'[s] \in Items
         /\ fd_list' \in [Fds -> Seq(Items)] /\ timer' \in Seq(Items)
         /\ UNCHANGED <<alloc_pool_pos, destroyed, serialized_no>>
<1> DEFINE c == client_info_map[sn]
<1>1. c \in Items
  BY DEF TypeOK, DestroyClient
<1>2. item' \in [Items -> ClientInfo]
  <2>1. [item[c] EXCEPT !.cli_fd = LinkWord, !.cli_seq = LinkWord, !.expire_time = 0]
          \in ClientInfo
    BY <1>1, WipedItem DEF TypeOK
  <2>2. QED
    BY <1>1, <2>1 DEF TypeOK, DestroyClient
<1>3. reuse' \in Seq(Items) /\ ref_count' \in Int
  BY <1>1 DEF TypeOK, DestroyClient, mempool_free
<1>4. /\ DOMAIN client_info_map' \subseteq Serials
      /\ \A s \in DOMAIN client_info_map' : client_info_map'[s] \in Items
  BY DEF TypeOK, DestroyClient, Restrict
<1>5. timer' \in Seq(Items)
  BY DelInitType DEF TypeOK, DestroyClient
<1>6. fd_list' \in [Fds -> Seq(Items)]
  <2>1. \A f \in Fds : list_del_init(c, fd_list[f]) \in Seq(Items)
    BY DelInitType DEF TypeOK
  <2>2. QED
    BY <2>1 DEF DestroyClient
<1>7. QED
  BY <1>2, <1>3, <1>4, <1>5, <1>6 DEF DestroyClient

(***************************************************************************)
(* A reply is addressed by what the item holds, whosever it is by then.    *)
(***************************************************************************)
LEMMA TypeSend ==
  ASSUME TypeOK, NEW t \in Threads, pc[t] \in {"run", "check"}, SendToClient(t)
  PROVE  replies' \in SUBSET Replies
<1> DEFINE r == [fd |-> item[ci[t]].cli_fd, seq |-> item[ci[t]].cli_seq, by |-> job[t]]
<1>1. ci[t] \in Items /\ job[t] \in Pkgs
  BY DEF TypeOK
<1>2. item[ci[t]] \in ClientInfo
  BY <1>1 DEF TypeOK
<1>3. item[ci[t]].cli_fd \in Fds \cup {LinkWord} /\ item[ci[t]].cli_seq \in Pkgs \cup {LinkWord, 0}
  BY <1>2 DEF ClientInfo
<1>4. r \in Replies
  BY <1>1, <1>3 DEF Replies
<1>5. replies' = replies \cup {r}
  BY DEF SendToClient
<1>6. QED
  BY <1>4, <1>5 DEF TypeOK

(***************************************************************************)
(* Every step of the event loop and of the threads keeps the types.        *)
(***************************************************************************)
LEMMA TypeNext == TypeOK /\ [Next]_vars => TypeOK'
<1> SUFFICES ASSUME TypeOK, [Next]_vars PROVE TypeOK'
  OBVIOUS
<1> USE BoundsAssumption
<1>1. CASE Tick
  BY <1>1 DEF Tick, TypeOK, poolVars, indexVars, mainVars, threadVars, outVars
<1>2. ASSUME NEW fd \in Fds, LinkUpCli(fd) PROVE TypeOK'
  BY <1>2 DEF LinkUpCli, TypeOK, poolVars, indexVars, mainVars, threadVars, outVars
<1>3. ASSUME NEW fd \in Fds, LinkDownCli(fd) PROVE TypeOK'
  BY <1>3 DEF LinkDownCli, TypeOK, poolVars, indexVars, mainVars, threadVars, outVars
<1>4. ASSUME NEW fd \in Fds, ProcPkgCliNoMem(fd) PROVE TypeOK'
  <2>1. /\ Len(req) + 1 \in Pkgs /\ req' \in Seq(Fds) /\ Len(req') <= MaxPkgs
        /\ main' # "put"
    BY <1>4 DEF ProcPkgCliNoMem, PkgArrives, TypeOK, mainVars
  <2>2. replies' \in SUBSET Replies
    BY <1>4, <2>1 DEF ProcPkgCliNoMem, TypeOK, Replies
  <2>3. QED
    BY <1>4, <2>1, <2>2
    DEF ProcPkgCliNoMem, TypeOK, poolVars, indexVars, mainVars, threadVars
<1>5. ASSUME NEW fd \in Fds, NEW cmd \in Cmds, ProcPkgCli(fd, cmd) PROVE TypeOK'
  BY <1>5, TypeProcPkgCli
<1>6. CASE TimeEvent
  BY <1>6 DEF TimeEvent, TypeOK, poolVars, indexVars, threadVars, outVars
<1>7. CASE Uninit
  <2>1. \A c \in Items : [item[c] EXCEPT !.expire_time = 0] \in ClientInfo
    BY WipedItem DEF TypeOK
  <2>2. item' \in [Items -> ClientInfo]
    BY <1>7, <2>1 DEF Uninit, TypeOK
  <2>3. fd_list' \in [Fds -> Seq(Items)] /\ timer' \in Seq(Items) /\ destroyed' \in BOOLEAN
    BY <1>7 DEF Uninit
  <2>4. QED
    BY <1>7, <2>2, <2>3 DEF Uninit, TypeOK, threadVars, outVars
<1>8. CASE put
  <2>1. queue_' \in Seq([ci : Items, job : Pkgs])
    BY <1>8 DEF put, TypeOK
  <2>2. QED
    BY <1>8, <2>1 DEF put, TypeOK, poolVars, indexVars, threadVars, outVars
<1>9. CASE DoServerTimeout
  <2>1. PICK sn : DestroyClient(sn)
    BY <1>9 DEF DoServerTimeout
  <2>2. QED
    BY <1>9, <2>1, TypeDestroyClient
    DEF DoServerTimeout, TypeOK, mainVars, threadVars, outVars
<1>10. CASE TimeEventEnd
  BY <1>10 DEF TimeEventEnd, TypeOK, poolVars, indexVars, threadVars, outVars
<1>11. CASE LinkDownCliEntry
  <2>1. PICK sn : DestroyClient(sn)
    BY <1>11 DEF LinkDownCliEntry
  <2>2. QED
    BY <1>11, <2>1, TypeDestroyClient
    DEF LinkDownCliEntry, TypeOK, mainVars, threadVars, outVars
<1>12. CASE LinkDownCliEnd
  BY <1>12 DEF LinkDownCliEnd, TypeOK, poolVars, indexVars, threadVars, outVars
<1>13. CASE join_all
  BY <1>13 DEF join_all, TypeOK, poolVars, indexVars, threadVars, outVars
<1>14. ASSUME NEW t \in Threads, take(t) PROVE TypeOK'
  <2> DEFINE Tasks == [ci : Items, job : Pkgs]
  <2>1. queue_ \in Seq(Tasks) /\ queue_ # <<>>
    BY <1>14 DEF take, TypeOK
  <2>2. Head(queue_) \in Tasks /\ Tail(queue_) \in Seq(Tasks)
    BY <2>1, HeadTail
  <2>3. Head(queue_).ci \in Items /\ Head(queue_).job \in Pkgs
    BY <2>2
  <2>4. QED
    BY <1>14, <2>2, <2>3 DEF take, TypeOK, poolVars, indexVars, mainVars, outVars
<1>15. ASSUME NEW t \in Threads, exit(t) PROVE TypeOK'
  BY <1>15 DEF exit, TypeOK, poolVars, indexVars, mainVars, outVars
<1>16. ASSUME NEW t \in Threads, runTis(t) PROVE TypeOK'
  <2>1. item[ci[t]].pkg \in Pkgs \cup {0}
    BY <1>16 DEF runTis, TypeOK, ClientInfo
  <2>2. QED
    BY <1>16, <2>1 DEF runTis, TypeOK, poolVars, indexVars, mainVars, outVars
<1>17. ASSUME NEW t \in Threads, runDefault(t) PROVE TypeOK'
  <2>1. replies' \in SUBSET Replies
    BY <1>17, TypeSend DEF runDefault
  <2>2. QED
    BY <1>17, <2>1 DEF runDefault, LoopTest, TypeOK, poolVars, indexVars, mainVars
<1>18. ASSUME NEW t \in Threads, check(t) PROVE TypeOK'
  <2>1. replies' \in SUBSET Replies
    BY <1>18, TypeSend DEF check
  <2>2. QED
    BY <1>18, <2>1 DEF check, TypeOK, poolVars, indexVars, mainVars
<1>19. ASSUME NEW t \in Threads, StoreMessage(t) PROVE TypeOK'
  BY <1>19 DEF StoreMessage, LoopTest, TypeOK, poolVars, indexVars, mainVars, outVars
<1>20. ASSUME NEW t \in Threads, fault(t) PROVE TypeOK'
  BY <1>20 DEF fault, TypeOK, poolVars, indexVars, mainVars, outVars
<1>21. CASE UNCHANGED vars
  BY <1>21 DEF vars, TypeOK, poolVars, indexVars, mainVars, threadVars, outVars
<1>22. QED
  BY <1>1, <1>2, <1>3, <1>4, <1>5, <1>6, <1>7, <1>8, <1>9, <1>10, <1>11, <1>12,
     <1>13, <1>14, <1>15, <1>16, <1>17, <1>18, <1>19, <1>20, <1>21
  DEF Next, Callback, CallbackStep, ThreadStep

(***************************************************************************)
(* Type correctness of the worker in every reachable state.                *)
(***************************************************************************)
THEOREM TypeCorrect == Spec => []TypeOK
  BY TypeInit, TypeNext, PTL DEF Spec

-----------------------------------------------------------------------------
(* The four indices agree *)

USE DEF Coherent

(***************************************************************************)
(* After Proxy::Init all indices are empty, and so agree.                  *)
(***************************************************************************)
LEMMA CoherentInit == Init => Coherent
<1> SUFFICES ASSUME Init PROVE Coherent
  OBVIOUS
<1>1. Live = {}
  BY DEF Init, Live
<1>2. MapOk
  BY DEF Init, MapOk
<1>3. TimerOk /\ RefOk
  BY <1>1 DEF Init, TimerOk, RefOk, IsInjective, Range
<1>4. FdOk
  BY <1>1 DEF Init, FdOk, IsInjective, Range
<1>5. PoolOk
  BY <1>1 DEF Init, PoolOk, IsInjective, Range
<1>6. QED
  BY <1>2, <1>3, <1>4, <1>5

(***************************************************************************)
(* A step that leaves the pool and the indices alone.                      *)
(***************************************************************************)
LEMMA CoherentFrame ==
  ASSUME Coherent, UNCHANGED <<item, reuse, alloc_pool_pos, ref_count,
                               client_info_map, fd_list, timer>>
  PROVE  Coherent'
  BY DEF Live, MapOk, TimerOk, FdOk, PoolOk, RefOk

(***************************************************************************)
(* mempool_alloc hands out an item that is not in flight, and carves or    *)
(* unlinks exactly it.                                                     *)
(***************************************************************************)
LEMMA AllocIsFresh ==
  ASSUME TypeOK, Coherent, mempool_alloc
  PROVE  /\ mempool_next \in Items /\ mempool_next \notin Live
         /\ mempool_next \in 1..alloc_pool_pos'
         /\ alloc_pool_pos <= alloc_pool_pos'
         /\ IsInjective(reuse')
         /\ Range(reuse') = (1..alloc_pool_pos') \ (Live \cup {mempool_next})
<1>1. mempool_next \in Items
  BY NextIsItem DEF mempool_alloc
<1>2. CASE reuse # <<>>
  <2>1. /\ mempool_next = Head(reuse) /\ reuse' = Tail(reuse)
        /\ alloc_pool_pos' = alloc_pool_pos
    BY <1>2, Zenon DEF mempool_alloc, mempool_next
  <2>2. /\ Len(reuse) \in Nat /\ Len(reuse) > 0 /\ DOMAIN reuse = 1..Len(reuse)
        /\ Head(reuse) = reuse[1]
        /\ DOMAIN Tail(reuse) = 1..(Len(reuse) - 1)
        /\ \A i \in 1..(Len(reuse) - 1) : Tail(reuse)[i] = reuse[i + 1]
    BY <1>2 DEF TypeOK
  <2>3. IsInjective(Tail(reuse))
    BY <2>2 DEF PoolOk, IsInjective
  <2>4. Range(Tail(reuse)) = Range(reuse) \ {Head(reuse)}
    <3>1. \A x \in Range(Tail(reuse)) : x \in Range(reuse) /\ x # Head(reuse)
      BY <2>2 DEF PoolOk, IsInjective, Range
    <3>2. ASSUME NEW x \in Range(reuse), x # Head(reuse)
          PROVE  x \in Range(Tail(reuse))
      <4>1. PICK i \in 1..Len(reuse) : reuse[i] = x
        BY <2>2 DEF Range
      <4>2. i - 1 \in 1..(Len(reuse) - 1) /\ Tail(reuse)[i - 1] = x
        BY <2>2, <3>2, <4>1
      <4>3. QED
        BY <2>2, <4>2 DEF Range
    <3>3. QED
      BY <3>1, <3>2
  <2>5. Head(reuse) \in Range(reuse)
    <3>1. 1 \in DOMAIN reuse
      BY <2>2
    <3>2. QED
      BY <2>2, <3>1 DEF Range
  <2>6. QED
    BY <1>1, <2>1, <2>3, <2>4, <2>5 DEF PoolOk, TypeOK
<1>3. CASE reuse = <<>>
  <2>1. /\ mempool_next = alloc_pool_pos + 1 /\ reuse' = reuse
        /\ alloc_pool_pos' = alloc_pool_pos + 1
    BY <1>3, Zenon DEF mempool_alloc, mempool_next
  <2>2. Range(reuse) = {}
    BY <1>3 DEF Range
  <2>3. 1..alloc_pool_pos \subseteq Live /\ alloc_pool_pos \in Nat
    <3>1. Range(reuse) = (1..alloc_pool_pos) \ Live
      BY DEF PoolOk
    <3>2. alloc_pool_pos \in Nat
      BY DEF TypeOK
    <3> HIDE DEF Live
    <3>3. QED
      BY <2>2, <3>1, <3>2, Zenon
  <2>4. (1..(alloc_pool_pos + 1)) \ (Live \cup {alloc_pool_pos + 1}) = {}
    <3>1. SUFFICES ASSUME NEW k \in 1..(alloc_pool_pos + 1), k # alloc_pool_pos + 1
                   PROVE  k \in Live
      OBVIOUS
    <3>2. k \in 1..alloc_pool_pos
      BY <2>3, <3>1
    <3>3. QED
      BY <2>3, <3>2
  <2>5. QED
    BY <1>1, <2>1, <2>2, <2>3, <2>4 DEF PoolOk, TypeOK
<1>4. QED
  BY <1>2, <1>3

(***************************************************************************)
(* ProcPkgCli enters one new item into all the indices.                    *)
(***************************************************************************)
LEMMA CoherentProcPkgCli ==
  ASSUME TypeOK, Coherent, NEW fd \in Fds, NEW cmd \in Cmds, ProcPkgCli(fd, cmd)
  PROVE  /\ Coherent'
         /\ Live' = Live \cup {mempool_next} /\ mempool_next \notin Live
         /\ mempool_next \in Items
<1> DEFINE c  == mempool_next
           sn == serialized_no
<1>1. /\ c \in Items /\ c \notin Live /\ c \in 1..alloc_pool_pos'
      /\ alloc_pool_pos <= alloc_pool_pos' /\ IsInjective(reuse')
      /\ Range(reuse') = (1..alloc_pool_pos') \ (Live \cup {c})
  BY AllocIsFresh DEF ProcPkgCli
<1> HIDE DEF c
<1>2. /\ sn \notin DOMAIN client_info_map
      /\ client_info_map' = [s \in DOMAIN client_info_map \cup {sn} |->
                               IF s = sn THEN c ELSE client_info_map[s]]
  BY DEF ProcPkgCli, SerialIsFree, c
<1>3. /\ item'[c].ser_seq = sn /\ item'[c].cli_fd = fd
      /\ \A d \in Items : d # c => item'[d] = item[d]
  BY <1>1 DEF ProcPkgCli, TypeOK, c
<1>4. Live' = Live \cup {c}
  BY <1>2 DEF Live
<1>5. Live \subseteq Items
  BY DEF Live, TypeOK
<1>6. MapOk'
  BY <1>1, <1>2, <1>3, <1>5 DEF MapOk, Live
<1>7. TimerOk' /\ Len(timer') = Len(timer) + 1
  <2>1. timer' = list_add_tail(c, timer)
    BY DEF ProcPkgCli, c
  <2>2. timer \in Seq(Items) /\ IsInjective(timer) /\ c \notin Range(timer) /\ Range(timer) = Live
    BY <1>1 DEF TypeOK, TimerOk
  <2> DEFINE new == list_add_tail(c, timer)
  <2>3. Len(new) = Len(timer) + 1 /\ IsInjective(new) /\ Range(new) = Range(timer) \cup {c}
    <3> HIDE DEF Items
    <3>1. c \in Items
      BY <1>1
    <3>2. QED
      BY <3>1, <2>2, AddTail, ZenonT(60)
  <2>4. QED
    BY <1>4, <2>1, <2>2, <2>3 DEF TimerOk
<1>8. FdOk'
  <2>1. fd_list' = [fd_list EXCEPT ![fd] = list_add_tail(c, fd_list[fd])]
    BY DEF ProcPkgCli, c
  <2>2. ASSUME NEW f \in Fds
        PROVE  /\ IsInjective(fd_list'[f])
               /\ Range(fd_list'[f]) = {d \in Live' : item'[d].cli_fd = f}
    <3>1. /\ fd_list[f] \in Seq(Items) /\ IsInjective(fd_list[f])
          /\ Range(fd_list[f]) = {d \in Live : item[d].cli_fd = f}
      BY DEF TypeOK, FdOk
    <3>2. {d \in Live : item'[d].cli_fd = f} = {d \in Live : item[d].cli_fd = f}
      BY <1>1, <1>3, <1>5
    <3>3. CASE f = fd
      <4>1. fd_list'[f] = list_add_tail(c, fd_list[f])
        BY <2>1, <3>3 DEF TypeOK
      <4>2. c \notin Range(fd_list[f])
        BY <1>1, <3>1
      <4> DEFINE new == list_add_tail(c, fd_list[f])
      <4>3. IsInjective(new) /\ Range(new) = Range(fd_list[f]) \cup {c}
        <5> HIDE DEF Items
        <5>1. c \in Items
          BY <1>1
        <5>2. QED
          BY <3>1, <4>2, <5>1, AddTail, ZenonT(60)
      <4>4. {d \in Live' : item'[d].cli_fd = f} = {d \in Live : item'[d].cli_fd = f} \cup {c}
        BY <1>3, <1>4, <3>3
      <4>5. QED
        BY <3>1, <3>2, <4>1, <4>3, <4>4
    <3>4. CASE f # fd
      <4>1. fd_list'[f] = fd_list[f]
        BY <2>1, <3>4 DEF TypeOK
      <4>2. {d \in Live' : item'[d].cli_fd = f} = {d \in Live : item'[d].cli_fd = f}
        BY <1>3, <1>4, <3>4
      <4>3. QED
        BY <3>1, <3>2, <4>1, <4>2
    <3>5. QED
      BY <3>3, <3>4
  <2>3. QED
    BY <2>2 DEF FdOk
<1>9. PoolOk'
  <2>0. TypeOK'
    BY TypeProcPkgCli
  <2>1. alloc_pool_pos \in Nat /\ alloc_pool_pos' \in Nat
    BY <2>0, NItemsAssumption DEF TypeOK
  <2>2. Live' \subseteq 1..alloc_pool_pos'
    <3>1. Live \subseteq 1..alloc_pool_pos
      BY DEF PoolOk
    <3>2. QED
      BY <1>1, <1>4, <2>1, <3>1
  <2>3. QED
    BY <1>1, <1>4, <2>2 DEF PoolOk
<1>10. RefOk'
  BY <1>7 DEF RefOk, ProcPkgCli, mempool_alloc
<1>11. QED
  BY <1>1, <1>4, <1>6, <1>7, <1>8, <1>9, <1>10 DEF c

(***************************************************************************)
(* DestroyClient takes one item out of all the indices and gives it back.  *)
(***************************************************************************)
LEMMA CoherentDestroyClient ==
  ASSUME TypeOK, Coherent, NEW sn, DestroyClient(sn)
  PROVE  /\ Coherent'
         /\ client_info_map[sn] \in Live
         /\ Live' = Live \ {client_info_map[sn]}
         /\ \A d \in Items : d # client_info_map[sn] => item'[d] = item[d]
<1> DEFINE c == client_info_map[sn]
<1>1. /\ sn \in DOMAIN client_info_map
      /\ fd_list' = [f \in Fds |-> list_del_init(c, fd_list[f])]
      /\ reuse' = <<c>> \o reuse /\ ref_count' = ref_count - 1
      /\ client_info_map' = [s \in DOMAIN client_info_map \ {sn} |-> client_info_map[s]]
      /\ timer' = list_del_init(c, timer)
      /\ alloc_pool_pos' = alloc_pool_pos
  BY DEF DestroyClient, mempool_free, Restrict
<1>2. c \in Items /\ c \in Live /\ Live \subseteq Items
  BY <1>1 DEF TypeOK, Live
<1>3. \A d \in Items : d # c => item'[d] = item[d]
  BY <1>2 DEF DestroyClient, TypeOK
<1>4. \A s \in DOMAIN client_info_map : s # sn => client_info_map[s] # c
  BY <1>1 DEF MapOk
<1> HIDE DEF c
<1>5. Live' = Live \ {c}
  <2>1. Live' = {client_info_map[s] : s \in DOMAIN client_info_map \ {sn}}
    BY <1>1 DEF Live
  <2>2. QED
    BY <1>1, <1>4, <2>1 DEF Live, c
<1>6. MapOk'
  <2>1. ASSUME NEW s \in DOMAIN client_info_map, s # sn
        PROVE  item'[client_info_map[s]].ser_seq = s
    BY <1>3, <1>4, <2>1 DEF MapOk, TypeOK
  <2>2. QED
    BY <1>1, <2>1 DEF MapOk
<1>7. TimerOk' /\ RefOk'
  <2>1. timer \in Seq(Items) /\ IsInjective(timer) /\ Range(timer) = Live /\ c \in Range(timer)
    BY <1>2 DEF TypeOK, TimerOk
  <2> DEFINE new == list_del_init(c, timer)
  <2>2. IsInjective(new) /\ Range(new) = Range(timer) \ {c} /\ Len(new) = Len(timer) - 1
    BY <2>1, DelInit
  <2>3. QED
    BY <1>1, <1>5, <2>1, <2>2 DEF TimerOk, RefOk
<1>8. FdOk'
  <2>1. ASSUME NEW f \in Fds
        PROVE  /\ IsInjective(fd_list'[f])
               /\ Range(fd_list'[f]) = {d \in Live' : item'[d].cli_fd = f}
    <3>1. /\ fd_list[f] \in Seq(Items) /\ IsInjective(fd_list[f])
          /\ Range(fd_list[f]) = {d \in Live : item[d].cli_fd = f}
      BY DEF TypeOK, FdOk
    <3> DEFINE new == list_del_init(c, fd_list[f])
    <3>2. IsInjective(new) /\ Range(new) = Range(fd_list[f]) \ {c}
      BY <3>1, DelInit
    <3>3. {d \in Live' : item'[d].cli_fd = f} = {d \in Live : item[d].cli_fd = f} \ {c}
      BY <1>2, <1>3, <1>5
    <3>4. QED
      BY <1>1, <3>1, <3>2, <3>3
  <2>2. QED
    BY <2>1 DEF FdOk
<1>9. PoolOk'
  <2>1. /\ Live \subseteq 1..alloc_pool_pos /\ IsInjective(reuse)
        /\ Range(reuse) = (1..alloc_pool_pos) \ Live
    BY DEF PoolOk
  <2>2. /\ Len(reuse) \in Nat /\ DOMAIN reuse = 1..Len(reuse)
        /\ DOMAIN reuse' = 1..(Len(reuse) + 1)
        /\ reuse'[1] = c
        /\ \A i \in 1..Len(reuse) : reuse'[i + 1] = reuse[i]
        /\ \A i \in 2..(Len(reuse) + 1) : reuse'[i] = reuse[i - 1]
    BY <1>1, <1>2 DEF TypeOK
  <2>3. \A i \in 1..Len(reuse) : reuse[i] # c
    BY <1>2, <2>1, <2>2 DEF Range
  <2>4. IsInjective(reuse')
    <3>1. SUFFICES ASSUME NEW a \in 1..(Len(reuse) + 1), NEW b \in 1..(Len(reuse) + 1),
                          reuse'[a] = reuse'[b]
                   PROVE  a = b
      BY <2>2 DEF IsInjective
    <3>2. CASE a # 1 /\ b # 1
      <4>1. /\ a - 1 \in DOMAIN reuse /\ b - 1 \in DOMAIN reuse
            /\ reuse'[a] = reuse[a - 1] /\ reuse'[b] = reuse[b - 1]
        BY <2>2, <3>2
      <4>2. a - 1 = b - 1
        BY <2>1, <3>1, <4>1 DEF IsInjective
      <4>3. QED
        BY <4>2
    <3>3. CASE a = 1 \/ b = 1
      BY <2>2, <2>3, <3>1, <3>3
    <3>4. QED
      BY <3>2, <3>3
  <2>5. Range(reuse') = Range(reuse) \cup {c}
    <3>1. \A x \in Range(reuse') : x \in Range(reuse) \cup {c}
      BY <2>2 DEF Range
    <3>2. \A x \in Range(reuse) : x \in Range(reuse')
      BY <2>2 DEF Range
    <3>3. c \in Range(reuse')
      BY <2>2 DEF Range
    <3>4. QED
      BY <3>1, <3>2, <3>3
  <2>6. QED
    BY <1>1, <1>2, <1>5, <2>1, <2>4, <2>5 DEF PoolOk
<1>10. QED
  BY <1>2, <1>3, <1>5, <1>6, <1>7, <1>8, <1>9 DEF c

(***************************************************************************)
(* Only ProcPkgCli, the two callers of DestroyClient and Uninit touch the  *)
(* indices; each of the first three keeps them in agreement.               *)
(***************************************************************************)
LEMMA CoherentNext == TypeOK /\ IndexCoherence /\ [Next]_vars => IndexCoherence'
<1> SUFFICES ASSUME TypeOK, is_running_ => Coherent, [Next]_vars, is_running_'
             PROVE  Coherent'
  BY DEF IndexCoherence
<1> USE DEF poolVars, indexVars
<1>1. ASSUME NEW fd \in Fds, NEW cmd \in Cmds, ProcPkgCli(fd, cmd) PROVE Coherent'
  <2>1. Coherent
    BY <1>1 DEF ProcPkgCli
  <2>2. QED
    BY <1>1, <2>1, CoherentProcPkgCli
<1>2. CASE DoServerTimeout
  <2>1. Coherent /\ \E sn : DestroyClient(sn)
    BY <1>2 DEF DoServerTimeout
  <2>2. QED
    BY <2>1, CoherentDestroyClient
<1>3. CASE LinkDownCliEntry
  <2>1. Coherent /\ \E sn : DestroyClient(sn)
    BY <1>3 DEF LinkDownCliEntry
  <2>2. QED
    BY <2>1, CoherentDestroyClient
<1>4. CASE Uninit
  BY <1>4 DEF Uninit
<1>5. CASE \/ Tick \/ TimeEvent \/ put \/ TimeEventEnd \/ LinkDownCliEnd \/ join_all
           \/ \E fd \in Fds : LinkUpCli(fd) \/ LinkDownCli(fd) \/ ProcPkgCliNoMem(fd)
           \/ \E t \in Threads : ThreadStep(t)
           \/ UNCHANGED vars
  <2>1. /\ UNCHANGED <<item, reuse, alloc_pool_pos, ref_count,
                      client_info_map, fd_list, timer>>
        /\ is_running_' = is_running_
    BY <1>5
    DEF Tick, TimeEvent, put, TimeEventEnd, LinkDownCliEnd, join_all, LinkUpCli,
        LinkDownCli, ProcPkgCliNoMem, ThreadStep, take, exit, runTis, runDefault,
        check, StoreMessage, fault, vars
  <2>2. QED
    BY <2>1, CoherentFrame
<1>6. QED
  BY <1>1, <1>2, <1>3, <1>4, <1>5 DEF Next, Callback, CallbackStep

(***************************************************************************)
(* The indices of the requests in flight agree in every reachable state    *)
(* before Uninit: DestroyClient finds what it is asked for, no item is     *)
(* freed twice and none is handed out while in use.                        *)
(***************************************************************************)
THEOREM IndicesCoherent == Spec => []IndexCoherence
<1>1. Init => IndexCoherence
  BY CoherentInit DEF IndexCoherence
<1>2. QED
  BY <1>1, CoherentNext, TypeCorrect, PTL DEF Spec

-----------------------------------------------------------------------------
(* The life of a request: why it is in flight, why it leaves, that a sweep *)
(* of the timer list leaves no overdue one, that it is served with its own *)
(* data and replied to once.                                               *)

USE DEF Items, NoItem, NoFd, Serials, Pkgs, Handlers

(***************************************************************************)
(* What holds of the event loop's own variables: it is out of its callback *)
(* loop only after Uninit, the time of a sweep is not in the future, and   *)
(* the client whose requests it clears has disconnected.                   *)
(***************************************************************************)
LoopOk ==
  /\ main \notin {"join", "stopped"} => is_running_
  /\ current_time <= now
  /\ main = "linkdown" => main_fd \notin linked

(***************************************************************************)
(* Every step of the event loop and of the threads keeps LoopOk.           *)
(***************************************************************************)
LEMMA LoopNext == TypeOK /\ LoopOk /\ [Next]_vars => LoopOk'
<1> SUFFICES ASSUME TypeOK, LoopOk, [Next]_vars PROVE LoopOk'
  OBVIOUS
<1> USE DEF LoopOk, mainVars
<1>1. CASE Tick
  BY <1>1 DEF Tick, TypeOK
<1>2. ASSUME NEW fd \in Fds, LinkUpCli(fd) PROVE LoopOk'
  BY <1>2 DEF LinkUpCli
<1>3. ASSUME NEW fd \in Fds, LinkDownCli(fd) PROVE LoopOk'
  BY <1>3 DEF LinkDownCli
<1>4. ASSUME NEW fd \in Fds, NEW cmd \in Cmds,
             ProcPkgCliNoMem(fd) \/ ProcPkgCli(fd, cmd) PROVE LoopOk'
  BY <1>4 DEF ProcPkgCliNoMem, ProcPkgCli
<1>5. CASE TimeEvent
  BY <1>5 DEF TimeEvent, TypeOK
<1>6. CASE Uninit
  BY <1>6 DEF Uninit
<1>7. CASE put \/ DoServerTimeout \/ LinkDownCliEntry
  BY <1>7 DEF put, DoServerTimeout, LinkDownCliEntry
<1>8. CASE TimeEventEnd \/ LinkDownCliEnd \/ join_all
  BY <1>8 DEF TimeEventEnd, LinkDownCliEnd, join_all, TypeOK
<1>9. ASSUME NEW t \in Threads, ThreadStep(t) PROVE LoopOk'
  BY <1>9 DEF ThreadStep, take, exit, runTis, runDefault, check, StoreMessage, fault
<1>10. CASE UNCHANGED vars
  BY <1>10 DEF vars
<1>11. Cmds # {}
  BY DEF Cmds
<1>12. QED
  BY <1>1, <1>2, <1>3, <1>4, <1>5, <1>6, <1>7, <1>8, <1>9, <1>10, <1>11
  DEF Next, Callback, CallbackStep

(***************************************************************************)
(* LoopOk in every reachable state.                                        *)
(***************************************************************************)
LEMMA LoopInv == Spec => []LoopOk
<1>1. Init => LoopOk
  BY DEF Init, LoopOk
<1>2. QED
  BY <1>1, LoopNext, TypeCorrect, PTL DEF Spec

(***************************************************************************)
(* DestroyClient, called with the serial number an item in flight carries, *)
(* finds that item.                                                        *)
(***************************************************************************)
LEMMA FindsItsOwn ==
  ASSUME Coherent, NEW c \in Live
  PROVE  client_info_map[item[c].ser_seq] = c
<1>1. PICK s \in DOMAIN client_info_map : client_info_map[s] = c
  BY DEF Live
<1>2. item[c].ser_seq = s
  BY <1>1 DEF Coherent, MapOk
<1>3. QED
  BY <1>1, <1>2

(***************************************************************************)
(* The head of a list is one of its entries.                               *)
(***************************************************************************)
LEMMA HeadInRange ==
  ASSUME NEW S, NEW s \in Seq(S), s # <<>>
  PROVE  /\ 1 \in DOMAIN s /\ Head(s) = s[1]
         /\ Head(s) \in Range(s)
<1>1. 1 \in DOMAIN s /\ Head(s) = s[1]
  OBVIOUS
<1>2. QED
  BY <1>1 DEF Range

(***************************************************************************)
(* What the two callers of DestroyClient destroy: the head of the timer    *)
(* list, which is past its time, ...                                       *)
(***************************************************************************)
LEMMA TimeoutDestroysHead ==
  ASSUME TypeOK, Coherent, LoopOk, DoServerTimeout
  PROVE  LET c == Head(timer)
         IN  /\ c \in Live /\ item[c].expire_time < now
             /\ Live' = Live \ {c}
             /\ Coherent'
             /\ \A d \in Live' : item'[d] = item[d]
<1> DEFINE c == Head(timer)
<1>1. c \in Live /\ 1 \in DOMAIN timer /\ Live \subseteq Items
  BY HeadInRange DEF DoServerTimeout, TypeOK, Coherent, TimerOk, Live
<1>2. item[c].expire_time < current_time /\ DestroyClient(item[c].ser_seq)
  BY DEF DoServerTimeout, Expired
<1>3. item[c].expire_time < now
  <2>1. item[c] \in ClientInfo /\ current_time \in Nat /\ now \in Nat
    BY <1>1 DEF TypeOK
  <2>2. item[c].expire_time \in Nat
    BY <2>1 DEF ClientInfo
  <2>3. QED
    BY <1>2, <2>1, <2>2 DEF LoopOk
<1>4. client_info_map[item[c].ser_seq] = c
  BY <1>1, FindsItsOwn
<1> DEFINE sn == item[c].ser_seq
<1> HIDE DEF sn
<1>5. /\ Coherent' /\ Live' = Live \ {client_info_map[sn]}
      /\ \A d \in Items : d # client_info_map[sn] => item'[d] = item[d]
  <2>1. DestroyClient(sn)
    BY <1>2 DEF sn
  <2>2. QED
    BY <2>1, CoherentDestroyClient
<1>6. client_info_map[sn] = c
  BY <1>4 DEF sn
<1>7. QED
  BY <1>1, <1>3, <1>5, <1>6

(***************************************************************************)
(* ... and the head of the list of a descriptor whose client has gone.     *)
(***************************************************************************)
LEMMA LinkDownDestroysHead ==
  ASSUME TypeOK, Coherent, LoopOk, LinkDownCliEntry
  PROVE  LET c == Head(fd_list[main_fd])
         IN  /\ c \in Live /\ item[c].cli_fd \notin linked
             /\ Live' = Live \ {c}
             /\ Coherent'
             /\ \A d \in Live' : item'[d] = item[d]
<1> DEFINE c == Head(fd_list[main_fd])
<1>0. main_fd \in Fds /\ main_fd \notin linked /\ fd_list[main_fd] \in Seq(Items)
  BY DEF LinkDownCliEntry, LoopOk, TypeOK
<1>1. c \in Range(fd_list[main_fd])
  BY <1>0, HeadInRange DEF LinkDownCliEntry
<1>2. c \in Live /\ item[c].cli_fd = main_fd /\ Live \subseteq Items
  BY <1>0, <1>1 DEF Coherent, FdOk, TypeOK, Live
<1>3. DestroyClient(item[c].ser_seq)
  BY DEF LinkDownCliEntry
<1>4. client_info_map[item[c].ser_seq] = c
  BY <1>2, FindsItsOwn
<1> DEFINE sn == item[c].ser_seq
<1> HIDE DEF sn
<1>5. /\ Coherent' /\ Live' = Live \ {client_info_map[sn]}
      /\ \A d \in Items : d # client_info_map[sn] => item'[d] = item[d]
  <2>1. DestroyClient(sn)
    BY <1>3 DEF sn
  <2>2. QED
    BY <2>1, CoherentDestroyClient
<1>6. client_info_map[sn] = c
  BY <1>4 DEF sn
<1>7. QED
  BY <1>0, <1>2, <1>5, <1>6

(***************************************************************************)
(* The steps other than the four that handle requests leave them alone.    *)
(***************************************************************************)
LEMMA QuietStep ==
  ASSUME [Next]_vars, ~DoServerTimeout, ~LinkDownCliEntry, ~Uninit,
         \A fd \in Fds, cmd \in Cmds : ~ProcPkgCli(fd, cmd)
  PROVE  UNCHANGED <<item, client_info_map, fd_list, timer, is_running_>>
<1> USE DEF poolVars, indexVars
<1>1. CASE Tick \/ TimeEvent \/ put \/ TimeEventEnd \/ LinkDownCliEnd \/ join_all
  BY <1>1 DEF Tick, TimeEvent, put, TimeEventEnd, LinkDownCliEnd, join_all
<1>2. CASE \E fd \in Fds : LinkUpCli(fd) \/ LinkDownCli(fd) \/ ProcPkgCliNoMem(fd)
  BY <1>2 DEF LinkUpCli, LinkDownCli, ProcPkgCliNoMem
<1>3. CASE \E t \in Threads : ThreadStep(t)
  BY <1>3 DEF ThreadStep, take, exit, runTis, runDefault, check, StoreMessage, fault
<1>4. CASE UNCHANGED vars
  BY <1>4 DEF vars
<1>5. QED
  BY <1>1, <1>2, <1>3, <1>4 DEF Next, Callback, CallbackStep

(***************************************************************************)
(* Of the steps that leave the requests alone, only Tick moves the clock.  *)
(***************************************************************************)
LEMMA ClockOnlyTicks ==
  ASSUME [Next]_vars, ~Tick, ~DoServerTimeout, ~LinkDownCliEntry, ~Uninit,
         \A fd \in Fds, cmd \in Cmds : ~ProcPkgCli(fd, cmd)
  PROVE  now' = now
<1>1. CASE TimeEvent \/ put \/ TimeEventEnd \/ LinkDownCliEnd \/ join_all
  BY <1>1 DEF TimeEvent, put, TimeEventEnd, LinkDownCliEnd, join_all
<1>2. CASE \E fd \in Fds : LinkUpCli(fd) \/ LinkDownCli(fd) \/ ProcPkgCliNoMem(fd)
  BY <1>2 DEF LinkUpCli, LinkDownCli, ProcPkgCliNoMem
<1>3. CASE \E t \in Threads : ThreadStep(t)
  BY <1>3 DEF ThreadStep, take, exit, runTis, runDefault, check, StoreMessage, fault
<1>4. CASE UNCHANGED vars
  BY <1>4 DEF vars
<1>5. QED
  BY <1>1, <1>2, <1>3, <1>4 DEF Next, Callback, CallbackStep

(***************************************************************************)
(* A sweep returns to the event loop only at its end.                      *)
(***************************************************************************)
LEMMA EndsSweep ==
  ASSUME [Next]_vars, main = "timer", main' = "idle"
  PROVE  TimeEventEnd
<1> USE DEF mainVars
<1>1. ~(Tick \/ put \/ DoServerTimeout \/ LinkDownCliEntry \/ LinkDownCliEnd \/ join_all)
  BY DEF Tick, put, DoServerTimeout, LinkDownCliEntry, LinkDownCliEnd, join_all
<1>2. ~(TimeEvent \/ Uninit)
  BY DEF TimeEvent, Uninit
<1>3. ~\E fd \in Fds : LinkUpCli(fd) \/ LinkDownCli(fd) \/ ProcPkgCliNoMem(fd)
  BY DEF LinkUpCli, LinkDownCli, ProcPkgCliNoMem
<1>4. ~\E fd \in Fds, cmd \in Cmds : ProcPkgCli(fd, cmd)
  BY DEF ProcPkgCli
<1>5. ~\E t \in Threads : ThreadStep(t)
  BY DEF ThreadStep, take, exit, runTis, runDefault, check, StoreMessage, fault
<1>6. ~UNCHANGED vars
  BY DEF vars
<1>7. QED
  BY <1>1, <1>2, <1>3, <1>4, <1>5, <1>6 DEF Next, Callback, CallbackStep

(***************************************************************************)
(* ProcPkgCli adds one request, for the client the package came from.      *)
(***************************************************************************)
LEMMA ArrivalAddsOne ==
  ASSUME TypeOK, Coherent, NEW fd \in Fds, NEW cmd \in Cmds, ProcPkgCli(fd, cmd)
  PROVE  LET c == mempool_next
         IN  /\ Live' = Live \cup {c} /\ c \notin Live /\ c \in Items
             /\ item'[c].cli_fd = fd /\ item'[c].expire_time = now + g_timeout_s
             /\ item'[c].pkg = Len(req) + 1 /\ item'[c].cli_seq = Len(req) + 1
             /\ \A d \in Live : item'[d] = item[d]
<1> DEFINE c == mempool_next
<1>1. Live' = Live \cup {c} /\ c \notin Live /\ c \in Items
  BY CoherentProcPkgCli
<1>2. Live \subseteq Items
  BY DEF Live, TypeOK
<1>3. item' = [item EXCEPT ![c] =
           [cli_fd |-> fd, cli_seq |-> Len(req) + 1, pkg |-> Len(req) + 1,
            ser_seq |-> serialized_no, expire_time |-> now + g_timeout_s,
            call_back_func |-> getHandler(cmd)]]
  BY DEF ProcPkgCli
<1> HIDE DEF c
<1>4. /\ item'[c].cli_fd = fd /\ item'[c].expire_time = now + g_timeout_s
      /\ item'[c].pkg = Len(req) + 1 /\ item'[c].cli_seq = Len(req) + 1
      /\ \A d \in Items : d # c => item'[d] = item[d]
  BY <1>1, <1>3 DEF TypeOK
<1>5. QED
  BY <1>1, <1>2, <1>4 DEF c

(***************************************************************************)
(* No step leaves a request behind a client that has gone.                 *)
(***************************************************************************)
LEMMA NoOrphansNext ==
  ASSUME TypeOK, IndexCoherence, LoopOk, NoOrphans, [Next]_vars
  PROVE  NoOrphans'
<1> DEFINE Behind == linked \cup (IF main = "linkdown" THEN {main_fd} ELSE {})
<1>1. ASSUME NEW fd \in Fds, NEW cmd \in Cmds, ProcPkgCli(fd, cmd)
      PROVE  NoOrphans'
  <2>1. Coherent /\ \A d \in Live : item[d].cli_fd \in linked
    BY <1>1 DEF ProcPkgCli, LoopOk, IndexCoherence, NoOrphans
  <2>2. linked' = linked /\ fd \in linked
    BY <1>1 DEF ProcPkgCli
  <2>3. \A d \in Live' : item'[d].cli_fd \in linked'
    BY <1>1, <2>1, <2>2, ArrivalAddsOne
  <2>4. QED
    BY <2>3 DEF NoOrphans
<1>2. CASE DoServerTimeout \/ LinkDownCliEntry
  <2>1. is_running_
    BY <1>2 DEF DoServerTimeout, LinkDownCliEntry, LoopOk
  <2>2. Coherent /\ \A d \in Live : item[d].cli_fd \in Behind
    BY <2>1 DEF IndexCoherence, NoOrphans
  <2>3. Behind' = Behind
    BY <1>2 DEF DoServerTimeout, LinkDownCliEntry, mainVars
  <2>4. Live' \subseteq Live /\ \A d \in Live' : item'[d] = item[d]
    BY <1>2, <2>2, TimeoutDestroysHead, LinkDownDestroysHead
  <2>5. \A d \in Live' : item'[d].cli_fd \in Behind'
    BY <2>2, <2>3, <2>4
  <2>6. QED
    BY <2>5 DEF NoOrphans
<1>3. CASE Uninit
  BY <1>3 DEF Uninit, NoOrphans
<1>4. CASE /\ ~DoServerTimeout /\ ~LinkDownCliEntry /\ ~Uninit
           /\ \A fd \in Fds, cmd \in Cmds : ~ProcPkgCli(fd, cmd)
  <2>1. UNCHANGED <<item, client_info_map, fd_list, timer, is_running_>>
    BY <1>4, QuietStep
  <2>2. SUFFICES ASSUME is_running_ PROVE \A d \in Live : item[d].cli_fd \in Behind'
    BY <2>1 DEF NoOrphans, Live
  <2>3. Coherent /\ \A d \in Live : item[d].cli_fd \in Behind
    BY <2>2 DEF IndexCoherence, NoOrphans
  <2>4. ASSUME NEW fd \in Fds, LinkUpCli(fd) \/ LinkDownCli(fd) \/ ProcPkgCliNoMem(fd)
        PROVE  Behind \subseteq Behind'
    BY <2>4 DEF LinkUpCli, LinkDownCli, ProcPkgCliNoMem, mainVars
  <2>5. CASE LinkDownCliEnd
    <3>1. fd_list[main_fd] = <<>> /\ main_fd \in Fds
      BY <2>5 DEF LinkDownCliEnd, TypeOK
    <3>2. {d \in Live : item[d].cli_fd = main_fd} = {}
      BY <2>3, <3>1 DEF Coherent, FdOk, Range
    <3>3. linked' = linked
      BY <2>5 DEF LinkDownCliEnd
    <3>4. QED
      BY <2>3, <3>2, <3>3
  <2>6. CASE \/ Tick \/ TimeEvent \/ put \/ TimeEventEnd \/ join_all \/ UNCHANGED vars
             \/ \E t \in Threads : ThreadStep(t)
    <3>1. Behind' = Behind
      BY <2>6 DEF Tick, TimeEvent, put, TimeEventEnd, join_all, vars, mainVars,
        ThreadStep, take, exit, runTis, runDefault, check, StoreMessage, fault
    <3>2. QED
      BY <2>3, <3>1
  <2>7. QED
    BY <1>4, <2>3, <2>4, <2>5, <2>6 DEF Next, Callback, CallbackStep
<1>5. QED
  BY <1>1, <1>2, <1>3, <1>4

(***************************************************************************)
(* LinkDownCli takes all requests of a connection with it: in every        *)
(* reachable state before Uninit, a request in flight has a client.        *)
(***************************************************************************)
THEOREM NoneOrphaned == Spec => []NoOrphans
<1>1. Init => NoOrphans
  BY DEF Init, NoOrphans, Live
<1>2. QED
  BY <1>1, NoOrphansNext, TypeCorrect, IndicesCoherent, LoopInv, PTL DEF Spec

(***************************************************************************)
(* A step drops a request only if its time has passed or its client has    *)
(* gone.                                                                   *)
(***************************************************************************)
LEMMA DropStep ==
  ASSUME TypeOK, IndexCoherence, LoopOk, [Next]_vars
  PROVE  \A c \in Live : c \notin Live' => \/ item[c].expire_time < now
                                          \/ item[c].cli_fd \notin linked
<1>1. ASSUME NEW fd \in Fds, NEW cmd \in Cmds, ProcPkgCli(fd, cmd)
      PROVE  Live \subseteq Live'
  BY <1>1, ArrivalAddsOne DEF ProcPkgCli, LoopOk, IndexCoherence
<1>2. CASE DoServerTimeout
  <2>1. Coherent
    BY <1>2 DEF DoServerTimeout, LoopOk, IndexCoherence
  <2>2. QED
    BY <1>2, <2>1, TimeoutDestroysHead
<1>3. CASE LinkDownCliEntry
  <2>1. Coherent
    BY <1>3 DEF LinkDownCliEntry, LoopOk, IndexCoherence
  <2>2. QED
    BY <1>3, <2>1, LinkDownDestroysHead
<1>4. CASE Uninit
  BY <1>4 DEF Uninit, Live
<1>5. CASE /\ ~DoServerTimeout /\ ~LinkDownCliEntry /\ ~Uninit
           /\ \A fd \in Fds, cmd \in Cmds : ~ProcPkgCli(fd, cmd)
  BY <1>5, QuietStep DEF Live
<1>6. QED
  BY <1>1, <1>2, <1>3, <1>4, <1>5

(***************************************************************************)
(* No request is dropped without a cause of its own, in any behaviour.     *)
(***************************************************************************)
THEOREM OnlyDroppedForCause == Spec => DroppedForCause
  BY DropStep, TypeCorrect, IndicesCoherent, LoopInv, PTL DEF Spec, DroppedForCause

(***************************************************************************)
(* The timer list is in the order of the timeouts, and no request has more *)
(* time left than one whose package arrives now.                           *)
(***************************************************************************)
TimerSorted ==
  /\ \A i, j \in 1..Len(timer) : i < j =>
       item[timer[i]].expire_time <= item[timer[j]].expire_time
  /\ \A c \in Live : item[c].expire_time <= now + g_timeout_s

(***************************************************************************)
(* Timeouts are numbers, and the entries of the timer list are the         *)
(* requests in flight.                                                     *)
(***************************************************************************)
LEMMA TimerEntries ==
  ASSUME TypeOK, TimerOk
  PROVE  /\ timer \in Seq(Items) /\ Len(timer) \in Nat
         /\ now \in Nat /\ g_timeout_s \in Nat
         /\ \A i \in 1..Len(timer) : timer[i] \in Live
         /\ \A c \in Live : item[c].expire_time \in Nat
<1>1. timer \in Seq(Items) /\ now \in Nat /\ g_timeout_s \in Nat
  BY TimeoutAssumption DEF TypeOK
<1>2. \A i \in 1..Len(timer) : timer[i] \in Live
  BY <1>1 DEF TimerOk, Range
<1>3. ASSUME NEW c \in Live PROVE item[c].expire_time \in Nat
  <2>1. item[c] \in ClientInfo
    BY DEF Live, TypeOK
  <2>2. QED
    BY <2>1 DEF ClientInfo
<1>4. QED
  BY <1>1, <1>2, <1>3

(***************************************************************************)
(* timer_add_event keeps the order: a new request has the latest timeout.  *)
(***************************************************************************)
LEMMA SortedArrival ==
  ASSUME TypeOK, Coherent, TimerSorted,
         NEW fd \in Fds, NEW cmd \in Cmds, ProcPkgCli(fd, cmd)
  PROVE  TimerSorted'
<1> DEFINE c == mempool_next
<1>1. /\ Live' = Live \cup {c} /\ item'[c].expire_time = now + g_timeout_s
      /\ \A d \in Live : item'[d] = item[d]
  BY ArrivalAddsOne
<1>2. timer' = Append(timer, c) /\ now' = now
  BY DEF ProcPkgCli, timer_add_event, list_add_tail
<1> HIDE DEF c
<1>3. /\ timer \in Seq(Items) /\ Len(timer) \in Nat
      /\ now \in Nat /\ g_timeout_s \in Nat
      /\ \A i \in 1..Len(timer) : timer[i] \in Live
      /\ \A d \in Live : item[d].expire_time \in Nat
  BY TimerEntries DEF Coherent
<1>4. /\ Len(timer') = Len(timer) + 1 /\ timer'[Len(timer) + 1] = c
      /\ \A i \in 1..Len(timer) : timer'[i] = timer[i]
  BY <1>2, <1>3
<1>5. \A d \in Live' : item'[d].expire_time <= now' + g_timeout_s
  BY <1>1, <1>2, <1>3 DEF TimerSorted
<1>6. ASSUME NEW i \in 1..Len(timer'), NEW j \in 1..Len(timer'), i < j
      PROVE  item'[timer'[i]].expire_time <= item'[timer'[j]].expire_time
  <2>1. i \in 1..Len(timer) /\ timer[i] \in Live
    BY <1>3, <1>4, <1>6
  <2>2. CASE j = Len(timer) + 1
    BY <1>1, <1>4, <2>1, <2>2 DEF TimerSorted
  <2>3. CASE j \in 1..Len(timer)
    BY <1>1, <1>3, <1>4, <1>6, <2>1, <2>3 DEF TimerSorted
  <2>4. QED
    BY <1>3, <1>4, <2>2, <2>3
<1>7. QED
  BY <1>5, <1>6 DEF TimerSorted

(***************************************************************************)
(* timer_del_event keeps the order, wherever in the list the entry is.     *)
(***************************************************************************)
LEMMA SortedDestroy ==
  ASSUME TypeOK, Coherent, TimerSorted, NEW sn, DestroyClient(sn), now' = now
  PROVE  TimerSorted'
<1> DEFINE c   == client_info_map[sn]
           new == list_del_init(c, timer)
<1>1. Live' = Live \ {c} /\ \A d \in Items : d # c => item'[d] = item[d]
  BY CoherentDestroyClient
<1>2. Live \subseteq Items
  BY DEF Live, TypeOK
<1>3. timer' = new
  BY DEF DestroyClient, timer_del_event
<1>4. /\ timer \in Seq(Items) /\ \A i \in 1..Len(timer) : timer[i] \in Live
      /\ \A d \in Live : item[d].expire_time \in Nat
  BY TimerEntries DEF Coherent
<1>5. IsInjective(timer) /\ Range(timer) = Live
  BY DEF Coherent, TimerOk
<1> HIDE DEF c, Items
<1>6. /\ Range(new) = Range(timer) \ {c}
      /\ \A i, j \in 1..Len(new) : i < j =>
           \E k, l \in 1..Len(timer) :
             k < l /\ timer[k] = new[i] /\ timer[l] = new[j]
  BY <1>4, <1>5, DelInit, ZenonT(60)
<1>7. new \in Seq(Items)
  BY <1>4, DelInitType, ZenonT(60)
<1> HIDE DEF new
<1>8. \A i \in 1..Len(new) : new[i] \in Live /\ item'[new[i]] = item[new[i]]
  <2>1. \A i \in 1..Len(new) : new[i] \in Range(new)
    BY <1>7 DEF Range
  <2>2. QED
    BY <1>1, <1>2, <1>5, <1>6, <2>1
<1>9. ASSUME NEW i \in 1..Len(new), NEW j \in 1..Len(new), i < j
      PROVE  item'[new[i]].expire_time <= item'[new[j]].expire_time
  <2>1. PICK k \in 1..Len(timer), l \in 1..Len(timer) :
          k < l /\ timer[k] = new[i] /\ timer[l] = new[j]
    BY <1>6, <1>9
  <2>2. item[new[i]].expire_time <= item[new[j]].expire_time
    BY <2>1 DEF TimerSorted
  <2>3. QED
    BY <1>8, <2>2
<1>10. \A d \in Live' : item'[d].expire_time <= now' + g_timeout_s
  BY <1>1, <1>2 DEF TimerSorted
<1>11. QED
  BY <1>3, <1>9, <1>10 DEF TimerSorted

(***************************************************************************)
(* The timer list stays sorted until Uninit.                               *)
(***************************************************************************)
LEMMA SortedNext ==
  TypeOK /\ IndexCoherence /\ LoopOk /\ (is_running_ => TimerSorted) /\ [Next]_vars
    => (is_running_ => TimerSorted)'
<1> SUFFICES ASSUME TypeOK, IndexCoherence, LoopOk, is_running_ => TimerSorted,
                    [Next]_vars, is_running_'
             PROVE  TimerSorted'
  OBVIOUS
<1>1. ASSUME NEW fd \in Fds, NEW cmd \in Cmds, ProcPkgCli(fd, cmd)
      PROVE  TimerSorted'
  <2>1. is_running_ /\ Coherent
    BY <1>1 DEF ProcPkgCli, LoopOk, IndexCoherence
  <2>2. QED
    BY <1>1, <2>1, SortedArrival
<1>2. CASE DoServerTimeout
  <2>1. is_running_ /\ Coherent
    BY <1>2 DEF DoServerTimeout, LoopOk, IndexCoherence
  <2>2. PICK sn : DestroyClient(sn) /\ now' = now
    BY <1>2 DEF DoServerTimeout
  <2>3. QED
    BY <2>1, <2>2, SortedDestroy
<1>3. CASE LinkDownCliEntry
  <2>1. is_running_ /\ Coherent
    BY <1>3 DEF LinkDownCliEntry, LoopOk, IndexCoherence
  <2>2. PICK sn : DestroyClient(sn) /\ now' = now
    BY <1>3 DEF LinkDownCliEntry
  <2>3. QED
    BY <2>1, <2>2, SortedDestroy
<1>4. CASE Uninit
  BY <1>4 DEF Uninit
<1>5. CASE /\ ~DoServerTimeout /\ ~LinkDownCliEntry /\ ~Uninit
           /\ \A fd \in Fds, cmd \in Cmds : ~ProcPkgCli(fd, cmd)
  <2>1. UNCHANGED <<item, client_info_map, fd_list, timer, is_running_>>
    BY <1>5, QuietStep
  <2>2. TimerSorted /\ Coherent /\ Live' = Live
    BY <2>1 DEF IndexCoherence, Live
  <2>3. now' \in Nat /\ now <= now'
    <3>1. CASE Tick
      BY <3>1 DEF Tick, TypeOK
    <3>2. CASE ~Tick
      BY <1>5, <3>2, ClockOnlyTicks DEF TypeOK
    <3>3. QED
      BY <3>1, <3>2
  <2>4. /\ now \in Nat /\ g_timeout_s \in Nat
        /\ \A d \in Live : item[d].expire_time \in Nat
    BY <2>2, TimerEntries DEF Coherent
  <2>5. \A d \in Live' : item'[d].expire_time <= now' + g_timeout_s
    BY <2>1, <2>2, <2>3, <2>4 DEF TimerSorted
  <2>6. QED
    BY <2>1, <2>2, <2>5 DEF TimerSorted
<1>6. QED
  BY <1>1, <1>2, <1>3, <1>4, <1>5

(***************************************************************************)
(* A step that ends a sweep finds nothing overdue in a sorted list.        *)
(***************************************************************************)
LEMMA SweepStep ==
  ASSUME TypeOK, IndexCoherence, LoopOk, is_running_ => TimerSorted, [Next]_vars,
         main = "timer", main' = "idle"
  PROVE  \A c \in Live : item[c].expire_time >= current_time
<1>1. TimeEventEnd
  BY EndsSweep
<1>2. timer # <<>> => ~Expired(Head(timer))
  BY <1>1 DEF TimeEventEnd
<1>3. SUFFICES ASSUME NEW c \in Live PROVE item[c].expire_time >= current_time
  OBVIOUS
<1>4. Coherent /\ TimerSorted
  BY DEF LoopOk, IndexCoherence
<1>5. /\ timer \in Seq(Items) /\ Len(timer) \in Nat
      /\ \A i \in 1..Len(timer) : timer[i] \in Live
      /\ \A d \in Live : item[d].expire_time \in Nat
  BY <1>4, TimerEntries DEF Coherent
<1>6. PICK j \in 1..Len(timer) : timer[j] = c
  BY <1>4, <1>5 DEF Coherent, TimerOk, Range
<1>7. timer # <<>> /\ Head(timer) = timer[1] /\ 1 \in 1..Len(timer)
  BY <1>5, <1>6
<1>8. item[timer[1]].expire_time >= current_time
  BY <1>2, <1>4, <1>5, <1>7 DEF Expired, TypeOK
<1>9. item[timer[1]].expire_time <= item[c].expire_time
  BY <1>4, <1>5, <1>6, <1>7 DEF TimerSorted
<1>10. /\ item[timer[1]].expire_time \in Nat /\ item[c].expire_time \in Nat
       /\ current_time \in Nat
  BY <1>5, <1>7 DEF TypeOK
<1>11. QED
  BY <1>8, <1>9, <1>10

(***************************************************************************)
(* A sweep of the timer list, which stops at the first request that is     *)
(* not overdue, leaves no overdue one, in any behaviour.                   *)
(***************************************************************************)
THEOREM SweepsComplete == Spec => SweepIsComplete
<1>1. Init => (is_running_ => TimerSorted)
  BY DEF Init, TimerSorted, Live
<1>2. Spec => [](is_running_ => TimerSorted)
  BY <1>1, SortedNext, TypeCorrect, IndicesCoherent, LoopInv, PTL DEF Spec
<1>3. TypeOK /\ IndexCoherence /\ LoopOk /\ (is_running_ => TimerSorted) /\ [Next]_vars
        => [main = "timer" /\ main' = "idle" =>
              \A c \in Live : item[c].expire_time >= current_time]_vars
  BY SweepStep
<1>4. QED
  BY <1>2, <1>3, TypeCorrect, IndicesCoherent, LoopInv, PTL DEF Spec, SweepIsComplete

-----------------------------------------------------------------------------
(* What a thread does for a request in flight *)

(***************************************************************************)
(* A request in flight carries what its own package brought, and no two    *)
(* carry the same package.                                                 *)
(***************************************************************************)
OwnData ==
  /\ \A c \in Live : /\ item[c].pkg \in 1..Len(req)
                     /\ item[c].cli_seq = item[c].pkg
                     /\ item[c].cli_fd = req[item[c].pkg]
  /\ \A c, d \in Live : item[c].pkg = item[d].pkg => c = d

Busy(t) == pc[t] \in {"run", "check", "store"}

(***************************************************************************)
(* Somebody holds item c for package n: the event loop that is about to    *)
(* queue it, the queue, or the thread that took it.                        *)
(***************************************************************************)
Held(c, n) ==
  \/ main = "put" /\ c = main_ci /\ n = Len(req)
  \/ \E i \in 1..Len(queue_) : queue_[i] = [ci |-> c, job |-> n]
  \/ \E t \in Threads : Busy(t) /\ ci[t] = c /\ job[t] = n

(***************************************************************************)
(* While package n is in flight, the item held for it is its item: the     *)
(* pool hands an item out again only after the request was destroyed.      *)
(***************************************************************************)
HeldIsOwn ==
  \A c \in Items, n \in Pkgs : Held(c, n) =>
    /\ n \in 1..Len(req)
    /\ Pending(n) => c \in Live /\ item[c].pkg = n

(***************************************************************************)
(* The text a thread copied, as long as its package is in flight.          *)
(***************************************************************************)
TextIsOwn ==
  \A t \in Threads : pc[t] \in {"check", "store"} /\ Pending(job[t]) =>
    content[t] = job[t]

(***************************************************************************)
(* Packages are only ever added to the history.                            *)
(***************************************************************************)
LEMMA HistoryGrows ==
  ASSUME TypeOK, [Next]_vars
  PROVE  /\ Len(req) \in Nat /\ Len(req') \in Nat /\ Len(req) <= Len(req')
         /\ \A n \in 1..Len(req) : req'[n] = req[n]
<1>0. req \in Seq(Fds) /\ Len(req) \in Nat
  BY DEF TypeOK
<1>1. ASSUME NEW fd \in Fds, req' = Append(req, fd)
      PROVE  /\ Len(req') \in Nat /\ Len(req) <= Len(req')
             /\ \A n \in 1..Len(req) : req'[n] = req[n]
  BY <1>0, <1>1
<1>2. req' = req \/ \E fd \in Fds : req' = Append(req, fd)
  <2> USE DEF outVars
  <2>1. CASE Tick \/ TimeEvent \/ put \/ TimeEventEnd \/ LinkDownCliEnd \/ join_all \/ Uninit
    BY <2>1 DEF Tick, TimeEvent, put, TimeEventEnd, LinkDownCliEnd, join_all, Uninit
  <2>2. CASE DoServerTimeout \/ LinkDownCliEntry
    BY <2>2 DEF DoServerTimeout, LinkDownCliEntry
  <2>3. CASE \E fd \in Fds : LinkUpCli(fd) \/ LinkDownCli(fd) \/ ProcPkgCliNoMem(fd)
    BY <2>3 DEF LinkUpCli, LinkDownCli, ProcPkgCliNoMem
  <2>4. CASE \E fd \in Fds, cmd \in Cmds : ProcPkgCli(fd, cmd)
    BY <2>4 DEF ProcPkgCli
  <2>5. CASE \E t \in Threads : ThreadStep(t)
    BY <2>5 DEF ThreadStep, take, exit, runTis, runDefault, check, StoreMessage, fault
  <2>6. CASE UNCHANGED vars
    BY <2>6 DEF vars
  <2>7. QED
    BY <2>1, <2>2, <2>3, <2>4, <2>5, <2>6 DEF Next, Callback, CallbackStep
<1>3. QED
  BY <1>0, <1>1, <1>2

(***************************************************************************)
(* Only ProcPkgCli adds a request, and no step rewrites the data of one in *)
(* flight.                                                                 *)
(***************************************************************************)
LEMMA RequestsStay ==
  ASSUME TypeOK, IndexCoherence, LoopOk, [Next]_vars,
         \A fd \in Fds, cmd \in Cmds : ~ProcPkgCli(fd, cmd)
  PROVE  \A d \in Live' : /\ d \in Live
                          /\ item'[d].pkg = item[d].pkg
                          /\ item'[d].cli_seq = item[d].cli_seq
                          /\ item'[d].cli_fd = item[d].cli_fd
<1>1. CASE DoServerTimeout
  <2>1. Coherent
    BY <1>1 DEF DoServerTimeout, LoopOk, IndexCoherence
  <2>2. QED
    BY <1>1, <2>1, TimeoutDestroysHead
<1>2. CASE LinkDownCliEntry
  <2>1. Coherent
    BY <1>2 DEF LinkDownCliEntry, LoopOk, IndexCoherence
  <2>2. QED
    BY <1>2, <2>1, LinkDownDestroysHead
<1>3. CASE Uninit
  <2>1. Live' = Live /\ Live \subseteq Items
    BY <1>3 DEF Uninit, Live, TypeOK
  <2>2. item' = [c \in Items |-> IF c \in Range(timer)
                                 THEN [item[c] EXCEPT !.expire_time = 0]
                                 ELSE item[c]]
    BY <1>3 DEF Uninit, timer_uninit
  <2>3. \A c \in Items : item[c] \in ClientInfo
    BY DEF TypeOK
  <2>4. \A c \in Items : /\ item'[c].pkg = item[c].pkg
                         /\ item'[c].cli_seq = item[c].cli_seq
                         /\ item'[c].cli_fd = item[c].cli_fd
    BY <2>2, <2>3 DEF ClientInfo
  <2>5. QED
    BY <2>1, <2>4
<1>4. CASE ~DoServerTimeout /\ ~LinkDownCliEntry /\ ~Uninit
  <2>1. item' = item /\ Live' = Live
    BY <1>4, QuietStep DEF Live
  <2>2. QED
    BY <2>1
<1>5. QED
  BY <1>1, <1>2, <1>3, <1>4

(***************************************************************************)
(* A package that is not in flight is never again.                         *)
(***************************************************************************)
LEMMA NeverAgain ==
  ASSUME TypeOK, IndexCoherence, LoopOk, [Next]_vars, NEW n \in 1..Len(req), Pending(n)'
  PROVE  Pending(n)
<1>1. ASSUME NEW fd \in Fds, NEW cmd \in Cmds, ProcPkgCli(fd, cmd)
      PROVE  Pending(n)
  <2>1. Coherent
    BY <1>1 DEF ProcPkgCli, LoopOk, IndexCoherence
  <2>2. PICK d \in Live' : item'[d].pkg = n
    BY DEF Pending
  <2>3. Len(req) + 1 # n
    BY DEF TypeOK
  <2>4. d \in Live /\ item[d].pkg = n
    BY <1>1, <2>1, <2>2, <2>3, ArrivalAddsOne
  <2>5. QED
    BY <2>4 DEF Pending
<1>2. CASE \A fd \in Fds, cmd \in Cmds : ~ProcPkgCli(fd, cmd)
  BY <1>2, RequestsStay DEF Pending
<1>3. QED
  BY <1>1, <1>2

(***************************************************************************)
(* Each request in flight keeps to its own package's data.                 *)
(***************************************************************************)
LEMMA OwnDataNext ==
  ASSUME TypeOK, IndexCoherence, LoopOk, OwnData, [Next]_vars
  PROVE  OwnData'
<1>1. /\ Len(req) \in Nat /\ Len(req') \in Nat /\ Len(req) <= Len(req')
      /\ \A n \in 1..Len(req) : req'[n] = req[n]
  BY HistoryGrows
<1>2. ASSUME NEW fd \in Fds, NEW cmd \in Cmds, ProcPkgCli(fd, cmd)
      PROVE  OwnData'
  <2> DEFINE c == mempool_next
             n == Len(req) + 1
  <2>1. Coherent
    BY <1>2 DEF ProcPkgCli, LoopOk, IndexCoherence
  <2>2. /\ Live' = Live \cup {c}
        /\ item'[c].cli_fd = fd /\ item'[c].pkg = n /\ item'[c].cli_seq = n
        /\ \A d \in Live : item'[d] = item[d]
    BY <1>2, <2>1, ArrivalAddsOne
  <2>3. n \in 1..Len(req') /\ req'[n] = fd
    BY <1>1, <1>2 DEF ProcPkgCli, TypeOK
  <2>4. \A d \in Live : item[d].pkg \in 1..Len(req) /\ item[d].pkg # n
    BY <1>1 DEF OwnData
  <2> HIDE DEF c, n
  <2>5. ASSUME NEW d \in Live'
        PROVE  /\ item'[d].pkg \in 1..Len(req')
               /\ item'[d].cli_seq = item'[d].pkg
               /\ item'[d].cli_fd = req'[item'[d].pkg]
    <3>1. CASE d = c
      BY <2>2, <2>3, <3>1
    <3>2. CASE d \in Live
      BY <1>1, <2>2, <3>2 DEF OwnData
    <3>3. QED
      BY <2>2, <3>1, <3>2
  <2>6. ASSUME NEW d \in Live', NEW e \in Live', item'[d].pkg = item'[e].pkg
        PROVE  d = e
    BY <2>2, <2>4, <2>6 DEF OwnData
  <2>7. QED
    BY <2>5, <2>6 DEF OwnData
<1>3. CASE \A fd \in Fds, cmd \in Cmds : ~ProcPkgCli(fd, cmd)
  <2>1. \A d \in Live' : /\ d \in Live
                         /\ item'[d].pkg = item[d].pkg
                         /\ item'[d].cli_seq = item[d].cli_seq
                         /\ item'[d].cli_fd = item[d].cli_fd
    BY <1>3, RequestsStay
  <2>2. QED
    BY <1>1, <2>1 DEF OwnData
<1>4. QED
  BY <1>2, <1>3

(***************************************************************************)
(* Taking the first entry of a queue moves the others up.                  *)
(***************************************************************************)
LEMMA TakeFirst ==
  ASSUME NEW S, NEW s \in Seq(S), s # <<>>
  PROVE  /\ 1 \in 1..Len(s) /\ Head(s) = s[1] /\ Head(s) \in S
         /\ \A i \in 1..Len(Tail(s)) : i + 1 \in 1..Len(s) /\ i + 1 # 1
                                       /\ Tail(s)[i] = s[i + 1]
<1>1. Len(s) \in Nat \ {0} /\ Len(Tail(s)) = Len(s) - 1 /\ Head(s) = s[1] /\ Head(s) \in S
  OBVIOUS
<1>2. 1 \in 1..Len(s) /\ \A i \in 1..Len(Tail(s)) : i + 1 \in 1..Len(s) /\ i + 1 # 1
  BY <1>1
<1>3. \A i \in 1..Len(Tail(s)) : Tail(s)[i] = s[i + 1]
  BY <1>1
<1>4. QED
  BY <1>1, <1>2, <1>3

(***************************************************************************)
(* An item is held for a package because it was before, or because the     *)
(* package has just arrived.                                               *)
(***************************************************************************)
LEMMA HeldBefore ==
  ASSUME TypeOK, [Next]_vars, NEW c \in Items, NEW n \in Pkgs, Held(c, n)',
         ~Held(c, n)
  PROVE  \E fd \in Fds, cmd \in Cmds :
           ProcPkgCli(fd, cmd) /\ c = mempool_next /\ n = Len(req) + 1
<1>0. queue_ \in Seq([ci : Items, job : Pkgs]) /\ Len(queue_) \in Nat
  BY DEF TypeOK
<1>1. ASSUME NEW fd \in Fds, NEW cmd \in Cmds, ProcPkgCli(fd, cmd)
      PROVE  c = mempool_next /\ n = Len(req) + 1
  <2>1. /\ main' = "put" /\ main_ci' = mempool_next /\ req' = Append(req, fd)
        /\ UNCHANGED <<queue_, pc, ci, job>>
    BY <1>1 DEF ProcPkgCli, threadVars
  <2>2. Len(req') = Len(req) + 1
    BY <2>1 DEF TypeOK
  <2>3. QED
    BY <2>1, <2>2 DEF Held, Busy
<1>2. CASE put
  <2> DEFINE e == [ci |-> main_ci, job |-> Len(req)]
  <2>1. /\ main = "put" /\ main' # "put" /\ queue_' = Append(queue_, e)
        /\ UNCHANGED <<pc, ci, job>>
    BY <1>2 DEF put, threadVars
  <2>2. PICK i \in 1..Len(queue_') : queue_'[i] = [ci |-> c, job |-> n]
    BY <2>1 DEF Held, Busy
  <2>3. i \in 1..Len(queue_) => queue_[i] = [ci |-> c, job |-> n]
    BY <1>0, <2>1, <2>2
  <2>4. queue_'[i] = e
    BY <1>0, <2>1, <2>2, <2>3 DEF Held
  <2>5. c = e.ci /\ n = e.job
    BY <2>2, <2>4
  <2>6. QED
    BY <2>1, <2>5 DEF Held
<1>3. ASSUME NEW t \in Threads, take(t)
      PROVE  FALSE
  <2>1. /\ queue_ # <<>> /\ queue_' = Tail(queue_)
        /\ ci' = [ci EXCEPT ![t] = Head(queue_).ci]
        /\ job' = [job EXCEPT ![t] = Head(queue_).job]
        /\ pc' = [pc EXCEPT ![t] = "run"]
        /\ UNCHANGED <<main, main_ci, req>>
    BY <1>3 DEF take, mainVars, outVars
  <2>2. /\ 1 \in 1..Len(queue_) /\ Head(queue_) = queue_[1]
        /\ Head(queue_) \in [ci : Items, job : Pkgs]
    BY <1>0, <2>1, TakeFirst
  <2>3. \A i \in 1..Len(queue_') : i + 1 \in 1..Len(queue_) /\ queue_'[i] = queue_[i + 1]
    BY <1>0, <2>1, TakeFirst
  <2>4. PICK u \in Threads : Busy(u)' /\ ci'[u] = c /\ job'[u] = n
    BY <2>1, <2>3 DEF Held
  <2>5. CASE u = t
    <3>1. queue_[1].ci = c /\ queue_[1].job = n
      BY <2>1, <2>2, <2>4, <2>5 DEF TypeOK
    <3>2. queue_[1] = [ci |-> c, job |-> n]
      BY <2>2, <3>1
    <3>3. QED
      BY <2>2, <3>2 DEF Held
  <2>6. CASE u # t
    BY <2>1, <2>4, <2>6 DEF Held, Busy, TypeOK
  <2>7. QED
    BY <2>5, <2>6
<1>4. ASSUME NEW t \in Threads,
             exit(t) \/ runTis(t) \/ runDefault(t) \/ check(t) \/ StoreMessage(t) \/ fault(t)
      PROVE  FALSE
  <2>1. UNCHANGED <<main, main_ci, req, queue_>>
    BY <1>4 DEF exit, runTis, runDefault, check, StoreMessage, fault, mainVars, outVars
  <2>2. \A u \in Threads : Busy(u)' => Busy(u) /\ ci'[u] = ci[u] /\ job'[u] = job[u]
    BY <1>4 DEF exit, runTis, runDefault, check, StoreMessage, fault, LoopTest,
      Busy, TypeOK
  <2>3. QED
    BY <2>1, <2>2 DEF Held
<1>5. CASE Tick \/ TimeEvent \/ TimeEventEnd \/ LinkDownCliEnd \/ join_all \/ Uninit
  BY <1>5 DEF Tick, TimeEvent, TimeEventEnd, LinkDownCliEnd, join_all, Uninit,
    mainVars, threadVars, outVars, Held, Busy
<1>6. CASE DoServerTimeout \/ LinkDownCliEntry
  BY <1>6 DEF DoServerTimeout, LinkDownCliEntry, mainVars, threadVars, outVars, Held, Busy
<1>7. CASE \E fd \in Fds : LinkUpCli(fd) \/ LinkDownCli(fd) \/ ProcPkgCliNoMem(fd)
  BY <1>7 DEF LinkUpCli, LinkDownCli, ProcPkgCliNoMem, mainVars, threadVars, outVars,
    Held, Busy
<1>8. CASE UNCHANGED vars
  BY <1>8 DEF vars, mainVars, threadVars, outVars, Held, Busy
<1>9. QED
  BY <1>1, <1>2, <1>3, <1>4, <1>5, <1>6, <1>7, <1>8
  DEF Next, Callback, CallbackStep, ThreadStep

(***************************************************************************)
(* The item held for a package in flight stays that package's.             *)
(***************************************************************************)
LEMMA HeldIsOwnNext ==
  ASSUME TypeOK, IndexCoherence, LoopOk, OwnData, HeldIsOwn, [Next]_vars
  PROVE  HeldIsOwn'
<1> SUFFICES ASSUME NEW c \in Items, NEW n \in Pkgs, Held(c, n)'
             PROVE  /\ n \in 1..Len(req')
                    /\ Pending(n)' => c \in Live' /\ item'[c].pkg = n
  BY DEF HeldIsOwn
<1>1. ASSUME NEW fd \in Fds, NEW cmd \in Cmds, ProcPkgCli(fd, cmd),
             c = mempool_next, n = Len(req) + 1
      PROVE  n \in 1..Len(req') /\ c \in Live' /\ item'[c].pkg = n
  <2>1. Coherent
    BY <1>1 DEF ProcPkgCli, LoopOk, IndexCoherence
  <2>2. c \in Live' /\ item'[c].pkg = n
    BY <1>1, <2>1, ArrivalAddsOne
  <2>3. n \in 1..Len(req')
    BY <1>1 DEF ProcPkgCli, TypeOK
  <2>4. QED
    BY <2>2, <2>3
<1>2. CASE Held(c, n)
  <2>1. n \in 1..Len(req) /\ (Pending(n) => c \in Live /\ item[c].pkg = n)
    BY <1>2 DEF HeldIsOwn
  <2>2. n \in 1..Len(req')
    BY <2>1, HistoryGrows
  <2>3. ASSUME Pending(n)'
        PROVE  c \in Live' /\ item'[c].pkg = n
    <3>1. c \in Live /\ item[c].pkg = n
      BY <2>1, <2>3, NeverAgain
    <3>2. PICK d \in Live' : item'[d].pkg = n
      BY <2>3 DEF Pending
    <3>3. d \in Live /\ item[d].pkg = n
      <4>1. ASSUME NEW fd \in Fds, NEW cmd \in Cmds, ProcPkgCli(fd, cmd)
            PROVE  d \in Live /\ item[d].pkg = n
        <5>1. Coherent
          BY <4>1 DEF ProcPkgCli, LoopOk, IndexCoherence
        <5>2. Len(req) + 1 # n
          BY <2>1 DEF TypeOK
        <5>3. QED
          BY <3>2, <4>1, <5>1, <5>2, ArrivalAddsOne
      <4>2. CASE \A fd \in Fds, cmd \in Cmds : ~ProcPkgCli(fd, cmd)
        BY <3>2, <4>2, RequestsStay
      <4>3. QED
        BY <4>1, <4>2
    <3>4. c = d
      BY <3>1, <3>3 DEF OwnData
    <3>5. QED
      BY <3>2, <3>4
  <2>4. QED
    BY <2>2, <2>3
<1>3. CASE ~Held(c, n)
  BY <1>1, <1>3, HeldBefore
<1>4. QED
  BY <1>2, <1>3

(***************************************************************************)
(* A thread has a text because it had it before or copies it now.          *)
(***************************************************************************)
LEMMA TextBefore ==
  ASSUME TypeOK, [Next]_vars, NEW t \in Threads, pc'[t] \in {"check", "store"}, ~runTis(t)
  PROVE  pc[t] \in {"check", "store"} /\ content'[t] = content[t] /\ job'[t] = job[t]
<1>1. ASSUME NEW u \in Threads,
             take(u) \/ exit(u) \/ runDefault(u) \/ StoreMessage(u) \/ fault(u)
      PROVE  u # t /\ pc'[t] = pc[t] /\ content'[t] = content[t] /\ job'[t] = job[t]
  BY <1>1 DEF take, exit, runDefault, StoreMessage, fault, LoopTest, TypeOK
<1>2. ASSUME NEW u \in Threads, check(u)
      PROVE  /\ pc[u] = "check" /\ pc' = [pc EXCEPT ![u] = "store"]
             /\ content' = content /\ job' = job
  BY <1>2 DEF check
<1>3. ASSUME NEW u \in Threads, runTis(u)
      PROVE  u # t /\ pc'[t] = pc[t] /\ content'[t] = content[t] /\ job'[t] = job[t]
  BY <1>3 DEF runTis, TypeOK
<1>4. CASE ~\E u \in Threads : ThreadStep(u)
  <2>1. UNCHANGED threadVars
    BY <1>4 DEF Next, Callback, CallbackStep, Tick, LinkUpCli, LinkDownCli,
      ProcPkgCliNoMem, ProcPkgCli, TimeEvent, Uninit, put, DoServerTimeout,
      TimeEventEnd, LinkDownCliEntry, LinkDownCliEnd, join_all, vars
  <2>2. QED
    BY <2>1 DEF threadVars
<1>5. QED
  BY <1>1, <1>2, <1>3, <1>4 DEF ThreadStep, TypeOK

(***************************************************************************)
(* The text stays the package's own while the package is in flight.        *)
(***************************************************************************)
LEMMA TextIsOwnNext ==
  ASSUME TypeOK, IndexCoherence, LoopOk, HeldIsOwn, TextIsOwn, [Next]_vars
  PROVE  TextIsOwn'
<1> SUFFICES ASSUME NEW t \in Threads, pc'[t] \in {"check", "store"}, Pending(job[t])'
             PROVE  content'[t] = job'[t]
  BY DEF TextIsOwn
<1>1. ASSUME Busy(t), job'[t] = job[t]
      PROVE  ci[t] \in Live /\ item[ci[t]].pkg = job[t] /\ Pending(job[t])
  <2>1. ci[t] \in Items /\ job[t] \in Pkgs
    BY <1>1 DEF TypeOK, Busy
  <2>2. Held(ci[t], job[t])
    BY <1>1 DEF Held
  <2>3. job[t] \in 1..Len(req)
    BY <2>1, <2>2 DEF HeldIsOwn
  <2>4. \A n \in 1..Len(req) : n = job'[t] => Pending(n)
    BY NeverAgain DEF Pending
  <2>5. Pending(job[t])
    BY <1>1, <2>3, <2>4
  <2>6. QED
    BY <2>1, <2>2, <2>5 DEF HeldIsOwn
<1>2. CASE runTis(t)
  <2>1. /\ Busy(t) /\ job'[t] = job[t] /\ content'[t] = item[ci[t]].pkg
    BY <1>2 DEF runTis, Busy, TypeOK
  <2>2. QED
    BY <1>1, <2>1
<1>3. CASE ~runTis(t)
  <2>1. pc[t] \in {"check", "store"} /\ content'[t] = content[t] /\ job'[t] = job[t]
    BY <1>3, TextBefore
  <2>2. Pending(job[t])
    BY <1>1, <2>1 DEF Busy
  <2>3. QED
    BY <2>1, <2>2 DEF TextIsOwn
<1>4. QED
  BY <1>2, <1>3

(***************************************************************************)
(* Once the pool's memory is gone, no request is in flight, and only then  *)
(* can a thread have found its item gone.                                  *)
(***************************************************************************)
GoneOk ==
  /\ destroyed => Live = {} /\ ~is_running_
  /\ \A t \in Threads : pc[t] = "fault" => destroyed

(***************************************************************************)
(* Uninit destroys the pool only when its count is zero, and the count is  *)
(* that of the requests in flight; no request arrives afterwards.          *)
(***************************************************************************)
LEMMA GoneOkNext ==
  ASSUME TypeOK, IndexCoherence, LoopOk, GoneOk, [Next]_vars
  PROVE  GoneOk'
<1>1. ASSUME NEW t \in Threads, pc'[t] = "fault", pc[t] # "fault"
      PROVE  destroyed
  <2>1. CASE \E u \in Threads : ThreadStep(u)
    BY <1>1, <2>1 DEF ThreadStep, take, exit, runTis, runDefault, check, StoreMessage,
      fault, LoopTest, TypeOK
  <2>2. CASE ~\E u \in Threads : ThreadStep(u)
    <3>1. pc' = pc
      BY <2>2 DEF Next, Callback, CallbackStep, Tick, LinkUpCli, LinkDownCli,
        ProcPkgCliNoMem, ProcPkgCli, TimeEvent, Uninit, put, DoServerTimeout,
        TimeEventEnd, LinkDownCliEntry, LinkDownCliEnd, join_all, vars, threadVars
    <3>2. QED
      BY <1>1, <3>1
  <2>3. QED
    BY <2>1, <2>2
<1>2. CASE Uninit
  <2>1. /\ Coherent /\ ~is_running_' /\ destroyed' = (ref_count <= 0)
        /\ client_info_map' = client_info_map /\ pc' = pc
    BY <1>2 DEF Uninit, LoopOk, IndexCoherence, mempool_destroy, threadVars
  <2>2. Live' = Live /\ ref_count = Len(timer) /\ Range(timer) = Live
    BY <2>1 DEF Live, Coherent, RefOk, TimerOk
  <2>3. destroyed' => Live' = {}
    <3>1. timer \in Seq(Items) /\ Len(timer) \in Nat /\ DOMAIN timer = 1..Len(timer)
      BY DEF TypeOK
    <3>2. ref_count <= 0 => DOMAIN timer = {}
      BY <2>2, <3>1
    <3>3. QED
      BY <2>1, <2>2, <3>2 DEF Range
  <2>4. ~destroyed
    BY <1>2 DEF Uninit, LoopOk, GoneOk
  <2>5. QED
    BY <2>1, <2>3, <2>4 DEF GoneOk
<1>3. CASE ~Uninit
  <2>1. destroyed' = destroyed
    BY <1>3 DEF Next, Callback, CallbackStep, Tick, LinkUpCli, LinkDownCli,
      ProcPkgCliNoMem, ProcPkgCli, TimeEvent, put, DoServerTimeout, TimeEventEnd,
      LinkDownCliEntry, LinkDownCliEnd, join_all, ThreadStep, take, exit, runTis,
      runDefault, check, StoreMessage, fault, vars, poolVars, DestroyClient
  <2>2. ASSUME destroyed
        PROVE  Live' = {} /\ ~is_running_'
    <3>1. ~is_running_ /\ Live = {}
      BY <2>2 DEF GoneOk
    <3>2. /\ ~DoServerTimeout /\ ~LinkDownCliEntry
          /\ \A fd \in Fds, cmd \in Cmds : ~ProcPkgCli(fd, cmd)
      BY <3>1 DEF LoopOk, DoServerTimeout, LinkDownCliEntry, ProcPkgCli
    <3>3. client_info_map' = client_info_map /\ is_running_' = is_running_
      BY <1>3, <3>2, QuietStep
    <3>4. QED
      BY <3>1, <3>3 DEF Live
  <2>3. QED
    BY <1>1, <2>1, <2>2 DEF GoneOk
<1>4. QED
  BY <1>2, <1>3

(***************************************************************************)
(* What a thread does for a request in flight is right if the item is the  *)
(* request's own, so is the text, and the memory is still there.           *)
(***************************************************************************)
LEMMA OwnServesFaithfully ==
  TypeOK /\ OwnData /\ HeldIsOwn /\ TextIsOwn /\ GoneOk => PendingServedFaithfully
<1> SUFFICES ASSUME TypeOK, OwnData, HeldIsOwn, TextIsOwn, GoneOk, NEW t \in Threads,
                    Pending(job[t])
             PROVE  LET own == [fd |-> req[job[t]], seq |-> job[t], verdict |-> job[t]]
                    IN  /\ pc[t] = "run"   => Reply(t, item[ci[t]].pkg) = own
                        /\ pc[t] = "check" => Reply(t, content[t]) = own
                        /\ pc[t] = "store" => Record(t) = [message |-> job[t], nick |-> job[t]]
                        /\ pc[t] # "fault"
  BY DEF PendingServedFaithfully
<1>1. CASE Busy(t)
  <2>1. ci[t] \in Items /\ job[t] \in Pkgs
    BY <1>1 DEF TypeOK, Busy
  <2>2. Held(ci[t], job[t])
    BY <1>1 DEF Held
  <2>3. ci[t] \in Live /\ item[ci[t]].pkg = job[t]
    BY <2>1, <2>2 DEF HeldIsOwn
  <2>4. item[ci[t]].cli_seq = job[t] /\ item[ci[t]].cli_fd = req[job[t]]
    BY <2>3 DEF OwnData
  <2>5. pc[t] \in {"check", "store"} => content[t] = job[t]
    BY DEF TextIsOwn
  <2>6. pc[t] # "fault"
    BY <1>1 DEF Busy
  <2>7. QED
    BY <2>3, <2>4, <2>5, <2>6 DEF Reply, Record
<1>2. CASE ~Busy(t)
  <2>1. pc[t] # "fault"
    BY DEF GoneOk, Pending
  <2>2. QED
    BY <1>2, <2>1 DEF Busy
<1>3. QED
  BY <1>1, <1>2

(***************************************************************************)
(* A request still in flight is served with its own data, in every         *)
(* reachable state: the reply goes to its client, under its number and     *)
(* with the verdict on its text, although the items are shared without a   *)
(* lock and reused as soon as they are freed, and its memory is there      *)
(* until it has been served, also at shutdown.                             *)
(***************************************************************************)
THEOREM ServedFaithfully == Spec => []PendingServedFaithfully
<1> DEFINE Own == OwnData /\ HeldIsOwn /\ TextIsOwn /\ GoneOk
<1>1. Init => Own
  <2> SUFFICES ASSUME Init PROVE Own
    OBVIOUS
  <2>1. /\ Live = {} /\ Len(queue_) = 0 /\ main = "idle" /\ ~destroyed
        /\ \A t \in Threads : pc[t] = "take"
    BY DEF Init, Live
  <2>2. \A c, n : ~Held(c, n)
    BY <2>1 DEF Held, Busy
  <2>3. QED
    BY <2>1, <2>2 DEF OwnData, HeldIsOwn, TextIsOwn, GoneOk
<1>2. TypeOK /\ IndexCoherence /\ LoopOk /\ Own /\ [Next]_vars => Own'
  BY OwnDataNext, HeldIsOwnNext, TextIsOwnNext, GoneOkNext
<1>3. Spec => []Own
  <2> HIDE DEF Own
  <2>1. QED
    BY <1>1, <1>2, TypeCorrect, IndicesCoherent, LoopInv, PTL DEF Spec
<1>4. TypeOK /\ Own => PendingServedFaithfully
  BY OwnServesFaithfully
<1>5. QED
  <2> HIDE DEF Own
  <2>1. QED
    BY <1>3, <1>4, TypeCorrect, PTL

-----------------------------------------------------------------------------
(* A package is replied to once, and to its own client while in flight *)

\* The reply to the package of thread t is still to be sent.
Owes(t) == pc[t] \in {"run", "check"}

\* The packages that were served to a reply.
Answered == {r.by : r \in replies}

(***************************************************************************)
(* One more reply answers one more package.                                *)
(***************************************************************************)
LEMMA OneMoreAnswered ==
  ASSUME NEW r, replies' = replies \cup {r}
  PROVE  Answered' = Answered \cup {r.by}
BY DEF Answered

(***************************************************************************)
(* Only packages that arrived are answered, and none that somebody is      *)
(* about to queue, that is queued or that a thread owes the reply to.      *)
(***************************************************************************)
NotYetAnswered ==
  /\ Answered \subseteq 1..Len(req)
  /\ main = "put" => Len(req) \notin Answered
  /\ \A i \in 1..Len(queue_) : queue_[i].job \in (1..Len(req)) \ Answered
  /\ \A t \in Threads : Owes(t) => job[t] \in (1..Len(req)) \ Answered

(***************************************************************************)
(* A package is in one of those places, and only once.                     *)
(***************************************************************************)
InOnePlace ==
  /\ main = "put" => /\ \A i \in 1..Len(queue_) : queue_[i].job # Len(req)
                     /\ \A t \in Threads : Owes(t) => job[t] # Len(req)
  /\ \A i, j \in 1..Len(queue_) : queue_[i].job = queue_[j].job => i = j
  /\ \A i \in 1..Len(queue_), t \in Threads : Owes(t) => queue_[i].job # job[t]
  /\ \A t, u \in Threads : Owes(t) /\ Owes(u) /\ job[t] = job[u] => t = u

(***************************************************************************)
(* Every step keeps a package in one place until it is answered.           *)
(***************************************************************************)
LEMMA OncePlaceNext ==
  ASSUME TypeOK, NotYetAnswered, InOnePlace, [Next]_vars
  PROVE  NotYetAnswered' /\ InOnePlace'
<1>0. /\ queue_ \in Seq([ci : Items, job : Pkgs]) /\ Len(queue_) \in Nat
      /\ req \in Seq(Fds) /\ Len(req) \in Nat
      /\ main = "put" => Len(req) \in 1..Len(req)
  <2>1. /\ queue_ \in Seq([ci : Items, job : Pkgs]) /\ req \in Seq(Fds)
        /\ main = "put" => req # <<>>
    BY DEF TypeOK
  <2>2. Len(queue_) \in Nat /\ Len(req) \in Nat /\ (req # <<>> => Len(req) \in 1..Len(req))
    BY <2>1
  <2>3. QED
    BY <2>1, <2>2
<1>1. ASSUME NEW fd \in Fds, req' = Append(req, fd), UNCHANGED <<queue_, pc, job>>,
             Answered' \subseteq Answered \cup {Len(req) + 1},
             main' = "put" => Answered' = Answered
      PROVE  NotYetAnswered' /\ InOnePlace'
  <2> DEFINE n == Len(req) + 1
  <2>1. /\ Len(req') = n /\ n \in 1..Len(req') /\ n \notin 1..Len(req)
        /\ 1..Len(req) \subseteq 1..Len(req')
    BY <1>0, <1>1
  <2> HIDE DEF n
  <2>2. NotYetAnswered'
    BY <1>1, <2>1 DEF NotYetAnswered, Owes, n
  <2>3. InOnePlace'
    BY <1>1, <2>1 DEF NotYetAnswered, InOnePlace, Owes
  <2>4. QED
    BY <2>2, <2>3
<1>2. CASE put
  <2> DEFINE e == [ci |-> main_ci, job |-> Len(req)]
  <2>1. /\ main = "put" /\ main' # "put" /\ queue_' = Append(queue_, e)
        /\ UNCHANGED <<pc, job, req, Answered>>
    BY <1>2 DEF put, threadVars, outVars, Answered
  <2>2. /\ Len(queue_') = Len(queue_) + 1 /\ queue_'[Len(queue_) + 1] = e
        /\ \A i \in 1..Len(queue_) : queue_'[i] = queue_[i]
    BY <1>0, <2>1
  <2>3. \A i \in 1..Len(queue_') : \/ i \in 1..Len(queue_) /\ queue_'[i].job = queue_[i].job
                                   \/ i = Len(queue_) + 1 /\ queue_'[i].job = Len(req)
    BY <1>0, <2>2
  <2> HIDE DEF e
  <2>4. NotYetAnswered'
    BY <1>0, <2>1, <2>3 DEF NotYetAnswered, Owes
  <2>5. \A t \in Threads : Owes(t)' => Owes(t) /\ job'[t] = job[t]
    BY <2>1 DEF Owes
  <2>6. /\ \A i \in 1..Len(queue_) : queue_[i].job # Len(req)
        /\ \A t \in Threads : Owes(t) => job[t] # Len(req)
    BY <2>1 DEF InOnePlace
  <2>7. \A i, j \in 1..Len(queue_') : queue_'[i].job = queue_'[j].job => i = j
    <3> SUFFICES ASSUME NEW i \in 1..Len(queue_'), NEW j \in 1..Len(queue_'),
                        queue_'[i].job = queue_'[j].job
                 PROVE  i = j
      OBVIOUS
    <3>1. CASE i \in 1..Len(queue_) /\ j \in 1..Len(queue_)
      <4>1. queue_[i].job = queue_[j].job
        BY <2>2, <3>1
      <4>2. QED
        BY <3>1, <4>1 DEF InOnePlace
    <3>2. CASE i \notin 1..Len(queue_) \/ j \notin 1..Len(queue_)
      BY <2>3, <2>6, <3>2
    <3>3. QED
      BY <3>1, <3>2
  <2>8. \A i \in 1..Len(queue_'), t \in Threads : Owes(t)' => queue_'[i].job # job'[t]
    BY <2>3, <2>5, <2>6 DEF InOnePlace
  <2>9. \A t, u \in Threads : Owes(t)' /\ Owes(u)' /\ job'[t] = job'[u] => t = u
    BY <2>5 DEF InOnePlace
  <2>10. InOnePlace'
    BY <2>1, <2>7, <2>8, <2>9 DEF InOnePlace
  <2>11. QED
    BY <2>4, <2>10
<1>3. ASSUME NEW t \in Threads, take(t)
      PROVE  NotYetAnswered' /\ InOnePlace'
  <2>1. /\ queue_ # <<>> /\ queue_' = Tail(queue_)
        /\ job' = [job EXCEPT ![t] = Head(queue_).job]
        /\ pc' = [pc EXCEPT ![t] = "run"] /\ pc[t] = "take"
        /\ UNCHANGED <<main, req, Answered>>
    BY <1>3 DEF take, mainVars, outVars, Answered
  <2>2. /\ 1 \in 1..Len(queue_) /\ Head(queue_) = queue_[1]
        /\ \A i \in 1..Len(queue_') : /\ i + 1 \in 1..Len(queue_) /\ i + 1 # 1
                                     /\ queue_'[i] = queue_[i + 1]
    BY <1>0, <2>1, TakeFirst
  <2>3. job'[t] = queue_[1].job
    BY <2>1, <2>2 DEF TypeOK
  <2>4. \A u \in Threads : Owes(u)' => u = t \/ (Owes(u) /\ job'[u] = job[u])
    BY <2>1 DEF Owes, TypeOK
  <2>5. NotYetAnswered'
    BY <2>1, <2>2, <2>3, <2>4 DEF NotYetAnswered
  <2>6. \A i, j \in 1..Len(queue_') : queue_'[i].job = queue_'[j].job => i = j
    <3> SUFFICES ASSUME NEW i \in 1..Len(queue_'), NEW j \in 1..Len(queue_'),
                        queue_'[i].job = queue_'[j].job
                 PROVE  i = j
      OBVIOUS
    <3>1. i + 1 = j + 1
      BY <2>2 DEF InOnePlace
    <3>2. QED
      BY <3>1
  <2>7. /\ main' = "put" => /\ \A i \in 1..Len(queue_') : queue_'[i].job # Len(req')
                            /\ \A u \in Threads : Owes(u)' => job'[u] # Len(req')
        /\ \A i \in 1..Len(queue_'), u \in Threads : Owes(u)' => queue_'[i].job # job'[u]
        /\ \A u, v \in Threads : Owes(u)' /\ Owes(v)' /\ job'[u] = job'[v] => u = v
    BY <2>1, <2>2, <2>3, <2>4 DEF InOnePlace
  <2>8. InOnePlace'
    BY <2>6, <2>7 DEF InOnePlace
  <2>9. QED
    BY <2>5, <2>8
<1>4. ASSUME NEW t \in Threads, runDefault(t) \/ check(t)
      PROVE  NotYetAnswered' /\ InOnePlace'
  <2>0. Owes(t) /\ SendToClient(t) /\ UNCHANGED <<main, req, queue_>>
    BY <1>4 DEF runDefault, check, Owes, mainVars
  <2>1. Owes(t) /\ Answered' = Answered \cup {job[t]} /\ UNCHANGED <<main, req, queue_>>
    <3> DEFINE r == [fd |-> item[ci[t]].cli_fd, seq |-> item[ci[t]].cli_seq, by |-> job[t]]
    <3>1. replies' = replies \cup {r} /\ r.by = job[t]
      BY <2>0 DEF SendToClient
    <3> HIDE DEF r
    <3>2. Answered' = Answered \cup {r.by}
      BY <3>1, OneMoreAnswered, Zenon
    <3>3. QED
      BY <2>0, <3>1, <3>2
  <2>2. \A u \in Threads : Owes(u)' => u # t /\ Owes(u) /\ job'[u] = job[u]
    BY <1>4 DEF runDefault, check, LoopTest, Owes, TypeOK
  <2>3. NotYetAnswered'
    BY <2>1, <2>2 DEF NotYetAnswered, InOnePlace
  <2>4. InOnePlace'
    BY <2>1, <2>2 DEF InOnePlace
  <2>5. QED
    BY <2>3, <2>4
<1>5. ASSUME NEW t \in Threads, exit(t) \/ runTis(t) \/ StoreMessage(t) \/ fault(t)
      PROVE  NotYetAnswered' /\ InOnePlace'
  <2>1. UNCHANGED <<main, req, queue_, Answered>>
    BY <1>5 DEF exit, runTis, StoreMessage, fault, mainVars, outVars, Answered
  <2>2. \A u \in Threads : Owes(u)' => Owes(u) /\ job'[u] = job[u]
    BY <1>5 DEF exit, runTis, StoreMessage, fault, LoopTest, Owes, TypeOK
  <2>3. QED
    BY <2>1, <2>2 DEF NotYetAnswered, InOnePlace
<1>6. ASSUME UNCHANGED <<queue_, pc, job, req, replies>>, main' = "put" => main = "put"
      PROVE  NotYetAnswered' /\ InOnePlace'
  <2>1. Answered' = Answered
    BY <1>6 DEF Answered
  <2>2. QED
    BY <1>6, <2>1 DEF NotYetAnswered, InOnePlace, Owes
<1>7. CASE Tick \/ TimeEvent \/ TimeEventEnd \/ LinkDownCliEnd \/ join_all \/ Uninit
  BY <1>6, <1>7 DEF Tick, TimeEvent, TimeEventEnd, LinkDownCliEnd, join_all, Uninit,
    mainVars, threadVars, outVars
<1>8. CASE DoServerTimeout \/ LinkDownCliEntry
  BY <1>6, <1>8 DEF DoServerTimeout, LinkDownCliEntry, mainVars, threadVars, outVars
<1>9. ASSUME NEW fd \in Fds, LinkUpCli(fd) \/ LinkDownCli(fd)
      PROVE  NotYetAnswered' /\ InOnePlace'
  BY <1>6, <1>9 DEF LinkUpCli, LinkDownCli, mainVars, threadVars, outVars
<1>10. ASSUME NEW fd \in Fds, NEW cmd \in Cmds,
              ProcPkgCliNoMem(fd) \/ ProcPkgCli(fd, cmd)
       PROVE  NotYetAnswered' /\ InOnePlace'
  <2>1. /\ req' = Append(req, fd) /\ UNCHANGED <<queue_, pc, job>>
        /\ Answered' \subseteq Answered \cup {Len(req) + 1}
        /\ main' = "put" => Answered' = Answered
    <3>1. CASE ProcPkgCliNoMem(fd)
      <4> DEFINE r == [fd |-> fd, seq |-> Len(req) + 1, by |-> Len(req) + 1]
      <4>1. replies' = replies \cup {r} /\ r.by = Len(req) + 1
        BY <3>1 DEF ProcPkgCliNoMem
      <4> HIDE DEF r
      <4>2. Answered' = Answered \cup {r.by}
        BY <4>1, OneMoreAnswered, Zenon
      <4>3. QED
        BY <3>1, <4>1, <4>2 DEF ProcPkgCliNoMem, mainVars, threadVars
    <3>2. CASE ProcPkgCli(fd, cmd)
      BY <3>2 DEF ProcPkgCli, mainVars, threadVars, Answered
    <3>3. QED
      BY <1>10, <3>1, <3>2
  <2>2. QED
    BY <1>1, <2>1
<1>11. CASE UNCHANGED vars
  BY <1>6, <1>11 DEF vars, mainVars, threadVars, outVars
<1>12. Cmds # {}
  BY DEF Cmds
<1>13. QED
  BY <1>2, <1>3, <1>4, <1>5, <1>7, <1>8, <1>9, <1>10, <1>11, <1>12
  DEF Next, Callback, CallbackStep, ThreadStep

(***************************************************************************)
(* The replies to requests in flight are the ones their clients expect.    *)
(***************************************************************************)
RepliesOwn == \A r \in replies : Pending(r.by) => r = OwnReply(r.by)

(***************************************************************************)
(* A thread that sends a reply sends the one its package's client expects, *)
(* if the package is still in flight.                                      *)
(***************************************************************************)
LEMMA SendsOwn ==
  ASSUME PendingServedFaithfully, NEW t \in Threads, pc[t] \in {"run", "check"},
         Pending(job[t])
  PROVE  [fd |-> item[ci[t]].cli_fd, seq |-> item[ci[t]].cli_seq, by |-> job[t]]
           = OwnReply(job[t])
<1> DEFINE own == [fd |-> req[job[t]], seq |-> job[t], verdict |-> job[t]]
<1>1. \/ Reply(t, item[ci[t]].pkg) = own
      \/ Reply(t, content[t]) = own
  BY DEF PendingServedFaithfully
<1>2. \A v : Reply(t, v) = own => item[ci[t]].cli_fd = req[job[t]] /\ item[ci[t]].cli_seq = job[t]
  BY DEF Reply
<1>3. item[ci[t]].cli_fd = req[job[t]] /\ item[ci[t]].cli_seq = job[t]
  BY <1>1, <1>2
<1>4. QED
  BY <1>3 DEF OwnReply

(***************************************************************************)
(* Every step keeps them so: a request in flight was in flight before.     *)
(***************************************************************************)
LEMMA RepliesOwnNext ==
  ASSUME TypeOK, IndexCoherence, LoopOk, PendingServedFaithfully, NotYetAnswered,
         RepliesOwn, [Next]_vars
  PROVE  RepliesOwn'
<1>1. ASSUME NEW r \in replies PROVE Pending(r.by)' => r = OwnReply(r.by)'
  <2>1. r.by \in 1..Len(req)
    BY DEF NotYetAnswered, Answered
  <2>2. Pending(r.by)' => Pending(r.by)
    BY <2>1, NeverAgain
  <2>3. OwnReply(r.by)' = OwnReply(r.by)
    BY <2>1, HistoryGrows DEF OwnReply
  <2>4. QED
    BY <2>2, <2>3 DEF RepliesOwn
<1>2. ASSUME NEW t \in Threads, runDefault(t) \/ check(t)
      PROVE  RepliesOwn'
  <2> DEFINE r == [fd |-> item[ci[t]].cli_fd, seq |-> item[ci[t]].cli_seq, by |-> job[t]]
  <2>1. /\ pc[t] \in {"run", "check"} /\ SendToClient(t)
        /\ UNCHANGED <<item, client_info_map, req>>
    BY <1>2 DEF runDefault, check, poolVars, indexVars
  <2>2. replies' = replies \cup {r}
    BY <2>1 DEF SendToClient
  <2>3. ASSUME NEW x, x = r, Pending(x.by)' PROVE x = OwnReply(x.by)'
    <3>1. x.by = job[t]
      BY <2>3
    <3>2. Pending(x.by)
      BY <2>1, <2>3 DEF Pending, Live
    <3>3. r = OwnReply(job[t])
      BY <2>1, <3>1, <3>2, SendsOwn
    <3>4. OwnReply(x.by)' = OwnReply(x.by)
      BY <2>1 DEF OwnReply
    <3>5. QED
      BY <2>3, <3>1, <3>3, <3>4
  <2> HIDE DEF r
  <2>4. QED
    BY <1>1, <2>2, <2>3 DEF RepliesOwn
<1>3. ASSUME NEW fd \in Fds, ProcPkgCliNoMem(fd)
      PROVE  RepliesOwn'
  <2> DEFINE n == Len(req) + 1
             r == [fd |-> fd, seq |-> n, by |-> n]
  <2>1. replies' = replies \cup {r} /\ req' = Append(req, fd)
    BY <1>3 DEF ProcPkgCliNoMem
  <2>2. req'[n] = fd
    BY <2>1 DEF TypeOK
  <2> HIDE DEF n
  <2>3. ASSUME NEW x, x = r PROVE x = OwnReply(x.by)'
    BY <2>2, <2>3 DEF OwnReply
  <2> HIDE DEF r
  <2>4. QED
    BY <1>1, <2>1, <2>3 DEF RepliesOwn
<1>4. ASSUME replies' = replies
      PROVE  RepliesOwn'
  BY <1>1, <1>4 DEF RepliesOwn
<1>5. CASE Tick \/ TimeEvent \/ TimeEventEnd \/ LinkDownCliEnd \/ join_all \/ Uninit \/ put
  BY <1>4, <1>5 DEF Tick, TimeEvent, TimeEventEnd, LinkDownCliEnd, join_all, Uninit, put,
    outVars
<1>6. CASE DoServerTimeout \/ LinkDownCliEntry
  BY <1>4, <1>6 DEF DoServerTimeout, LinkDownCliEntry, outVars
<1>7. ASSUME NEW fd \in Fds, NEW cmd \in Cmds,
             LinkUpCli(fd) \/ LinkDownCli(fd) \/ ProcPkgCli(fd, cmd)
      PROVE  RepliesOwn'
  BY <1>4, <1>7 DEF LinkUpCli, LinkDownCli, ProcPkgCli, outVars
<1>8. ASSUME NEW t \in Threads, take(t) \/ exit(t) \/ runTis(t) \/ StoreMessage(t) \/ fault(t)
      PROVE  RepliesOwn'
  BY <1>4, <1>8 DEF take, exit, runTis, StoreMessage, fault, outVars
<1>9. CASE UNCHANGED vars
  BY <1>4, <1>9 DEF vars, outVars
<1>10. Cmds # {}
  BY DEF Cmds
<1>11. QED
  BY <1>2, <1>3, <1>5, <1>6, <1>7, <1>8, <1>9, <1>10
  DEF Next, Callback, CallbackStep, ThreadStep

(***************************************************************************)
(* No package is served to a reply twice, in any reachable state: put      *)
(* queues it once, one thread takes it, and each branch of its handler     *)
(* sends one reply; a package that finds the pool exhausted never reaches  *)
(* a thread.  And while it is in flight the reply, whose address is read   *)
(* from the shared item, is the one its client expects.                    *)
(***************************************************************************)
THEOREM RepliesAreOwn == Spec => []RepliedOnce
<1>1. Init => NotYetAnswered /\ InOnePlace /\ RepliesOwn
  <2> SUFFICES ASSUME Init PROVE NotYetAnswered /\ InOnePlace /\ RepliesOwn
    OBVIOUS
  <2>1. /\ replies = {} /\ Len(queue_) = 0 /\ main = "idle"
        /\ \A t \in Threads : ~Owes(t)
    BY DEF Init, Owes
  <2>2. QED
    BY <2>1 DEF NotYetAnswered, InOnePlace, RepliesOwn, Answered
<1>2. TypeOK /\ NotYetAnswered /\ InOnePlace /\ [Next]_vars => NotYetAnswered' /\ InOnePlace'
  BY OncePlaceNext
<1>3. /\ TypeOK /\ IndexCoherence /\ LoopOk /\ PendingServedFaithfully
      /\ NotYetAnswered /\ RepliesOwn /\ [Next]_vars
      => RepliesOwn'
  BY RepliesOwnNext
<1>4. NotYetAnswered /\ RepliesOwn => RepliedOnce
  <2> SUFFICES ASSUME NotYetAnswered, RepliesOwn PROVE RepliedOnce
    OBVIOUS
  <2>1. ASSUME NEW t \in Threads, pc[t] \in {"run", "check"}, NEW r \in replies
        PROVE  r.by # job[t]
    BY <2>1 DEF NotYetAnswered, Answered, Owes
  <2>2. QED
    BY <2>1 DEF RepliedOnce, RepliesOwn
<1>5. QED
  BY <1>1, <1>2, <1>3, <1>4, TypeCorrect, IndicesCoherent, LoopInv, ServedFaithfully,
     PTL DEF Spec

-----------------------------------------------------------------------------
HIDE DEF Items, NoItem, NoFd, Serials, Pkgs, Handlers, Coherent

(***************************************************************************)
(* The pointers of list.h behind the sequences.  A ring is known by the    *)
(* places of its nodes: no two of 0..Len(s), and no two of 1..Len(s) + 1,  *)
(* hold the same node.                                                     *)
(***************************************************************************)

\* A node of a ring is at one place from the head on, and at one place up
\* to the head.
LEMMA Places ==
  ASSUME NEW Nodes, NEW head \in Nodes, NEW s \in Seq(Nodes),
         Links!Different(head, s)
  PROVE  /\ head \notin Range(s) /\ IsInjective(s)
         /\ \A i \in 0..(Len(s) + 1) : Links!At(head, s, i) \in Nodes
         /\ Links!At(head, s, 0) = head
         /\ Links!At(head, s, Len(s) + 1) = head
         /\ \A i \in 1..Len(s) : Links!At(head, s, i) = s[i] /\ s[i] # head
         /\ \A i, j \in 0..Len(s) :
               Links!At(head, s, i) = Links!At(head, s, j) => i = j
         /\ \A i, j \in 1..(Len(s) + 1) :
               Links!At(head, s, i) = Links!At(head, s, j) => i = j
<1>1. /\ Len(s) \in Nat
      /\ DOMAIN s = 1..Len(s)
      /\ \A i \in 1..Len(s) : s[i] \in Nodes
  OBVIOUS
<1>2. \A i \in 1..Len(s) : s[i] # head
  BY <1>1 DEF Links!Different, Links!At
<1>3. \A i, j \in 1..Len(s) : s[i] = s[j] => i = j
  BY <1>1 DEF Links!Different, Links!At
<1> QED
  BY <1>1, <1>2, <1>3 DEF Links!At, Range, IsInjective

\* Nodes that are apart are different.
LEMMA Apart ==
  ASSUME NEW head, NEW s, Len(s) \in Nat, DOMAIN s = 1..Len(s),
         head \notin Range(s), IsInjective(s)
  PROVE  Links!Different(head, s)
  BY DEF Links!Different, Links!At, Range, IsInjective

\* What the stores of __list_add leave where.
LEMMA AddStores ==
  ASSUME NEW Nodes, NEW Values, NEW m \in Links!Memories(Nodes, Values),
         NEW e \in Nodes, NEW p \in Nodes, NEW n \in Nodes, e # p, e # n,
         NEW k, k = Links!__list_add(e, p, n, m)
  PROVE  /\ k.next[e] = n /\ k.prev[e] = p
         /\ k.next[p] = e /\ k.prev[n] = e
         /\ \A x \in Nodes \ {e, p} : k.next[x] = m.next[x]
         /\ \A x \in Nodes \ {e, n} : k.prev[x] = m.prev[x]
  BY DEF Links!__list_add, Links!Memories

\* What the stores of list_del_init leave where.
LEMMA DelStores ==
  ASSUME NEW Nodes, NEW Values, NEW m \in Links!Memories(Nodes, Values), NEW e \in Nodes,
         m.prev[e] \in Nodes, m.next[e] \in Nodes,
         NEW k, k = Links!list_del_init(e, m)
  PROVE  /\ k.next[e] = e /\ k.prev[e] = e
         /\ m.prev[e] # e => k.next[m.prev[e]] = m.next[e]
         /\ m.next[e] # e => k.prev[m.next[e]] = m.prev[e]
         /\ \A x \in Nodes \ {e, m.prev[e]} : k.next[x] = m.next[x]
         /\ \A x \in Nodes \ {e, m.next[e]} : k.prev[x] = m.prev[x]
  BY DEF Links!list_del_init, Links!__list_del, Links!INIT_LIST_HEAD, Links!Memories

\* The stores are of nodes, and so keep the type of a memory.
LEMMA StoresTyped ==
  ASSUME NEW Nodes, NEW m \in Links!Memories(Nodes, {Unset} \cup Nodes),
         NEW e \in Nodes
  PROVE  /\ Links!INIT_LIST_HEAD(e, m) \in Links!Memories(Nodes, {Unset} \cup Nodes)
         /\ \A h \in Nodes : m.prev[h] \in Nodes =>
               Links!list_add_tail(e, h, m) \in Links!Memories(Nodes, {Unset} \cup Nodes)
         /\ m.prev[e] \in Nodes /\ m.next[e] \in Nodes =>
               Links!list_del_init(e, m) \in Links!Memories(Nodes, {Unset} \cup Nodes)
  BY DEF Links!INIT_LIST_HEAD, Links!list_add_tail, Links!__list_add,
         Links!list_del_init, Links!__list_del, Links!Memories

\* An initialised head is an empty ring.
LEMMA EmptyRing ==
  ASSUME NEW Nodes, NEW Values, NEW m \in Links!Memories(Nodes, Values),
         NEW head \in Nodes
  PROVE  Links!IsList(Links!INIT_LIST_HEAD(head, m), head, << >>)
  BY DEF Links!IsList, Links!INIT_LIST_HEAD, Links!Memories, Links!At, Links!Linked,
         Links!Different

\* list_add_tail on the pointers is list_add_tail on the sequence, for an
\* entry that is in no place of the ring.
LEMMA AddTailRing ==
  ASSUME NEW Nodes, NEW Values, NEW m \in Links!Memories(Nodes, Values),
         NEW head \in Nodes, NEW s \in Seq(Nodes), NEW entry \in Nodes,
         Links!IsList(m, head, s), entry # head, entry \notin Range(s)
  PROVE  Links!IsList(Links!list_add_tail(entry, head, m), head, list_add_tail(entry, s))
<1> DEFINE n == Len(s)
           t == list_add_tail(entry, s)
           k == Links!list_add_tail(entry, head, m)
           last == Links!At(head, s, n)
<1>1. /\ n \in Nat
      /\ t \in Seq(Nodes)
      /\ Len(t) = n + 1
      /\ \A i \in 1..n : t[i] = s[i]
      /\ t[n + 1] = entry
      /\ DOMAIN t = 1..(n + 1)
      /\ DOMAIN s = 1..n
  BY DEF list_add_tail
<1>2. Links!Different(head, s) /\ head \notin Range(s) /\ IsInjective(s)
  BY Places DEF Links!IsList
<1>3. /\ \A i \in 0..(n + 1) : Links!At(head, s, i) \in Nodes \ {entry}
      /\ Links!At(head, s, n + 1) = head
      /\ \A i, j \in 0..n : Links!At(head, s, i) = Links!At(head, s, j) => i = j
      /\ \A i, j \in 1..(n + 1) : Links!At(head, s, i) = Links!At(head, s, j) => i = j
  <2>1. \A i \in 0..(n + 1) : Links!At(head, s, i) # entry
    BY <1>1 DEF Links!At, Range
  <2> QED
    BY <1>2, <2>1, Places
<1>4. \A i \in 0..n : Links!Linked(m, Links!At(head, s, i), Links!At(head, s, i + 1))
  BY DEF Links!IsList
<1>5. m.prev[head] = last
  BY <1>1, <1>3, <1>4 DEF Links!Linked
<1>6. /\ k.next[entry] = head /\ k.prev[entry] = last
      /\ k.next[last] = entry /\ k.prev[head] = entry
      /\ \A x \in Nodes \ {entry, last} : k.next[x] = m.next[x]
      /\ \A x \in Nodes \ {entry, head} : k.prev[x] = m.prev[x]
  <2>1. k = Links!__list_add(entry, last, head, m)
    BY <1>5 DEF Links!list_add_tail
  <2>2. last \in Nodes /\ entry # last
    BY <1>1, <1>3
  <2> HIDE DEF k, last
  <2> QED
    BY <2>1, <2>2, AddStores
<1>7. Links!Different(head, t)
  <2>1. head \notin Range(t) /\ IsInjective(t)
    BY <1>1, <1>2 DEF Range, IsInjective
  <2> HIDE DEF t
  <2> QED
    BY <1>1, <2>1, Apart
<1>8. /\ \A i \in 0..n : Links!At(head, t, i) = Links!At(head, s, i)
      /\ Links!At(head, t, n + 1) = entry
      /\ Links!At(head, t, n + 2) = head
  BY <1>1 DEF Links!At
<1>9. ASSUME NEW i \in 0..(n + 1)
      PROVE  Links!Linked(k, Links!At(head, t, i), Links!At(head, t, i + 1))
  <2> HIDE DEF k, t
  <2>1. CASE i = n + 1
    BY <1>1, <1>6, <1>8, <2>1 DEF Links!Linked
  <2>2. CASE i = n
    BY <1>1, <1>6, <1>8, <2>2 DEF Links!Linked
  <2>3. CASE i < n
    <3> DEFINE x == Links!At(head, s, i)
               y == Links!At(head, s, i + 1)
    <3>1. x \in Nodes \ {entry, last} /\ y \in Nodes \ {entry, head}
      BY <1>1, <1>3, <2>3
    <3>2. m.next[x] = y /\ m.prev[y] = x
      BY <1>1, <1>4, <2>3 DEF Links!Linked
    <3>3. Links!At(head, t, i) = x /\ Links!At(head, t, i + 1) = y
      BY <1>1, <1>8, <2>3
    <3> HIDE DEF x, y
    <3> QED
      BY <1>6, <3>1, <3>2, <3>3 DEF Links!Linked
  <2>4. i = n + 1 \/ i = n \/ i < n
    <3> HIDE DEF n
    <3> QED
      BY <1>1, <1>9
  <2> QED
    BY <2>1, <2>2, <2>3, <2>4
<1> QED
  <2> HIDE DEF k, t
  <2>1. Links!IsList(k, head, t)
    BY <1>1, <1>7, <1>9 DEF Links!IsList
  <2> QED
    BY <2>1 DEF k, t

\* list_del_init on the pointers is list_del_init on the sequence, and the
\* entry is left an empty ring of its own.
LEMMA DelInitRing ==
  ASSUME NEW Nodes, NEW Values, NEW m \in Links!Memories(Nodes, Values),
         NEW head \in Nodes, NEW s \in Seq(Nodes), NEW entry \in Range(s),
         Links!IsList(m, head, s)
  PROVE  /\ Links!IsList(Links!list_del_init(entry, m), head, list_del_init(entry, s))
         /\ Links!IsList(Links!list_del_init(entry, m), entry, << >>)
<1> DEFINE n == Len(s)
           t == list_del_init(entry, s)
           k == Links!list_del_init(entry, m)
           at == CHOOSE i \in 1..n : s[i] = entry
           A(i) == Links!At(head, s, i)
<1>1. n \in Nat /\ DOMAIN s = 1..n /\ Links!Different(head, s)
  BY DEF Links!IsList
<1>2. at \in 1..n /\ s[at] = entry
  BY <1>1 DEF Range
<1> HIDE DEF at
<1>3. t = [i \in 1..(n - 1) |-> IF i < at THEN s[i] ELSE s[i + 1]]
  BY DEF list_del_init, at
<1>4. /\ Len(t) = n - 1 /\ DOMAIN t = 1..(n - 1)
      /\ \A i \in 1..(n - 1) : t[i] = IF i < at THEN s[i] ELSE s[i + 1]
  BY <1>1, <1>2, <1>3
<1>5. /\ \A i \in 0..(n + 1) : A(i) \in Nodes
      /\ \A i \in 1..n : A(i) = s[i]
      /\ A(0) = head /\ A(n + 1) = head
      /\ \A i, j \in 0..n : A(i) = A(j) => i = j
      /\ \A i, j \in 1..(n + 1) : A(i) = A(j) => i = j
  BY <1>1, Places
<1>6. \A i \in 0..n : m.next[A(i)] = A(i + 1) /\ m.prev[A(i + 1)] = A(i)
  BY DEF Links!IsList, Links!Linked
<1>7. /\ \A i \in 0..(at - 1) : Links!At(head, t, i) = A(i)
      /\ \A i \in at..n : Links!At(head, t, i) = A(i + 1)
  BY <1>1, <1>2, <1>4 DEF Links!At
<1>8. Links!Different(head, t)
  <2>1. head \notin Range(s) /\ IsInjective(s)
    BY <1>1, Places
  <2>2. head \notin Range(t)
    <3>1. \A i \in 1..(n - 1) : t[i] = s[i] \/ t[i] = s[i + 1]
      BY <1>4
    <3>2. \A i \in 1..n : s[i] # head
      BY <1>1, <2>1 DEF Range
    <3>3. \A i \in 1..(n - 1) : t[i] # head
      BY <1>1, <3>1, <3>2
    <3>4. QED
      BY <1>4, <3>3 DEF Range
  <2>3. \A i, j \in 1..n : s[i] = s[j] => i = j
    BY <1>1, <2>1 DEF IsInjective
  <2>4. \A i, j \in 1..(n - 1) : t[i] = t[j] => i = j
    <3> SUFFICES ASSUME NEW i \in 1..(n - 1), NEW j \in 1..(n - 1), t[i] = t[j]
                 PROVE  i = j
      OBVIOUS
    <3>1. t[i] = (IF i < at THEN s[i] ELSE s[i + 1]) /\ t[j] = (IF j < at THEN s[j] ELSE s[j + 1])
      BY <1>4
    <3> HIDE DEF t, n
    <3>2. i \in 1..n /\ j \in 1..n /\ i + 1 \in 1..n /\ j + 1 \in 1..n
      BY <1>1
    <3>3. CASE i < at /\ j < at
      BY <2>3, <3>1, <3>2, <3>3
    <3>4. CASE i < at /\ ~(j < at)
      <4>1. i = j + 1
        BY <2>3, <3>1, <3>2, <3>4
      <4> QED
        BY <1>2, <3>2, <3>4, <4>1
    <3>5. CASE ~(i < at) /\ j < at
      <4>1. i + 1 = j
        BY <2>3, <3>1, <3>2, <3>5
      <4> QED
        BY <1>2, <3>2, <3>5, <4>1
    <3>6. CASE ~(i < at) /\ ~(j < at)
      <4>1. i + 1 = j + 1
        BY <2>3, <3>1, <3>2, <3>6
      <4> QED
        BY <3>2, <4>1
    <3> QED
      BY <3>3, <3>4, <3>5, <3>6
  <2>5. IsInjective(t)
    BY <1>4, <2>4 DEF IsInjective
  <2> HIDE DEF t
  <2> QED
    BY <1>1, <1>2, <1>4, <2>2, <2>5, Apart
<1> HIDE DEF A, t, n
<1>9. /\ A(at) = entry
      /\ m.prev[entry] = A(at - 1) /\ m.next[entry] = A(at + 1)
      /\ A(at - 1) # entry /\ A(at + 1) # entry
  BY <1>1, <1>2, <1>5, <1>6
<1>10. entry \in Nodes
  BY <1>1, <1>2, <1>5, <1>9
<1>11. /\ k.next[entry] = entry /\ k.prev[entry] = entry
       /\ k.next[A(at - 1)] = A(at + 1) /\ k.prev[A(at + 1)] = A(at - 1)
       /\ \A x \in Nodes \ {entry, A(at - 1)} : k.next[x] = m.next[x]
       /\ \A x \in Nodes \ {entry, A(at + 1)} : k.prev[x] = m.prev[x]
  <2>1. A(at - 1) \in Nodes /\ A(at + 1) \in Nodes
    BY <1>1, <1>2, <1>5
  <2> QED
    BY <1>9, <1>10, <2>1, DelStores
<1> HIDE DEF k
<1>12. ASSUME NEW i \in 0..(n - 1)
       PROVE  Links!Linked(k, Links!At(head, t, i), Links!At(head, t, i + 1))
  <2>1. CASE i = at - 1
    BY <1>1, <1>2, <1>7, <1>11, <2>1 DEF Links!Linked
  <2>2. ASSUME NEW j \in 0..n, j # at - 1, j # at
        PROVE  Links!Linked(k, A(j), A(j + 1))
    <3>1. A(j) \in Nodes \ {entry, A(at - 1)} /\ A(j + 1) \in Nodes \ {entry, A(at + 1)}
      BY <1>1, <1>2, <1>5, <1>9, <2>2
    <3> QED
      BY <1>6, <1>11, <3>1 DEF Links!Linked
  <2>3. CASE i < at - 1
    BY <1>1, <1>2, <1>7, <2>2, <2>3
  <2>4. CASE i > at - 1
    <3>1. i + 1 \in 0..n /\ i + 1 # at - 1 /\ i + 1 # at
      BY <1>1, <1>2, <2>4
    <3>2. Links!Linked(k, A(i + 1), A(i + 2))
      BY <1>1, <2>2, <3>1
    <3> QED
      BY <1>1, <1>2, <1>7, <2>4, <3>2
  <2> QED
    BY <1>1, <1>2, <2>1, <2>3, <2>4
<1>13. Links!IsList(k, head, t)
  BY <1>4, <1>8, <1>12 DEF Links!IsList
<1>14. Links!IsList(k, entry, << >>)
  BY <1>11 DEF Links!IsList, Links!Linked, Links!At, Links!Different
<1> QED
  BY <1>13, <1>14 DEF k, t

\* list_del_init of an entry that is linked to itself changes no memory, as
\* list_del_init of an entry that is in no sequence changes none.
LEMMA DelInitAlone ==
  ASSUME NEW Nodes, NEW Values, NEW m \in Links!Memories(Nodes, Values), NEW entry \in Nodes,
         Links!IsList(m, entry, << >>)
  PROVE  Links!list_del_init(entry, m) = m
<1>1. m.next[entry] = entry /\ m.prev[entry] = entry
  BY DEF Links!IsList, Links!Linked, Links!At
<1> QED
  BY <1>1 DEF Links!list_del_init, Links!__list_del, Links!INIT_LIST_HEAD, Links!Memories

\* Neither operation touches a ring that has no node in common with the one
\* it changes.
LEMMA OtherRings ==
  ASSUME NEW Nodes, NEW Values, NEW m \in Links!Memories(Nodes, Values),
         NEW head \in Nodes, NEW s \in Seq(Nodes), Links!IsList(m, head, s),
         NEW other \in Nodes, NEW o \in Seq(Nodes), Links!IsList(m, other, o),
         ({head} \cup Range(s)) \cap ({other} \cup Range(o)) = {}
  PROVE  /\ \A entry \in Nodes \ ({head, other} \cup Range(s) \cup Range(o)) :
               Links!IsList(Links!list_add_tail(entry, head, m), other, o)
         /\ \A entry \in Range(s) :
               Links!IsList(Links!list_del_init(entry, m), other, o)
<1> DEFINE S(i) == Links!At(head, s, i)
           O(i) == Links!At(other, o, i)
<1>1. /\ Len(s) \in Nat /\ Len(o) \in Nat
      /\ DOMAIN s = 1..Len(s) /\ DOMAIN o = 1..Len(o)
  OBVIOUS
<1>2. /\ \A i \in 0..(Len(s) + 1) : S(i) \in Nodes /\ S(i) \in {head} \cup Range(s)
      /\ S(0) = head /\ S(Len(s) + 1) = head
      /\ \A i \in 1..Len(s) : S(i) = s[i]
  BY <1>1 DEF Links!At, Range
<1>3. \A i \in 0..(Len(o) + 1) : O(i) \in Nodes /\ O(i) \in {other} \cup Range(o)
  BY <1>1 DEF Links!At, Range
<1>4. \A i \in 0..Len(s) : m.next[S(i)] = S(i + 1) /\ m.prev[S(i + 1)] = S(i)
  BY DEF Links!IsList, Links!Linked
<1>5. \A i \in 0..Len(o) : m.next[O(i)] = O(i + 1) /\ m.prev[O(i + 1)] = O(i)
  BY DEF Links!IsList, Links!Linked
<1> HIDE DEF S, O
<1>6. ASSUME NEW k, \A x \in {other} \cup Range(o) :
                       k.next[x] = m.next[x] /\ k.prev[x] = m.prev[x]
      PROVE  Links!IsList(k, other, o)
  <2>1. \A i \in 0..Len(o) : k.next[O(i)] = O(i + 1) /\ k.prev[O(i + 1)] = O(i)
    BY <1>1, <1>3, <1>5, <1>6
  <2> QED
    BY <2>1 DEF Links!IsList, Links!Linked, O
<1>7. \A x \in {other} \cup Range(o) : x \in Nodes /\ x \notin {head} \cup Range(s)
  <2>1. Range(o) \subseteq Nodes
    BY <1>1 DEF Range
  <2> QED
    BY <2>1
<1>8. ASSUME NEW entry \in Nodes \ ({head, other} \cup Range(s) \cup Range(o))
      PROVE  Links!IsList(Links!list_add_tail(entry, head, m), other, o)
  <2>1. m.prev[head] \in Nodes /\ m.prev[head] \in {head} \cup Range(s)
    BY <1>1, <1>2, <1>4
  <2> DEFINE k == Links!__list_add(entry, m.prev[head], head, m)
  <2>2. entry \in Nodes /\ entry # head /\ entry # m.prev[head]
    BY <1>8, <2>1
  <2>3. /\ \A x \in Nodes \ {entry, m.prev[head]} : k.next[x] = m.next[x]
        /\ \A x \in Nodes \ {entry, head} : k.prev[x] = m.prev[x]
    BY <2>1, <2>2, AddStores
  <2> HIDE DEF k
  <2>4. \A x \in {other} \cup Range(o) : k.next[x] = m.next[x] /\ k.prev[x] = m.prev[x]
    <3>1. \A x \in {other} \cup Range(o) : x \in Nodes \ {entry, head, m.prev[head]}
      BY <1>8, <1>7, <2>1
    <3> QED
      BY <2>3, <3>1
  <2>5. Links!IsList(k, other, o)
    BY <1>6, <2>4
  <2> QED
    BY <2>5 DEF k, Links!list_add_tail
<1>9. ASSUME NEW entry \in Range(s)
      PROVE  Links!IsList(Links!list_del_init(entry, m), other, o)
  <2> DEFINE k == Links!list_del_init(entry, m)
  <2>1. PICK i \in 1..Len(s) : entry = S(i)
    BY <1>1, <1>2 DEF Range
  <2>2. /\ entry \in Nodes /\ m.prev[entry] \in Nodes /\ m.next[entry] \in Nodes
        /\ entry \in {head} \cup Range(s)
        /\ m.prev[entry] \in {head} \cup Range(s)
        /\ m.next[entry] \in {head} \cup Range(s)
    <3>1. i - 1 \in 0..Len(s) /\ (i - 1) + 1 = i /\ i \in 0..Len(s)
          /\ i + 1 \in 0..(Len(s) + 1) /\ i \in 0..(Len(s) + 1) /\ i - 1 \in 0..(Len(s) + 1)
      BY <1>1, <2>1
    <3>2. m.prev[entry] = S(i - 1) /\ m.next[entry] = S(i + 1)
      BY <1>4, <2>1, <3>1
    <3> QED
      BY <1>2, <2>1, <3>1, <3>2
  <2>3. /\ \A x \in Nodes \ {entry, m.prev[entry]} : k.next[x] = m.next[x]
        /\ \A x \in Nodes \ {entry, m.next[entry]} : k.prev[x] = m.prev[x]
    BY <2>2, DelStores
  <2> HIDE DEF k
  <2>4. \A x \in {other} \cup Range(o) : k.next[x] = m.next[x] /\ k.prev[x] = m.prev[x]
    <3>1. \A x \in {other} \cup Range(o) :
             x \in Nodes \ {entry, m.prev[entry], m.next[entry]}
      BY <1>7, <2>2
    <3> QED
      BY <2>3, <3>1
  <2> QED
    BY <1>6, <2>4 DEF k
<1> QED
  BY <1>8, <1>9
-----------------------------------------------------------------------------
(* The items of a chunk *)

(***************************************************************************)
(* Arithmetic: rounding up, the multiples of a word, and the quotient.     *)
(***************************************************************************)
LEMMA RoundsUp ==
  ASSUME NEW n \in Nat, NEW unit \in Nat \ {0}
  PROVE  /\ Pool!roundUp(n, unit) \in Nat
         /\ n <= Pool!roundUp(n, unit)
         /\ Pool!roundUp(n, unit) % unit = 0
<1>1. n % unit \in 0..(unit - 1)
  BY SMTT(30)
<1>2. (n + unit - (n % unit)) % unit = 0
  BY SMTT(30)
<1>3. QED
  BY <1>1, <1>2 DEF Pool!roundUp

LEMMA Divides ==
  ASSUME NEW n \in Nat, NEW k \in Nat, NEW unit \in Nat \ {0}, n % unit = 0
  PROVE  (unit + n * k) % unit = 0
<1>1. PICK q \in Nat : n = unit * q
  BY SMTT(30)
<1>2. unit + n * k = unit * (1 + q * k) /\ 1 + q * k \in Nat
  BY <1>1, SMTT(30)
<1>3. \A r \in Nat : (unit * r) % unit = 0
  BY SMTT(30)
<1>4. QED
  BY <1>2, <1>3

LEMMA Quotient ==
  ASSUME NEW a \in Nat, NEW b \in Nat \ {0}
  PROVE  a \div b \in Nat /\ b * (a \div b) <= a /\ a < b * ((a \div b) + 1)
  BY SMT

LEMMA Grows ==
  ASSUME NEW a \in Nat, NEW b \in Nat, NEW c \in Nat, a <= b
  PROVE  c * a \in Nat /\ c * b \in Nat /\ c * a <= c * b
  BY SMT

(***************************************************************************)
(* A pool has its sizes as mempool_create rounds them, and a chunk of it   *)
(* room for its link and its items.                                        *)
(***************************************************************************)
LEMMA PoolSizes ==
  ASSUME NEW item_size \in Nat, NEW alloc_size \in Nat,
         NEW pool, pool = Pool!mempool_create(item_size, alloc_size)
  PROVE  /\ pool.item_size \in Nat \ {0} /\ item_size <= pool.item_size
         /\ pool.item_size % WORD_SIZE = 0
         /\ pool.alloc_size \in Nat /\ pool.total_alloc_item \in Nat
         /\ DEFAULT_ALLOC_SIZE <= pool.total_alloc_item
         /\ WORD_SIZE + pool.item_size * pool.total_alloc_item <= pool.alloc_size
<1> DEFINE W == WORD_SIZE
           D == DEFAULT_ALLOC_SIZE
           size == Pool!roundUp(Pool!atLeast(item_size, W), W)
           asked == Pool!atLeast(alloc_size, size * D + W)
           pages == Pool!atLeast(asked, D * pagesize)
           chunk == Pool!roundUp(pages, pagesize)
           total == (chunk - W) \div size
<1>1. W \in Nat \ {0} /\ D \in Nat \ {0} /\ pagesize \in Nat \ {0}
  BY SizesAssumption
<1>2. size \in Nat \ {0} /\ item_size <= size /\ size % W = 0
  <2>1. /\ Pool!atLeast(item_size, W) \in Nat
        /\ item_size <= Pool!atLeast(item_size, W)
        /\ W <= Pool!atLeast(item_size, W)
    BY <1>1 DEF Pool!atLeast
  <2>2. QED
    BY <1>1, <2>1, RoundsUp
<1>3. pool = [item_size |-> size, alloc_size |-> chunk, total_alloc_item |-> total]
  BY DEF Pool!mempool_create
<1> HIDE DEF size
<1>4. size * D \in Nat /\ D * pagesize \in Nat
  BY <1>1, <1>2, Grows
<1>5. asked \in Nat /\ size * D + W <= asked
  BY <1>1, <1>4 DEF Pool!atLeast
<1> HIDE DEF asked
<1>6. pages \in Nat /\ asked <= pages
  BY <1>4, <1>5 DEF Pool!atLeast
<1> HIDE DEF pages
<1>7. chunk \in Nat /\ pages <= chunk
  BY <1>1, <1>6, RoundsUp
<1> HIDE DEF chunk
<1>8. chunk - W \in Nat /\ size * D <= chunk - W
  BY <1>1, <1>4, <1>5, <1>6, <1>7
<1>9. total \in Nat /\ size * total <= chunk - W /\ chunk - W < size * (total + 1)
  BY <1>2, <1>8, Quotient
<1> HIDE DEF total
<1>10. D <= total
  <2>1. total + 1 <= D => size * (total + 1) <= size * D
    BY <1>1, <1>2, <1>9, Grows
  <2>2. size * (total + 1) \in Nat
    BY <1>2, <1>9, Grows
  <2>3. QED
    BY <1>1, <1>4, <1>8, <1>9, <2>1, <2>2
<1>11. W + size * total <= chunk
  BY <1>1, <1>2, <1>7, <1>9, Grows
<1>12. QED
  BY <1>2, <1>3, <1>7, <1>9, <1>10, <1>11

(***************************************************************************)
(* Whatever the sizes of an item, a word, a page and a chunk, a pool of    *)
(* mempool_create has at least DEFAULT_ALLOC_SIZE items in a chunk, and    *)
(* mempool_alloc never carves two that overlap, one that runs out of its   *)
(* chunk, or one that covers the link to the chunk before.                 *)
(***************************************************************************)
THEOREM ItemsApart ==
  ASSUME NEW item_size \in Nat, NEW alloc_size \in Nat
  PROVE  Pool!Apart(item_size, alloc_size)
<1> DEFINE W == WORD_SIZE
           pool == Pool!mempool_create(item_size, alloc_size)
           size == pool.item_size
           total == pool.total_alloc_item
           at(i) == Pool!address(pool, i)
<1>1. W \in Nat \ {0}
  BY SizesAssumption
<1>2. /\ size \in Nat \ {0} /\ item_size <= size /\ size % W = 0
      /\ pool.alloc_size \in Nat /\ total \in Nat
      /\ DEFAULT_ALLOC_SIZE <= total
      /\ W + size * total <= pool.alloc_size
  BY PoolSizes
<1>3. \A i \in Nat : at(i) = W + size * i /\ size * i \in Nat
  BY <1>2, Grows DEF Pool!address
<1> HIDE DEF pool, size, total, at
<1>4. ASSUME NEW i \in Nat, NEW j \in Nat, i < j
      PROVE  at(i) + size <= at(j)
  <2>1. size * (i + 1) <= size * j
    BY <1>2, <1>4, Grows
  <2>2. size * (i + 1) = size * i + size
    BY <1>2
  <2>3. QED
    BY <1>1, <1>2, <1>3, <2>1, <2>2
<1>5. ASSUME NEW i \in 0..(total - 1)
      PROVE  at(i) % W = 0 /\ W <= at(i) /\ at(i) + size <= pool.alloc_size
  <2>1. (W + size * i) % W = 0
    <3>1. i \in Nat /\ size \in Nat /\ size % W = 0
      BY <1>2
    <3>2. QED
      BY <1>1, <3>1, Divides, Zenon
  <2>2. at(i) + size <= at(total)
    BY <1>2, <1>4
  <2>3. at(total) <= pool.alloc_size
    BY <1>2, <1>3
  <2>4. QED
    BY <1>1, <1>2, <1>3, <2>1, <2>2, <2>3
<1>6. \A i, j \in 0..(total - 1) : i < j => at(i) + size <= at(j)
  BY <1>2, <1>4
<1>7. QED
  BY <1>2, <1>5, <1>6 DEF Pool!Apart, at, size, total, pool

(***************************************************************************)
(* So a chunk of g_mempool holds an item.                                  *)
(***************************************************************************)
LEMMA ChunkHolds == total_alloc_item \in Nat \ {0}
<1>1. sizeof_ClientInfo \in Nat /\ pagesize * 4096 \in Nat
  BY SizesAssumption
<1>2. total_alloc_item \in Nat /\ DEFAULT_ALLOC_SIZE <= total_alloc_item
  BY <1>1, PoolSizes DEF total_alloc_item, g_mempool
<1>3. QED
  BY <1>2, SizesAssumption

-----------------------------------------------------------------------------
(* The memory of the worker *)

(***************************************************************************)
(* Where a loop over a ring starts, and what it goes to next.              *)
(***************************************************************************)
LEMMA LoopPlaces ==
  ASSUME NEW Nodes, NEW head \in Nodes, NEW s \in Seq(Nodes)
  PROVE  /\ s = << >> => Links!At(head, s, 1) = head /\ Links!At(head, s, 2) = head
         /\ s # << >> => /\ Links!At(head, s, 1) = Head(s)
                         /\ Links!At(head, s, 2) = Links!At(head, Tail(s), 1)
<1>1. CASE s = << >>
  BY <1>1 DEF Links!At
<1>2. CASE s # << >>
  <2>1. /\ Len(s) \in Nat /\ Len(s) > 0 /\ Head(s) = s[1]
        /\ Len(Tail(s)) = Len(s) - 1
        /\ \A i \in 1..(Len(s) - 1) : Tail(s)[i] = s[i + 1]
    BY <1>2
  <2>2. QED
    BY <1>2, <2>1 DEF Links!At
<1>3. QED
  BY <1>1, <1>2

(***************************************************************************)
(* In a ring, list_for_each_safe starts at the first two places, ...       *)
(***************************************************************************)
LEMMA LoopStarts ==
  ASSUME NEW Nodes, NEW head \in Nodes, NEW s \in Seq(Nodes), NEW m,
         Links!IsList(m, head, s)
  PROVE  /\ m.next[head] = Links!At(head, s, 1)
         /\ m.next[Links!At(head, s, 1)] = Links!At(head, s, 2)
<1>1. /\ Len(s) \in Nat
      /\ \A i \in 0..Len(s) : m.next[Links!At(head, s, i)] = Links!At(head, s, i + 1)
  BY DEF Links!IsList, Links!Linked
<1>2. m.next[head] = Links!At(head, s, 1)
  <2>1. Links!At(head, s, 0) = head
    BY DEF Links!At
  <2>2. QED
    BY <1>1, <2>1
<1>3. CASE Len(s) = 0
  BY <1>1, <1>2, <1>3 DEF Links!At
<1>4. CASE Len(s) > 0
  BY <1>1, <1>2, <1>4
<1>5. QED
  BY <1>1, <1>2, <1>3, <1>4

(***************************************************************************)
(* ... and what it has saved when its body deletes the first entry is the  *)
(* first of the entries that are left.                                     *)
(***************************************************************************)
LEMMA LoopGoesOn ==
  ASSUME NEW Nodes, NEW head \in Nodes, NEW s \in Seq(Nodes), s # << >>, NEW m,
         Links!IsList(m, head, Tail(s))
  PROVE  Links!next_entry(At(head, s), m) = At(head, Tail(s))
<1>1. Tail(s) \in Seq(Nodes)
  OBVIOUS
<1>2. m.next[Links!At(head, Tail(s), 1)] = Links!At(head, Tail(s), 2)
  BY <1>1, LoopStarts
<1>3. Links!At(head, s, 2) = Links!At(head, Tail(s), 1)
  BY LoopPlaces
<1>4. QED
  BY <1>2, <1>3 DEF Links!next_entry, At

(***************************************************************************)
(* Deleting the head of a list of distinct entries leaves its tail, and    *)
(* deleting what is not in it leaves it.                                   *)
(***************************************************************************)
LEMMA DelHead ==
  ASSUME NEW S, NEW s \in Seq(S), IsInjective(s)
  PROVE  /\ s # << >> => list_del_init(Head(s), s) = Tail(s)
         /\ \A e : e \notin Range(s) => list_del_init(e, s) = s
<1>1. ASSUME s # << >> PROVE list_del_init(Head(s), s) = Tail(s)
  <2>1. /\ Len(s) \in Nat /\ Len(s) > 0 /\ Head(s) = s[1] /\ DOMAIN s = 1..Len(s)
        /\ Tail(s) \in Seq(S) /\ Len(Tail(s)) = Len(s) - 1
        /\ \A i \in 1..(Len(s) - 1) : Tail(s)[i] = s[i + 1]
    BY <1>1
  <2> DEFINE at == CHOOSE i \in 1..Len(s) : s[i] = Head(s)
             t == list_del_init(Head(s), s)
  <2>2. Head(s) \in Range(s) /\ at \in 1..Len(s) /\ s[at] = Head(s)
    BY <2>1 DEF Range
  <2> HIDE DEF at
  <2>3. at = 1
    BY <2>1, <2>2 DEF IsInjective
  <2>4. t = [i \in 1..(Len(s) - 1) |-> IF i < at THEN s[i] ELSE s[i + 1]]
    BY <2>2 DEF list_del_init, at
  <2>5. \A i \in 1..(Len(s) - 1) : t[i] = s[i + 1]
    BY <2>3, <2>4
  <2>6. t \in Seq(S) /\ Len(t) = Len(s) - 1
    BY <2>2, DelInit, DelInitType
  <2> HIDE DEF t
  <2>7. t = Tail(s)
    BY <2>1, <2>5, <2>6, SeqEqual
  <2>8. QED
    BY <2>7 DEF t
<1>2. QED
  BY <1>1 DEF list_del_init

(***************************************************************************)
(* The pool, by its pointers, hands out the item Proxy says, when Proxy    *)
(* says it can.                                                            *)
(***************************************************************************)
LEMMA AllocatesNext ==
  ASSUME TypeOK, LinksTyped, FreeList, Carved
  PROVE  /\ reuse_ptr = NULL <=> reuse = << >>
         /\ exhausted <=> ~mempool_can_alloc
         /\ mempool_can_alloc => allocated = mempool_next
<1> DEFINE T == total_alloc_item
<1>1. /\ T \in Nat \ {0} /\ NChunks \in Nat \ {0} /\ NItems = NChunks * T
      /\ chunks \in 1..NChunks /\ chunk_pos \in 0..T
      /\ alloc_pool_pos = (chunks - 1) * T + chunk_pos
  BY ChunksAssumption, ChunkHolds DEF LinksTyped, Carved
<1>2. /\ reuse = << >> => reuse_ptr = NULL
      /\ reuse # << >> => reuse_ptr = Head(reuse) /\ reuse_ptr # NULL
  <2>1. reuse \in Seq(Items)
    BY DEF TypeOK
  <2>2. reuse = << >> => Links!At(NULL, reuse, 1) = NULL
    BY DEF Links!At
  <2>3. reuse # << >> => Links!At(NULL, reuse, 1) = Head(reuse) /\ Head(reuse) \in Items
    <3> HAVE reuse # << >>
    <3>1. Len(reuse) \in Nat /\ Len(reuse) > 0 /\ Head(reuse) = reuse[1] /\ Head(reuse) \in Items
      BY <2>1
    <3>2. QED
      BY <3>1 DEF Links!At
  <2>4. NULL \notin Items
    BY DEF NULL, NoItem, Items
  <2>5. QED
    BY <2>2, <2>3, <2>4 DEF FreeList
<1>3. chunk_pos = T /\ chunks = NChunks <=> ~(alloc_pool_pos < NItems)
  <2>1. CASE chunks = NChunks
    <3>1. (chunks - 1) * T + T = NItems
      BY <1>1, <2>1
    <3>2. QED
      BY <1>1, <2>1, <3>1
  <2>2. CASE chunks # NChunks
    <3>1. chunks <= NChunks - 1
      BY <1>1, <2>2
    <3>2. chunks * T <= (NChunks - 1) * T
      BY <1>1, <3>1
    <3>3. (NChunks - 1) * T + T = NItems /\ (chunks - 1) * T + T = chunks * T
      BY <1>1
    <3>4. alloc_pool_pos < NItems
      BY <1>1, <3>2, <3>3
    <3>5. QED
      BY <2>2, <3>4
  <2>3. QED
    BY <2>1, <2>2
<1>4. (IF chunk_pos = T THEN chunks * T + 1 ELSE (chunks - 1) * T + chunk_pos + 1)
        = alloc_pool_pos + 1
  <2>1. (chunks - 1) * T + T = chunks * T
    BY <1>1
  <2>2. QED
    BY <1>1, <2>1
<1>5. QED
  BY <1>2, <1>3, <1>4 DEF exhausted, allocated, mempool_can_alloc, mempool_next

(***************************************************************************)
(* Allocation and release keep the chunks and the free list what Proxy     *)
(* takes them for.                                                         *)
(***************************************************************************)
LEMMA CallocKeepsPool ==
  ASSUME TypeOK, LinksTyped, FreeList, Carved, PoolOk, mempool_alloc, mempool_calloc
  PROVE  /\ FreeList' /\ Carved'
         /\ first_word' \in [Items -> {NULL, Unset} \cup Items]
         /\ chunks' \in 1..NChunks /\ chunk_pos' \in 0..total_alloc_item
<1> DEFINE T == total_alloc_item
<1>1. /\ T \in Nat \ {0} /\ NChunks \in Nat \ {0}
      /\ chunks \in 1..NChunks /\ chunk_pos \in 0..T
      /\ alloc_pool_pos = (chunks - 1) * T + chunk_pos
      /\ first_word \in [Items -> {NULL, Unset} \cup Items]
      /\ reuse \in Seq(Items)
  BY ChunksAssumption, ChunkHolds DEF LinksTyped, Carved, TypeOK
<1>2. /\ reuse_ptr = NULL <=> reuse = << >>
      /\ ~exhausted /\ allocated = mempool_next
  BY AllocatesNext DEF mempool_calloc
<1>3. first_word' = [first_word EXCEPT ![mempool_next] = Unset]
  BY <1>2 DEF mempool_calloc
<1>4. CASE reuse = << >>
  <2>1. /\ reuse' = reuse /\ alloc_pool_pos' = alloc_pool_pos + 1 /\ reuse_ptr' = reuse_ptr
        /\ IF chunk_pos = T THEN chunks' = chunks + 1 /\ chunk_pos' = 1
                            ELSE chunk_pos' = chunk_pos + 1 /\ chunks' = chunks
    BY <1>2, <1>4 DEF mempool_alloc, mempool_calloc
  <2>2. FreeList'
    BY <1>4, <2>1 DEF FreeList, Links!At
  <2>3. chunks' \in 1..NChunks /\ chunk_pos' \in 0..T
    BY <1>1, <1>2, <1>4, <2>1 DEF exhausted
  <2>4. alloc_pool_pos' = (chunks' - 1) * T + chunk_pos'
    <3>1. (chunks - 1) * T + T = chunks * T
      BY <1>1
    <3>2. CASE chunk_pos = T
      <4>1. chunks' - 1 = chunks
        BY <1>1, <2>1, <3>2
      <4>2. QED
        BY <1>1, <2>1, <3>1, <3>2, <4>1
    <3>3. CASE chunk_pos # T
      BY <1>1, <2>1, <3>3
    <3>4. QED
      BY <3>2, <3>3
  <2>5. first_word' \in [Items -> {NULL, Unset} \cup Items]
    BY <1>1, <1>3
  <2>6. QED
    BY <2>2, <2>3, <2>4, <2>5 DEF Carved
<1>5. CASE reuse # << >>
  <2>1. /\ reuse' = Tail(reuse) /\ alloc_pool_pos' = alloc_pool_pos
        /\ chunks' = chunks /\ chunk_pos' = chunk_pos
        /\ reuse_ptr' = first_word[reuse_ptr]
        /\ mempool_next = Head(reuse)
    BY <1>2, <1>5 DEF mempool_alloc, mempool_calloc, mempool_next
  <2>2. /\ Len(reuse) \in Nat /\ Len(reuse) > 0 /\ Head(reuse) = reuse[1]
        /\ Len(Tail(reuse)) = Len(reuse) - 1
        /\ \A i \in 1..(Len(reuse) - 1) : Tail(reuse)[i] = reuse[i + 1]
        /\ \A i \in 1..Len(reuse) : reuse[i] \in Items
    <3>1. \A i \in 1..Len(reuse) : reuse[i] \in Items
      BY <1>1
    <3>2. Len(Tail(reuse)) = Len(reuse) - 1
          /\ \A i \in 1..Len(Tail(reuse)) : Tail(reuse)[i] = reuse[i + 1]
      BY <1>1, <1>5, HeadTailProperties
    <3>3. Len(reuse) \in Nat /\ Len(reuse) > 0 /\ Head(reuse) = reuse[1]
      BY <1>1, <1>5
    <3>4. QED
      BY <3>1, <3>2, <3>3
  <2>3. \A i \in 1..Len(reuse) : i # 1 => reuse[i] # reuse[1]
    BY <1>1, <2>2 DEF PoolOk, IsInjective
  <2>4. \A i \in 1..Len(Tail(reuse)) : Links!At(NULL, Tail(reuse), i) = Links!At(NULL, reuse, i + 1)
    BY <2>2 DEF Links!At
  <2>5. \A i \in 1..(Len(Tail(reuse)) + 1) :
           Links!At(NULL, Tail(reuse), i) = Links!At(NULL, reuse, i + 1)
    BY <2>2 DEF Links!At
  <2>6. reuse_ptr = reuse[1] /\ first_word[reuse[1]] = Links!At(NULL, reuse, 2)
    <3>1. Links!At(NULL, reuse, 1) = reuse[1] /\ 1 \in 1..Len(reuse) /\ 1 + 1 = 2
      BY <2>2 DEF Links!At
    <3>2. QED
      BY <3>1 DEF FreeList
  <2>7. reuse_ptr' = Links!At(NULL, Tail(reuse), 1)
    <3>1. Links!At(NULL, Tail(reuse), 1) = Links!At(NULL, reuse, 1 + 1)
      BY <2>2, <2>5
    <3>2. QED
      BY <2>1, <2>6, <3>1
  <2>8. ASSUME NEW i \in 1..Len(Tail(reuse))
        PROVE  first_word'[Tail(reuse)[i]] = Links!At(NULL, Tail(reuse), i + 1)
    <3>1. i + 1 \in 1..Len(reuse) /\ i + 1 # 1 /\ Tail(reuse)[i] = reuse[i + 1]
          /\ i + 1 \in 1..(Len(Tail(reuse)) + 1)
      BY <2>2
    <3>2. reuse[i + 1] # reuse[1] /\ reuse[i + 1] \in Items
      BY <2>2, <2>3, <3>1
    <3>3. first_word'[reuse[i + 1]] = first_word[reuse[i + 1]]
      BY <1>1, <1>3, <2>1, <2>2, <3>2
    <3>4. first_word[reuse[i + 1]] = Links!At(NULL, reuse, (i + 1) + 1)
      BY <3>1 DEF FreeList
    <3>5. Links!At(NULL, Tail(reuse), i + 1) = Links!At(NULL, reuse, (i + 1) + 1)
      BY <2>5, <3>1
    <3>6. QED
      BY <3>1, <3>3, <3>4, <3>5
  <2>9. FreeList'
    BY <2>1, <2>7, <2>8 DEF FreeList, NULL
  <2>10. Carved' /\ chunks' \in 1..NChunks /\ chunk_pos' \in 0..T
    BY <1>1, <2>1 DEF Carved
  <2>11. first_word' \in [Items -> {NULL, Unset} \cup Items]
    BY <1>1, <1>3
  <2>12. QED
    BY <2>9, <2>10, <2>11
<1>6. QED
  BY <1>4, <1>5

(***************************************************************************)
(* mempool_free puts the item, which was not free, in front of the free    *)
(* list, and leaves the chunks.                                            *)
(***************************************************************************)
LEMMA FreeKeepsPool ==
  ASSUME TypeOK, LinksTyped, FreeList, Carved, NEW c \in Items, c \notin Range(reuse),
         mempool_free(c), UNCHANGED alloc_pool_pos, link_free(c)
  PROVE  /\ FreeList' /\ Carved'
         /\ first_word' \in [Items -> {NULL, Unset} \cup Items]
         /\ chunks' \in 1..NChunks /\ chunk_pos' \in 0..total_alloc_item
<1>1. /\ reuse \in Seq(Items) /\ Len(reuse) \in Nat /\ DOMAIN reuse = 1..Len(reuse)
      /\ first_word \in [Items -> {NULL, Unset} \cup Items]
      /\ chunks \in 1..NChunks /\ chunk_pos \in 0..total_alloc_item
  BY DEF TypeOK, LinksTyped
<1>2. /\ reuse' = <<c>> \o reuse /\ reuse_ptr' = c /\ chunks' = chunks
      /\ chunk_pos' = chunk_pos /\ alloc_pool_pos' = alloc_pool_pos
      /\ first_word' = [first_word EXCEPT ![c] = reuse_ptr]
  BY DEF mempool_free, link_free
<1> DEFINE s == <<c>> \o reuse
<1>3. /\ Len(s) = Len(reuse) + 1 /\ s[1] = c
      /\ \A i \in 2..Len(s) : s[i] = reuse[i - 1]
  BY <1>1
<1> HIDE DEF s
<1>4. Links!At(NULL, s, 1) = c
  BY <1>1, <1>3 DEF Links!At
<1>5. \A i \in 1..Len(s) : Links!At(NULL, s, i + 1) = Links!At(NULL, reuse, i)
  BY <1>1, <1>3 DEF Links!At
<1>6. ASSUME NEW i \in 1..Len(s)
      PROVE  first_word'[s[i]] = Links!At(NULL, s, i + 1)
  <2>1. CASE i = 1
    <3>1. first_word'[s[i]] = reuse_ptr
      BY <1>1, <1>2, <1>3, <2>1
    <3>2. Links!At(NULL, s, i + 1) = Links!At(NULL, reuse, 1)
      BY <1>5, <2>1
    <3>3. QED
      BY <3>1, <3>2 DEF FreeList
  <2>2. CASE i # 1
    <3>1. i - 1 \in 1..Len(reuse) /\ s[i] = reuse[i - 1] /\ (i - 1) + 1 = i
      BY <1>1, <1>3, <2>2
    <3>2. reuse[i - 1] # c /\ reuse[i - 1] \in Items
      <4>1. reuse[i - 1] \in Range(reuse)
        BY <1>1, <3>1 DEF Range
      <4>2. reuse[i - 1] \in Items
        BY <1>1, <3>1
      <4>3. QED
        BY <4>1, <4>2
    <3>3. first_word'[s[i]] = first_word[reuse[i - 1]]
      BY <1>1, <1>2, <3>1, <3>2
    <3>4. first_word[reuse[i - 1]] = Links!At(NULL, reuse, (i - 1) + 1)
      BY <3>1 DEF FreeList
    <3>5. QED
      BY <1>5, <3>1, <3>3, <3>4
  <2>3. QED
    BY <2>1, <2>2
<1>7. FreeList'
  BY <1>2, <1>4, <1>6 DEF FreeList, NULL, s
<1>8. Carved' /\ chunks' \in 1..NChunks /\ chunk_pos' \in 0..total_alloc_item
  BY <1>1, <1>2 DEF Carved
<1>9. reuse_ptr \in {NULL} \cup Items
  <2>1. Links!At(NULL, reuse, 1) \in {NULL} \cup Items
    <3>1. 1 \in 1..Len(reuse) => reuse[1] \in Items
      BY <1>1
    <3>2. QED
      BY <3>1 DEF Links!At
  <2>2. QED
    BY <2>1 DEF FreeList
<1>10. first_word' \in [Items -> {NULL, Unset} \cup Items]
  BY <1>1, <1>2, <1>9
<1>11. QED
  BY <1>7, <1>8, <1>10

(***************************************************************************)
(* The links of the nodes of a ring are nodes of it.                       *)
(***************************************************************************)
LEMMA RingLinks ==
  ASSUME NEW Nodes, NEW head \in Nodes, NEW s \in Seq(Nodes), NEW m,
         Links!IsList(m, head, s), NEW x \in {head} \cup Range(s)
  PROVE  /\ m.next[x] \in Nodes /\ m.next[x] \in {head} \cup Range(s)
         /\ m.prev[x] \in Nodes /\ m.prev[x] \in {head} \cup Range(s)
<1>1. Len(s) \in Nat /\ DOMAIN s = 1..Len(s)
  OBVIOUS
<1>2. \A i \in 0..(Len(s) + 1) : /\ Links!At(head, s, i) \in Nodes
                                 /\ Links!At(head, s, i) \in {head} \cup Range(s)
  BY <1>1 DEF Links!At, Range
<1>3. \A i \in 0..Len(s) : /\ m.next[Links!At(head, s, i)] = Links!At(head, s, i + 1)
                           /\ m.prev[Links!At(head, s, i + 1)] = Links!At(head, s, i)
  BY DEF Links!IsList, Links!Linked
<1>4. \E i \in 0..Len(s) : x = Links!At(head, s, i)
  <2>1. CASE x = head
    BY <1>1, <2>1 DEF Links!At
  <2>2. CASE x # head
    <3>1. PICK i \in 1..Len(s) : x = s[i]
      BY <1>1, <2>2 DEF Range
    <3>2. QED
      BY <1>1, <3>1 DEF Links!At
  <2>3. QED
    BY <2>1, <2>2
<1>5. \E i \in 0..Len(s) : x = Links!At(head, s, i + 1)
  <2>1. CASE x = head
    <3>1. x = Links!At(head, s, Len(s) + 1) /\ Len(s) \in 0..Len(s)
      BY <1>1, <2>1 DEF Links!At
    <3>2. QED
      BY <3>1
  <2>2. CASE x # head
    <3>1. PICK i \in 1..Len(s) : x = s[i]
      BY <1>1, <2>2 DEF Range
    <3>2. x = Links!At(head, s, (i - 1) + 1) /\ i - 1 \in 0..Len(s)
      BY <1>1, <3>1 DEF Links!At
    <3>3. QED
      BY <3>2
  <2>3. QED
    BY <2>1, <2>2
<1>6. \A i \in 0..Len(s) : i \in 0..(Len(s) + 1) /\ i + 1 \in 0..(Len(s) + 1)
  BY <1>1
<1>7. QED
  BY <1>2, <1>3, <1>4, <1>5, <1>6

(***************************************************************************)
(* A ring is not touched by the initialisation of a node outside it.       *)
(***************************************************************************)
LEMMA InitOther ==
  ASSUME NEW Nodes, NEW Values, NEW m \in Links!Memories(Nodes, Values),
         NEW head \in Nodes, NEW s \in Seq(Nodes), Links!IsList(m, head, s),
         NEW e \in Nodes, e # head, e \notin Range(s)
  PROVE  Links!IsList(Links!INIT_LIST_HEAD(e, m), head, s)
<1>1. Len(s) \in Nat /\ DOMAIN s = 1..Len(s)
  OBVIOUS
<1>2. \A i \in 0..(Len(s) + 1) : Links!At(head, s, i) \in Nodes \ {e}
  BY <1>1 DEF Links!At, Range
<1> DEFINE k == Links!INIT_LIST_HEAD(e, m)
<1>3. \A x \in Nodes \ {e} : k.next[x] = m.next[x] /\ k.prev[x] = m.prev[x]
  BY DEF Links!INIT_LIST_HEAD, Links!Memories
<1> HIDE DEF k
<1>4. \A i \in 0..Len(s) : i \in 0..(Len(s) + 1) /\ i + 1 \in 0..(Len(s) + 1)
  BY <1>1
<1>5. \A i \in 0..Len(s) : Links!Linked(k, Links!At(head, s, i), Links!At(head, s, i + 1))
  BY <1>2, <1>3, <1>4 DEF Links!IsList, Links!Linked
<1>6. QED
  BY <1>5 DEF Links!IsList, k

(***************************************************************************)
(* A list of items is a list of the nodes of either memory.                *)
(***************************************************************************)
LEMMA NodeLists ==
  ASSUME NEW s \in Seq(Items)
  PROVE  s \in Seq(FdNodes) /\ s \in Seq(TimerNodes)
<1>1. s \in [1..Len(s) -> Items] /\ Len(s) \in Nat
  BY LenProperties
<1>2. s \in [1..Len(s) -> FdNodes] /\ s \in [1..Len(s) -> TimerNodes]
  BY <1>1 DEF FdNodes, TimerNodes
<1>3. QED
  BY <1>1, <1>2

(***************************************************************************)
(* Heads are not items.                                                    *)
(***************************************************************************)
LEMMA HeadsApart ==
  /\ g_net_timer \notin Items /\ g_net_timer \in TimerNodes
  /\ \A fd \in Fds : fd \notin Items /\ fd \in FdNodes
  /\ Items \subseteq FdNodes /\ Items \subseteq TimerNodes
  BY HeadsAssumption DEF FdNodes, TimerNodes

(***************************************************************************)
(* An item that is in no list is linked last, in the ring of its           *)
(* descriptor and in the timer's, and no other ring is touched.            *)
(***************************************************************************)
LEMMA RingsOfArrival ==
  ASSUME TypeOK, Coherent, LinksTyped, FdRings, TimerRing, is_running_, is_running_',
         NEW fd \in Fds, NEW c \in Items, c \notin Live,
         fd_list' = [fd_list EXCEPT ![fd] = list_add_tail(c, @)],
         timer' = list_add_tail(c, timer),
         fd_links' = Links!list_add_tail(c, fd, fd_links),
         timer_links' = Links!list_add_tail(c, g_net_timer,
                          Links!INIT_LIST_HEAD(c, timer_links))
  PROVE  /\ FdRings' /\ TimerRing'
         /\ fd_links' \in Links!Memories(FdNodes, {Unset} \cup FdNodes)
         /\ timer_links' \in Links!Memories(TimerNodes, {Unset} \cup TimerNodes)
<1>1. /\ fd_links \in Links!Memories(FdNodes, {Unset} \cup FdNodes)
      /\ timer_links \in Links!Memories(TimerNodes, {Unset} \cup TimerNodes)
      /\ c \in FdNodes /\ c \in TimerNodes
      /\ fd \in FdNodes /\ g_net_timer \in TimerNodes /\ c # g_net_timer /\ c # fd
      /\ fd_list \in [Fds -> Seq(Items)] /\ timer \in Seq(Items)
  BY HeadsApart DEF LinksTyped, TypeOK
<1>2. \A f \in Fds : /\ fd_list[f] \in Seq(FdNodes) /\ fd_list[f] \in Seq(Items)
                     /\ c \notin Range(fd_list[f])
                     /\ Range(fd_list[f]) \subseteq Items
                     /\ IsInjective(fd_list[f])
                     /\ Links!IsList(fd_links, f, fd_list[f])
                     /\ f \in FdNodes /\ f # c
  BY <1>1, NodeLists, HeadsApart DEF Coherent, FdOk, FdRings, Live, TypeOK
<1>3. /\ timer \in Seq(TimerNodes) /\ c \notin Range(timer) /\ IsInjective(timer)
      /\ Range(timer) \subseteq Items
      /\ Links!IsList(timer_links, g_net_timer, timer)
  BY <1>1, NodeLists DEF Coherent, TimerOk, TimerRing, Live, TypeOK
<1>4. Links!IsList(fd_links', fd, fd_list'[fd])
  BY <1>1, <1>2, AddTailRing
<1>5. ASSUME NEW f \in Fds, f # fd PROVE Links!IsList(fd_links', f, fd_list'[f])
  <2>1. Range(fd_list[fd]) \cap Range(fd_list[f]) = {}
    BY <1>5 DEF Coherent, FdOk
  <2>2. ({fd} \cup Range(fd_list[fd])) \cap ({f} \cup Range(fd_list[f])) = {}
    BY <1>2, <1>5, <2>1, HeadsApart
  <2>3. c \in FdNodes \ ({fd, f} \cup Range(fd_list[fd]) \cup Range(fd_list[f]))
    BY <1>1, <1>2
  <2>4. Links!IsList(fd_links', f, fd_list[f])
    BY <1>1, <1>2, <2>2, <2>3, OtherRings
  <2>5. fd_list'[f] = fd_list[f]
    BY <1>1, <1>5
  <2>6. QED
    BY <2>4, <2>5
<1>6. FdRings'
  BY <1>4, <1>5 DEF FdRings
<1> DEFINE m == Links!INIT_LIST_HEAD(c, timer_links)
<1>7. m \in Links!Memories(TimerNodes, {Unset} \cup TimerNodes)
  BY <1>1, StoresTyped
<1>8. Links!IsList(m, g_net_timer, timer)
  BY <1>1, <1>3, InitOther
<1> HIDE DEF m
<1>9. TimerRing'
  <2>1. Links!IsList(Links!list_add_tail(c, g_net_timer, m), g_net_timer,
                     list_add_tail(c, timer))
    BY <1>1, <1>3, <1>7, <1>8, AddTailRing
  <2>2. QED
    BY <2>1 DEF TimerRing, m
<1>10. fd_links' \in Links!Memories(FdNodes, {Unset} \cup FdNodes)
  <2>1. fd_links.prev[fd] \in FdNodes
    BY <1>1, <1>2, RingLinks
  <2>2. QED
    BY <1>1, <2>1, StoresTyped
<1>11. timer_links' \in Links!Memories(TimerNodes, {Unset} \cup TimerNodes)
  <2>1. m.prev[g_net_timer] \in TimerNodes
    BY <1>1, <1>3, <1>8, RingLinks
  <2>2. Links!list_add_tail(c, g_net_timer, m)
          \in Links!Memories(TimerNodes, {Unset} \cup TimerNodes)
    BY <1>1, <1>7, <2>1, StoresTyped
  <2>3. QED
    BY <2>2 DEF m
<1>12. QED
  BY <1>6, <1>9, <1>10, <1>11

(***************************************************************************)
(* An item in flight is taken out of the ring of its descriptor and out of *)
(* the timer's, and no other ring is touched.                              *)
(***************************************************************************)
LEMMA RingsOfUnlink ==
  ASSUME TypeOK, Coherent, LinksTyped, FdRings, TimerRing, is_running_, is_running_',
         NEW c \in Live, item[c].cli_fd \in Fds,
         fd_list' = [f \in Fds |-> list_del_init(c, fd_list[f])],
         timer' = list_del_init(c, timer),
         fd_links' = Links!list_del_init(c, fd_links),
         timer_links' = Links!list_del_init(c, timer_links)
  PROVE  /\ FdRings' /\ TimerRing'
         /\ Links!IsList(timer_links', c, << >>)
         /\ fd_links' \in Links!Memories(FdNodes, {Unset} \cup FdNodes)
         /\ timer_links' \in Links!Memories(TimerNodes, {Unset} \cup TimerNodes)
<1> DEFINE fd == item[c].cli_fd
<1>1. /\ fd_links \in Links!Memories(FdNodes, {Unset} \cup FdNodes)
      /\ timer_links \in Links!Memories(TimerNodes, {Unset} \cup TimerNodes)
      /\ c \in Items /\ c \in FdNodes /\ c \in TimerNodes
      /\ fd \in Fds /\ fd \in FdNodes /\ g_net_timer \in TimerNodes
      /\ fd_list \in [Fds -> Seq(Items)] /\ timer \in Seq(Items)
  BY HeadsApart DEF LinksTyped, TypeOK, Live
<1>2. \A f \in Fds : /\ fd_list[f] \in Seq(FdNodes) /\ fd_list[f] \in Seq(Items)
                     /\ Range(fd_list[f]) \subseteq Items
                     /\ IsInjective(fd_list[f])
                     /\ Links!IsList(fd_links, f, fd_list[f])
                     /\ f \in FdNodes /\ f \notin Items
  BY <1>1, NodeLists, HeadsApart DEF Coherent, FdOk, FdRings, Live, TypeOK
<1>3. /\ timer \in Seq(TimerNodes) /\ c \in Range(timer)
      /\ Links!IsList(timer_links, g_net_timer, timer)
  BY <1>1, NodeLists DEF Coherent, TimerOk, TimerRing
<1>4. c \in Range(fd_list[fd])
  BY <1>1 DEF Coherent, FdOk
<1> HIDE DEF fd
<1>5. \A f \in Fds : f # fd => c \notin Range(fd_list[f])
  BY DEF Coherent, FdOk, fd
<1>6. \A f \in Fds : fd_list'[f] = list_del_init(c, fd_list[f])
  OBVIOUS
<1>7. Links!IsList(fd_links', fd, fd_list'[fd])
  <2>1. Links!IsList(Links!list_del_init(c, fd_links), fd, list_del_init(c, fd_list[fd]))
    BY <1>1, <1>2, <1>4, DelInitRing
  <2>2. QED
    BY <1>1, <1>6, <2>1
<1>8. ASSUME NEW f \in Fds, f # fd PROVE Links!IsList(fd_links', f, fd_list'[f])
  <2>1. Range(fd_list[fd]) \cap Range(fd_list[f]) = {}
    BY <1>1, <1>8 DEF Coherent, FdOk
  <2>2. ({fd} \cup Range(fd_list[fd])) \cap ({f} \cup Range(fd_list[f])) = {}
    BY <1>1, <1>2, <1>8, <2>1
  <2>3. Links!IsList(Links!list_del_init(c, fd_links), f, fd_list[f])
    BY <1>1, <1>2, <1>4, <2>2, OtherRings
  <2>4. fd_list'[f] = fd_list[f]
    BY <1>2, <1>5, <1>6, <1>8, DelHead
  <2>5. QED
    BY <2>3, <2>4
<1>9. FdRings'
  BY <1>7, <1>8 DEF FdRings
<1>10. /\ Links!IsList(timer_links', g_net_timer, timer')
       /\ Links!IsList(timer_links', c, << >>)
  <2>1. /\ Links!IsList(Links!list_del_init(c, timer_links), g_net_timer,
                        list_del_init(c, timer))
        /\ Links!IsList(Links!list_del_init(c, timer_links), c, << >>)
    BY <1>1, <1>3, DelInitRing
  <2>2. QED
    BY <2>1
<1>11. fd_links' \in Links!Memories(FdNodes, {Unset} \cup FdNodes)
  <2>1. fd_links.prev[c] \in FdNodes /\ fd_links.next[c] \in FdNodes
    BY <1>1, <1>2, <1>4, RingLinks
  <2>2. QED
    BY <1>1, <2>1, StoresTyped
<1>12. timer_links' \in Links!Memories(TimerNodes, {Unset} \cup TimerNodes)
  <2>1. timer_links.prev[c] \in TimerNodes /\ timer_links.next[c] \in TimerNodes
    BY <1>1, <1>3, RingLinks
  <2>2. QED
    BY <1>1, <2>1, StoresTyped
<1>13. QED
  BY <1>9, <1>10, <1>11, <1>12 DEF TimerRing

-----------------------------------------------------------------------------

(***************************************************************************)
(* The inductive invariant of the memory: with what the pointers stand for *)
(* (MemoryOK), the indices agree, every request has its client's           *)
(* descriptor and so a ring, and the event loop is in its loops only while *)
(* the server runs.                                                        *)
(***************************************************************************)
IMemory ==
  /\ MemoryOK
  /\ IndexCoherence
  /\ LoopOk
  /\ NoOrphans

(***************************************************************************)
(* Where the loop stands is the entry that Proxy takes.                    *)
(***************************************************************************)
LEMMA LoopIsAtHead ==
  ASSUME IMemory
  PROVE  /\ main = "timer" => /\ loop.pos = g_net_timer <=> timer = << >>
                              /\ timer # << >> => loop.pos = Head(timer)
         /\ main = "linkdown" => /\ loop.pos = main_fd <=> fd_list[main_fd] = << >>
                                 /\ fd_list[main_fd] # << >> =>
                                      loop.pos = Head(fd_list[main_fd])
<1>1. ASSUME main = "timer"
      PROVE  /\ loop.pos = g_net_timer <=> timer = << >>
             /\ timer # << >> => loop.pos = Head(timer)
  <2>1. loop.pos = Links!At(g_net_timer, timer, 1)
    BY <1>1 DEF IMemory, MemoryOK, LoopOnRing, At
  <2>2. timer \in Seq(Items)
    BY DEF IMemory, MemoryOK, TypeOK
  <2>3. timer # << >> => Head(timer) \in Items
    BY <2>2
  <2>4. QED
    BY <2>1, <2>2, <2>3, LoopPlaces, NodeLists, HeadsApart
<1>2. ASSUME main = "linkdown"
      PROVE  /\ loop.pos = main_fd <=> fd_list[main_fd] = << >>
             /\ fd_list[main_fd] # << >> => loop.pos = Head(fd_list[main_fd])
  <2> DEFINE s == fd_list[main_fd]
  <2>1. loop.pos = Links!At(main_fd, s, 1)
    BY <1>2 DEF IMemory, MemoryOK, LoopOnRing, At
  <2>2. s \in Seq(Items) /\ main_fd \in Fds
    BY <1>2 DEF IMemory, MemoryOK, TypeOK
  <2> HIDE DEF s
  <2>3. s # << >> => Head(s) \in Items
    BY <2>2
  <2>4. loop.pos = main_fd <=> s = << >>
    BY <2>1, <2>2, <2>3, LoopPlaces, NodeLists, HeadsApart
  <2>5. s # << >> => loop.pos = Head(s)
    BY <2>1, <2>2, LoopPlaces, NodeLists, HeadsApart
  <2>6. QED
    BY <2>4, <2>5 DEF s
<1>3. QED
  BY <1>1, <1>2

(***************************************************************************)
(* Every step on the pointers is a step of Proxy.                          *)
(***************************************************************************)
LEMMA StepIsProxys == IMemory /\ [MNext]_memVars => [Next]_vars
<1> SUFFICES ASSUME IMemory, [MNext]_memVars PROVE [Next]_vars
  OBVIOUS
<1>1. CASE Elsewhere
  BY <1>1 DEF Elsewhere, Next, Callback, CallbackStep
<1>2. ASSUME NEW fd \in Fds, MLinkDownCli(fd) \/ MProcPkgCliNoMem(fd)
      PROVE  [Next]_vars
  BY <1>2 DEF MLinkDownCli, MProcPkgCliNoMem, Next, Callback
<1>3. ASSUME NEW fd \in Fds, NEW cmd \in Cmds, MProcPkgCli(fd, cmd)
      PROVE  [Next]_vars
  BY <1>3 DEF MProcPkgCli, Next, Callback
<1>4. CASE MTimeEvent \/ MUninit
  BY <1>4 DEF MTimeEvent, MUninit, Next, Callback
<1>5. CASE MDoServerTimeout
  <2>1. main = "timer" /\ timer # << >> /\ loop.pos = Head(timer)
    BY <1>5, LoopIsAtHead DEF MDoServerTimeout
  <2>2. DoServerTimeout
    BY <1>5, <2>1 DEF MDoServerTimeout, DoServerTimeout
  <2>3. QED
    BY <2>2 DEF Next, CallbackStep
<1>6. CASE MTimeEventEnd
  <2>1. main = "timer" /\ (timer # << >> => ~Expired(Head(timer)))
    BY <1>6, LoopIsAtHead DEF MTimeEventEnd
  <2>2. TimeEventEnd
    BY <1>6, <2>1 DEF MTimeEventEnd, TimeEventEnd
  <2>3. QED
    BY <2>2 DEF Next, CallbackStep
<1>7. CASE MLinkDownCliEntry
  <2>1. /\ main = "linkdown" /\ fd_list[main_fd] # << >>
        /\ loop.pos = Head(fd_list[main_fd])
    BY <1>7, LoopIsAtHead DEF MLinkDownCliEntry
  <2>2. LinkDownCliEntry
    BY <1>7, <2>1 DEF MLinkDownCliEntry, LinkDownCliEntry
  <2>3. QED
    BY <2>2 DEF Next, CallbackStep
<1>8. CASE MLinkDownCliEnd
  <2>1. fd_list[main_fd] = << >>
    BY <1>8, LoopIsAtHead DEF MLinkDownCliEnd
  <2>2. LinkDownCliEnd
    BY <1>8, <2>1 DEF MLinkDownCliEnd, LinkDownCliEnd
  <2>3. QED
    BY <2>2 DEF Next, CallbackStep
<1>9. CASE UNCHANGED memVars
  BY <1>9 DEF memVars
<1>10. QED
  BY <1>1, <1>2, <1>3, <1>4, <1>5, <1>6, <1>7, <1>8, <1>9 DEF MNext

-----------------------------------------------------------------------------
(* Induction and recursion over a number *)

(***************************************************************************)
(* Induction from 0 up to N, over a set of numbers.                        *)
(***************************************************************************)
LEMMA Induction ==
  ASSUME NEW N \in Nat, NEW S, 0 \in S, \A i \in 1..N : i - 1 \in S => i \in S
  PROVE  \A i \in 0..N : i \in S
<1> DEFINE less == {p \in Nat \X Nat : p[1] < p[2]}
           bad == {i \in 0..N : i \notin S}
<1>1. IsWellFoundedOn(less, Nat)
  <2>1. OpToRel(<, Nat) = less
    BY DEF OpToRel
  <2>2. QED
    BY <2>1, NatLessThanWellFounded
<1>2. SUFFICES ASSUME bad # {} PROVE FALSE
  OBVIOUS
<1>3. bad \subseteq Nat
  OBVIOUS
<1> HIDE DEF less
<1>4. PICK x \in bad : \A y \in bad : ~(<<y, x>> \in less)
  <2> HIDE DEF bad
  <2>1. QED
    BY <1>1, <1>2, <1>3, WFMin
<1>5. x \in 1..N /\ x - 1 \notin S
  OBVIOUS
<1>6. x - 1 \in bad /\ x - 1 \in Nat /\ x \in Nat /\ x - 1 < x
  BY <1>5
<1>7. <<x - 1, x>> \in Nat \X Nat /\ <<x - 1, x>>[1] < <<x - 1, x>>[2]
  BY <1>6
<1>8. QED
  BY <1>4, <1>6, <1>7 DEF less

(***************************************************************************)
(* A function is defined by its value at 0 and its step.                   *)
(***************************************************************************)
Steps(g, N, S, base, step) ==
  /\ g \in [0..N -> S]
  /\ g[0] = base
  /\ \A i \in 1..N : g[i] = step[i][g[i - 1]]

(***************************************************************************)
(* A recursive function over 0..N exists, and takes the values that its    *)
(* definition gives it.                                                    *)
(***************************************************************************)
LEMMA Recursion ==
  ASSUME NEW N \in Nat, NEW S, NEW base \in S, NEW step \in [1..N -> [S -> S]]
  PROVE  \E g : Steps(g, N, S, base, step)
<1> DEFINE upTo(n, g) == g[0] = base /\ \A i \in 1..n : g[i] = step[i][g[i - 1]]
           D == {n \in Nat : \E g \in [0..n -> S] : upTo(n, g)}
<1>1. 0 \in D
  <2>1. [i \in 0..0 |-> base] \in [0..0 -> S] /\ upTo(0, [i \in 0..0 |-> base])
    OBVIOUS
  <2>2. QED
    BY <2>1
<1>2. ASSUME NEW n \in 1..N, n - 1 \in D PROVE n \in D
  <2>1. PICK g \in [0..(n - 1) -> S] : upTo(n - 1, g)
    BY <1>2
  <2> DEFINE h == [i \in 0..n |-> IF i < n THEN g[i] ELSE step[n][g[n - 1]]]
  <2>2. h \in [0..n -> S]
    <3>1. g[n - 1] \in S
      OBVIOUS
    <3>2. step[n] \in [S -> S]
      OBVIOUS
    <3>3. step[n][g[n - 1]] \in S
      BY <3>1, <3>2
    <3>4. \A i \in 0..n : i < n => g[i] \in S
      OBVIOUS
    <3>5. QED
      BY <3>3, <3>4
  <2>3. h[0] = base
    BY <2>1
  <2>4. ASSUME NEW i \in 1..n PROVE h[i] = step[i][h[i - 1]]
    <3>1. h[i - 1] = g[i - 1]
      OBVIOUS
    <3>2. CASE i = n
      BY <3>1, <3>2
    <3>3. CASE i # n
      <4>1. i \in 1..(n - 1) /\ h[i] = g[i]
        BY <3>3
      <4>2. QED
        BY <2>1, <3>1, <4>1
    <3>4. QED
      BY <3>2, <3>3
  <2> HIDE DEF h
  <2>5. upTo(n, h) /\ n \in Nat
    BY <2>3, <2>4
  <2>6. QED
    BY <2>2, <2>5
<1> HIDE DEF D
<1>3. \A n \in 1..N : n - 1 \in D => n \in D
  BY <1>2
<1>4. \A n \in 0..N : n \in D
  BY <1>1, <1>3, Induction
<1>5. N \in D
  BY <1>4
<1>6. QED
  BY <1>5 DEF D, Steps

-----------------------------------------------------------------------------
(* The loop of timer_uninit *)

(***************************************************************************)
(* At each turn of the loop the links are a ring of the entries that are   *)
(* left, and the loop stands at the first of them.                         *)
(***************************************************************************)
Memory == Links!Memories(TimerNodes, {Unset} \cup TimerNodes)

Walks(d, s) == Links!IsList(d.links, g_net_timer, s) /\ d.loop = At(g_net_timer, s)

Walking == {d \in [links : Memory, loop : [pos : TimerNodes, next : TimerNodes]] :
              \E s \in Seq(Items) : Walks(d, s)}

(***************************************************************************)
(* The places of the timer list are its head and items.                    *)
(***************************************************************************)
LEMMA AtNodes ==
  ASSUME NEW s \in Seq(Items)
  PROVE  At(g_net_timer, s) \in [pos : TimerNodes, next : TimerNodes]
<1>1. \A i \in 1..Len(s) : s[i] \in Items
  OBVIOUS
<1>2. \A i \in 1..2 : Links!At(g_net_timer, s, i) \in TimerNodes
  BY <1>1, HeadsApart DEF Links!At
<1>3. QED
  BY <1>2 DEF At

(***************************************************************************)
(* Before its first turn the loop has all of the timer list to delete.     *)
(***************************************************************************)
LEMMA UninitStarts ==
  ASSUME TypeOK, LinksTyped, TimerRing
  PROVE  UninitLoop \in Walking /\ Walks(UninitLoop, timer)
<1>1. timer \in Seq(Items) /\ timer_links \in Memory
  BY DEF TypeOK, LinksTyped, Memory
<1>2. Links!list_for_each_safe(g_net_timer, timer_links) = At(g_net_timer, timer)
  BY <1>1, LoopStarts, NodeLists, HeadsApart DEF Links!list_for_each_safe, At, TimerRing
<1>3. UninitLoop = [links |-> timer_links, loop |-> At(g_net_timer, timer)]
  BY <1>2 DEF UninitLoop
<1>4. Walks(UninitLoop, timer)
  BY <1>3 DEF Walks, TimerRing
<1>5. At(g_net_timer, timer) \in [pos : TimerNodes, next : TimerNodes]
  BY <1>1, AtNodes
<1>6. UninitLoop \in [links : Memory, loop : [pos : TimerNodes, next : TimerNodes]]
  BY <1>1, <1>3, <1>5
<1>7. QED
  BY <1>1, <1>4, <1>6 DEF Walking

(***************************************************************************)
(* A turn of the loop deletes the first entry that is left, and no other,  *)
(* and at the head it stays there.                                         *)
(***************************************************************************)
LEMMA UninitGoesOn ==
  ASSUME NEW d \in Walking, NEW s \in Seq(Items), Walks(d, s)
  PROVE  /\ OneDeleted(d) \in Walking
         /\ IF d.loop.pos = g_net_timer THEN s = << >> /\ OneDeleted(d) = d
            ELSE s # << >> /\ Tail(s) \in Seq(Items) /\ Walks(OneDeleted(d), Tail(s))
<1>1. /\ d.links \in Memory /\ Links!IsList(d.links, g_net_timer, s)
      /\ d.loop = At(g_net_timer, s) /\ s \in Seq(TimerNodes)
  BY NodeLists DEF Walking, Walks
<1>2. CASE d.loop.pos = g_net_timer
  <2>1. s = << >>
    <3>1. Links!At(g_net_timer, s, 1) = g_net_timer
      BY <1>1, <1>2 DEF At
    <3>2. s # << >> => Head(s) \in Items /\ Links!At(g_net_timer, s, 1) = Head(s)
      BY <1>1, LoopPlaces, HeadsApart
    <3>3. QED
      BY <3>1, <3>2, HeadsApart
  <2>2. QED
    BY <1>2, <2>1 DEF OneDeleted
<1>3. CASE d.loop.pos # g_net_timer
  <2> DEFINE m == Links!list_del_init(d.loop.pos, d.links)
             e == [links |-> m, loop |-> Links!next_entry(d.loop, m)]
  <2>1. s # << >> /\ d.loop.pos = Head(s)
    <3>1. d.loop.pos = Links!At(g_net_timer, s, 1)
      BY <1>1 DEF At
    <3>2. QED
      BY <1>1, <1>3, <3>1, LoopPlaces, HeadsApart
  <2>2. IsInjective(s) /\ Head(s) \in Range(s) /\ Tail(s) \in Seq(Items)
    <3>1. IsInjective(s)
      BY <1>1, Places, HeadsApart DEF Links!IsList
    <3>2. QED
      BY <2>1, <3>1, HeadInRange
  <2>3. Links!IsList(m, g_net_timer, Tail(s))
    <3>1. Links!IsList(Links!list_del_init(Head(s), d.links), g_net_timer,
                       list_del_init(Head(s), s))
      BY <1>1, <2>2, DelInitRing, HeadsApart DEF Memory
    <3>2. list_del_init(Head(s), s) = Tail(s)
      BY <2>1, <2>2, DelHead
    <3>3. QED
      BY <2>1, <3>1, <3>2
  <2>4. m \in Memory
    <3>1. d.links.prev[Head(s)] \in TimerNodes /\ d.links.next[Head(s)] \in TimerNodes
      BY <1>1, <2>2, RingLinks, HeadsApart
    <3>2. Head(s) \in TimerNodes
      BY <2>1, HeadsApart
    <3>3. QED
      BY <1>1, <2>1, <3>1, <3>2, StoresTyped DEF Memory
  <2> HIDE DEF m
  <2>5. Links!next_entry(d.loop, m) = At(g_net_timer, Tail(s))
    BY <1>1, <2>1, <2>3, LoopGoesOn, HeadsApart
  <2>6. e = [links |-> m, loop |-> At(g_net_timer, Tail(s))]
    BY <2>5
  <2> HIDE DEF e
  <2>7. Walks(e, Tail(s))
    BY <2>3, <2>6 DEF Walks
  <2>8. e \in [links : Memory, loop : [pos : TimerNodes, next : TimerNodes]]
    <3>1. At(g_net_timer, Tail(s)) \in [pos : TimerNodes, next : TimerNodes]
      BY <2>2, AtNodes
    <3>2. QED
      BY <2>4, <2>6, <3>1
  <2>9. e \in Walking
    BY <2>2, <2>7, <2>8 DEF Walking
  <2>10. OneDeleted(d) = e
    BY <1>3 DEF OneDeleted, e, m
  <2>11. QED
    BY <1>3, <2>1, <2>2, <2>7, <2>9, <2>10
<1>4. QED
  BY <1>2, <1>3

UninitRuns(h) ==
  h = [n \in 0..NItems |-> IF n = 0 THEN UninitLoop ELSE OneDeleted(h[n - 1])]

(***************************************************************************)
(* No list of distinct items is longer than there are items.               *)
(***************************************************************************)
LEMMA NotLonger ==
  ASSUME NEW s \in Seq(Items), IsInjective(s)
  PROVE  Len(s) <= NItems
<1>1. /\ NItems \in Nat /\ Len(s) \in Nat
      /\ s \in [1..Len(s) -> Items] /\ DOMAIN s = 1..Len(s)
  BY NItemsAssumption
<1>2. /\ IsFiniteSet(1..Len(s)) /\ Cardinality(1..Len(s)) = Len(s)
      /\ IsFiniteSet(1..NItems) /\ Cardinality(1..NItems) = NItems
  <2>1. ASSUME NEW n \in Nat PROVE IsFiniteSet(1..n) /\ Cardinality(1..n) = n
    <3>1. /\ IsFiniteSet(1..n)
          /\ Cardinality(1..n) = IF 1 > n THEN 0 ELSE n - 1 + 1
      BY FS_Interval
    <3>2. QED
      BY <3>1
  <2>2. QED
    BY <1>1, <2>1
<1>3. Cardinality(1..NItems) < Cardinality(1..Len(s)) =>
        \E x, y \in 1..Len(s) : x # y /\ s[x] = s[y]
  BY <1>1, <1>2, FS_PigeonHole DEF Items
<1>4. QED
  BY <1>1, <1>2, <1>3 DEF IsInjective

(***************************************************************************)
(* The function Deleted is what its definition says.                       *)
(***************************************************************************)
LEMMA UninitTurns ==
  ASSUME TypeOK, LinksTyped, TimerRing
  PROVE  /\ Deleted[0] = UninitLoop
         /\ \A n \in 1..NItems : Deleted[n] = OneDeleted(Deleted[n - 1])
<1> DEFINE step == [n \in 1..NItems |-> [d \in Walking |-> OneDeleted(d)]]
<1>1. NItems \in Nat /\ UninitLoop \in Walking
  BY NItemsAssumption, UninitStarts
<1>2. step \in [1..NItems -> [Walking -> Walking]]
  <2>1. ASSUME NEW d \in Walking PROVE OneDeleted(d) \in Walking
    <3>1. PICK s \in Seq(Items) : Walks(d, s)
      BY DEF Walking
    <3>2. QED
      BY <3>1, UninitGoesOn
  <2>2. QED
    BY <2>1
<1>3. \E h : UninitRuns(h)
  <2>1. PICK g : Steps(g, NItems, Walking, UninitLoop, step)
    <3> HIDE DEF step
    <3>1. QED
      BY <1>1, <1>2, Recursion
  <2>2. g \in [0..NItems -> Walking] /\ g[0] = UninitLoop
    BY <2>1 DEF Steps
  <2>3. ASSUME NEW n \in 1..NItems PROVE g[n] = OneDeleted(g[n - 1])
    <3>1. n - 1 \in 0..NItems
      BY <1>1
    <3>2. g[n - 1] \in Walking
      BY <2>2, <3>1
    <3>3. QED
      BY <2>1, <3>2 DEF Steps
  <2>4. \A n \in 0..NItems : g[n] = IF n = 0 THEN UninitLoop ELSE OneDeleted(g[n - 1])
    BY <1>1, <2>2, <2>3
  <2>5. UninitRuns(g)
    BY <2>2, <2>4 DEF UninitRuns
  <2>6. QED
    BY <2>5
<1>4. Deleted = CHOOSE h : UninitRuns(h)
  BY DEF Deleted, UninitRuns
<1>5. UninitRuns(Deleted)
  BY <1>3, <1>4
<1>6. QED
  BY <1>1, <1>5 DEF UninitRuns

(***************************************************************************)
(* After n turns the entries that are left are a ring of at most NItems - n*)
(* items, so that after NItems turns the loop is at the head, where it     *)
(* ends.                                                                   *)
(***************************************************************************)
LEMMA UninitWalks ==
  ASSUME TypeOK, LinksTyped, TimerRing
  PROVE  Deleted[NItems].links \in Memory /\ Deleted[NItems].loop.pos = g_net_timer
<1>1. NItems \in Nat /\ timer \in Seq(Items)
  BY NItemsAssumption DEF TypeOK
<1>2. Len(timer) <= NItems
  <2>1. IsInjective(timer)
    BY <1>1, NodeLists, HeadsApart, Places DEF TimerRing, Links!IsList
  <2>2. QED
    BY <1>1, <2>1, NotLonger
<1> DEFINE Left(n, s) == Walks(Deleted[n], s) /\ Len(s) <= NItems - n
           S == {n \in 0..NItems :
                   Deleted[n] \in Walking /\ \E s \in Seq(Items) : Left(n, s)}
<1>3. 0 \in S
  <2>1. UninitLoop \in Walking /\ Walks(UninitLoop, timer)
    BY UninitStarts
  <2>2. Len(timer) <= NItems - 0
    BY <1>1, <1>2
  <2>3. QED
    BY <1>1, <2>1, <2>2, UninitTurns
<1>4. ASSUME NEW n \in 1..NItems, n - 1 \in S PROVE n \in S
  <2>1. PICK s \in Seq(Items) : Left(n - 1, s)
    BY <1>4
  <2>2. Deleted[n - 1] \in Walking /\ Deleted[n] = OneDeleted(Deleted[n - 1])
    BY <1>4, UninitTurns
  <2>3. Deleted[n] \in Walking
    BY <2>1, <2>2, UninitGoesOn
  <2>4. CASE Deleted[n - 1].loop.pos = g_net_timer
    <3>1. s = << >> /\ Deleted[n] = Deleted[n - 1]
      BY <2>1, <2>2, <2>4, UninitGoesOn
    <3>2. Len(s) <= NItems - n
      BY <1>1, <3>1
    <3>3. Left(n, s)
      BY <2>1, <3>1, <3>2
    <3>4. QED
      BY <2>3, <3>3
  <2>5. CASE Deleted[n - 1].loop.pos # g_net_timer
    <3>1. s # << >> /\ Tail(s) \in Seq(Items) /\ Walks(Deleted[n], Tail(s))
      BY <2>1, <2>2, <2>5, UninitGoesOn
    <3>2. Len(Tail(s)) <= NItems - n
      BY <1>1, <2>1, <3>1
    <3>3. Left(n, Tail(s))
      BY <3>1, <3>2
    <3> HIDE DEF Left
    <3>4. \E r \in Seq(Items) : Left(n, r)
      BY <3>1, <3>3
    <3>5. QED
      BY <2>3, <3>4
  <2>6. QED
    BY <2>4, <2>5
<1> HIDE DEF S
<1>5. \A n \in 0..NItems : n \in S
  BY <1>1, <1>3, <1>4, Induction
<1>6. NItems \in S
  BY <1>1, <1>5
<1>7. PICK s \in Seq(Items) : Walks(Deleted[NItems], s) /\ Len(s) <= NItems - NItems
  BY <1>6 DEF S
<1>8. s = << >>
  BY <1>1, <1>7
<1>9. Links!At(g_net_timer, s, 1) = g_net_timer
  BY <1>8, NodeLists, LoopPlaces, HeadsApart
<1>10. QED
  BY <1>6, <1>7, <1>9 DEF S, Walking, Walks, At

-----------------------------------------------------------------------------
(* The steps *)

(***************************************************************************)
(* What of the memory holds in any state the event loop is in.             *)
(***************************************************************************)
Pointers == LinksTyped /\ FdRings /\ TimerRing /\ FreeList /\ Carved

(***************************************************************************)
(* Every list is empty at first, and nothing is carved.                    *)
(***************************************************************************)
LEMMA PointersInit == Init /\ MInit => MemoryOK
<1> SUFFICES ASSUME Init, MInit PROVE MemoryOK
  OBVIOUS
<1>1. TypeOK
  BY TypeInit
<1>2. LinksTyped
  <2>1. Fresh(FdNodes, Fds) \in Links!Memories(FdNodes, {Unset} \cup FdNodes)
    BY DEF Fresh, Links!Memories
  <2>2. Fresh(TimerNodes, {g_net_timer})
          \in Links!Memories(TimerNodes, {Unset} \cup TimerNodes)
    BY DEF Fresh, Links!Memories
  <2>3. chunks \in 1..NChunks /\ chunk_pos \in 0..total_alloc_item
    BY ChunksAssumption, ChunkHolds DEF MInit
  <2>4. first_word \in [Items -> {NULL, Unset} \cup Items]
    BY DEF MInit
  <2>5. QED
    BY <2>1, <2>2, <2>3, <2>4 DEF MInit, LinksTyped
<1>3. FdRings
  BY HeadsApart DEF FdRings, Init, MInit, Fresh, Links!IsList, Links!Linked, Links!At,
                    Links!Different
<1>4. TimerRing
  BY HeadsApart DEF TimerRing, Init, MInit, Fresh, Links!IsList, Links!Linked, Links!At,
                    Links!Different
<1>5. LoopOnRing
  BY DEF LoopOnRing, Init
<1>6. FreeList
  BY DEF FreeList, Init, MInit, Links!At
<1>7. Carved
  BY ChunksAssumption, ChunkHolds DEF Carved, Init, MInit
<1>8. QED
  BY <1>1, <1>2, <1>3, <1>4, <1>5, <1>6, <1>7 DEF MemoryOK

\* A step that leaves the lists and the pointers leaves them in agreement.
LEMMA PointersKept ==
  ASSUME Pointers,
         UNCHANGED <<fd_list, timer, reuse, alloc_pool_pos, is_running_>>,
         UNCHANGED <<fd_links, timer_links, chunkVars>>
  PROVE  Pointers'
<1>1. LinksTyped'
  BY DEF Pointers, LinksTyped, chunkVars
<1>2. FdRings'
  BY DEF Pointers, FdRings
<1>3. TimerRing'
  BY DEF Pointers, TimerRing
<1>4. FreeList' /\ Carved'
  BY DEF Pointers, FreeList, Carved, chunkVars
<1>5. QED
  BY <1>1, <1>2, <1>3, <1>4 DEF Pointers

(***************************************************************************)
(* DestroyClient of an item in flight, on the pointers.                    *)
(***************************************************************************)
LEMMA PointersUnlink ==
  ASSUME TypeOK, Coherent, Pointers, is_running_, is_running_',
         NEW c \in Live, item[c].cli_fd \in Fds,
         DestroyClient(item[c].ser_seq),
         Unlink(item[c].ser_seq, timer_links)
  PROVE  Pointers'
<1>1. client_info_map[item[c].ser_seq] = c
  BY FindsItsOwn
<1>2. /\ fd_list' = [f \in Fds |-> list_del_init(c, fd_list[f])]
      /\ timer' = list_del_init(c, timer)
      /\ mempool_free(c) /\ UNCHANGED alloc_pool_pos
  BY <1>1 DEF DestroyClient, timer_del_event
<1>3. /\ fd_links' = Links!list_del_init(c, fd_links)
      /\ timer_links' = Links!list_del_init(c, timer_links)
      /\ link_free(c)
  BY <1>1 DEF Unlink
<1>4. c \in Items /\ c \notin Range(reuse)
  BY DEF Coherent, PoolOk, Live, TypeOK
<1>5. /\ FdRings' /\ TimerRing'
      /\ fd_links' \in Links!Memories(FdNodes, {Unset} \cup FdNodes)
      /\ timer_links' \in Links!Memories(TimerNodes, {Unset} \cup TimerNodes)
  BY <1>2, <1>3, RingsOfUnlink DEF Pointers
<1>6. /\ FreeList' /\ Carved'
      /\ first_word' \in [Items -> {NULL, Unset} \cup Items]
      /\ chunks' \in 1..NChunks /\ chunk_pos' \in 0..total_alloc_item
  BY <1>2, <1>3, <1>4, FreeKeepsPool DEF Pointers
<1>7. QED
  BY <1>5, <1>6 DEF Pointers, LinksTyped

(***************************************************************************)
(* A turn of timer_check_event: the event is deleted twice, once by the    *)
(* loop and once by DestroyClient, and the second time it is alone.        *)
(***************************************************************************)
LEMMA TimeoutOnPointers ==
  ASSUME IMemory, MDoServerTimeout
  PROVE  Pointers' /\ LoopOnRing'
<1> DEFINE c == Head(timer)
<1>1. /\ main = "timer" /\ main' = "timer" /\ is_running_ /\ is_running_'
      /\ TypeOK /\ Coherent /\ Pointers
  BY DEF IMemory, MemoryOK, Pointers, LoopOk, IndexCoherence, MDoServerTimeout, mainVars
<1>2. timer # << >> /\ loop.pos = c /\ timer \in Seq(Items)
  BY <1>1, LoopIsAtHead DEF MDoServerTimeout, TypeOK
<1>3. c \in Live /\ c \in Range(timer) /\ IsInjective(timer)
  BY <1>1, <1>2, HeadInRange DEF Coherent, TimerOk
<1>4. item[c].cli_fd \in Fds
  BY <1>1, <1>3 DEF IMemory, NoOrphans, TypeOK
<1>5. client_info_map[item[c].ser_seq] = c
  BY <1>1, <1>3, FindsItsOwn
<1> DEFINE m == Links!list_del_init(c, timer_links)
<1>6. Links!list_del_init(c, m) = m
  <2>1. timer_links \in Links!Memories(TimerNodes, {Unset} \cup TimerNodes)
    BY <1>1 DEF Pointers, LinksTyped
  <2>2. Links!IsList(timer_links, g_net_timer, timer) /\ timer \in Seq(TimerNodes)
    BY <1>1, <1>2, NodeLists DEF Pointers, TimerRing
  <2>3. Links!IsList(m, c, << >>)
    BY <1>3, <2>1, <2>2, DelInitRing, HeadsApart
  <2>4. c \in TimerNodes
    BY <1>2, HeadInRange, HeadsApart
  <2>5. m \in Links!Memories(TimerNodes, {Unset} \cup TimerNodes)
    <3>1. timer_links.prev[c] \in TimerNodes /\ timer_links.next[c] \in TimerNodes
      BY <1>3, <2>2, RingLinks, HeadsApart
    <3>2. QED
      BY <2>1, <2>4, <3>1, StoresTyped
  <2> HIDE DEF m, c
  <2>6. QED
    BY <2>3, <2>4, <2>5, DelInitAlone
<1>7. DestroyClient(item[c].ser_seq) /\ Unlink(item[c].ser_seq, m)
  BY <1>2 DEF MDoServerTimeout
<1>8. Unlink(item[c].ser_seq, timer_links)
  BY <1>5, <1>6, <1>7 DEF Unlink
<1>9. Pointers'
  BY <1>1, <1>3, <1>4, <1>7, <1>8, PointersUnlink
<1>10. timer' = Tail(timer)
  <2>1. timer' = list_del_init(c, timer)
    BY <1>5, <1>7 DEF DestroyClient, timer_del_event
  <2>2. QED
    BY <1>2, <1>3, <2>1, DelHead
<1>11. Links!IsList(timer_links', g_net_timer, Tail(timer))
  BY <1>9, <1>10 DEF Pointers, TimerRing
<1>12. loop' = At(g_net_timer, Tail(timer))
  <2>1. loop = At(g_net_timer, timer)
    BY <1>1 DEF IMemory, MemoryOK, LoopOnRing
  <2>2. loop' = Links!next_entry(loop, timer_links')
    BY DEF MDoServerTimeout
  <2>3. QED
    BY <1>2, <1>11, <2>1, <2>2, LoopGoesOn, NodeLists, HeadsApart
<1>13. LoopOnRing'
  BY <1>1, <1>10, <1>12 DEF LoopOnRing
<1>14. QED
  BY <1>9, <1>13

(***************************************************************************)
(* A turn of LinkDownCli's loop, over the ring of the descriptor.          *)
(***************************************************************************)
LEMMA LinkDownOnPointers ==
  ASSUME IMemory, MLinkDownCliEntry
  PROVE  Pointers' /\ LoopOnRing'
<1> DEFINE s == fd_list[main_fd]
           c == Head(s)
<1>1. /\ main = "linkdown" /\ main' = "linkdown" /\ main_fd' = main_fd
      /\ is_running_ /\ is_running_'
      /\ TypeOK /\ Coherent /\ Pointers /\ main_fd \in Fds
  BY DEF IMemory, MemoryOK, Pointers, LoopOk, IndexCoherence, MLinkDownCliEntry,
         mainVars, TypeOK
<1>2. s # << >> /\ loop.pos = c /\ s \in Seq(Items) /\ s \in Seq(FdNodes)
  BY <1>1, LoopIsAtHead, NodeLists DEF MLinkDownCliEntry, TypeOK
<1>3. c \in Live /\ c \in Range(s) /\ IsInjective(s) /\ item[c].cli_fd = main_fd
  BY <1>1, <1>2, HeadInRange DEF Coherent, FdOk
<1>4. client_info_map[item[c].ser_seq] = c
  BY <1>1, <1>3, FindsItsOwn
<1>5. DestroyClient(item[c].ser_seq) /\ Unlink(item[c].ser_seq, timer_links)
  BY <1>2 DEF MLinkDownCliEntry
<1>6. Pointers'
  BY <1>1, <1>3, <1>5, PointersUnlink
<1>7. fd_list'[main_fd] = Tail(s)
  <2>1. fd_list'[main_fd] = list_del_init(c, s)
    BY <1>1, <1>4, <1>5 DEF DestroyClient
  <2>2. QED
    BY <1>2, <1>3, <2>1, DelHead
<1>8. Links!IsList(fd_links', main_fd, Tail(s))
  BY <1>1, <1>6, <1>7 DEF Pointers, FdRings
<1>9. loop' = At(main_fd, Tail(s))
  <2>1. loop = At(main_fd, s)
    BY <1>1 DEF IMemory, MemoryOK, LoopOnRing
  <2>2. loop' = Links!next_entry(loop, fd_links')
    BY DEF MLinkDownCliEntry
  <2> HIDE DEF s
  <2>3. QED
    BY <1>1, <1>2, <1>8, <2>1, <2>2, LoopGoesOn, HeadsApart
<1>10. LoopOnRing'
  BY <1>1, <1>7, <1>9 DEF LoopOnRing
<1>11. QED
  BY <1>6, <1>10

(***************************************************************************)
(* ProcPkgCli links the new item last in both lists.                       *)
(***************************************************************************)
LEMMA ArrivalOnPointers ==
  ASSUME IMemory, NEW fd \in Fds, NEW cmd \in Cmds, MProcPkgCli(fd, cmd)
  PROVE  Pointers' /\ LoopOnRing'
<1>1. /\ main = "idle" /\ main' = "put" /\ is_running_ /\ is_running_'
      /\ TypeOK /\ Coherent /\ Pointers
  BY DEF IMemory, MemoryOK, Pointers, LoopOk, IndexCoherence, MProcPkgCli, ProcPkgCli
<1>2. mempool_alloc /\ mempool_calloc
  BY DEF MProcPkgCli, ProcPkgCli
<1>3. allocated = mempool_next
  BY <1>1, <1>2, AllocatesNext DEF Pointers, mempool_alloc
<1>4. mempool_next \in Items /\ mempool_next \notin Live
  BY <1>1, <1>2, AllocIsFresh
<1>5. /\ fd_list' = [fd_list EXCEPT ![fd] = list_add_tail(mempool_next, @)]
      /\ timer' = list_add_tail(mempool_next, timer)
      /\ fd_links' = Links!list_add_tail(mempool_next, fd, fd_links)
      /\ timer_links' = Links!list_add_tail(mempool_next, g_net_timer,
                          Links!INIT_LIST_HEAD(mempool_next, timer_links))
  BY <1>3 DEF MProcPkgCli, ProcPkgCli, timer_add_event
<1>6. /\ FdRings' /\ TimerRing'
      /\ fd_links' \in Links!Memories(FdNodes, {Unset} \cup FdNodes)
      /\ timer_links' \in Links!Memories(TimerNodes, {Unset} \cup TimerNodes)
  BY <1>1, <1>4, <1>5, RingsOfArrival DEF Pointers
<1>7. /\ FreeList' /\ Carved'
      /\ first_word' \in [Items -> {NULL, Unset} \cup Items]
      /\ chunks' \in 1..NChunks /\ chunk_pos' \in 0..total_alloc_item
  BY <1>1, <1>2, CallocKeepsPool DEF Pointers, Coherent
<1>8. QED
  BY <1>1, <1>6, <1>7 DEF Pointers, LinksTyped, LoopOnRing

(***************************************************************************)
(* Uninit leaves an empty timer list, and no ring is followed after it.    *)
(***************************************************************************)
LEMMA UninitOnPointers ==
  ASSUME IMemory, MUninit
  PROVE  Pointers' /\ LoopOnRing'
<1>1. /\ main' = "join" /\ ~is_running_' /\ timer' = << >>
      /\ TypeOK /\ Pointers
      /\ UNCHANGED <<reuse, alloc_pool_pos, fd_links, chunkVars>>
  BY DEF IMemory, MemoryOK, Pointers, MUninit, Uninit, timer_uninit
<1>2. Deleted[NItems].links \in Memory
  BY <1>1, UninitWalks DEF Pointers
<1>3. timer_links' = Links!INIT_LIST_HEAD(g_net_timer, Deleted[NItems].links)
  BY DEF MUninit
<1>4. timer_links' \in Memory
  BY <1>2, <1>3, StoresTyped, HeadsApart DEF Memory
<1>5. TimerRing'
  BY <1>1, <1>2, <1>3, EmptyRing, HeadsApart DEF TimerRing, Memory
<1>6. LinksTyped'
  BY <1>1, <1>4 DEF Pointers, LinksTyped, Memory, chunkVars
<1>7. FreeList' /\ Carved'
  BY <1>1 DEF Pointers, FreeList, Carved, chunkVars
<1>8. FdRings' /\ LoopOnRing'
  BY <1>1 DEF FdRings, LoopOnRing
<1>9. QED
  BY <1>5, <1>6, <1>7, <1>8 DEF Pointers

(***************************************************************************)
(* Every step keeps the pointers what Proxy takes them for.                *)
(***************************************************************************)
LEMMA MemoryNext == IMemory /\ [MNext]_memVars => IMemory'
<1> SUFFICES ASSUME IMemory, [MNext]_memVars PROVE IMemory'
  OBVIOUS
<1>1. [Next]_vars
  BY StepIsProxys
<1>2. TypeOK /\ IndexCoherence /\ LoopOk /\ NoOrphans /\ Pointers /\ LoopOnRing
  BY DEF IMemory, MemoryOK, Pointers
<1>3. TypeOK' /\ IndexCoherence' /\ LoopOk' /\ NoOrphans'
  BY <1>1, <1>2, TypeNext, CoherentNext, LoopNext, NoOrphansNext
<1>4. Pointers' /\ LoopOnRing'
  <2>1. CASE Elsewhere /\ UNCHANGED <<linkVars, chunkVars>>
    <3>1. /\ UNCHANGED <<fd_list, timer, reuse, alloc_pool_pos, is_running_, main_fd>>
          /\ main' = main \/ main' \notin {"timer", "linkdown"}
      BY <2>1 DEF Elsewhere, Tick, put, join_all, LinkUpCli, ThreadStep, take, exit, runTis,
                  runDefault, check, StoreMessage, fault, poolVars, indexVars, mainVars
    <3>2. UNCHANGED <<fd_links, timer_links, loop, chunkVars>>
      BY <2>1 DEF linkVars
    <3>3. LoopOnRing'
      BY <1>2, <3>1, <3>2 DEF LoopOnRing
    <3>4. QED
      BY <1>2, <3>1, <3>2, <3>3, PointersKept
  <2>2. ASSUME NEW fd \in Fds, MLinkDownCli(fd) PROVE Pointers' /\ LoopOnRing'
    <3>1. /\ UNCHANGED <<fd_list, timer, reuse, alloc_pool_pos, is_running_>>
          /\ main = "idle" /\ main' = "linkdown" /\ main_fd' = fd
          /\ UNCHANGED <<fd_links, timer_links, chunkVars>>
          /\ loop' = Links!list_for_each_safe(fd, fd_links)
      BY <2>2 DEF MLinkDownCli, LinkDownCli, poolVars, indexVars
    <3>2. Links!IsList(fd_links, fd, fd_list[fd]) /\ fd_list[fd] \in Seq(FdNodes)
      BY <1>2, <3>1, NodeLists DEF LoopOk, Pointers, FdRings, TypeOK
    <3>3. loop' = At(fd, fd_list[fd])
      BY <3>1, <3>2, LoopStarts, HeadsApart DEF Links!list_for_each_safe, At
    <3>4. LoopOnRing'
      BY <3>1, <3>3 DEF LoopOnRing
    <3>5. QED
      BY <1>2, <3>1, <3>4, PointersKept
  <2>3. ASSUME NEW fd \in Fds, MProcPkgCliNoMem(fd) PROVE Pointers' /\ LoopOnRing'
    <3>1. /\ UNCHANGED <<fd_list, timer, reuse, alloc_pool_pos, is_running_>>
          /\ main = "idle" /\ main' = main
          /\ UNCHANGED <<fd_links, timer_links, chunkVars>>
      BY <2>3 DEF MProcPkgCliNoMem, ProcPkgCliNoMem, poolVars, indexVars, mainVars, linkVars
    <3>2. LoopOnRing'
      BY <3>1 DEF LoopOnRing
    <3>3. QED
      BY <1>2, <3>1, <3>2, PointersKept
  <2>4. ASSUME NEW fd \in Fds, NEW cmd \in Cmds, MProcPkgCli(fd, cmd)
        PROVE  Pointers' /\ LoopOnRing'
    BY <2>4, ArrivalOnPointers
  <2>5. CASE MTimeEvent
    <3>1. /\ UNCHANGED <<fd_list, timer, reuse, alloc_pool_pos, is_running_>>
          /\ main' = "timer"
          /\ UNCHANGED <<fd_links, timer_links, chunkVars>>
          /\ loop' = Links!list_for_each_safe(g_net_timer, timer_links)
      BY <2>5 DEF MTimeEvent, TimeEvent, poolVars, indexVars
    <3>2. Links!IsList(timer_links, g_net_timer, timer) /\ timer \in Seq(TimerNodes)
      BY <1>2, NodeLists DEF Pointers, TimerRing, TypeOK
    <3>3. loop' = At(g_net_timer, timer)
      BY <3>1, <3>2, LoopStarts, HeadsApart DEF Links!list_for_each_safe, At
    <3>4. LoopOnRing'
      BY <3>1, <3>3 DEF LoopOnRing
    <3>5. QED
      BY <1>2, <3>1, <3>4, PointersKept
  <2>6. CASE MDoServerTimeout
    BY <2>6, TimeoutOnPointers
  <2>7. CASE MTimeEventEnd \/ MLinkDownCliEnd
    <3>1. /\ UNCHANGED <<fd_list, timer, reuse, alloc_pool_pos, is_running_>>
          /\ main' = "idle"
          /\ UNCHANGED <<fd_links, timer_links, chunkVars>>
      BY <2>7 DEF MTimeEventEnd, MLinkDownCliEnd, poolVars, indexVars
    <3>2. LoopOnRing'
      BY <3>1 DEF LoopOnRing
    <3>3. QED
      BY <1>2, <3>1, <3>2, PointersKept
  <2>8. CASE MLinkDownCliEntry
    BY <2>8, LinkDownOnPointers
  <2>9. CASE MUninit
    BY <2>9, UninitOnPointers
  <2>10. CASE UNCHANGED memVars
    <3>1. /\ UNCHANGED <<fd_list, timer, reuse, alloc_pool_pos, is_running_, main, main_fd>>
          /\ UNCHANGED <<fd_links, timer_links, loop, chunkVars>>
      BY <2>10 DEF memVars, vars, linkVars, poolVars, indexVars, mainVars
    <3>2. LoopOnRing'
      BY <1>2, <3>1 DEF LoopOnRing
    <3>3. QED
      BY <1>2, <3>1, <3>2, PointersKept
  <2>11. QED
    BY <2>1, <2>2, <2>3, <2>4, <2>5, <2>6, <2>7, <2>8, <2>9, <2>10 DEF MNext
<1>5. QED
  BY <1>3, <1>4 DEF IMemory, MemoryOK, Pointers

(***************************************************************************)
(* The inductive invariant of the memory holds in every reachable state.   *)
(***************************************************************************)
LEMMA MemoryInv == MSpec => []IMemory
<1>1. MInit => IMemory
  <2> SUFFICES ASSUME MInit PROVE IMemory
    OBVIOUS
  <2>1. Init
    BY DEF MInit
  <2>2. IndexCoherence
    BY <2>1, CoherentInit DEF IndexCoherence
  <2>3. LoopOk /\ NoOrphans
    BY <2>1 DEF Init, LoopOk, NoOrphans, Live
  <2>4. QED
    BY <2>1, <2>2, <2>3, PointersInit DEF IMemory
<1>2. QED
  BY <1>1, MemoryNext, PTL DEF MSpec

(***************************************************************************)
(* The pointers of list.h, of the loops over the lists, and of the pool    *)
(* are in every reachable state what the sequences of Proxy say: the rings *)
(* hold the requests in flight in order, no loop follows a link of an item *)
(* it has just freed, and the free list and the chunks are coherent.       *)
(***************************************************************************)
THEOREM MemoryCoherent == MSpec => []MemoryOK
<1>1. IMemory => MemoryOK
  BY DEF IMemory
<1>2. QED
  BY <1>1, MemoryInv, PTL

(***************************************************************************)
(* The worker on its pointers implements the worker on sequences, so that  *)
(* what is proved of Proxy holds of it.                                    *)
(***************************************************************************)
THEOREM MemoryImplementsProxy == MSpec => Spec
<1>1. MInit => Init
  BY DEF MInit
<1>2. QED
  BY <1>1, StepIsProxys, MemoryInv, PTL DEF MSpec, Spec

(***************************************************************************)
(* In every reachable state the loop of timer_uninit would end at the head *)
(* after at most as many turns as there are items, having deleted what it  *)
(* met, so that Uninit never hangs in it and ProxyMemory leaves none of    *)
(* its turns out.                                                          *)
(***************************************************************************)
THEOREM UninitLoopEnds == MSpec => [](Deleted[NItems].loop.pos = g_net_timer)
<1>1. IMemory => Deleted[NItems].loop.pos = g_net_timer
  BY UninitWalks DEF IMemory, MemoryOK
<1>2. QED
  BY <1>1, MemoryInv, PTL
=============================================================================
