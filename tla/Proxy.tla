------------------------------- MODULE Proxy -------------------------------
(***************************************************************************)
(* A worker process of the proxy (src/src/base/proxy.cpp): the event-loop  *)
(* thread of the async-server framework, which runs the plug-in callbacks  *)
(* one after the other, and the threads of g_thread_pool, which serve the  *)
(* requests the event loop queued.                                         *)
(*                                                                         *)
(* The two sides share ClientInfo items of g_mempool.  The event loop      *)
(* allocates an item per package, enters it into four indices (the serial  *)
(* number map, the list of its client's descriptor, the timer list, the    *)
(* queue of the thread pool) and takes it out of the first three when it   *)
(* times out or its client disconnects.  A thread only reads the item, at  *)
(* three points of the handler, each time through a bare pointer.          *)
(*                                                                         *)
(* What a package holds is abstracted to its number in the order of        *)
(* arrival.  The thread pool is the bounded FIFO queue that the module     *)
(* ThreadPool implements; the answers of the two backends are left         *)
(* nondeterministic here (their connections are in ConnectionPool).        *)
(***************************************************************************)
EXTENDS IntrusiveList

CONSTANTS
  Threads,         \* the threads of g_thread_pool
  Fds,             \* client descriptors
  NItems,          \* items g_mempool can carve before malloc fails
  max_queue_size_, \* capacity of the thread pool's queue
  g_timeout_s,     \* seconds until a request times out
  SerialMod,       \* 2^32: serialized_no is a uint32_t and wraps around
  LinkWord,        \* what the free-list link leaves in an item's first word
  MaxPkgs,         \* bound: packages received
  MaxTime          \* bound: the clock stops here

ASSUME NItemsAssumption   == NItems \in Nat \ {0}
ASSUME QueueAssumption    == max_queue_size_ \in Nat \ {0}
ASSUME TimeoutAssumption  == g_timeout_s \in Nat
ASSUME SerialAssumption   == SerialMod \in Nat \ {0}
ASSUME LinkWordAssumption == LinkWord \notin Fds /\ LinkWord \notin Nat
ASSUME BoundsAssumption   == MaxPkgs \in Nat /\ MaxTime \in Nat

VARIABLES
  item,            \* [Items -> ClientInfo]: the items of g_mempool
  reuse,           \* reuse_ptr: the stack of freed items
  alloc_pool_pos,  \* items handed out for the first time so far
  ref_count,       \* items the pool believes to be in use
  destroyed,       \* mempool_destroy has returned the memory
  serialized_no,   \* next serial number
  client_info_map, \* serial number -> item
  fd_list,         \* g_client_fd_list: [Fds -> list of items]
  timer,           \* g_net_timer: list of items
  now,             \* time(NULL)
  linked,          \* descriptors with a client behind them
  main,            \* what the event loop is executing
  main_ci,         \* the item ProcPkgCli is handing to the thread pool
  main_fd,         \* the descriptor LinkDownCli is clearing
  current_time,    \* the time timer_check_event works with
  is_running_,     \* the thread pool's flag
  queue_,          \* the thread pool's queue
  pc,              \* where each thread is in runInThread and the handler
  ci,              \* the item each thread is serving
  content,         \* the message text each thread copied out of its item
  job,             \* history: the package each thread took
  req,             \* history: the descriptor each package came from, in order
  replies          \* history: the replies sent, as addressed, and by whose
                   \* service

poolVars   == <<item, reuse, alloc_pool_pos, ref_count, destroyed>>
indexVars  == <<serialized_no, client_info_map, fd_list, timer>>
mainVars   == <<main, main_ci, main_fd, current_time>>
threadVars == <<pc, ci, content, job>>
outVars    == <<req, replies>>
vars == <<poolVars, indexVars, now, linked, mainVars, is_running_, queue_,
          threadVars, outVars>>

Items   == 1..NItems
NoItem  == 0
NoFd    == LinkWord
Serials == 0..(SerialMod - 1)
Pkgs    == 1..MaxPkgs

Handlers == {"tisProtoHandler", "defaultProtoHandler"}

(***************************************************************************)
(* cli_fd and cli_seq share the item's first word, which mempool_free      *)
(* overwrites; pkg stands for the rest of what the package brought         *)
(* (cli_cmd, userid, len, buf); expire_time is a member of the event.      *)
(***************************************************************************)
ClientInfo == [cli_fd : Fds \cup {LinkWord}, cli_seq : Pkgs \cup {LinkWord, 0},
               pkg : Pkgs \cup {0}, ser_seq : Serials,
               call_back_func : Handlers, expire_time : Nat]

(***************************************************************************)
(* CmdHandler: the one command registered by Proxy::Init has its handler,  *)
(* any other command the default one.                                      *)
(***************************************************************************)
Cmds == {"0x4702", "unregistered"}
cmd_handler_map_ == [cmd \in {"0x4702"} |-> "tisProtoHandler"]
getHandler(cmd) == IF cmd \in DOMAIN cmd_handler_map_
                   THEN cmd_handler_map_[cmd] ELSE "defaultProtoHandler"

-----------------------------------------------------------------------------
(* g_mempool *)

mempool_can_alloc == reuse # <<>> \/ alloc_pool_pos < NItems

mempool_next == IF reuse # <<>> THEN Head(reuse) ELSE alloc_pool_pos + 1

\* Mutant of mempool_alloc: the item stays on the free list.
mempool_alloc_keep ==
  /\ mempool_can_alloc
  /\ alloc_pool_pos' = IF reuse # <<>> THEN alloc_pool_pos ELSE alloc_pool_pos + 1
  /\ ref_count' = ref_count + 1
  /\ UNCHANGED reuse

mempool_alloc ==
  /\ mempool_can_alloc
  /\ IF reuse # <<>>
     THEN reuse' = Tail(reuse) /\ UNCHANGED alloc_pool_pos
     ELSE alloc_pool_pos' = alloc_pool_pos + 1 /\ UNCHANGED reuse
  /\ ref_count' = ref_count + 1

mempool_free(c) ==
  /\ reuse' = <<c>> \o reuse
  /\ ref_count' = ref_count - 1

\* Mutant of mempool_destroy: the memory is returned with items in use.
mempool_destroy_early == destroyed' = TRUE

\* Refused while an item is in use.
mempool_destroy == destroyed' = (ref_count <= 0)

-----------------------------------------------------------------------------
(* The serial number map and the timer list.  RemoveClientInfo leaves the  *)
(* item alone; what timer_add_event and timer_del_event write in the item  *)
(* is with the other fields in ProcPkgCli and DestroyClient.               *)

SetClientInfo(c) ==
  /\ client_info_map' = [s \in DOMAIN client_info_map \cup {serialized_no} |->
                           IF s = serialized_no THEN c ELSE client_info_map[s]]
  /\ serialized_no' = (serialized_no + 1) % SerialMod

RemoveClientInfo(sn) ==
  client_info_map' = Restrict(client_info_map, DOMAIN client_info_map \ {sn})

timer_add_event(c) == timer' = list_add_tail(c, timer)

timer_del_event(c) == timer' = list_del_init(c, timer)

\* Every event in the list is deleted, and so wiped.
timer_uninit ==
  /\ timer' = <<>>
  /\ item' = [c \in Items |-> IF c \in Range(timer)
                              THEN [item[c] EXCEPT !.expire_time = 0]
                              ELSE item[c]]

-----------------------------------------------------------------------------
(* The callbacks of the event loop.  Each runs to its end before the next  *)
(* one starts: the loops over the timer list and over a descriptor's list  *)
(* are one step per entry, because the threads run in between.             *)

Init ==
  /\ item = [c \in Items |-> [cli_fd |-> LinkWord, cli_seq |-> 0, pkg |-> 0,
                              ser_seq |-> 0, expire_time |-> 0,
                              call_back_func |-> "defaultProtoHandler"]]
  /\ reuse = <<>>
  /\ alloc_pool_pos = 0
  /\ ref_count = 0
  /\ destroyed = FALSE
  /\ serialized_no = 0
  /\ client_info_map = [s \in {} |-> NoItem]
  /\ fd_list = [f \in Fds |-> <<>>]
  /\ timer = <<>>
  /\ now = 0
  /\ linked = {}
  /\ main = "idle"
  /\ main_ci = NoItem
  /\ main_fd = NoFd
  /\ current_time = 0
  /\ is_running_ = TRUE
  /\ queue_ = <<>>
  /\ pc = [t \in Threads |-> "take"]
  /\ ci = [t \in Threads |-> NoItem]
  /\ content = [t \in Threads |-> 0]
  /\ job = [t \in Threads |-> 0]
  /\ req = <<>>
  /\ replies = {}

(***************************************************************************)
(* time(NULL) advances on its own; it never goes back.                     *)
(***************************************************************************)
Tick ==
  /\ now < MaxTime
  /\ now' = now + 1
  /\ UNCHANGED <<poolVars, indexVars, linked, mainVars, is_running_, queue_,
                 threadVars, outVars>>

(***************************************************************************)
(* A client connects.  Proxy::LinkUpCli does nothing.                      *)
(***************************************************************************)
LinkUpCli(fd) ==
  /\ main = "idle"
  /\ fd \notin linked
  /\ linked' = linked \cup {fd}
  /\ UNCHANGED <<poolVars, indexVars, now, mainVars, is_running_, queue_,
                 threadVars, outVars>>

(***************************************************************************)
(* When a package may arrive: the bounds of the model leave the clock room *)
(* for its timeout.                                                        *)
(***************************************************************************)
PkgArrives == Len(req) < MaxPkgs /\ now + g_timeout_s < MaxTime

(***************************************************************************)
(* An assumption about the clients: fewer than 2^32 packages arrive while  *)
(* a request is waiting (for ten seconds), so that the serial number that  *)
(* comes up again is not in use.                                           *)
(***************************************************************************)
SerialIsFree == serialized_no \notin DOMAIN client_info_map

(***************************************************************************)
(* A package from a connected client.  A package of more than 8192 bytes   *)
(* is dropped before anything changes, so it is no step of the model.      *)
(***************************************************************************)
ProcPkgCli(fd, cmd) ==
  LET c  == mempool_next
      n  == Len(req) + 1
  IN  /\ main = "idle"
      /\ fd \in linked
      /\ PkgArrives
      /\ SerialIsFree
      /\ mempool_alloc
      /\ item' = [item EXCEPT ![c] =
           [cli_fd |-> fd, cli_seq |-> n, pkg |-> n, ser_seq |-> serialized_no,
            expire_time |-> now + g_timeout_s,
            call_back_func |-> getHandler(cmd)]]
      /\ SetClientInfo(c)
      /\ fd_list' = [fd_list EXCEPT ![fd] = list_add_tail(c, @)]
      /\ timer_add_event(c)
      /\ main' = "put"
      /\ main_ci' = c
      /\ req' = Append(req, fd)
      /\ UNCHANGED <<destroyed, now, linked, main_fd, current_time,
                     is_running_, queue_, threadVars, replies>>

(***************************************************************************)
(* The pool is exhausted: status 1001 straight from the package's header.  *)
(***************************************************************************)
ProcPkgCliNoMem(fd) ==
  LET n == Len(req) + 1
  IN  /\ main = "idle"
      /\ fd \in linked
      /\ PkgArrives
      /\ ~mempool_can_alloc
      /\ req' = Append(req, fd)
      /\ replies' = replies \cup {[fd |-> fd, seq |-> n, by |-> n]}
      /\ UNCHANGED <<poolVars, indexVars, now, linked, mainVars, is_running_,
                     queue_, threadVars>>

(***************************************************************************)
(* ThreadPool::put, at the end of ProcPkgCli, blocks while the queue is    *)
(* full, and the whole event loop with it.                                 *)
(***************************************************************************)
put ==
  /\ main = "put"
  /\ Len(queue_) < max_queue_size_
  /\ queue_' = Append(queue_, [ci |-> main_ci, job |-> Len(req)])
  /\ main' = "idle"
  /\ main_ci' = NoItem
  /\ UNCHANGED <<poolVars, indexVars, now, linked, main_fd, current_time,
                 is_running_, threadVars, outVars>>

\* Mutant of DestroyClient: the item stays in its descriptor's list.
DestroyClient_keep_fd(sn) ==
  LET c == client_info_map[sn]
  IN  /\ sn \in DOMAIN client_info_map
      /\ mempool_free(c)
      /\ RemoveClientInfo(sn)
      /\ timer_del_event(c)
      /\ UNCHANGED <<item, fd_list, alloc_pool_pos, destroyed, serialized_no>>

\* Mutant of DestroyClient: RemoveClientInfo is forgotten.
DestroyClient_keep_map(sn) ==
  LET c == client_info_map[sn]
  IN  /\ sn \in DOMAIN client_info_map
      /\ fd_list' = [f \in Fds |-> list_del_init(c, fd_list[f])]
      /\ mempool_free(c)
      /\ timer_del_event(c)
      /\ UNCHANGED <<item, client_info_map, alloc_pool_pos, destroyed, serialized_no>>

(***************************************************************************)
(* DestroyClient.  The lookup never fails (see IndexCoherence), so the     *)
(* early return of the code is not a step.  The item's event is wiped      *)
(* after the item went back to the pool.                                   *)
(***************************************************************************)
DestroyClient(sn) ==
  LET c == client_info_map[sn]
  IN  /\ sn \in DOMAIN client_info_map
      /\ fd_list' = [f \in Fds |-> list_del_init(c, fd_list[f])]
      /\ mempool_free(c)
      /\ RemoveClientInfo(sn)
      /\ timer_del_event(c)
      /\ item' = [item EXCEPT ![c] = [@ EXCEPT !.cli_fd = LinkWord,
                                              !.cli_seq = LinkWord,
                                              !.expire_time = 0]]
      /\ UNCHANGED <<alloc_pool_pos, destroyed, serialized_no>>

(***************************************************************************)
(* TimeEvent: timer_check_event walks the timer list from its head and     *)
(* stops at the first event that is not past its time.                     *)
(***************************************************************************)
TimeEvent ==
  /\ main = "idle"
  /\ main' = "timer"
  /\ current_time' = now
  /\ UNCHANGED <<poolVars, indexVars, now, linked, main_ci, main_fd,
                 is_running_, queue_, threadVars, outVars>>

\* Mutant of Expired: an event is due at its time, not after it.
Expired_early(c) == item[c].expire_time <= current_time

Expired(c) == item[c].expire_time < current_time

DoServerTimeout ==
  /\ main = "timer"
  /\ timer # <<>>
  /\ Expired(Head(timer))
  /\ DestroyClient(item[Head(timer)].ser_seq)
  /\ UNCHANGED <<now, linked, mainVars, is_running_, queue_, threadVars, outVars>>

TimeEventEnd ==
  /\ main = "timer"
  /\ timer # <<>> => ~Expired(Head(timer))
  /\ main' = "idle"
  /\ current_time' = 0
  /\ UNCHANGED <<poolVars, indexVars, now, linked, main_ci, main_fd,
                 is_running_, queue_, threadVars, outVars>>

(***************************************************************************)
(* LinkDownCli: the requests of a client that disconnects are destroyed.   *)
(***************************************************************************)
LinkDownCli(fd) ==
  /\ main = "idle"
  /\ fd \in linked
  /\ linked' = linked \ {fd}
  /\ main' = "linkdown"
  /\ main_fd' = fd
  /\ UNCHANGED <<poolVars, indexVars, now, main_ci, current_time, is_running_,
                 queue_, threadVars, outVars>>

LinkDownCliEntry ==
  /\ main = "linkdown"
  /\ fd_list[main_fd] # <<>>
  /\ DestroyClient(item[Head(fd_list[main_fd])].ser_seq)
  /\ UNCHANGED <<now, linked, mainVars, is_running_, queue_, threadVars, outVars>>

LinkDownCliEnd ==
  /\ main = "linkdown"
  /\ fd_list[main_fd] = <<>>
  /\ main' = "idle"
  /\ main_fd' = NoFd
  /\ UNCHANGED <<poolVars, indexVars, now, linked, main_ci, current_time,
                 is_running_, queue_, threadVars, outVars>>

(***************************************************************************)
(* Uninit: the descriptor lists are freed, the pool's memory only when     *)
(* the pool counts no item in use, the timer list is emptied, and then the *)
(* threads are told to stop and joined.  The serial number map is left.    *)
(***************************************************************************)
Uninit ==
  /\ main = "idle"
  /\ main' = "join"
  /\ fd_list' = [f \in Fds |-> <<>>]
  /\ mempool_destroy
  /\ timer_uninit
  /\ is_running_' = FALSE
  /\ UNCHANGED <<reuse, alloc_pool_pos, ref_count, serialized_no,
                 client_info_map, now, linked, main_ci, main_fd, current_time,
                 queue_, threadVars, outVars>>

(***************************************************************************)
(* thread_group_.join_all, the end of stop and of Uninit.                  *)
(***************************************************************************)
join_all ==
  /\ main = "join"
  /\ \A t \in Threads : pc[t] = "exit"
  /\ main' = "stopped"
  /\ UNCHANGED <<poolVars, indexVars, now, linked, main_ci, main_fd,
                 current_time, is_running_, queue_, threadVars, outVars>>

-----------------------------------------------------------------------------
(* The threads: runInThread takes an item and runs its call-back.          *)

\* Mutant of take: the item is not popped.
take_keep(t) ==
  /\ pc[t] = "take"
  /\ queue_ # <<>>
  /\ ci' = [ci EXCEPT ![t] = Head(queue_).ci]
  /\ job' = [job EXCEPT ![t] = Head(queue_).job]
  /\ pc' = [pc EXCEPT ![t] = "run"]
  /\ UNCHANGED <<poolVars, indexVars, now, linked, mainVars, is_running_,
                 queue_, content, outVars>>

(***************************************************************************)
(* ThreadPool::take.  A thread that was already inside take when the pool  *)
(* is stopped may still return one more item.                              *)
(***************************************************************************)
take(t) ==
  /\ pc[t] = "take"
  /\ queue_ # <<>>
  /\ ci' = [ci EXCEPT ![t] = Head(queue_).ci]
  /\ job' = [job EXCEPT ![t] = Head(queue_).job]
  /\ queue_' = Tail(queue_)
  /\ pc' = [pc EXCEPT ![t] = "run"]
  /\ UNCHANGED <<poolVars, indexVars, now, linked, mainVars, is_running_,
                 content, outVars>>

(***************************************************************************)
(* The loop condition of runInThread, read again after every call-back.    *)
(***************************************************************************)
LoopTest == IF is_running_ THEN "take" ELSE "exit"

exit(t) ==
  /\ pc[t] = "take"
  /\ ~is_running_
  /\ pc' = [pc EXCEPT ![t] = "exit"]
  /\ UNCHANGED <<poolVars, indexVars, now, linked, mainVars, is_running_,
                 queue_, ci, content, job, outVars>>

(***************************************************************************)
(* SendToClient: the header and the descriptor are read from the item at   *)
(* the time the reply is sent; the verdict is about the text read earlier. *)
(* So the reply goes to whoever the item names by then: nobody, when it is *)
(* free, or the client of another request, when it has been given to one.  *)
(* A thread whose item is rewritten during these reads may see fields of   *)
(* both requests; the model reads them at once.                            *)
(***************************************************************************)
Reply(t, verdict) == [fd |-> item[ci[t]].cli_fd, seq |-> item[ci[t]].cli_seq,
                      verdict |-> verdict]

\* Mutant of SendToClient: the descriptor is that of the newest package.
SendToClient_newest(t) ==
  replies' = replies \cup
    {[fd |-> req[Len(req)], seq |-> item[ci[t]].cli_seq, by |-> job[t]]}

SendToClient(t) ==
  replies' = replies \cup
    {[fd |-> item[ci[t]].cli_fd, seq |-> item[ci[t]].cli_seq, by |-> job[t]]}

(***************************************************************************)
(* run(), and tisProtoHandler up to the call of the filter service: the    *)
(* text is copied out of the item, the other fields are not.               *)
(***************************************************************************)
runTis(t) ==
  /\ pc[t] = "run"
  /\ ~destroyed
  /\ item[ci[t]].call_back_func = "tisProtoHandler"
  /\ content' = [content EXCEPT ![t] = item[ci[t]].pkg]
  /\ pc' = [pc EXCEPT ![t] = "check"]
  /\ UNCHANGED <<poolVars, indexVars, now, linked, mainVars, is_running_,
                 queue_, ci, job, outVars>>

(***************************************************************************)
(* run() with defaultProtoHandler: status 1001.                            *)
(***************************************************************************)
runDefault(t) ==
  /\ pc[t] = "run"
  /\ ~destroyed
  /\ item[ci[t]].call_back_func = "defaultProtoHandler"
  /\ SendToClient(t)
  /\ pc' = [pc EXCEPT ![t] = LoopTest]
  /\ ci' = [ci EXCEPT ![t] = NoItem]
  /\ job' = [job EXCEPT ![t] = 0]
  /\ UNCHANGED <<poolVars, indexVars, now, linked, mainVars, is_running_,
                 queue_, content, req>>

\* Mutant of check: a branch that sends no reply.
check_silent(t) ==
  /\ pc[t] = "check"
  /\ ~destroyed
  /\ pc' = [pc EXCEPT ![t] = "store"]
  /\ UNCHANGED <<poolVars, indexVars, now, linked, mainVars, is_running_,
                 queue_, ci, content, job, outVars>>

(***************************************************************************)
(* The filter service has answered, failed, had no connection, or was not  *)
(* asked: each of these branches sends one reply and goes on to storing.   *)
(***************************************************************************)
check(t) ==
  /\ pc[t] = "check"
  /\ ~destroyed
  /\ SendToClient(t)
  /\ pc' = [pc EXCEPT ![t] = "store"]
  /\ UNCHANGED <<poolVars, indexVars, now, linked, mainVars, is_running_,
                 queue_, ci, content, job, req>>

(***************************************************************************)
(* StoreMessage: the message is the text copied at the start; nick, type,  *)
(* grades and server are read from the item now.  Whether the record is    *)
(* stored or there is no connection or an exception, the handler ends.     *)
(***************************************************************************)
Record(t) == [message |-> content[t], nick |-> item[ci[t]].pkg]

StoreMessage(t) ==
  /\ pc[t] = "store"
  /\ ~destroyed
  /\ pc' = [pc EXCEPT ![t] = LoopTest]
  /\ ci' = [ci EXCEPT ![t] = NoItem]
  /\ job' = [job EXCEPT ![t] = 0]
  /\ content' = [content EXCEPT ![t] = 0]
  /\ UNCHANGED <<poolVars, indexVars, now, linked, mainVars, is_running_,
                 queue_, outVars>>

(***************************************************************************)
(* A thread reads its item after mempool_destroy has freed the memory.     *)
(***************************************************************************)
fault(t) ==
  /\ pc[t] \in {"run", "check", "store"}
  /\ destroyed
  /\ pc' = [pc EXCEPT ![t] = "fault"]
  /\ UNCHANGED <<poolVars, indexVars, now, linked, mainVars, is_running_,
                 queue_, ci, content, job, outVars>>

-----------------------------------------------------------------------------

Callback ==
  \/ \E fd \in Fds : LinkUpCli(fd) \/ LinkDownCli(fd) \/ ProcPkgCliNoMem(fd)
  \/ \E fd \in Fds, cmd \in Cmds : ProcPkgCli(fd, cmd)
  \/ TimeEvent
  \/ Uninit

CallbackStep ==
  \/ put \/ DoServerTimeout \/ TimeEventEnd
  \/ LinkDownCliEntry \/ LinkDownCliEnd \/ join_all

ThreadStep(t) ==
  \/ take(t) \/ exit(t) \/ runTis(t) \/ runDefault(t) \/ check(t)
  \/ StoreMessage(t) \/ fault(t)

Next == Tick \/ Callback \/ CallbackStep \/ \E t \in Threads : ThreadStep(t)

Spec == Init /\ [][Next]_vars

(***************************************************************************)
(* Fairness.  The clock runs; the event loop finishes the callback it is   *)
(* in and gets to its periodic TimeEvent again and again, whatever its     *)
(* clients do; every thread is scheduled, and a call of a backend returns, *)
(* with an answer or an exception.                                         *)
(***************************************************************************)
Fairness ==
  /\ WF_vars(Tick)
  /\ SF_vars(TimeEvent)
  /\ WF_vars(CallbackStep)
  /\ \A t \in Threads : WF_vars(ThreadStep(t))

FairSpec == Spec /\ Fairness

-----------------------------------------------------------------------------
(* Correctness *)

\* What may be sent: a freed item names no client and no package.
Replies == [fd : Fds \cup {LinkWord}, seq : Pkgs \cup {LinkWord, 0}, by : Pkgs]

(***************************************************************************)
(* Type correctness of the worker's state; the pointers that a callback or *)
(* a handler is about to follow are pointers to items.                     *)
(***************************************************************************)
TypeOK ==
  /\ item \in [Items -> ClientInfo]
  /\ reuse \in Seq(Items)
  /\ alloc_pool_pos \in 0..NItems
  /\ ref_count \in Int
  /\ destroyed \in BOOLEAN
  /\ serialized_no \in Serials
  /\ DOMAIN client_info_map \subseteq Serials
  /\ \A s \in DOMAIN client_info_map : client_info_map[s] \in Items
  /\ fd_list \in [Fds -> Seq(Items)]
  /\ timer \in Seq(Items)
  /\ now \in Nat
  /\ linked \in SUBSET Fds
  /\ main \in {"idle", "put", "timer", "linkdown", "join", "stopped"}
  /\ main_ci \in Items \cup {NoItem}
  /\ main_fd \in Fds \cup {NoFd}
  /\ current_time \in Nat
  /\ is_running_ \in BOOLEAN
  /\ queue_ \in Seq([ci : Items, job : Pkgs])
  /\ pc \in [Threads -> {"take", "run", "check", "store", "exit", "fault"}]
  /\ ci \in [Threads -> Items \cup {NoItem}]
  /\ content \in [Threads -> Pkgs \cup {0}]
  /\ job \in [Threads -> Pkgs \cup {0}]
  /\ req \in Seq(Fds)
  /\ Len(req) <= MaxPkgs
  /\ replies \in SUBSET Replies
  /\ main = "put" => main_ci \in Items /\ req # <<>>
  /\ main = "linkdown" => main_fd \in Fds
  /\ \A t \in Threads : pc[t] \in {"run", "check", "store"} =>
                         ci[t] \in Items /\ job[t] \in Pkgs

(***************************************************************************)
(* The requests in flight: the items GetClientInfo can find.               *)
(***************************************************************************)
Live == {client_info_map[s] : s \in DOMAIN client_info_map}

MapOk   == \A s \in DOMAIN client_info_map : item[client_info_map[s]].ser_seq = s
TimerOk == IsInjective(timer) /\ Range(timer) = Live
FdOk    == \A f \in Fds : /\ IsInjective(fd_list[f])
                          /\ Range(fd_list[f]) = {c \in Live : item[c].cli_fd = f}
PoolOk  == /\ Live \subseteq 1..alloc_pool_pos
           /\ IsInjective(reuse)
           /\ Range(reuse) = (1..alloc_pool_pos) \ Live
RefOk   == ref_count = Len(timer)
Coherent == MapOk /\ TimerOk /\ FdOk /\ PoolOk /\ RefOk

(***************************************************************************)
(* The four indices of the requests in flight agree, in every state in     *)
(* between the callbacks' steps, until Uninit: the serial number map, the  *)
(* timer list and the descriptor lists hold the same items, each item      *)
(* once and under its own serial number and descriptor; the pool's free    *)
(* list holds exactly the other items it has carved, and ref_count the     *)
(* number in use.  So DestroyClient never misses, no item is freed twice,  *)
(* and none is handed out while it is in use.                              *)
(***************************************************************************)
IndexCoherence == is_running_ => Coherent

(***************************************************************************)
(* Package n is in flight: its item is in the map.                         *)
(***************************************************************************)
Pending(n) == \E c \in Live : item[c].pkg = n

(***************************************************************************)
(* LinkDownCli takes every request of the connection with it: outside the  *)
(* callback no request in flight has a descriptor that nobody is behind,   *)
(* so a client that is given the descriptor next has none from before.     *)
(***************************************************************************)
NoOrphans ==
  is_running_ => \A c \in Live :
    item[c].cli_fd \in linked \cup (IF main = "linkdown" THEN {main_fd} ELSE {})

(***************************************************************************)
(* timer_check_event stops at the first event that is not due, yet leaves  *)
(* no overdue request behind: the timer list is in the order of the        *)
(* timeouts whatever requests were cut out of its middle.                  *)
(***************************************************************************)
SweepIsComplete ==
  [][main = "timer" /\ main' = "idle" =>
       \A c \in Live : item[c].expire_time >= current_time]_vars

(***************************************************************************)
(* A request leaves the map only for a cause of its own: its timeout has   *)
(* passed or its client has disconnected.                                  *)
(***************************************************************************)
DroppedForCause ==
  [][\A c \in Live : c \notin Live' => \/ item[c].expire_time < now
                                      \/ item[c].cli_fd \notin linked]_vars

(***************************************************************************)
(* What a thread does for a request still in flight, it does with that     *)
(* request's data: the reply goes to the descriptor the package came from, *)
(* under its sequence number and with the verdict on its text, and the     *)
(* record stored joins its text with its own nick.  The items are shared   *)
(* without a lock and are reused as soon as they are freed.  Nor is the    *)
(* memory gone when the thread gets to it, although Uninit destroys the    *)
(* pool before it stops the threads.                                       *)
(***************************************************************************)
PendingServedFaithfully ==
  \A t \in Threads : Pending(job[t]) =>
    LET own == [fd |-> req[job[t]], seq |-> job[t], verdict |-> job[t]]
    IN  /\ pc[t] = "run"   => Reply(t, item[ci[t]].pkg) = own
        /\ pc[t] = "check" => Reply(t, content[t]) = own
        /\ pc[t] = "store" => Record(t) = [message |-> job[t], nick |-> job[t]]
        /\ pc[t] # "fault"

(***************************************************************************)
(* The reply to package n as its client expects it.                        *)
(***************************************************************************)
OwnReply(n) == [fd |-> req[n], seq |-> n, by |-> n]

(***************************************************************************)
(* No package is served to a reply twice: each is queued once and taken by *)
(* one thread, and each branch of a handler sends one reply.  And as long  *)
(* as a request is in flight, its thread has replied to its own client and *)
(* nobody else.  So a client whose request is in flight hears of it once,  *)
(* but for the threads whose own requests are gone: those write to whoever *)
(* has their item now, who may then hear twice (see AnswersOnlyPending).   *)
(***************************************************************************)
RepliedOnce ==
  /\ \A t \in Threads : pc[t] \in {"run", "check"} => \A r \in replies : r.by # job[t]
  /\ \A r \in replies : Pending(r.by) => r = OwnReply(r.by)

(***************************************************************************)
(* Every request is eventually destroyed: none stays in the map, its item  *)
(* lost to the pool, whatever becomes of the threads.                      *)
(***************************************************************************)
EventuallyReleased ==
  \A n \in Pkgs : Pending(n) ~> (~Pending(n) \/ ~is_running_)

(***************************************************************************)
(* Every package received is eventually served to the reply of its         *)
(* handler, also when put had to wait for a full queue, unless the worker  *)
(* is shut down; and while the request is in flight the reply is the one   *)
(* its client expects.  The client of a request that was destroyed before  *)
(* may get none: the reply then goes where the item says, and the timeout  *)
(* itself tells the client nothing.                                        *)
(***************************************************************************)
EventuallyServed ==
  \A n \in Pkgs : Len(req) >= n ~>
    \/ \E r \in replies : r.by = n /\ (r = OwnReply(n) \/ ~Pending(n))
    \/ ~is_running_

(***************************************************************************)
(* What src/src/common/server.cpp:188 says of an answer whose request is   *)
(* not in the map any more: it is dropped.  The threads send it, to nobody *)
(* or to the client who has the item.                                      *)
(***************************************************************************)
AnswersOnlyPending ==
  [][\A r \in replies' \ replies : Len(req) >= r.by => Pending(r.by)]_vars
=============================================================================
