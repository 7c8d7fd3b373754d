---------------------------- MODULE ProxyMemory ----------------------------
(***************************************************************************)
(* The worker's memory: Proxy with the pointers behind its lists.  The     *)
(* links of the descriptors' rings and of the timer list are those of      *)
(* LinkedList, and the loops over them follow the pointers saved by        *)
(* list_for_each_safe.  The pool's free list is linked through the first   *)
(* words of the items, which are carved out of chunks.  Proxy's fd_list,   *)
(* timer, reuse and alloc_pool_pos say what the pointers stand for.        *)
(***************************************************************************)
EXTENDS Proxy

Links == INSTANCE LinkedList

CONSTANTS
  g_net_timer,      \* the head of the timer list; a descriptor stands for the
                    \* head of its ring in g_client_fd_list
  Unset,            \* what stands for memory that holds no link: not written
                    \* yet, or an item's own data
  WORD_SIZE, DEFAULT_ALLOC_SIZE, pagesize,
  sizeof_ClientInfo,
  NChunks           \* chunks malloc grants

Pool == INSTANCE MemoryPool

\* Proxy::Init creates the pool, and a chunk of it holds so many items.
g_mempool        == Pool!mempool_create(sizeof_ClientInfo, pagesize * 4096)
total_alloc_item == g_mempool.total_alloc_item

ASSUME HeadsAssumption ==
  /\ \A c \in Items : c # g_net_timer
  /\ \A fd \in Fds, c \in Items : fd # c
ASSUME SizesAssumption ==
  /\ {WORD_SIZE, DEFAULT_ALLOC_SIZE, pagesize} \subseteq Nat \ {0}
  /\ sizeof_ClientInfo \in Nat
ASSUME ChunksAssumption ==
  /\ NChunks \in Nat \ {0}
  /\ NItems = NChunks * total_alloc_item

VARIABLES
  fd_links,    \* fd_list_node of the items, and g_client_fd_list
  timer_links, \* event.timer_node of the items, and g_net_timer
  loop,        \* pos and next of the loop the event loop is in
  reuse_ptr,   \* the first item of the free list
  first_word,  \* [Items -> link]: what mempool_free left in the item
  chunks,      \* chunks allocated; alloc_ptr is the last
  chunk_pos    \* the pool's alloc_pool_pos: items carved out of the last chunk

linkVars  == <<fd_links, timer_links, loop>>
chunkVars == <<reuse_ptr, first_word, chunks, chunk_pos>>
memVars   == <<vars, linkVars, chunkVars>>

FdNodes    == Fds \cup Items
TimerNodes == {g_net_timer} \cup Items
NoLoop     == [pos |-> NoItem, next |-> NoItem]
NULL       == NoItem

Fresh(nodes, heads) ==
  LET link == [x \in nodes |-> IF x \in heads THEN x ELSE Unset]
  IN  [next |-> link, prev |-> link]

MInit ==
  /\ Init
  /\ fd_links = Fresh(FdNodes, Fds)
  /\ timer_links = Fresh(TimerNodes, {g_net_timer})
  /\ loop = NoLoop
  /\ reuse_ptr = NULL
  /\ first_word = [c \in Items |-> Unset]
  /\ chunks = 1
  /\ chunk_pos = 0

-----------------------------------------------------------------------------
(* g_mempool, following its pointers *)

exhausted == reuse_ptr = NULL /\ chunk_pos = total_alloc_item /\ chunks = NChunks

\* The item mempool_alloc returns.
allocated ==
  IF reuse_ptr # NULL THEN reuse_ptr
  ELSE IF chunk_pos = total_alloc_item THEN chunks * total_alloc_item + 1
  ELSE (chunks - 1) * total_alloc_item + chunk_pos + 1

mempool_calloc ==
  /\ ~exhausted
  /\ IF reuse_ptr # NULL
     THEN reuse_ptr' = first_word[reuse_ptr] /\ UNCHANGED <<chunks, chunk_pos>>
     ELSE /\ IF chunk_pos = total_alloc_item
             THEN chunks' = chunks + 1 /\ chunk_pos' = 1
             ELSE chunk_pos' = chunk_pos + 1 /\ UNCHANGED chunks
          /\ UNCHANGED reuse_ptr
  /\ first_word' = [first_word EXCEPT ![allocated] = Unset]

link_free(c) ==
  /\ first_word' = [first_word EXCEPT ![c] = reuse_ptr]
  /\ reuse_ptr' = c
  /\ UNCHANGED <<chunks, chunk_pos>>

-----------------------------------------------------------------------------
(* The event loop *)

MProcPkgCli(fd, cmd) ==
  /\ ProcPkgCli(fd, cmd)
  /\ mempool_calloc
  /\ fd_links' = Links!list_add_tail(allocated, fd, fd_links)
  /\ timer_links' = Links!list_add_tail(allocated, g_net_timer,
                      Links!INIT_LIST_HEAD(allocated, timer_links))
  /\ UNCHANGED loop

MProcPkgCliNoMem(fd) == ProcPkgCliNoMem(fd) /\ exhausted /\ UNCHANGED <<linkVars, chunkVars>>

\* Mutant of Unlink: the event stays in the timer list.
Unlink_keep_timer(sn, m) ==
  LET c == client_info_map[sn]
  IN  /\ fd_links' = Links!list_del_init(c, fd_links)
      /\ link_free(c)
      /\ timer_links' = m

\* DestroyClient on the pointers, m being the timer list's.
Unlink(sn, m) ==
  LET c == client_info_map[sn]
  IN  /\ fd_links' = Links!list_del_init(c, fd_links)
      /\ link_free(c)
      /\ timer_links' = Links!list_del_init(c, m)

MTimeEvent ==
  /\ TimeEvent
  /\ loop' = Links!list_for_each_safe(g_net_timer, timer_links)
  /\ UNCHANGED <<fd_links, timer_links, chunkVars>>

\* The loop takes the event off the list before it calls DoServerTimeout.
MDoServerTimeout ==
  LET sn == item[loop.pos].ser_seq
  IN  /\ main = "timer"
      /\ loop.pos # g_net_timer
      /\ Expired(loop.pos)
      /\ DestroyClient(sn)
      /\ Unlink(sn, Links!list_del_init(loop.pos, timer_links))
      /\ loop' = Links!next_entry(loop, timer_links')
      /\ UNCHANGED <<now, linked, mainVars, is_running_, queue_, threadVars, outVars>>

MTimeEventEnd ==
  /\ main = "timer"
  /\ loop.pos # g_net_timer => ~Expired(loop.pos)
  /\ main' = "idle"
  /\ current_time' = 0
  /\ loop' = NoLoop
  /\ UNCHANGED <<poolVars, indexVars, now, linked, main_ci, main_fd, is_running_,
                 queue_, threadVars, outVars, fd_links, timer_links, chunkVars>>

MLinkDownCli(fd) ==
  /\ LinkDownCli(fd)
  /\ loop' = Links!list_for_each_safe(fd, fd_links)
  /\ UNCHANGED <<fd_links, timer_links, chunkVars>>

MLinkDownCliEntry ==
  LET sn == item[loop.pos].ser_seq
  IN  /\ main = "linkdown"
      /\ loop.pos # main_fd
      /\ DestroyClient(sn)
      /\ Unlink(sn, timer_links)
      /\ loop' = Links!next_entry(loop, fd_links')
      /\ UNCHANGED <<now, linked, mainVars, is_running_, queue_, threadVars, outVars>>

\* Mutant of MLinkDownCliEnd: the loop may end before it is at the head.
MLinkDownCliEnd_early ==
  /\ main = "linkdown"
  /\ main' = "idle"
  /\ main_fd' = NoFd
  /\ loop' = NoLoop
  /\ UNCHANGED <<poolVars, indexVars, now, linked, main_ci, current_time, is_running_,
                 queue_, threadVars, outVars, fd_links, timer_links, chunkVars>>

MLinkDownCliEnd ==
  /\ main = "linkdown"
  /\ loop.pos = main_fd
  /\ main' = "idle"
  /\ main_fd' = NoFd
  /\ loop' = NoLoop
  /\ UNCHANGED <<poolVars, indexVars, now, linked, main_ci, current_time, is_running_,
                 queue_, threadVars, outVars, fd_links, timer_links, chunkVars>>

(***************************************************************************)
(* timer_uninit deletes what its loop meets, entry by entry, and makes the *)
(* head anew.  There are not more entries than items.                      *)
(***************************************************************************)
UninitLoop ==
  [links |-> timer_links, loop |-> Links!list_for_each_safe(g_net_timer, timer_links)]

OneDeleted(d) ==
  LET m == Links!list_del_init(d.loop.pos, d.links)
  IN  IF d.loop.pos = g_net_timer THEN d
      ELSE [links |-> m, loop |-> Links!next_entry(d.loop, m)]

Deleted[n \in 0..NItems] == IF n = 0 THEN UninitLoop ELSE OneDeleted(Deleted[n - 1])

\* g_client_fd_list is freed, and nothing follows the rings any more.
MUninit ==
  /\ Uninit
  /\ timer_links' = Links!INIT_LIST_HEAD(g_net_timer, Deleted[NItems].links)
  /\ UNCHANGED <<fd_links, loop, chunkVars>>

Elsewhere ==
  \/ Tick \/ put \/ join_all
  \/ \E fd \in Fds : LinkUpCli(fd)
  \/ \E t \in Threads : ThreadStep(t)

MNext ==
  \/ Elsewhere /\ UNCHANGED <<linkVars, chunkVars>>
  \/ \E fd \in Fds : MLinkDownCli(fd) \/ MProcPkgCliNoMem(fd)
  \/ \E fd \in Fds, cmd \in Cmds : MProcPkgCli(fd, cmd)
  \/ MTimeEvent \/ MDoServerTimeout \/ MTimeEventEnd
  \/ MLinkDownCliEntry \/ MLinkDownCliEnd \/ MUninit

MSpec == MInit /\ [][MNext]_memVars

-----------------------------------------------------------------------------
(* Correctness *)

LinksTyped ==
  /\ fd_links \in Links!Memories(FdNodes, {Unset} \cup FdNodes)
  /\ timer_links \in Links!Memories(TimerNodes, {Unset} \cup TimerNodes)
  /\ first_word \in [Items -> {NULL, Unset} \cup Items]
  /\ chunks \in 1..NChunks /\ chunk_pos \in 0..total_alloc_item

FdRings == is_running_ => \A fd \in Fds : Links!IsList(fd_links, fd, fd_list[fd])

TimerRing == Links!IsList(timer_links, g_net_timer, timer)

At(head, s) == [pos |-> Links!At(head, s, 1), next |-> Links!At(head, s, 2)]
LoopOnRing ==
  /\ main = "timer" => loop = At(g_net_timer, timer)
  /\ main = "linkdown" => loop = At(main_fd, fd_list[main_fd])

FreeList ==
  /\ reuse_ptr = Links!At(NULL, reuse, 1)
  /\ \A i \in 1..Len(reuse) : first_word[reuse[i]] = Links!At(NULL, reuse, i + 1)
Carved == alloc_pool_pos = (chunks - 1) * total_alloc_item + chunk_pos

(***************************************************************************)
(* The pointers are what Proxy takes them for, in every state between the  *)
(* steps of the callbacks: the links of the items and heads are rings in   *)
(* the order of the lists, a loop stands at the first entry that is left   *)
(* and has saved the second, though its body has freed the one before; the *)
(* free list runs through the items given back, the last first; and the    *)
(* chunks hold as many items as were carved.                               *)
(***************************************************************************)
MemoryOK ==
  /\ TypeOK
  /\ LinksTyped
  /\ FdRings
  /\ TimerRing
  /\ LoopOnRing
  /\ FreeList
  /\ Carved
=============================================================================
