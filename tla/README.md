# Verification of the thrift proxy

TLA+ models of the proxy in `src/`, the TLC runs that check them on small
instances, and theorems about them checked by TLAPS. `PROJECT.json` lists the
components, runs, mutants, the map from definitions to source lines, the
hazards and the theorems.

## 1. The system

The program is a plug-in of an asynchronous server framework (a binary; only
its header is in the repository). The framework starts several worker processes
and calls the entry points of `src/src/common/server.cpp`, one at a time in each
process. The last process is the *control* process; the others are *proxies*.

A proxy receives packages from game clients. Each package becomes a request: an
item of a memory pool, which is entered into a table of requests, into the list
of its client's descriptor and into a timer list, and is put into the queue of a
thread pool. A thread asks the filter service for a verdict, answers the client,
and stores the message with its verdict in the database service. Both services
are reached by Thrift over pooled connections. Shell scripts start, stop and
watch the whole.

| component | state | operations | interacts with | hard behaviour |
|---|---|---|---|---|
| Proxy worker (`base/proxy.cpp`, `common/client_info.*`) | request table `client_info_map`, `serialized_no`, `g_client_fd_list` | `ProcPkgCli`, `LinkUpCli`, `LinkDownCli`, `TimeEvent`, `DestroyClient`, `Uninit` | every one below | items freed and reused while threads read them; late answers; shutdown order |
| Timer list (`utils/timer.cpp`) | list of events | add, delete, check | calls back `DoServerTimeout` | stops at the first event not due |
| Memory pool (`utils/mempool.cpp`) | chunks, carve position, free list, `ref_count` | create, alloc, free, destroy | the worker | exhaustion; the free link overwrites the item; destroy refused while in use |
| Intrusive lists (`common/list.h`) | links inside the items | `INIT_LIST_HEAD`, `list_add_tail`, `list_del_init`, the safe loops | timer list, descriptor lists | deletion while walking |
| Thread pool (`base/thread_pool.h`) | `queue_`, `is_running_`, `mu_`, two condition variables | `start`, `put`, `take`, `stop` | `put` is called by the event loop and blocks it | lost wake-ups, stop without the mutex |
| Handlers (`handler/`) | `dirty_flag` and the messages of one call | `tisProtoHandler`, `defaultProtoHandler` | items, two connection pools, two services | several reads of one item with a remote call in between; calls that fail after the service did its work |
| Connection pool (`connection/`) | `is_busy_`, `is_dead_` and the transport of each connection, `count_`, `last_checked_time_` | `init`, `getConnection`, `release` | threads, backends | sharing, failures, closing under other users, counter overflow |
| Thrift types and stubs (`thrift/`) | plain client: a socket buffer; concurrent client: `seqidToMonitorMap_`, `recvPending_`, `wakeupSomeone_`, `stop_` and two mutexes | five methods of two services: `send_`, `recv_`, the processor | connection | the plain client does not check an answer's number; the concurrent one hands answers from thread to thread |
| Configuration and entry points (`common/file_config_manager.cpp`, `common/server.cpp`) | key-value map, `serialize_num`, the role of each worker | `load_config`, `reload_config`, getters, `plugin_init`, `select_channel` | read at `Init` | includes, partial failure, repeated loads, counter overflow |
| Control process (`common/control.cpp`, `common/log_processor.cpp`) | files to archive | nightly archive and removal | the log directory | state carried from one file to the next; failure of tar |
| Scripts (`server.sh`, `keep-alive.sh`) | the process, crontab, four temporary files | start, stop, restart, keep alive | the process, cron | two shells at once on the same files; a crash between two commands |

What makes them correct:

* lists and pool: the pointers form the rings and the free list they stand for, no
  loop follows a pointer of an item it has freed, and no two items overlap;
* worker: the structures that index the requests in flight always agree; no
  request is lost, dropped without cause or left behind after its client; a
  request in flight is replied to with its own data, and every package is served to
  one reply, at most once and eventually; a reply after the timeout goes where the item
  says by then, which is no promise to anybody;
* thread pool: it is a bounded FIFO queue; nobody sleeps while there is work or
  room; stopping loses no task and ends;
* connection pool: a connection has one user; marks are truthful; no answer of an
  earlier call is left for a later one;
* handlers: what the client is told and what is stored agree, each happens at
  most once, and a verdict is the verdict on that very message;
* stubs: what one side writes the other reads, and threads that share a
  concurrent client each get their own answer or an exception, never nothing;
* configuration: the values in force are those of one version of the files;
* entry points: every package goes to a proxy and none to the control process;
* control process: no log leaves the log path before its time, archived or not,
  and the files of today are never touched;
* scripts: a stopped server stays down, one that is up is watched, a crashed one
  is started again, and every script ends, unless the process it waits for hangs.

## 2. Modules

| module | models |
|---|---|
| `IntrusiveList` | `list_add_tail`, `list_del_init` on the sequence of entries |
| `LinkedList` | the same operations, and the safe loops, on `next` and `prev` |
| `MemoryPool` | the sizes `mempool_create` computes and the addresses of the items |
| `Proxy` | a worker process: event loop, pool, indices, timers, threads and handlers |
| `ProxyMemory` | the worker with the pointers of its lists, loops and pool; refines `Proxy` |
| `TaskQueue` | abstract: what a thread pool promises |
| `ThreadPool` | `thread_pool.h` at the level of mutex and condition variables; refines `TaskQueue` |
| `ServiceCalls` | abstract: what a pool of connections gives the handlers |
| `ConnectionPool` | one pool of connections, its users and its backends; refines `ServiceCalls` |
| `ThriftStructs` | the five structures and the messages on the wire |
| `TisService`, `IdentityServ` | the stubs of the two services: clients, concurrent clients, processors |
| `RemoteCalls` | abstract: what threads that share a client are promised |
| `ConcurrentClient` | the concurrent client with its locks and monitors; refines `RemoteCalls` |
| `TisHandler` | the handler over two instances of `ServiceCalls` and the two services |
| `FileConfig` | the configuration manager and its parser |
| `Server` | process, scripts, crontab and operator, over `FileConfig` |
| `LogProcessor` | the control process's nightly archive and removal of logs |
| `MC...` | instances for TLC: messages, files, symmetry sets |
| `...Proofs` | lemmas and theorems |

How they compose: `Proxy` works on the sequences of `IntrusiveList`, and
`ProxyMemory`, on the pointers of `LinkedList` and the sizes of `MemoryPool`, is
shown to implement it; `Proxy` uses a bounded FIFO queue, which `ThreadPool` is shown
to implement; `TisHandler` uses `ServiceCalls`, which `ConnectionPool` is shown to
implement, and what travels there are the messages of `TisService` and
`IdentityServ`; `Server` reads its configuration with `FileConfig`.

### Proxy

One process with two kinds of actors. The *event loop* runs a callback to its
end before the next one: `main` says which one it is in. A callback that only
touches its own data is one step; the loops of `timer_check_event` and
`LinkDownCli` are one step per entry (`DoServerTimeout`, `LinkDownCliEntry`),
and the blocking `put` at the end of `ProcPkgCli` is a step of its own, because
the threads run in between. A *thread* goes through `take`, `runTis` or
`runDefault`, `check` and `StoreMessage`; these are the points at which
`tisProtoHandler` reads the shared item through its pointer.

The items are records (`ClientInfo`) in a function over `Items`. A free item is
not blank: `mempool_free` overwrites its first word (`cli_fd` and `cli_seq`)
with the link of the free list, and the rest keeps what it had. What a package
carries is abstracted to its number in the order of arrival, so that a reply or
a record that mixes two requests is visible as two different numbers.
`serialized_no` keeps its width (`% SerialMod`). `job`, `req` and `replies` are
history variables: `replies` has, of each reply, the descriptor and the number that
`SendToClient` read from the item when it sent it, and the package whose thread did
(`by`). So a thread whose request has timed out and whose item is free or another's
replies to nobody or to the wrong client in the model as it does in the program. The
answers of the backends are left open.

Abstractions: the lists are sequences and the memory pool is a number of items
(`ProxyMemory` has the pointers and the chunks); a package over the length limit is no step; when a thread
reads an item while it is rewritten the reads are not split field by field,
because every property about a thread's reads concerns a request in flight,
whose item nobody rewrites.

### LinkedList, MemoryPool and ProxyMemory

A memory of `LinkedList` is a `next` and a `prev` of every node; an operation
returns the memory after its stores. `IsList(m, head, s)` says that the head and the
sequence `s` are a ring. `ProxyMemory` extends `Proxy` by two such memories, one for
the rings of the descriptors (`fd_links`) and one for the timer list (`timer_links`),
in which an item stands for the node inside it; by `loop`, the entry the event loop is
at and the one `list_for_each_safe` has saved; and by the pool's `reuse_ptr`, the word
`mempool_free` leaves in each item (`first_word`), the number of `chunks` and the
position in the last one (`chunk_pos`).

Its actions follow these pointers: where `Proxy` takes the first of `timer` or
`fd_list`, a turn of a loop takes `loop.pos`, ends when that is the head, and goes on
to `loop.next`, although `DestroyClient` has just unlinked the entry and given it back
to the pool; an allocation takes `reuse_ptr` and follows the word in it, or carves the
last chunk, or asks `malloc` for another. `timer_check_event` takes an event off the
list and `timer_del_event` does it again. The loop of `timer_uninit` runs inside one
step (`Deleted`). Links start with an arbitrary value (`Unset`). Proxy's `fd_list`,
`timer`, `reuse` and `alloc_pool_pos` are kept beside the pointers to say what they
stand for (`MemoryOK`), and what happens in `Proxy` only to them is `Elsewhere`.

`HeadsAssumption` says that the heads are not items. The size of a chunk is computed
as the code does it, from constants for the word, the page and `sizeof(ClientInfo)`;
`ChunksAssumption` says that `NItems` are the items of the chunks malloc grants.
`mempool_calloc` clears the first eight bytes only (`src/src/utils/mempool.cpp:96`),
which hold no link.

### ThreadPool and TaskQueue

A critical section is a step that needs `mu_`. The end of the wait loop in
`take` is two steps (`takeTest`, then `wait` with `mu_` held), because `stop`
writes `is_running_` and notifies without `mu_`, so its steps can fall in
between. Spurious wake-ups are actions. The refinement maps `queue_`, `task`,
`ran` and `is_running_` to the abstract queue, running tasks, finished tasks and
the open flag; waiting, waking and the mutex are stuttering steps.

### ConnectionPool and ServiceCalls

`getConnection` is three actions for its three outcomes (an available
connection, one that had to be opened, none), `release` one. A socket is closed,
open, or broken (the peer is gone and the process does not know). `wire` holds
the requests a connection's backend has yet to answer, `replies` the answers on
the way back: they come in the order of the requests and go to whichever thread
reads next. `count_` keeps its width (`inc`, `rem`), and `last_checked_time_`
starts with an arbitrary value because the constructor does not set it.

`ServiceCalls` forgets the marks, sockets, addresses and the clock. A thread is
given some connection, perhaps the same as another's, and a failed call starts
every connection afresh. That this is all the handlers may rely on is the
refinement (`ImplementsServiceCalls`).

### ThriftStructs, TisService, IdentityServ

A structure on the wire is a sequence of fields with id, type and value. Readers
take fields by id and type, skip the others, and leave what is absent as the
constructor set it, as the generated `read` methods do. For each of the five
methods there are the arguments (`pargs_write`, `args_read`), the result
(`result_write`, `presult_read`), `send_` and `recv_` of the plain and of the
concurrent client, and the processor's `process_` function with its exceptions.
The text on the wire, sizes and byte order belong to Thrift's library.

### ConcurrentClient and RemoteCalls

One object called by several threads. A step is what happens under one lock or
between two: numbering a call and registering it, writing the request, taking
`readMutex_`, looking for a pending answer, reading a header, taking one's own
answer or leaving it pending for its owner, testing for work, releasing the mutex
to wait, waking up, and the end of the receiving sentry. The service answers in
any order, with a value or an exception; the connection may fail in either half.
Each answer says whose request it is for, by what it carries, so a swapped answer
is visible. The refinement to `RemoteCalls` hides all of it but who is in a call
and how the last one ended.

The loop of `recv_` is generated into each method; `sync_`
(`TConcurrentClientSyncInfo`) is in Thrift's library, which is not in the
repository, and is modelled from how the generated code uses it (external in the
map). The wrap-around of the 32-bit sequence numbers is out of the model.

### TisHandler

A thread takes a package and goes through the two halves of `tisProtoHandler`:
check and reply, then store. Every branch is an action: no check needed, no
connection, the call (request, answer, failure at any point), an answer that
throws, the verdict. `dirty_flag` is what is stored. The services answer with the
processors of the stubs; a call may fail after the service has done its work.
`told`, `judged` and `db` record what clients were told, what the filter service
said of each text, and what the database has. `shared` are the threads whose
connection another had at the same time. The texts of the packages differ
(`PackagesAssumption`), so that a record or a verdict says whose it is; the handler
itself never compares texts.

`Proxy` models the same handler from the side of the shared item, with the
services left open; `TisHandler` models the calls, with each package's data fixed.

### FileConfig and Server

The disk is a function from file names to lines. `ParseConfigFile` follows the
code with its early returns and recursion into included files, each of which
costs a descriptor (`MaxOpenFiles`), so that a file that includes itself ends in
an error as it does in the program. It is a function of the number of descriptors
left, so that it can be reasoned about. `Sound` and `Meaning` say independently which
trees of files can be read (every file is there, none includes itself, and no key is
told in two places) and what they mean.

A key that is in the map already ends the process: `BOOT_LOG(-1, ...)`
(`src/src/common/file_config_manager.cpp:73`) calls `boot_log`, which exits when its
first argument is not 0. The comment of the macro says so (`src/src/common/log.h:352`),
and so does the framework's binary, `src/bin/async-proxy`, whose `boot_log` passes the
argument to `exit`; the `return` behind the call in the macro is never reached. The
result of the parser is therefore `"true"`, `"false"` or `"exit"`, and a reload can end
a running server.

`Server` has a process (`down`, `starting`, `up`, `stopping`, `stuck`) with its
configuration manager, and two shells: the operator's, and that of the cron job
`keep-alive.sh`. A step of a shell is one command of the script that looks at or
changes the process, the crontab or a file; a redirection and what the command writes
through it are one step. So `add_crontab` is a listing, two looks, up to two `echo`s, an
installation and a removal, and `delete_crontab` as many again, and all of them
interleave with the other shell's on the same temporary files (`files`): a file may be
truncated, extended, installed or removed between any two. `crontab` is the set of its
lines, with the cron job's entry, somebody else's (`"other"`) and the blank line that
`echo "${item2}"` writes. The operator edits files, and the process may crash at any time.

`plugin_init` gives a worker its role or, when its `Init` fails
(`src/src/common/server.cpp:83-92`), leaves it `"failed"`: the framework's binary ends
such a worker and starts no other in its place. `plugin_fini` ends the process, or
hangs (`"stuck"`) in a proxy, because `Proxy::Uninit` stops the thread pool and
`ThreadPool::stop` may never return (`StopReturns`); a process that waits for such a
worker stays and keeps the lock. Of the framework it is also assumed that the lock of
the pid file is held from the process's start to its end, and that the configuration is
loaded before the workers are started.

### LogProcessor

A file is its date (0 if its name has none) and an id; an archive is the set of
the files packed in it. The other processes write and time passes between any
two steps of a night's work, but a night ends before the next day. `DoRemove` is
one step per directory entry, in any order, with the variable `date` carried from
one entry to the next as in the code; `TarMapFiles` is one step per date. Opening
the directory, writing the list of names, `unlink` and `tar` may fail, and `tar`
may pack only some of the files it is given. `Restart` kills the process between
any two steps, which loses `m_tar_files`. A night may be skipped, because
`TidyLogPath` needs a time event in one particular second.

## 3. Runs

| run | checks | shows |
|---|---|---|
| `proxy` | `MemoryOK`, `PendingServedFaithfully`, `RepliedOnce`, `IndexCoherence`, `NoOrphans`, `SweepIsComplete`, `DroppedForCause` | on the pointers (`MSpec`): rings, loops and free list are sound in every state (`MemoryOK` includes `TypeOK`); the request table, timer list, descriptor lists and free list agree between any two steps; disconnects and sweeps are complete and precise; what threads do for a request in flight is done with its own data, its reply goes to its own client, and its memory has not been returned; no package is served to two replies |
| `proxy_liveness` | `EventuallyReleased`, `EventuallyServed` | items come back; every package is served to its reply, its client's own while the request is in flight |
| `proxy_late_answer` | `AnswersOnlyPending` (violated) | an answer after the timeout is sent, to nobody or to the item's next client, where a comment says it is dropped |
| `thread_pool` | `TypeOK`, `NoStrandedTask`, `PutWaitsOnlyWhenFull`, `StopLosesNoTask`, `ImplementsTaskQueue`, `PutReturns`, `StopReturnsUnlessWakeupLost` | no lost wake-up while running, no lost task at stop; refinement with liveness; the lost wake-up is the only way for stop to hang |
| `thread_pool_stop` | `StopReturns` (violated) | the lost wake-up of `stop` |
| `connection_pool` | `TypeOK`, `BusyHeld`, `DeadIsClosed`, `NoStaleAnswer`, `NullOnlyIfRefused`, `ImplementsServiceCalls` | truthful marks, no stale answers, no leak of connections; refinement |
| `tis_handler` | `TypeOK`, `ToldIsStored`, `OnceEach`, `OwnVerdictUnlessShared` | client and database are told the same, once; a verdict is wrong only on a shared connection |
| `tis_handler_shared` | `OwnVerdict` (violated) | two threads on one connection: a client is told the verdict on another's message |
| `concurrent_client` | `TypeOK`, `AnswerHasOwner`, `SomebodyReads`, `ImplementsRemoteCalls`, `EveryCallReturns` | own answer or exception in any interleaving; nothing read is lost; nobody sleeps for good |
| `server` | `TypeOK`, `ServesOneVersion`, `StoppedStaysDown`, `UpIsWatched`, `PackagesToProxies`, `ScriptsEndUnlessStuck` | the configuration is never a mixture or a part of a version; scripts and cron against each other, command by command |
| `server_keep_alive` | `KeepAliveRestarts` (violated) | after a crash `keep-alive.sh` starts the server without its configuration, every minute, in vain |
| `log_processor` | `TypeOK`, `NothingLostEarly`, `TodaysLogsUntouched` | no log is lost before its time through failures, restarts, skipped nights or a backlog |

What the models show beside the runs:

* `src/src/base/proxy.h:32` says that a request is removed once its reply is sent,
  but that call of `DestroyClient` is commented out (`src/src/base/proxy.cpp:211`).
  An answered request keeps its item until it times out; `EventuallyReleased` is
  about that release.
* `Uninit` destroys the pool before it stops the threads (`src/src/base/proxy.cpp:150`).
  `mempool_destroy` refuses while `ref_count` is not zero, so that a thread serving a
  request still in flight finds its memory there: the last conjunct of
  `PendingServedFaithfully`, with a mutant of its own (`mempool_destroy_early`). A
  thread whose request has timed out meanwhile may read memory that has been returned
  (`fault`); no property excludes that, as nothing in the repository promises it.
* `NothingLostEarly` leaves out the dates in `split`: when `tar` packs some files of
  a date and not the others, the code packs the others the next night into a new
  archive of the same name, and those packed first are lost. A file without a date
  in its name is judged by the date of the entry read before it.
* `count_` of a connection pool becomes negative after 2^31 connections, and so does
  the index computed from it; `inc` and `rem` say so, and the bound of the run keeps
  away from it. One failed call closes the connections to all addresses of a pool,
  also those of healthy backends with calls under way; `ServiceCalls` allows it.
* `delete_crontab` removes every line that contains `item2`, which is not set
  (`src/server.sh:57`), so that after a stop the crontab is empty, other entries
  included (`filter2` and `install2` of `delete_crontab`).
* `StoppedStaysDown` holds for a poor reason: the cron job may well start the server
  behind the operator's back, but without naming the configuration, so that the
  process never gets up. Given its argument the property fails, which is its mutant.
* `UpIsWatched` excludes two overlaps (`clash`), in both of which the scripts do leave
  the server up and unwatched. `keep-alive.sh` may kill a server that the operator had
  started after its first look, and delete the entry. And a shell may remove the list
  (`src/server.sh:35`) after the other has looked for the entry in it and before it
  installs it: `echo` then writes a new file with a blank line, which is installed, and
  the entry is lost with all the other lines. It takes a start of the cron job whose
  process loses the lock to the operator's start. Without this exclusion the run finds
  it, in 35 steps. The other overlaps on the shared files, a truncation or an
  installation half-way, are not excluded, and do no such harm.
* A reply after the timeout goes through the item as it is then
  (`src/src/base/proxy.cpp:200`), and the 2003 reply of the timeout itself is commented
  out (`src/src/base/proxy.cpp:349`): the client of such a package may get no reply, and
  another two. So `RepliedOnce` and `EventuallyServed` promise a reply to the client of a
  request in flight only; of the others they say that a thread has sent it.
* Packages go to failed workers too: `select_channel` does not know who has failed.

### Bounds

`proxy`: two threads, two descriptors, two items, each in a chunk of its own, and
three packages: rings have none, one and two entries, the loops delete both, items
are carved from either chunk and come off the free list, and a thread can hold an item that was freed and given to the other thread's request, the pool runs
out, a descriptor is reused with requests in flight. The serial number does not
wrap around there; it does in `proxy_liveness` (two numbers), and the theorems
about the indices hold for every `SerialMod`. With a timeout of 0 a request is not due
in the second it arrived in, is in the next, and a clock of two seconds has one more for the
requests that arrive after the first sweep. 2.2 million distinct states. `proxy_liveness`: the smallest instance in which
the queue is full and the pool empty. Packages arrive only while the clock can still
pass their timeout (`PkgArrives`), so the bound on the clock does not hide a missing
release. `MCProxyMemory` also evaluates `Apart` of `MemoryPool` for all items of up
to 9 bytes and chunks of up to 40, for several words, pages and defaults
(`SizesExamples`).

`thread_pool`: three workers, a queue of two, five tasks and two spurious
wake-ups: put sleeps, and several workers sleep at once.

`connection_pool`: two threads on two connections to two addresses, so that the
pool is at its limit; four connections are taken in a run (`MaxCount`), enough for
one to fail, one to be shared and both to be opened again; two ticks of the clock
pass the interval between checks. `IntMax` is 7 and not reached.

`tis_handler`: two threads, two connections to the filter service and one to the
database, three packages (one that needs no check, one with another game id), four
verdicts (allow, deny, an error code, an exception). A thread handles a second
package after a first that failed, and both share a connection.

`concurrent_client`: three threads and three calls, of every method: one reads for
two others that wait, and a pending answer, a wake-up and a failure come together.

`server`: two commands of the operator (`MaxCommands`), one edit or crash
(`MaxMishaps`), and four versions of the disk: two sound ones, one that includes itself,
and one with a key in two files. Three workers, and `ChannelMod` 2, so that
`serialize_num` wraps around at once. 137,000 distinct states. The cron job is not
bounded: after a crash it runs `stop` and `start` beside the operator's second command,
again and again, in every interleaving of their steps. The theorems of `ServerProofs`
hold for any number of commands and mishaps.

`log_processor`: three files, so that a date has two (packed in part) and another
date one; one date packed per night (`MAX_SORT_DAY`), so that a backlog is left
for the next night; files are kept for three days out of six, so that they are
packed, retried and removed. `log_archive_days` is configured as -1, which
`Control::Init` must correct.

Deadlock checking is off where the system may really stop: `Proxy` and `ThreadPool`
end after the join, and their workers sleep when nothing is put; the bounds on days
and files leave `LogProcessor` nothing to write; when all packages are handled or
all calls made, `TisHandler` and `ConcurrentClient` have nothing to do; `Server`
stops when the operator does, with the server down. It is on for `ConnectionPool`.

### Fairness

`ThreadPool`: weak fairness of each thread, no more: the scheduler runs what can
run. Nothing makes the owner call or a spurious wake-up happen.

`Proxy`: the clock ticks; the loop finishes the callback it is in; each thread
proceeds, and so a backend call returns, which the socket's time-outs of
`Connection::init` (0.5 s to connect, 10 s to send or receive) guarantee.
`TimeEvent` gets strong fairness: the framework calls it periodically, but other
callbacks may run in between for as long as packages arrive.

`ConcurrentClient`: strong fairness of each thread inside a call: it is given the
mutex in its turn although others take it in between, and a read ends at the latest
at its time-out. Nothing makes the service answer, and none need call.

`Server`: weak fairness of the shells, of cron, of loading, and of `plugin_fini` in a
process that was killed, which need not end the process: it may hang in a proxy instead,
for ever, and the scripts then wait for it (`ScriptsEndUnlessStuck`). The two steps of
`stop` that find the process gone get strong fairness: `stop` looks every second, cron
starts at most one process a minute, so `stop` sees the server down before it is up
again.

## 4. Proofs

Eight modules hold theorems. All hold for every value of the constants (threads,
descriptors, items, packages, connections, calls, days and so on) under the named
assumptions, which TLC evaluates on the instances.

`ProxyProofs`:

* `AddTail` and `DelInit` state for lists of any length what the two list operations
  do to the set of entries, their distinctness, the length and the order.
* `TypeCorrect`: `Spec => []TypeOK`. `TypeOK` is inductive; it includes that the
  pointer a thread or a callback is about to follow is a pointer to an item.
* `IndicesCoherent`: `Spec => []IndexCoherence`, from `Coherent`, the conjunction
  of `MapOk`, `TimerOk`, `FdOk`, `PoolOk` and `RefOk`. Each alone is not
  inductive: a new item is not yet in the timer list because it is not in flight
  (`TimerOk`), it is not in flight because it comes from the free list or was
  never carved (`PoolOk`, lemma `AllocIsFresh`), and `DestroyClient` unlinks it
  from the right descriptor's list because of `FdOk` and `MapOk`.
* `NoneOrphaned`: `Spec => []NoOrphans`. It needs `IndexCoherence`, so that the
  empty list of a descriptor means no requests of it, and `LoopOk`, what holds of
  the loop's own variables. Three of the four steps that touch requests each get a
  lemma saying which request they add or remove (`ArrivalAddsOne`,
  `TimeoutDestroysHead`, `LinkDownDestroysHead`); `QuietStep` covers the others.
* `OnlyDroppedForCause`: `Spec => DroppedForCause`, from the same lemmas.
* `SweepsComplete`: `Spec => SweepIsComplete`. A sweep stops at the first request
  that is not due, so it is complete because the timer list is sorted. The
  inductive invariant `TimerSorted` adds that no request has more time left than a
  new one gets: appending keeps the order because of that, and deleting from the
  middle does because `list_del_init` keeps the order (lemma `DelInit`).
* `ServedFaithfully`: `Spec => []PendingServedFaithfully`. `OwnData` follows an item
  from the request to the thread: what the event loop, the queue or a thread holds
  for a package is that package's item, with its text, as long as the package is in
  flight. A freed item may be in use again for another, but then the first package
  is out of flight, and one that is never comes back (`NeverAgain`). That the memory is
  still there at shutdown is `GoneOk`: `Uninit` frees it only with `ref_count` zero,
  which is the length of the timer list (`IndexCoherence`), so nothing is in flight
  then, nor later.
* `RepliesAreOwn`: `Spec => []RepliedOnce`. No package is served to a second reply,
  because one that has not been (`Answered`) is in one place: about to be queued, queued,
  or owed by one thread (`InOnePlace`). A reply is addressed by what the item says; while
  the request is in flight that is its own descriptor and number (`ServedFaithfully`),
  and a request once out of flight never is in flight again (`NeverAgain`), so a reply
  that has gone astray is never one to a request in flight.

* `MemoryCoherent`: `MSpec => []MemoryOK`. First the operations, for any ring of any
  nodes: `list_add_tail` and `list_del_init` on the pointers give the ring of the
  sequence `IntrusiveList` gives (`AddTailRing`, `DelInitRing`), leave a ring without
  the entry alone (`OtherRings`), and deleting twice does no harm (`DelInitAlone`); a
  loop that has deleted its first entry stands where the ring left begins
  (`LoopGoesOn`). The invariant is then `IMemory`: `MemoryOK` with `IndexCoherence`,
  `NoOrphans` and `LoopOk`. A new item must be in no ring for `AddTailRing`, and an
  item to be destroyed in exactly the ring of its descriptor, which `Coherent` says;
  the loop of `LinkDownCli` ends at the head exactly when the list is empty; and a
  ring is only followed while the server runs (`LoopOk`). The pool's pointers need
  that the free list has no item twice (`PoolOk`).
* `MemoryImplementsProxy`: `MSpec => Spec`. Under `IMemory` every step on the pointers
  is the step of `Proxy` (`StepIsProxys`), so that all that is proved of `Spec` holds
  of the worker on its pointers.
* `UninitLoopEnds`: after n turns of `timer_uninit` a ring of at most `NItems - n`
  entries is left (`UninitWalks`), because distinct items are no more than there are
  (`NotLonger`); so the loop ends, and `Deleted` leaves none of its turns out. What a
  recursive function like `Deleted` computes follows from the lemmas `Recursion` (it
  exists) and `Induction` over its argument, which are proved from the well-foundedness
  of the numbers, without an operator as a parameter.
* `ItemsApart`: `Apart` of `MemoryPool` for all sizes; from it a chunk holds an item
  (`ChunkHolds`), which `Carved` needs.

The theorems about `Proxy` use the guard `SerialIsFree` of `ProcPkgCli`: fewer than
2^32 packages arrive within a timeout. Those about `ProxyMemory` use
`HeadsAssumption`, `SizesAssumption` and `ChunksAssumption`.

`ThreadPoolProofs`:

* `NoneStranded`: a worker decides to wait only on an empty queue and holds the
  mutex until it does (`DecidesOnEmpty`); from then on there are at least as many
  workers awake as tasks for which one is needed, which `put` keeps by its one
  notification and a worker that takes a task keeps by taking one of each.
* `PutWaitsForRoom`, `StopLosesNone`: tasks are in the queue, in a worker's hand or
  run (`Accounted`), and after the join no worker has any (`StoppedAlone`).
* `PoolIsTaskQueue`: the initial state and every step of the pool map to those of
  `TaskQueue`.

`ConnectionPoolProofs`: `BusyIsHeld`, `DeadAreClosed`; `NoneStale` from
`NoMoreThanOwed`, that a connection carries no more requests and answers than it has
threads with a call under way, which is inductive where "none on a connection nobody
holds" is not; `NullOnlyRefused`, because the threads are no more than the
connections and so one is always unmarked; and `PoolImplementsCalls`, the refinement.

`LogProcessorProofs`: `NothingLost` needs that what is to be packed is old
(`PackedOld`), so that packing a date anew overwrites no archive of younger files,
and that an archive has files of its date only (`ArchivesOld`). `TodaysUntouched`
follows from the correction of the configured days (`DaysBounded`).

`ThriftProofs`: what the reader of a structure finds of what its writer put in
(`FieldFound`, `RecordFound` and others), for any values.

`ConcurrentClientProofs`:

* the round trip: for each of the five methods, what the caller reads out of the
  processor's answer to its request is what the service returned for that request,
  or an exception (`RoundTrip`, from lemmas about fields and structures);
* `Calls`: calls have numbers of their own (`Numbered`), and everything on the way is
  a request or an answer of a call that was made, by the only thread that can still
  be in it (`Ours`);
* `CallsAreRemoteCalls`: the refinement to `RemoteCalls`, from both;
* `OwnersAreThere`: `AnswerHasOwner` is not inductive. It holds because a number is
  on the way at most once (`Once`) and, while anybody relies on it, registered
  (`Registered`): the number a thread takes away when it leaves is then not that of
  an answer still to come.

* `NotAllWait`: a thread that decides to wait is safe because another has yet to take
  the mutex or has been woken (`WaitIsSafe`); that is kept because the owner of a
  pending answer is on its way to it (`OwnerComes`), because `wakeupSomeone_` is off
  only while somebody reads (`NobodyWaitsUnread`), and because a failure has told all
  (`DeadAreTold`). Of the committed leaver's choice it needs that the latest of a set
  of numbers exists (`LatestIsElement`).

`TisHandlerProofs`:

* `KeptWhatWasTold`: a package is told once, when it leaves the first half, and the
  thread's flag is then what was told (`Stages`). A request for the database is of a
  package whose request has been sent (`Away`), which stays so, and what was told of
  it stays as well (`AwayStays`); so requests and records are as told (`KeptAsTold`),
  given that the service reads the record the handler wrote (`RecordRead`).
* `StoredOnce`: a request is sent for a package that is not yet `Away`, so no second
  request or record with its text exists (`KeptOnce`).
* `ToldOwnVerdict`: a thread that gets a connection nobody else has finds it empty,
  because a connection carries no more than is owed (`NoMoreThanOwed`); until it is
  shared or given back the thread has it alone (`Alone`) and all on it is its own
  request and verdicts on it (`OwnTraffic`). What it reads out of such an answer is
  the service's verdict (`VerdictRead`), given on its own text (`TextRead`).

`ServerProofs`:

* `LoadedIsMeaning`: for all files, a load that succeeds has read a sound tree
  (`ParsableIsSound`) and leaves a map that says of each key what the files mean. The
  parser is a recursion over descriptors around one over lines; `Recursion` and
  `Induction` (as in `ProxyProofs`) take each apart. The point of it is `Adds`: what a
  stretch of lines adds to the map for a key is what those lines tell of it, with the
  places where it stands, and at most one place, because the parser does not get past a
  second, also across an included file (`LinesAdd`, `FilesAdd`).
* `OneVersionServed`: `ServesOneVersion` is about what the getters return; it follows
  from `LoadedIsMeaning` and `OneVersion`, that the map in use is what a load of some
  disk seen so far left as a whole. A failed first load leaves a part of a map, but not
  marked as loaded (`LoadedFirst`), and the process is not up.
* `StopLasts`: `StopIsFinal` follows the operator's `stop` from the moment it has seen
  the process gone: a process there can only be cron's, started without a file, which
  never loads (`LoadedFirst`) and so never gets up.
* `ServerIsWatched`: `Watched` covers the commands of `start` between the process and
  the crontab entry: the entry is in the crontab, or a shell that has listed it has yet
  to look for it or to write it (`WillAdd`), or the list that a shell is about to install
  has it, or the operator's `start` is on its way there. While a shell is about to install the list,
  the list has the entry or the other shell will add it (`Kept`), although the other may
  have truncated it in between; this is what a removal at the wrong moment would break.
  It needs that only the operator's `start` names a file (`FileIsStart`), and that cron
  deletes no entry unless it has killed a server (`CronDeletesNothing`).
* `ControlGetsNoPackage`: by the arithmetic of `select_channel`, for every width and
  value of the counter; `WorkersReady` gives each worker its role.
* `TypeCorrect`: with `IInv`, whose parts are the above and the types (`ShellsTyped`,
  `FilesTyped`, `ProcessTyped`, `CrontabTyped`, `HistoryTyped`, `CronTyped`).

They assume at least two workers, a counter of some width and some limit on open files
(`WorkNumAssumption`, `ChannelModAssumption`, `MaxOpenFilesAssumption`), that disks map
file names to lines (`DisksAssumption`), and that no file is named like a missing
argument (`NoSourceAssumption`).

Only model-checked: liveness (`EventuallyReleased`, `EventuallyServed`, `PutReturns`,
`StopReturnsUnlessWakeupLost`, `EveryCallReturns`, `ScriptsEndUnlessStuck`) and the fairness part
of `ImplementsTaskQueue`, which are outside of what the proof system handles. Every
invariant and action property of a passing run is a theorem.

## 5. Not modelled

* The framework's own event loop: no source; it is the environment of `Proxy`.
* Logging (`common/log.h`): formatting and output; its one effect on the program's
  course, `BOOT_LOG(-1, ...)` in the configuration parser, is modelled.
* Thrift's library: transports, the binary protocol, the thread primitives. The
  factories for asynchronous use, the multi-interfaces, comparison, copying and
  printing of the generated code keep no state and take no part in a call.
* The bytes of two threads that write to one connection at the same time:
  `ConnectionPool` and `TisHandler` keep messages whole, which is the better case.
* `var_mempool_*` of `mempool.cpp` and the other operations of `list.h`, which have no
  caller; `malloc` failing for the pool's first chunk, which ends the start.
* `atoi` and the splitting of addresses in `net_utils.cpp`; `SetConfigMap`, without a
  caller; configuration files that change while they are being read.
* A write to a temporary file or a crontab cut in the middle; a `crontab` that fails.
* More than one run of `keep-alive.sh` at a time, and the removal of core files.
* The contents of packages and verdicts beyond what the properties tell apart.

## 6. Plan

1. Shutdown: replies and records that `Uninit` may cut off or let through late.
2. `string_to_ip_port_pairs` and the defaults of the numeric getters.
