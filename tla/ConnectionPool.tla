--------------------------- MODULE ConnectionPool ---------------------------
(***************************************************************************)
(* A pool of connections to one service (src/src/connection/): the proxy   *)
(* has one for the filter service and one for the database service.  The   *)
(* threads of the proxy get a connection, make one call over it, and give  *)
(* it back with the outcome (src/src/handler/tis_proto_handler.cpp).       *)
(*                                                                         *)
(* getConnection and release are critical sections of mu_, one step each.  *)
(* The call is outside of them.  A call is its request, which the backend  *)
(* answers in the order of arrival on the connection, and the answer,      *)
(* which goes to the thread that reads it: the client objects do not look  *)
(* at the sequence number of an answer.  Any call may fail.  What a pool   *)
(* gives the handlers is the specification ServiceCalls.                   *)
(***************************************************************************)
EXTENDS Integers, Sequences, FiniteSets

CONSTANTS
  Threads,
  pool_size_,
  min_size_,
  check_interval_sec_,
  NAddrs,      \* ip_port_pair_.size()
  IntMax,      \* 2^31 - 1: count_ is an int
  MaxCount,    \* bound: getConnection is called while count_ is below it
  MaxTime,     \* bound: the clock stops here
  NoThread     \* nobody

ASSUME PoolAssumption == /\ pool_size_ \in Nat \ {0}
                         /\ NAddrs \in Nat \ {0}
                         /\ min_size_ \in Int
                         /\ check_interval_sec_ \in Nat

(***************************************************************************)
(* init makes pool_size_ / NAddrs connections to each address, while every *)
(* other loop runs to pool_size_.                                          *)
(***************************************************************************)
ASSUME EvenAssumption == pool_size_ % NAddrs = 0

ASSUME BoundsAssumption == IntMax \in Nat /\ MaxCount \in Nat /\ MaxTime \in Nat
ASSUME NobodyAssumption == NoThread \notin Threads

(***************************************************************************)
(* More connections than threads, as configured in src/conf/proxy.conf     *)
(* (pool_size 20, thread_num 10).                                          *)
(***************************************************************************)
ASSUME EnoughAssumption == IsFiniteSet(Threads) /\ Cardinality(Threads) <= pool_size_

Conns == 0..(pool_size_ - 1)
Addrs == 0..(NAddrs - 1)
addr(c) == c % NAddrs
NoConn == pool_size_

VARIABLES
  busy,                \* is_busy_ of each connection
  dead,                \* is_dead_
  sock,                \* the transport: "closed", "open", or "broken", which
                       \* is open as far as this process knows
  wire,                \* the threads whose requests the backend has yet to
                       \* answer on each connection, in order
  replies,             \* the threads whose requests it has answered, the
                       \* answers yet to be read
  up,                  \* the addresses where a backend listens
  count_,              \* position of the round robin
  last_checked_time_,
  now,                 \* time(NULL)
  pc,                  \* where each thread is
  conn,                \* the connection each thread was given
  answer               \* whose answer each thread has read

vars == <<busy, dead, sock, wire, replies, up, count_, last_checked_time_, now, pc, conn, answer>>
callVars == <<pc, conn, answer>>

isAvailable(c) == ~busy[c] /\ ~dead[c] /\ sock[c] # "closed"
availableCount(b, d, s) ==
  Cardinality({c \in Conns : ~b[c] /\ ~d[c] /\ s[c] # "closed"})

(***************************************************************************)
(* TSocket::open does nothing on a socket it believes open; otherwise it   *)
(* connects or throws.                                                     *)
(***************************************************************************)
opens(c, s) == s[c] # "closed" \/ addr(c) \in up
opened(c, s) == IF s[c] = "closed" THEN "open" ELSE s[c]

(***************************************************************************)
(* The constructor leaves last_checked_time_ uninitialised: the first      *)
(* check may be due, not yet due, or never due.                            *)
(***************************************************************************)
Init ==
  /\ up \in SUBSET Addrs
  /\ busy = [c \in Conns |-> FALSE]
  /\ dead = [c \in Conns |-> addr(c) \notin up]
  /\ sock = [c \in Conns |-> IF addr(c) \in up THEN "open" ELSE "closed"]
  /\ wire = [c \in Conns |-> <<>>]
  /\ replies = [c \in Conns |-> <<>>]
  /\ count_ = 0
  /\ last_checked_time_ \in {-(check_interval_sec_ + 1), 0, MaxTime}
  /\ now = 0
  /\ pc = [t \in Threads |-> "idle"]
  /\ conn = [t \in Threads |-> NoConn]
  /\ answer = [t \in Threads |-> NoThread]

-----------------------------------------------------------------------------
(* getConnection *)

(***************************************************************************)
(* The remainder of C++, and the increment of an int as built.             *)
(***************************************************************************)
rem(a, b) == IF a >= 0 THEN a % b ELSE -((-a) % b)
inc(n) == IF n = IntMax THEN -(IntMax + 1) ELSE n + 1

roundRobin(i) == ((count_ % pool_size_) + i) % pool_size_

(***************************************************************************)
(* The first available connection in the order of the round robin.  It is  *)
(* not marked busy.                                                        *)
(***************************************************************************)
getAvailable(t) ==
  /\ pc[t] = "idle"
  /\ count_ < MaxCount
  /\ rem(count_, pool_size_) \in Conns
  /\ \E i \in Conns :
       /\ isAvailable(roundRobin(i))
       /\ \A j \in 0..(i - 1) : ~isAvailable(roundRobin(j))
       /\ conn' = [conn EXCEPT ![t] = roundRobin(i)]
  /\ count_' = inc(count_)
  /\ pc' = [pc EXCEPT ![t] = "held"]
  /\ UNCHANGED <<busy, dead, sock, wire, replies, up, last_checked_time_, now, answer>>

NoneAvailable == \A c \in Conns : ~isAvailable(c)

(***************************************************************************)
(* None is available: the first connection that is not busy and can be     *)
(* opened.  Those tried before it are marked dead; it is marked busy.      *)
(***************************************************************************)
getReopened(t) ==
  /\ pc[t] = "idle"
  /\ NoneAvailable
  /\ \E c \in Conns :
       /\ ~busy[c] /\ opens(c, sock)
       /\ \A d \in 0..(c - 1) : busy[d] \/ ~opens(d, sock)
       /\ sock' = [sock EXCEPT ![c] = opened(c, sock)]
       /\ busy' = [busy EXCEPT ![c] = TRUE]
       /\ dead' = [d \in Conns |-> dead[d] \/ (d < c /\ ~busy[d])]
       /\ conn' = [conn EXCEPT ![t] = c]
  /\ pc' = [pc EXCEPT ![t] = "held"]
  /\ UNCHANGED <<wire, replies, up, count_, last_checked_time_, now, answer>>

\* Mutant of getNull: the caller does not look whether it got a connection.
getNull_unchecked(t) ==
  /\ pc[t] = "idle"
  /\ NoneAvailable
  /\ \A c \in Conns : busy[c] \/ ~opens(c, sock)
  /\ dead' = [c \in Conns |-> dead[c] \/ ~busy[c]]
  /\ pc' = [pc EXCEPT ![t] = "failed"]
  /\ UNCHANGED <<busy, sock, wire, replies, up, count_, last_checked_time_, now, conn, answer>>

(***************************************************************************)
(* No connection at all.                                                   *)
(***************************************************************************)
getNull(t) ==
  /\ pc[t] = "idle"
  /\ NoneAvailable
  /\ \A c \in Conns : busy[c] \/ ~opens(c, sock)
  /\ dead' = [c \in Conns |-> dead[c] \/ ~busy[c]]
  /\ pc' = [pc EXCEPT ![t] = "null"]
  /\ UNCHANGED <<busy, sock, wire, replies, up, count_, last_checked_time_, now, conn, answer>>

(***************************************************************************)
(* The handler goes on without the call.                                   *)
(***************************************************************************)
giveUp(t) ==
  /\ pc[t] = "null"
  /\ pc' = [pc EXCEPT ![t] = "idle"]
  /\ UNCHANGED <<busy, dead, sock, wire, replies, up, count_, last_checked_time_, now, conn, answer>>

-----------------------------------------------------------------------------
(* The call, over the connection and without mu_ *)

send(t) ==
  /\ pc[t] = "held"
  /\ sock[conn[t]] = "open"
  /\ wire' = [wire EXCEPT ![conn[t]] = Append(@, t)]
  /\ pc' = [pc EXCEPT ![t] = "sent"]
  /\ UNCHANGED <<busy, dead, sock, replies, up, count_, last_checked_time_, now, conn, answer>>

recv(t) ==
  /\ pc[t] = "sent"
  /\ sock[conn[t]] # "closed"
  /\ replies[conn[t]] # <<>>
  /\ answer' = [answer EXCEPT ![t] = Head(replies[conn[t]])]
  /\ replies' = [replies EXCEPT ![conn[t]] = Tail(@)]
  /\ pc' = [pc EXCEPT ![t] = "ok"]
  /\ UNCHANGED <<busy, dead, sock, wire, up, count_, last_checked_time_, now, conn>>

(***************************************************************************)
(* A TException: the connection is closed or broken, the answer does not   *)
(* come within the time-out of the socket, or it says that the service     *)
(* failed.                                                                 *)
(***************************************************************************)
fail(t) ==
  /\ pc[t] \in {"held", "sent", "ok"}
  /\ pc' = [pc EXCEPT ![t] = "failed"]
  /\ UNCHANGED <<busy, dead, sock, wire, replies, up, count_, last_checked_time_, now, conn, answer>>

-----------------------------------------------------------------------------
\* Mutant of release: the mark is_busy_ is not cleared.
release_keep_busy(t, status) ==
  /\ pc[t] = IF status THEN "ok" ELSE "failed"
  /\ IF status THEN dead' = [dead EXCEPT ![conn[t]] = FALSE] /\ UNCHANGED <<sock, wire, replies>>
     ELSE /\ dead' = [c \in Conns |-> TRUE]
          /\ sock' = [c \in Conns |-> "closed"]
          /\ wire' = [c \in Conns |-> <<>>] /\ replies' = wire'
  /\ pc' = [pc EXCEPT ![t] = "idle"]
  /\ conn' = [conn EXCEPT ![t] = NoConn]
  /\ answer' = [answer EXCEPT ![t] = NoThread]
  /\ UNCHANGED <<busy, up, count_, last_checked_time_, now>>

\* Mutant of release: a failed connection is marked dead and not closed.
release_keep_open(t, status) ==
  /\ pc[t] = IF status THEN "ok" ELSE "failed"
  /\ busy' = [busy EXCEPT ![conn[t]] = FALSE]
  /\ dead' = [dead EXCEPT ![conn[t]] = ~status]
  /\ pc' = [pc EXCEPT ![t] = "idle"]
  /\ conn' = [conn EXCEPT ![t] = NoConn]
  /\ answer' = [answer EXCEPT ![t] = NoThread]
  /\ UNCHANGED <<sock, wire, replies, up, count_, last_checked_time_, now>>

(***************************************************************************)
(* release.  After a failure all connections of the pool are closed and    *)
(* marked dead.  Then, at most once per interval, those that are not busy  *)
(* are opened again.                                                       *)
(***************************************************************************)
release(t, status) ==
  LET b  == [busy EXCEPT ![conn[t]] = FALSE]
      d  == IF status THEN [dead EXCEPT ![conn[t]] = FALSE]
            ELSE [c \in Conns |-> TRUE]
      s  == IF status THEN sock ELSE [c \in Conns |-> "closed"]
      reactivate == /\ ~status \/ availableCount(b, d, s) < min_size_
                    /\ now - last_checked_time_ > check_interval_sec_
  IN  /\ pc[t] = IF status THEN "ok" ELSE "failed"
      /\ busy' = b
      /\ IF status THEN UNCHANGED <<wire, replies>>
         ELSE wire' = [c \in Conns |-> <<>>] /\ replies' = [c \in Conns |-> <<>>]
      /\ IF reactivate
         THEN /\ sock' = [c \in Conns |-> IF ~b[c] /\ opens(c, s)
                                          THEN opened(c, s) ELSE s[c]]
              /\ dead' = [c \in Conns |-> IF b[c] THEN d[c] ELSE ~opens(c, s)]
              /\ last_checked_time_' = now
         ELSE sock' = s /\ dead' = d /\ UNCHANGED last_checked_time_
      /\ pc' = [pc EXCEPT ![t] = "idle"]
      /\ conn' = [conn EXCEPT ![t] = NoConn]
      /\ answer' = [answer EXCEPT ![t] = NoThread]
      /\ UNCHANGED <<up, count_, now>>

-----------------------------------------------------------------------------
(* The backends and the clock *)

(***************************************************************************)
(* The next request on a connection is answered.                           *)
(***************************************************************************)
BackendAnswers(c) ==
  /\ sock[c] = "open" /\ wire[c] # <<>>
  /\ replies' = [replies EXCEPT ![c] = Append(@, Head(wire[c]))]
  /\ wire' = [wire EXCEPT ![c] = Tail(@)]
  /\ UNCHANGED <<busy, dead, sock, up, count_, last_checked_time_, now, callVars>>

BackendUp(a) ==
  /\ a \notin up
  /\ up' = up \cup {a}
  /\ UNCHANGED <<busy, dead, sock, wire, replies, count_, last_checked_time_, now, callVars>>

(***************************************************************************)
(* A backend goes away, with the connections to it.  The answers that have *)
(* arrived may be lost too.                                                *)
(***************************************************************************)
BackendDown(a) ==
  /\ a \in up
  /\ up' = up \ {a}
  /\ sock' = [c \in Conns |-> IF addr(c) = a /\ sock[c] = "open"
                              THEN "broken" ELSE sock[c]]
  /\ wire' = [c \in Conns |-> IF addr(c) = a THEN <<>> ELSE wire[c]]
  /\ \/ UNCHANGED replies
     \/ replies' = [c \in Conns |-> IF addr(c) = a THEN <<>> ELSE replies[c]]
  /\ UNCHANGED <<busy, dead, count_, last_checked_time_, now, callVars>>

Tick ==
  /\ now < MaxTime
  /\ now' = now + 1
  /\ UNCHANGED <<busy, dead, sock, wire, replies, up, count_, last_checked_time_, callVars>>

ThreadStep(t) ==
  \/ getAvailable(t) \/ getReopened(t) \/ getNull(t) \/ giveUp(t)
  \/ send(t) \/ recv(t) \/ fail(t)
  \/ \E status \in BOOLEAN : release(t, status)

Next == \/ \E t \in Threads : ThreadStep(t)
        \/ \E a \in Addrs : BackendUp(a) \/ BackendDown(a)
        \/ \E c \in Conns : BackendAnswers(c)
        \/ Tick

Spec == Init /\ [][Next]_vars

-----------------------------------------------------------------------------
(* Correctness *)

(***************************************************************************)
(* Type correctness; a thread has a connection from getConnection until    *)
(* its release.                                                            *)
(***************************************************************************)
TypeOK ==
  /\ busy \in [Conns -> BOOLEAN]
  /\ dead \in [Conns -> BOOLEAN]
  /\ sock \in [Conns -> {"closed", "open", "broken"}]
  /\ wire \in [Conns -> Seq(Threads)]
  /\ replies \in [Conns -> Seq(Threads)]
  /\ up \in SUBSET Addrs
  /\ count_ \in -(IntMax + 1)..IntMax
  /\ last_checked_time_ \in Int
  /\ now \in 0..MaxTime
  /\ pc \in [Threads -> {"idle", "null", "held", "sent", "ok", "failed"}]
  /\ conn \in [Threads -> Conns \cup {NoConn}]
  /\ answer \in [Threads -> Threads \cup {NoThread}]
  /\ \A t \in Threads : conn[t] \in Conns <=> pc[t] \in {"held", "sent", "ok", "failed"}

(***************************************************************************)
(* A connection is marked busy only while a thread has it: none is lost to *)
(* the pool, although any holder's release clears the mark.                *)
(***************************************************************************)
BusyHeld == \A c \in Conns : busy[c] => \E t \in Threads : conn[t] = c

(***************************************************************************)
(* A connection marked dead and not in use has a closed socket, so that    *)
(* opening it again really connects.                                       *)
(***************************************************************************)
DeadIsClosed == \A c \in Conns : dead[c] /\ ~busy[c] => sock[c] = "closed"

(***************************************************************************)
(* No answer is left on a connection that nobody has: the next user cannot *)
(* read the verdict on an earlier message.  release(false) closes every    *)
(* connection for this.                                                    *)
(***************************************************************************)
NoStaleAnswer ==
  \A c \in Conns :
    (\A t \in Threads : conn[t] # c) => wire[c] = <<>> /\ replies[c] = <<>>

(***************************************************************************)
(* getConnection fails only if a backend refused: it never runs out of     *)
(* connections.                                                            *)
(***************************************************************************)
NullOnlyIfRefused ==
  [][\A t \in Threads : pc[t] = "idle" /\ pc'[t] = "null" =>
       \E c \in Conns : ~busy[c] /\ addr(c) \notin up]_vars

Calls == INSTANCE ServiceCalls WITH NoAnswer <- NoThread

(***************************************************************************)
(* The pool implements what the handlers see of it: marks, reconnecting    *)
(* and the round robin do not show, and a release after a failure leaves   *)
(* no request or answer of an earlier call on any connection.              *)
(***************************************************************************)
ImplementsServiceCalls == Calls!Spec
=============================================================================
