-------------------------- MODULE ConcurrentClient --------------------------
(***************************************************************************)
(* The generated concurrent client (src/src/thrift/TisService.h and        *)
(* IdentityServ.h): one object on one connection, called by several        *)
(* threads at once.                                                        *)
(*                                                                         *)
(* A call takes a sequence number, writes its request, and then reads.     *)
(* One thread at a time reads, with readMutex_ held.  If what it has read  *)
(* is the answer to another call it leaves the answer pending, notifies    *)
(* the thread of that call, and waits.  A thread that got its answer wakes *)
(* another to go on reading; one that fails marks the client dead and      *)
(* wakes all.  sync_ belongs to Thrift's library and is modelled from how  *)
(* the generated code uses it.                                             *)
(***************************************************************************)
EXTENDS TisService, IdentityServ, FiniteSets

CONSTANTS
  Threads,
  Nobody,      \* not a thread
  NoMessage,   \* not a message
  MaxCalls,    \* bound: the calls of one run
  Program      \* the methods called one after the other, for each service

ASSUME NobodyAssumption == Nobody \notin Threads
ASSUME CallsAssumption == MaxCalls \in Nat

Services == {"TisService", "IdentityServ"}
Methods(s) == IF s = "TisService" THEN {"ping", "reloadModel", "check"}
              ELSE {"GetIdentity", "StoreMessage"}

ASSUME ProgramAssumption ==
  \A s \in Services : \A n \in 1..MaxCalls : Program[s][n] \in Methods(s)

VARIABLES
  service,         \* the service the client is for
  requests,        \* the requests the service has yet to answer
  replies,         \* its answers, in the stream to the client
  nextseqid_,
  seqids,          \* the numbers registered in seqidToMonitorMap_
  stop_,           \* the client is dead
  readMutex_,      \* the thread that holds it
  recvPending_,    \* an answer read and left for its owner
  wakeupSomeone_,
  notified,        \* the waiting threads that have been notified
  pc,              \* where each thread is
  method,          \* the method it calls
  seqid,           \* the number of its call
  header,          \* the answer it has read
  outcome          \* how its last call ended

vars == <<service, requests, replies, nextseqid_, seqids, stop_, readMutex_,
          recvPending_, wakeupSomeone_, notified, pc, method, seqid, header, outcome>>

(***************************************************************************)
(* The request of thread t: what its arguments say is t.                   *)
(***************************************************************************)
request(m, t, id) ==
  CASE m = "ping"         -> TisServiceConcurrentClient_send_ping(id)
    [] m = "reloadModel"  -> TisServiceConcurrentClient_send_reloadModel(id)
    [] m = "check"        -> TisServiceConcurrentClient_send_check(
                               [RequestCheckStruct EXCEPT !.content = t], id)
    [] m = "GetIdentity"  -> IdentityServConcurrentClient_send_GetIdentity(
                               [ReqProto EXCEPT !.userid = t], id)
    [] m = "StoreMessage" -> IdentityServConcurrentClient_send_StoreMessage(
                               [ReqCheckResult EXCEPT !.message = t], id)

(***************************************************************************)
(* What the service returns to a request: it tells the request from all    *)
(* others, by what it says or by when it came.                             *)
(***************************************************************************)
returned(m) ==
  CASE m.name = "ping"         -> 0
    [] m.name = "reloadModel"  -> m.seqid
    [] m.name = "check"        ->
         [CheckResultStruct EXCEPT !.action = m.seqid,
                                   !.detail = TisService_check_args_read(m.body).req.content]
    [] m.name = "GetIdentity"  ->
         [identity |-> IdentityServ_GetIdentity_args_read(m.body).s.userid]
    [] m.name = "StoreMessage" -> m.seqid

(***************************************************************************)
(* What may come of a request, and the answer of service s to it.          *)
(***************************************************************************)
outcomes(m) == {Return(returned(m)), Throw("what the service says")}

answer(s, m, o) == IF s = "TisService" THEN TisServiceProcessor_dispatchCall(m, o)
                   ELSE IdentityServProcessor_dispatchCall(m, o)

ASSUME NoMessageAssumption ==
  \A s \in Services : \A n \in 1..MaxCalls : \A t \in Threads :
    LET m == request(Program[s][n], t, n) IN
    \A o \in outcomes(m) : answer(s, m, o) # NoMessage

(***************************************************************************)
(* What a call of the method gets out of the answer m.                     *)
(***************************************************************************)
result(name, m) ==
  CASE name = "ping"         -> TisServiceConcurrentClient_recv_ping(m)
    [] name = "reloadModel"  -> TisServiceConcurrentClient_recv_reloadModel(m)
    [] name = "check"        -> TisServiceConcurrentClient_recv_check(m)
    [] name = "GetIdentity"  -> IdentityServConcurrentClient_recv_GetIdentity(m)
    [] name = "StoreMessage" -> IdentityServConcurrentClient_recv_StoreMessage(m)

NotCalled == Throw("not called")

Init ==
  /\ service \in Services
  /\ requests = {} /\ replies = <<>>
  /\ nextseqid_ = 1 /\ seqids = {}
  /\ stop_ = FALSE /\ readMutex_ = Nobody
  /\ recvPending_ = NoMessage /\ wakeupSomeone_ = FALSE
  /\ notified = {}
  /\ pc = [t \in Threads |-> "idle"]
  /\ method = [t \in Threads |-> "none"]
  /\ seqid = [t \in Threads |-> 0]
  /\ header = [t \in Threads |-> NoMessage]
  /\ outcome = [t \in Threads |-> NotCalled]

-----------------------------------------------------------------------------
(* Notification.  Only a thread that waits takes notice.                   *)

waiters == {t \in Threads : pc[t] = "waiting"}
owners(ids) == {t \in waiters : seqid[t] \in ids}
latest(ids) == {i \in ids : \A j \in ids : j <= i}

(***************************************************************************)
(* The end of the receiving sentry: a call that is committed wakes the     *)
(* latest other one, any other marks the client dead and wakes all.        *)
(***************************************************************************)
leave(t, o, committed) ==
  LET others == seqids \ {seqid[t]} IN
  /\ seqids' = others
  /\ wakeupSomeone_' = TRUE
  /\ stop_' = (stop_ \/ ~committed)
  /\ notified' = notified \cup owners(IF committed THEN latest(others) ELSE others)
  /\ readMutex_' = Nobody
  /\ outcome' = [outcome EXCEPT ![t] = o]
  /\ header' = [header EXCEPT ![t] = NoMessage]
  /\ pc' = [pc EXCEPT ![t] = "idle"]

DeadConnection == Throw("TTransportException")

-----------------------------------------------------------------------------
(* The sending half *)

(***************************************************************************)
(* generateSeqId.  The numbers wrap around after 2^32 calls, more than     *)
(* MaxCalls; the refusal to repeat a number in use is left out with them.  *)
(***************************************************************************)
generateSeqId(t) ==
  /\ pc[t] = "idle" /\ ~stop_
  /\ nextseqid_ <= MaxCalls
  /\ seqid' = [seqid EXCEPT ![t] = nextseqid_]
  /\ seqids' = seqids \cup {nextseqid_}
  /\ nextseqid_' = nextseqid_ + 1
  /\ method' = [method EXCEPT ![t] = Program[service][nextseqid_]]
  /\ outcome' = [outcome EXCEPT ![t] = NotCalled]
  /\ pc' = [pc EXCEPT ![t] = "send"]
  /\ UNCHANGED <<service, requests, replies, stop_, readMutex_, recvPending_,
                 wakeupSomeone_, notified, header>>

callRefused(t) ==
  /\ pc[t] = "idle" /\ stop_
  /\ outcome' = [outcome EXCEPT ![t] = DeadConnection]
  /\ UNCHANGED <<service, requests, replies, nextseqid_, seqids, stop_, readMutex_,
                 recvPending_, wakeupSomeone_, notified, pc, method, seqid, header>>

(***************************************************************************)
(* The request is written under writeMutex_, so whole.                     *)
(***************************************************************************)
send(t) ==
  /\ pc[t] = "send"
  /\ requests' = requests \cup {request(method[t], t, seqid[t])}
  /\ pc' = [pc EXCEPT ![t] = "recv"]
  /\ UNCHANGED <<service, replies, nextseqid_, seqids, stop_, readMutex_, recvPending_,
                 wakeupSomeone_, notified, method, seqid, header, outcome>>

(***************************************************************************)
(* The connection fails.  The number stays registered.                     *)
(***************************************************************************)
sendFails(t) ==
  /\ pc[t] = "send"
  /\ stop_' = TRUE /\ wakeupSomeone_' = TRUE
  /\ notified' = notified \cup owners(seqids)
  /\ outcome' = [outcome EXCEPT ![t] = DeadConnection]
  /\ pc' = [pc EXCEPT ![t] = "idle"]
  /\ UNCHANGED <<service, requests, replies, nextseqid_, seqids, readMutex_,
                 recvPending_, method, seqid, header>>

(***************************************************************************)
(* The service answers the requests in any order.                          *)
(***************************************************************************)
Serve(m) ==
  /\ m \in requests
  /\ requests' = requests \ {m}
  /\ \E o \in outcomes(m) : replies' = Append(replies, answer(service, m, o))
  /\ UNCHANGED <<service, nextseqid_, seqids, stop_, readMutex_, recvPending_,
                 wakeupSomeone_, notified, pc, method, seqid, header, outcome>>

-----------------------------------------------------------------------------
(* The receiving half *)

stay == UNCHANGED <<service, requests, replies, nextseqid_, method, seqid>>

lock(t) ==
  /\ pc[t] = "recv" /\ readMutex_ = Nobody
  /\ readMutex_' = t
  /\ pc' = [pc EXCEPT ![t] = "get"]
  /\ stay /\ UNCHANGED <<seqids, stop_, recvPending_, wakeupSomeone_, notified,
                         header, outcome>>

\* Mutant of getPending: what is pending stays so.
getPending_again(t) ==
  /\ pc[t] = "get" /\ ~stop_
  /\ wakeupSomeone_' = FALSE
  /\ header' = [header EXCEPT ![t] = recvPending_]
  /\ pc' = [pc EXCEPT ![t] = IF recvPending_ = NoMessage THEN "read" ELSE "header"]
  /\ stay /\ UNCHANGED <<seqids, stop_, readMutex_, recvPending_, notified, outcome>>

(***************************************************************************)
(* Takes the pending answer, if there is one.                              *)
(***************************************************************************)
getPending(t) ==
  /\ pc[t] = "get" /\ ~stop_
  /\ wakeupSomeone_' = FALSE
  /\ header' = [header EXCEPT ![t] = recvPending_]
  /\ recvPending_' = NoMessage
  /\ pc' = [pc EXCEPT ![t] = IF recvPending_ = NoMessage THEN "read" ELSE "header"]
  /\ stay /\ UNCHANGED <<seqids, stop_, readMutex_, notified, outcome>>

(***************************************************************************)
(* getPending and waitForWork throw on a dead client.                      *)
(***************************************************************************)
throwDeadConnection(t) ==
  /\ pc[t] \in {"get", "test"} /\ stop_
  /\ leave(t, DeadConnection, FALSE)
  /\ stay /\ UNCHANGED recvPending_

readMessageBegin(t) ==
  /\ pc[t] = "read"
  /\ replies # <<>>
  /\ header' = [header EXCEPT ![t] = Head(replies)]
  /\ replies' = Tail(replies)
  /\ pc' = [pc EXCEPT ![t] = "header"]
  /\ UNCHANGED <<service, requests, nextseqid_, seqids, stop_, readMutex_, recvPending_,
                 wakeupSomeone_, notified, method, seqid, outcome>>

(***************************************************************************)
(* The connection fails, or nothing comes within the time-out.             *)
(***************************************************************************)
readFails(t) ==
  /\ pc[t] = "read"
  /\ leave(t, DeadConnection, FALSE)
  /\ stay /\ UNCHANGED recvPending_

\* Mutant of receive: the number of the answer is not looked at.
receive_any(t) ==
  /\ pc[t] = "header"
  /\ LET o == result(method[t], header[t]) IN leave(t, o, commits(o))
  /\ stay /\ UNCHANGED recvPending_

receive(t) ==
  /\ pc[t] = "header" /\ header[t].seqid = seqid[t]
  /\ LET o == result(method[t], header[t]) IN leave(t, o, commits(o))
  /\ stay /\ UNCHANGED recvPending_

\* Mutant of updatePending: the owner is not notified.
updatePending_silent(t) ==
  /\ pc[t] = "header" /\ header[t].seqid # seqid[t]
  /\ header[t].seqid \in seqids
  /\ recvPending_' = header[t]
  /\ header' = [header EXCEPT ![t] = NoMessage]
  /\ pc' = [pc EXCEPT ![t] = "test"]
  /\ stay /\ UNCHANGED <<seqids, stop_, readMutex_, wakeupSomeone_, notified, outcome>>

(***************************************************************************)
(* An answer to another call is left for its owner, who is notified.  The  *)
(* owner is always registered (AnswerHasOwner), so that the exception for  *)
(* an unknown number is no step.                                           *)
(***************************************************************************)
updatePending(t) ==
  /\ pc[t] = "header" /\ header[t].seqid # seqid[t]
  /\ header[t].seqid \in seqids
  /\ recvPending_' = header[t]
  /\ notified' = notified \cup owners({header[t].seqid})
  /\ header' = [header EXCEPT ![t] = NoMessage]
  /\ pc' = [pc EXCEPT ![t] = "test"]
  /\ stay /\ UNCHANGED <<seqids, stop_, readMutex_, wakeupSomeone_, outcome>>

isWork(t) == wakeupSomeone_ \/ (recvPending_ # NoMessage /\ recvPending_.seqid = seqid[t])

\* Mutant of waitTest: back to reading whether there is work or not.
waitTest_spins(t) ==
  /\ pc[t] = "test" /\ ~stop_
  /\ pc' = [pc EXCEPT ![t] = "get"]
  /\ stay /\ UNCHANGED <<seqids, stop_, readMutex_, recvPending_, wakeupSomeone_,
                         notified, header, outcome>>

(***************************************************************************)
(* waitForWork: back to reading if there is work for t, or wait without    *)
(* readMutex_.  stop_ may be set between the test and the wait.            *)
(***************************************************************************)
waitTest(t) ==
  /\ pc[t] = "test" /\ ~stop_
  /\ pc' = [pc EXCEPT ![t] = IF isWork(t) THEN "get" ELSE "wait"]
  /\ stay /\ UNCHANGED <<seqids, stop_, readMutex_, recvPending_, wakeupSomeone_,
                         notified, header, outcome>>

\* Mutant of waitForever: readMutex_ is kept.
waitForever_locked(t) ==
  /\ pc[t] = "wait"
  /\ pc' = [pc EXCEPT ![t] = "waiting"]
  /\ stay /\ UNCHANGED <<seqids, stop_, readMutex_, recvPending_, wakeupSomeone_,
                         notified, header, outcome>>

waitForever(t) ==
  /\ pc[t] = "wait"
  /\ readMutex_' = Nobody
  /\ notified' = notified \ {t}
  /\ pc' = [pc EXCEPT ![t] = "waiting"]
  /\ stay /\ UNCHANGED <<seqids, stop_, recvPending_, wakeupSomeone_, header, outcome>>

wake(t) ==
  /\ pc[t] = "waiting" /\ t \in notified /\ readMutex_ = Nobody
  /\ readMutex_' = t
  /\ notified' = notified \ {t}
  /\ pc' = [pc EXCEPT ![t] = "test"]
  /\ stay /\ UNCHANGED <<seqids, stop_, recvPending_, wakeupSomeone_, header, outcome>>

-----------------------------------------------------------------------------
Steps(t) ==
  \/ send(t) \/ sendFails(t) \/ lock(t) \/ getPending(t) \/ throwDeadConnection(t)
  \/ readMessageBegin(t) \/ readFails(t) \/ receive(t) \/ updatePending(t)
  \/ waitTest(t) \/ waitForever(t) \/ wake(t)

Next == \/ \E t \in Threads : generateSeqId(t) \/ callRefused(t) \/ Steps(t)
        \/ \E m \in requests : Serve(m)

(***************************************************************************)
(* A thread in a call runs, is given the mutex in its turn, and a read     *)
(* ends at the latest at its time-out.  Nothing makes the service answer.  *)
(***************************************************************************)
Spec == Init /\ [][Next]_vars /\ \A t \in Threads : SF_vars(Steps(t))

-----------------------------------------------------------------------------
(* Correctness *)

(***************************************************************************)
(* Type correctness; who has readMutex_ is at one of the points of recv_   *)
(* that have it, and the numbers in use are those of the calls.            *)
(***************************************************************************)
TypeOK ==
  /\ service \in Services
  /\ nextseqid_ \in 1..(MaxCalls + 1)
  /\ seqids \subseteq 1..(nextseqid_ - 1)
  /\ stop_ \in BOOLEAN /\ wakeupSomeone_ \in BOOLEAN
  /\ notified \subseteq waiters
  /\ pc \in [Threads -> {"idle", "send", "recv", "get", "read", "header", "test",
                         "wait", "waiting"}]
  /\ seqid \in [Threads -> 0..(nextseqid_ - 1)]
  /\ readMutex_ \in Threads \cup {Nobody}
  /\ \A t \in Threads :
       readMutex_ = t <=> pc[t] \in {"get", "read", "header", "test", "wait"}

(***************************************************************************)
(* An answer that has been read is the answer to a call that is still      *)
(* there to take it, so none is dropped and no thread meets a number that  *)
(* updatePending does not know.                                            *)
(***************************************************************************)
AnswerHasOwner ==
  /\ \A t \in Threads : pc[t] = "header" => header[t].seqid \in seqids
  /\ recvPending_ # NoMessage /\ ~stop_ =>
       \E t \in Threads : pc[t] # "idle" /\ seqid[t] = recvPending_.seqid

(***************************************************************************)
(* Not all threads wait: while one does, somebody holds the mutex, or has  *)
(* been woken, or has yet to come to the reading.  One that is not woken   *)
(* when the reader leaves would wait for good.                             *)
(***************************************************************************)
SomebodyReads ==
  waiters # {} => \/ notified # {}
                  \/ \E t \in Threads : pc[t] \notin {"idle", "waiting"}

(***************************************************************************)
(* How the call of a thread ended: with an exception, with the answer to   *)
(* its own request, or with another one.                                   *)
(***************************************************************************)
ownAnswer(t) ==
  CASE method[t] = "check"       ->
         [CheckResultStruct EXCEPT !.action = seqid[t], !.detail = t]
    [] method[t] = "ping"        -> 0
    [] method[t] = "GetIdentity" -> [identity |-> t]
    [] OTHER                     -> seqid[t]

ended(t) == IF outcome[t] = NotCalled THEN "none"
            ELSE IF outcome[t].thrown THEN "exception"
            ELSE IF outcome[t].value = ownAnswer(t) THEN "own answer" ELSE "other answer"

Abstract == INSTANCE RemoteCalls
  WITH calling <- {t \in Threads : pc[t] # "idle"}, last <- [t \in Threads |-> ended(t)]

(***************************************************************************)
(* What src/src/thrift/TisService.h:458 promises: threads that share the   *)
(* client each get the answer to their own call or an exception, whatever  *)
(* the order of the answers and whichever thread reads them.               *)
(***************************************************************************)
ImplementsRemoteCalls == Abstract!Spec

(***************************************************************************)
(* No call hangs: no answer is left with a thread that is not its owner    *)
(* and sleeps, and after a failure everybody is told.                      *)
(***************************************************************************)
EveryCallReturns == \A t \in Threads : pc[t] = "send" ~> pc[t] = "idle"
=============================================================================
