----------------------------- MODULE TisHandler -----------------------------
(***************************************************************************)
(* The handler of the proxy's threads                                      *)
(* (src/src/handler/tis_proto_handler.cpp) with the two services it calls. *)
(* For each message a thread asks the filter service for a verdict, tells  *)
(* the client, and stores the message with the verdict in the database.    *)
(*                                                                         *)
(* The two pools are instances of ServiceCalls, which ConnectionPool       *)
(* implements.  What travels are the messages of the generated stubs.  The *)
(* bytes of two threads that write to one connection do not mix here.      *)
(***************************************************************************)
EXTENDS TisService, IdentityServ, FiniteSets

CONSTANTS
  Threads,
  TisConns, DbserConns,   \* the connections of the two pools
  NoConn, NoAnswer,
  Packages,               \* the packages of the clients: what the handler
                          \* reads of ci and ci->buf
  NoPackage,
  Verdicts                \* how a check may end

ASSUME NoPackageAssumption == NoPackage \notin Packages
ASSUME ConnsAssumption     == NoConn \notin TisConns \cup DbserConns
ASSUME ThreadsAssumption   == IsFiniteSet(Threads)
\* The texts tell the packages apart, so that a record says whose it is.
ASSUME PackagesAssumption  == \A p, q \in Packages : p.content = q.content => p = q

VARIABLES
  queue,       \* the packages nobody has taken yet
  task,        \* the package each thread handles
  phase,       \* "idle", "check" or "store"
  dirty_flag,
  tpc, tconn, tanswer, twire, treplies,   \* the calls of the filter service
  dpc, dconn, danswer, dwire, dreplies,   \* and of the database service
  shared,      \* the threads whose connection to the filter service another
               \* thread has had during the call
  told,        \* history: what was sent to the client of each package
  judged,      \* history: how the checks of each content ended
  db           \* the records in the database

tis == INSTANCE ServiceCalls WITH
  Conns <- TisConns, pc <- tpc, conn <- tconn, answer <- tanswer,
  wire <- twire, replies <- treplies
dbser == INSTANCE ServiceCalls WITH
  Conns <- DbserConns, pc <- dpc, conn <- dconn, answer <- danswer,
  wire <- dwire, replies <- dreplies

tisVars == <<tpc, tconn, tanswer, twire, treplies>>
dbserVars == <<dpc, dconn, danswer, dwire, dreplies>>
history == <<told, judged, db>>
vars == <<queue, task, phase, dirty_flag, tisVars, dbserVars, shared, history>>

Init ==
  /\ queue = Packages
  /\ task = [t \in Threads |-> NoPackage]
  /\ phase = [t \in Threads |-> "idle"]
  /\ dirty_flag = [t \in Threads |-> 2]
  /\ tis!Init /\ dbser!Init
  /\ shared = {}
  /\ told = [p \in Packages |-> <<>>]
  /\ judged = [p \in Packages |-> {}]
  /\ db = <<>>

-----------------------------------------------------------------------------
\* Mutant of take: the flag of the last message stays.
take_keeps_flag(t) ==
  /\ phase[t] = "idle"
  /\ \E p \in queue : queue' = queue \ {p} /\ task' = [task EXCEPT ![t] = p]
  /\ phase' = [phase EXCEPT ![t] = "check"]
  /\ UNCHANGED <<dirty_flag, tisVars, dbserVars, shared, history>>

(***************************************************************************)
(* A message counts as suspect, 2, until it has been checked.              *)
(***************************************************************************)
take(t) ==
  /\ phase[t] = "idle"
  /\ \E p \in queue : queue' = queue \ {p} /\ task' = [task EXCEPT ![t] = p]
  /\ phase' = [phase EXCEPT ![t] = "check"]
  /\ dirty_flag' = [dirty_flag EXCEPT ![t] = 2]
  /\ UNCHANGED <<tisVars, dbserVars, shared, history>>

(***************************************************************************)
(* The package sent to the client: a status and, with status 0, the flag.  *)
(* For game 5 the message is added to it, which is left out.               *)
(***************************************************************************)
reply(p, status, flag) ==
  told' = [told EXCEPT ![p] = Append(@, [status |-> status, flag |-> flag])]

needsNoCheck(p) == p.type = 4 /\ p.game_id = 5

store(t) == phase' = [phase EXCEPT ![t] = "store"]

skipCheck(t) ==
  /\ phase[t] = "check" /\ tpc[t] = "idle"
  /\ needsNoCheck(task[t])
  /\ reply(task[t], 1002, 0)
  /\ store(t)
  /\ UNCHANGED <<queue, task, dirty_flag, tisVars, dbserVars, shared, judged, db>>

tisGet(t) ==
  /\ phase[t] = "check" /\ ~needsNoCheck(task[t])
  /\ \/ tis!GetNull(t) /\ UNCHANGED shared
     \/ \E c \in TisConns :
          /\ tis!Get(t, c)
          /\ LET with == {u \in Threads : tconn[u] = c} IN
             shared' = IF with = {} THEN shared ELSE shared \cup with \cup {t}
  /\ UNCHANGED <<queue, task, phase, dirty_flag, dbserVars, history>>

tisNull(t) ==
  /\ tis!GiveUp(t)
  /\ reply(task[t], 1001, 0)
  /\ store(t)
  /\ UNCHANGED <<queue, task, dirty_flag, dbserVars, shared, judged, db>>

tis_req(p) ==
  [appid |-> 1, gameid |-> p.game_id, content |-> p.content, dataid |-> "8888",
   userid |-> p.userid_string, ip |-> "0.0.0.0"]

tisCall(t) ==
  /\ \/ tis!Send(t, TisServiceClient_send_check(tis_req(task[t])))
     \/ tis!Recv(t)
     \/ tpc[t] \in {"held", "sent"} /\ tis!Fail(t)
  /\ UNCHANGED <<queue, task, phase, dirty_flag, dbserVars, shared, history>>

(***************************************************************************)
(* The answer says that the service failed, or has no result.              *)
(***************************************************************************)
tisThrows(t) ==
  /\ tpc[t] = "ok"
  /\ TisServiceClient_recv_check(tanswer[t]).thrown
  /\ tis!Fail(t)
  /\ UNCHANGED <<queue, task, phase, dirty_flag, dbserVars, shared, history>>

\* Mutant of checked: the connection is not given back.
checked_no_release(t) ==
  /\ tpc[t] = "ok"
  /\ LET o == TisServiceClient_recv_check(tanswer[t])
         f == IF o.value.code # 0 THEN 2 ELSE o.value.action
     IN  /\ ~o.thrown
         /\ dirty_flag' = [dirty_flag EXCEPT ![t] = f]
         /\ reply(task[t], 0, f)
  /\ store(t)
  /\ UNCHANGED <<queue, task, tisVars, shared, dbserVars, judged, db>>

(***************************************************************************)
(* The verdict, or suspect if the service could not tell.                  *)
(***************************************************************************)
checked(t) ==
  /\ tpc[t] = "ok"
  /\ LET o == TisServiceClient_recv_check(tanswer[t])
         f == IF o.value.code # 0 THEN 2 ELSE o.value.action
     IN  /\ ~o.thrown
         /\ dirty_flag' = [dirty_flag EXCEPT ![t] = f]
         /\ reply(task[t], 0, f)
  /\ tis!Release(t, TRUE)
  /\ shared' = shared \ {t}
  /\ store(t)
  /\ UNCHANGED <<queue, task, dbserVars, judged, db>>

checkFailed(t) ==
  /\ tis!Release(t, FALSE)
  /\ shared' = shared \ {t}
  /\ reply(task[t], 1001, 0)
  /\ store(t)
  /\ UNCHANGED <<queue, task, dirty_flag, dbserVars, judged, db>>

-----------------------------------------------------------------------------
(* The second half: the message is stored, whatever the check said *)

finish(t) ==
  /\ phase' = [phase EXCEPT ![t] = "idle"]
  /\ task' = [task EXCEPT ![t] = NoPackage]

dbserGet(t) ==
  /\ phase[t] = "store"
  /\ dbser!GetNull(t) \/ \E c \in DbserConns : dbser!Get(t, c)
  /\ UNCHANGED <<queue, task, phase, dirty_flag, tisVars, shared, history>>

dbserNull(t) ==
  /\ dbser!GiveUp(t)
  /\ finish(t)
  /\ UNCHANGED <<queue, dirty_flag, tisVars, shared, history>>

dbser_req(p, flag) ==
  [message |-> p.content, flag |-> flag, appid |-> 1, gameid |-> p.game_id,
   nick |-> p.nick, type |-> p.type, serverid |-> p.home_id, userid |-> p.userid,
   rolegrade |-> p.role_grade, vipgrade |-> p.vip_grade]

dbserCall(t) ==
  /\ \/ dbser!Send(t, IdentityServClient_send_StoreMessage(
                        dbser_req(task[t], dirty_flag[t])))
     \/ dbser!Recv(t)
     \/ dpc[t] \in {"held", "sent"} /\ dbser!Fail(t)
  /\ UNCHANGED <<queue, task, phase, dirty_flag, tisVars, shared, history>>

dbserThrows(t) ==
  /\ dpc[t] = "ok"
  /\ IdentityServClient_recv_StoreMessage(danswer[t]).thrown
  /\ dbser!Fail(t)
  /\ UNCHANGED <<queue, task, phase, dirty_flag, tisVars, shared, history>>

stored(t) ==
  /\ dpc[t] = "ok"
  /\ ~IdentityServClient_recv_StoreMessage(danswer[t]).thrown
  /\ dbser!Release(t, TRUE)
  /\ finish(t)
  /\ UNCHANGED <<queue, dirty_flag, tisVars, shared, history>>

\* Mutant of storeFailed: the message is stored again.
storeFailed_retries(t) ==
  /\ dbser!Release(t, FALSE)
  /\ UNCHANGED <<queue, task, phase, dirty_flag, tisVars, shared, history>>

(***************************************************************************)
(* The message may have been stored or not; it is not stored again.        *)
(***************************************************************************)
storeFailed(t) ==
  /\ dbser!Release(t, FALSE)
  /\ finish(t)
  /\ UNCHANGED <<queue, dirty_flag, tisVars, shared, history>>

-----------------------------------------------------------------------------
(* The services *)

tisServe(c) ==
  /\ twire[c] # <<>>
  /\ LET m == Head(twire[c])
         content == TisService_check_args_read(m.body).req.content
     IN  \E o \in Verdicts :
           /\ tis!Serve(c, TisServiceProcessor_dispatchCall(m, o))
           /\ judged' = [p \in Packages |-> IF p.content = content
                                            THEN judged[p] \cup {o} ELSE judged[p]]
  /\ UNCHANGED <<queue, task, phase, dirty_flag, dbserVars, shared, told, db>>

dbserServe(c) ==
  /\ dwire[c] # <<>>
  /\ LET m == Head(dwire[c]) IN
     \/ /\ dbser!Serve(c, IdentityServProcessor_dispatchCall(m, Return(0)))
        /\ db' = Append(db, IdentityServ_StoreMessage_args_read(m.body).s)
     \/ /\ dbser!Serve(c, IdentityServProcessor_dispatchCall(m, Throw("what")))
        /\ UNCHANGED db
  /\ UNCHANGED <<queue, task, phase, dirty_flag, tisVars, shared, told, judged>>

tisLost == /\ \E cs \in SUBSET TisConns : tis!Lose(cs)
           /\ UNCHANGED <<queue, task, phase, dirty_flag, dbserVars, shared, history>>
dbserLost == /\ \E cs \in SUBSET DbserConns : dbser!Lose(cs)
             /\ UNCHANGED <<queue, task, phase, dirty_flag, tisVars, shared, history>>

-----------------------------------------------------------------------------
tisProtoHandler(t) ==
  \/ skipCheck(t) \/ tisGet(t) \/ tisNull(t) \/ tisCall(t) \/ tisThrows(t)
  \/ checked(t) \/ checkFailed(t)
  \/ dbserGet(t) \/ dbserNull(t) \/ dbserCall(t) \/ dbserThrows(t)
  \/ stored(t) \/ storeFailed(t)

Next == \/ \E t \in Threads : take(t) \/ tisProtoHandler(t)
        \/ \E c \in TisConns : tisServe(c)
        \/ \E c \in DbserConns : dbserServe(c)
        \/ tisLost \/ dbserLost

Spec == Init /\ [][Next]_vars

-----------------------------------------------------------------------------
(* Correctness *)

(***************************************************************************)
(* Type correctness; a thread is in a call of a service only in that half  *)
(* of the handler, so it never holds a connection of each pool.            *)
(***************************************************************************)
TypeOK ==
  /\ queue \subseteq Packages
  /\ phase \in [Threads -> {"idle", "check", "store"}]
  /\ \A t \in Threads :
       /\ phase[t] = "idle" <=> task[t] = NoPackage
       /\ task[t] \in Packages \cup {NoPackage}
       /\ tpc[t] # "idle" => phase[t] = "check"
       /\ dpc[t] # "idle" => phase[t] = "store"
  /\ shared \subseteq {t \in Threads : tconn[t] # NoConn}

records(p) == {i \in DOMAIN db : db[i].message = p.content}

(***************************************************************************)
(* What the client is told and what the database keeps agree: a verdict    *)
(* that was told is stored, and a message the client was told nothing      *)
(* about is stored as suspect, through failures of any of the four halves  *)
(* of the two calls.                                                       *)
(***************************************************************************)
ToldIsStored ==
  \A p \in Packages : \A i \in records(p) :
    /\ told[p] # <<>>
    /\ db[i] = dbser_req(p, IF told[p][1].status = 0 THEN told[p][1].flag ELSE 2)

(***************************************************************************)
(* A message is stored at most once, although a call that failed may have  *)
(* stored it, and its client is told at most once.                         *)
(***************************************************************************)
OnceEach == \A p \in Packages : /\ Len(told[p]) <= 1
                                 /\ \A i, j \in records(p) : i = j

flagOf(o) == IF o.value.code # 0 THEN 2 ELSE o.value.action
ownFlags(p) == {flagOf(o) : o \in {x \in judged[p] : ~x.thrown}}

(***************************************************************************)
(* The flag a client is told is the service's verdict on that very         *)
(* message, unless the connection was shared during the call: an answer    *)
(* that comes after the time-out is never read as the answer to the next   *)
(* message.                                                                *)
(***************************************************************************)
OwnVerdictUnlessShared ==
  [][\A t \in Threads :
       task[t] # NoPackage /\ t \notin shared =>
         \A i \in 1..Len(told'[task[t]]) :
           LET r == told'[task[t]][i] IN
           told[task[t]] = <<>> /\ r.status = 0 => r.flag \in ownFlags(task[t])]_vars

(***************************************************************************)
(* What src/src/thrift/TisService.h:458 has the plain client used for: no  *)
(* sharing of connections, so that the flag told is always the verdict on  *)
(* that message.                                                           *)
(***************************************************************************)
OwnVerdict ==
  \A p \in Packages : \A i \in 1..Len(told[p]) :
    told[p][i].status = 0 => told[p][i].flag \in ownFlags(p)
=============================================================================
