-------------------------- MODULE TisHandlerProofs --------------------------
(***************************************************************************)
(* Theorems about the handler and the two services it calls, for any       *)
(* number of threads, packages and connections and any verdicts.           *)
(***************************************************************************)
EXTENDS TisHandler, ThriftProofs, FiniteSetTheorems

-----------------------------------------------------------------------------
(* What travels, and the types *)

TisRequest(p) == TisServiceClient_send_check(tis_req(p))
TisRequests == {TisRequest(p) : p \in Packages}
TisAnswers == {TisServiceProcessor_dispatchCall(m, o) : m \in TisRequests, o \in Verdicts}

Flags == {0, 2} \cup {TisServiceClient_recv_check(a).value.action : a \in TisAnswers}

DbserRequest(p, f) == IdentityServClient_send_StoreMessage(dbser_req(p, f))
DbserRequests == {DbserRequest(p, f) : p \in Packages, f \in Flags}
DbserAnswers == {IdentityServProcessor_dispatchCall(m, o) :
                   m \in DbserRequests, o \in {Return(0), Throw("what")}}

\* The record that a request of the database service asks to store.
record(m) == IdentityServ_StoreMessage_args_read(m.body).s
Records == {record(m) : m \in DbserRequests}

\* What a client is told.
Reports == [status : {0, 1001, 1002}, flag : Flags]

CallStates == {"idle", "null", "held", "sent", "ok", "failed"}

(***************************************************************************)
(* The types of the calls of the filter service and of the database        *)
(* service: a thread has a connection from getConnection to its release.   *)
(***************************************************************************)
TisTyped ==
  /\ tpc \in [Threads -> CallStates]
  /\ tconn \in [Threads -> TisConns \cup {NoConn}]
  /\ \A t \in Threads : tconn[t] = NoConn <=> tpc[t] \in {"idle", "null"}
  /\ tanswer \in [Threads -> TisAnswers \cup {NoAnswer}]
  /\ \A t \in Threads : tpc[t] = "ok" => tanswer[t] \in TisAnswers
  /\ twire \in [TisConns -> Seq(TisRequests)]
  /\ treplies \in [TisConns -> Seq(TisAnswers)]

DbserTyped ==
  /\ dpc \in [Threads -> CallStates]
  /\ dconn \in [Threads -> DbserConns \cup {NoConn}]
  /\ \A t \in Threads : dconn[t] = NoConn <=> dpc[t] \in {"idle", "null"}
  /\ DOMAIN danswer = Threads
  /\ dwire \in [DbserConns -> Seq(DbserRequests)]
  /\ dreplies \in [DbserConns -> Seq(DbserAnswers)]

(***************************************************************************)
(* The types of the rest of the handler's state and of what is kept.       *)
(***************************************************************************)
HandlerTyped ==
  /\ TypeOK
  /\ task \in [Threads -> Packages \cup {NoPackage}]
  /\ dirty_flag \in [Threads -> Flags]
  /\ told \in [Packages -> Seq(Reports)]
  /\ judged \in [Packages -> SUBSET Verdicts]
  /\ db \in Seq(Records)

Typed == TisTyped /\ DbserTyped /\ HandlerTyped


(***************************************************************************)
(* The database service reads the record that the handler sent, and the    *)
(* filter service the text.                                                *)
(***************************************************************************)
LEMMA RecordRead ==
  ASSUME NEW p, NEW f
  PROVE  record(DbserRequest(p, f)) = dbser_req(p, f)
<1> DEFINE s == dbser_req(p, f)
<1>1. s = [message |-> s.message, flag |-> s.flag, appid |-> s.appid,
           gameid |-> s.gameid, nick |-> s.nick, type |-> s.type,
           serverid |-> s.serverid, userid |-> s.userid,
           rolegrade |-> s.rolegrade, vipgrade |-> s.vipgrade]
  BY DEF dbser_req
<1> HIDE DEF s
<1>2. ReqCheckResult_read(ReqCheckResult_write(s)) = s
  BY <1>1, RecordFound
<1>3. DbserRequest(p, f).body = << Field(1, "STRUCT", ReqCheckResult_write(s)) >>
  BY DEF DbserRequest, IdentityServClient_send_StoreMessage, Message,
    IdentityServ_StoreMessage_pargs_write, s
<1>4. struct(DbserRequest(p, f).body, 1) = ReqCheckResult_write(s)
  BY <1>3, OneStruct
<1>5. QED
  BY <1>2, <1>4 DEF record, IdentityServ_StoreMessage_args_read, s

LEMMA TextRead ==
  ASSUME NEW p
  PROVE  TisService_check_args_read(TisRequest(p).body).req.content = p.content
<1>1. tis_req(p).content = p.content
  BY DEF tis_req
<1>2. TisRequest(p).body = << Field(1, "STRUCT", RequestCheckStruct_write(tis_req(p))) >>
  BY DEF TisRequest, TisServiceClient_send_check, Message, TisService_check_pargs_write
<1>3. struct(TisRequest(p).body, 1) = RequestCheckStruct_write(tis_req(p))
  BY <1>2, OneStruct
<1>4. QED
  BY <1>1, <1>3, ContentFound DEF TisService_check_args_read, RequestCheckStruct_read

(***************************************************************************)
(* The handler makes of an answer what the service's verdict was.          *)
(***************************************************************************)
LEMMA VerdictRead ==
  ASSUME NEW p, NEW o,
         ~TisServiceClient_recv_check(TisServiceProcessor_dispatchCall(TisRequest(p), o)).thrown
  PROVE  /\ ~o.thrown
         /\ flagOf(TisServiceClient_recv_check(
                     TisServiceProcessor_dispatchCall(TisRequest(p), o))) = flagOf(o)
<1> DEFINE m    == TisRequest(p)
           body == TisService_check_result_write([success |-> o.value, isset |-> TRUE])
           a    == TisServiceProcessor_dispatchCall(m, o)
           r    == TisService_check_presult_read(a.body)
<1>1. m.name = "check"
  BY DEF TisRequest, TisServiceClient_send_check, Message
<1>2. body = << Field(0, "STRUCT", CheckResultStruct_write(o.value)) >>
  BY DEF TisService_check_result_write
<1> HIDE DEF m, body
<1>3. a = answered(m, "check", o, body)
  BY <1>1 DEF TisServiceProcessor_dispatchCall, process_check, body
<1> HIDE DEF a
<1>4. TisServiceClient_recv_check(a) = received(a, "check", r)
  BY DEF TisServiceClient_recv_check
<1> HIDE DEF r
<1>5. ASSUME o.thrown PROVE FALSE
  <2>1. a.mtype = "EXCEPTION"
    BY <1>3, <1>5 DEF answered, Message
  <2>2. received(a, "check", r).thrown
    BY <2>1 DEF received, Throw
  <2>3. QED
    BY <1>4, <2>2 DEF a, m
<1>6. a.mtype = "REPLY" /\ a.name = "check" /\ a.body = body
  BY <1>3, <1>5 DEF answered, Message
<1>7. r.isset /\ r.success = CheckResultStruct_read(CheckResultStruct_write(o.value))
  BY <1>2, <1>6, OneStruct DEF TisService_check_presult_read, r
<1>8. received(a, "check", r) = Return(r.success)
  BY <1>6, <1>7 DEF received
<1>9. /\ i32(CheckResultStruct_write(o.value), 1) = o.value.code
      /\ i32(CheckResultStruct_write(o.value), 2) = o.value.action
  BY CodesFound
<1>10. r.success.code = o.value.code /\ r.success.action = o.value.action
  BY <1>7, <1>9 DEF CheckResultStruct_read
<1>11. TisServiceClient_recv_check(a).value = r.success
  BY <1>4, <1>8 DEF Return
<1>12. QED
  BY <1>5, <1>10, <1>11 DEF flagOf, a, m

-----------------------------------------------------------------------------
(* Type correctness *)

(***************************************************************************)
(* What a step does to the calls of the filter service, ...                *)
(***************************************************************************)
TisOp(t) ==
  \/ tis!GetNull(t) \/ tis!GiveUp(t) \/ tis!Recv(t) \/ tis!Fail(t)
  \/ tis!Release(t, TRUE) \/ tis!Release(t, FALSE)
  \/ \E c \in TisConns : tis!Get(t, c)
  \/ task[t] \in Packages /\ tis!Send(t, TisRequest(task[t]))
TisStep ==
  \/ \E t \in Threads : TisOp(t)
  \/ \E c \in TisConns, o \in Verdicts :
       tis!Serve(c, TisServiceProcessor_dispatchCall(Head(twire[c]), o))
  \/ \E cs \in SUBSET TisConns : tis!Lose(cs)
  \/ UNCHANGED tisVars

LEMMA TisSteps ==
  ASSUME Typed, [Next]_vars
  PROVE  TisStep
<1>1. ASSUME NEW t \in Threads,
             skipCheck(t) \/ take(t) \/ dbserGet(t) \/ dbserNull(t) \/ dbserCall(t)
               \/ dbserThrows(t) \/ stored(t) \/ storeFailed(t)
      PROVE  UNCHANGED tisVars
  BY <1>1 DEF skipCheck, take, dbserGet, dbserNull, dbserCall, dbserThrows, stored, storeFailed
<1>2. ASSUME NEW t \in Threads, tisGet(t)
      PROVE  TisOp(t)
  BY <1>2 DEF tisGet, TisOp
<1>3. ASSUME NEW t \in Threads, tisNull(t) \/ tisThrows(t) \/ checked(t) \/ checkFailed(t)
      PROVE  TisOp(t)
  BY <1>3 DEF tisNull, tisThrows, checked, checkFailed, TisOp
<1>4. ASSUME NEW t \in Threads, tisCall(t)
      PROVE  TisOp(t)
  <2>1. CASE tis!Recv(t) \/ tis!Fail(t)
    BY <2>1 DEF TisOp
  <2>2. CASE tis!Send(t, TisServiceClient_send_check(tis_req(task[t])))
    <3>1. task[t] \in Packages
      BY <2>2 DEF tis!Send, Typed, HandlerTyped, TypeOK
    <3>2. QED
      BY <2>2, <3>1 DEF TisOp, TisRequest
  <2>3. QED
    BY <1>4, <2>1, <2>2 DEF tisCall
<1>5. CASE tisLost
  BY <1>5 DEF tisLost, TisStep
<1>6. CASE dbserLost \/ UNCHANGED vars \/ \E c \in DbserConns : dbserServe(c)
  BY <1>6 DEF dbserLost, vars, dbserServe, TisStep
<1>7. ASSUME NEW c \in TisConns, tisServe(c)
      PROVE  TisStep
  BY <1>7 DEF tisServe, TisStep
<1>8. QED
  BY <1>1, <1>2, <1>3, <1>4, <1>5, <1>6, <1>7 DEF Next, tisProtoHandler, TisStep

(***************************************************************************)
(* ... and to those of the database service.                               *)
(***************************************************************************)
DbserOp(t) ==
  \/ dbser!GetNull(t) \/ dbser!GiveUp(t) \/ dbser!Recv(t) \/ dbser!Fail(t)
  \/ dbser!Release(t, TRUE) \/ dbser!Release(t, FALSE)
  \/ \E c \in DbserConns : dbser!Get(t, c)
  \/ task[t] \in Packages /\ dbser!Send(t, DbserRequest(task[t], dirty_flag[t]))
DbserStep ==
  \/ \E t \in Threads : DbserOp(t)
  \/ \E c \in DbserConns, o \in {Return(0), Throw("what")} :
       dbser!Serve(c, IdentityServProcessor_dispatchCall(Head(dwire[c]), o))
  \/ \E cs \in SUBSET DbserConns : dbser!Lose(cs)
  \/ UNCHANGED dbserVars

LEMMA DbserSteps ==
  ASSUME Typed, [Next]_vars
  PROVE  DbserStep
<1>1. ASSUME NEW t \in Threads,
             skipCheck(t) \/ take(t) \/ tisGet(t) \/ tisNull(t) \/ tisCall(t)
               \/ tisThrows(t) \/ checked(t) \/ checkFailed(t)
      PROVE  UNCHANGED dbserVars
  BY <1>1 DEF skipCheck, take, tisGet, tisNull, tisCall, tisThrows, checked, checkFailed
<1>2. ASSUME NEW t \in Threads, dbserGet(t)
      PROVE  DbserOp(t)
  BY <1>2 DEF dbserGet, DbserOp
<1>3. ASSUME NEW t \in Threads, dbserNull(t) \/ dbserThrows(t) \/ stored(t) \/ storeFailed(t)
      PROVE  DbserOp(t)
  BY <1>3 DEF dbserNull, dbserThrows, stored, storeFailed, DbserOp
<1>4. ASSUME NEW t \in Threads, dbserCall(t)
      PROVE  DbserOp(t)
  <2>1. CASE dbser!Recv(t) \/ dbser!Fail(t)
    BY <2>1 DEF DbserOp
  <2>2. CASE dbser!Send(t, IdentityServClient_send_StoreMessage(
                             dbser_req(task[t], dirty_flag[t])))
    <3>1. task[t] \in Packages
      BY <2>2 DEF dbser!Send, Typed, HandlerTyped, TypeOK
    <3>2. QED
      BY <2>2, <3>1 DEF DbserOp, DbserRequest
  <2>3. QED
    BY <1>4, <2>1, <2>2 DEF dbserCall
<1>5. CASE dbserLost
  BY <1>5 DEF dbserLost, DbserStep
<1>6. CASE tisLost \/ UNCHANGED vars \/ \E c \in TisConns : tisServe(c)
  BY <1>6 DEF tisLost, vars, tisServe, DbserStep
<1>7. ASSUME NEW c \in DbserConns, dbserServe(c)
      PROVE  DbserStep
  BY <1>7 DEF dbserServe, DbserStep
<1>8. QED
  BY <1>1, <1>2, <1>3, <1>4, <1>5, <1>6, <1>7 DEF Next, tisProtoHandler, DbserStep

(***************************************************************************)
(* Sending, serving and reading keep the types of the requests and answers *)
(* on the connections, and a thread has a connection just while it is in a *)
(* call.                                                                   *)
(***************************************************************************)
LEMMA QueueTypes ==
  ASSUME NEW S, NEW s \in Seq(S)
  PROVE  /\ \A e \in S : Append(s, e) \in Seq(S)
         /\ s # <<>> => Head(s) \in S /\ Tail(s) \in Seq(S)
  OBVIOUS

LEMMA TisTypes ==
  ASSUME TisTyped, TisStep
  PROVE  TisTyped'
<1> USE DEF CallStates
<1>1. ASSUME NEW t \in Threads,
             tis!GetNull(t) \/ tis!GiveUp(t) \/ tis!Fail(t) \/ \E c \in TisConns : tis!Get(t, c)
      PROVE  TisTyped'
  BY <1>1, ConnsAssumption DEF TisTyped, tis!GetNull, tis!GiveUp, tis!Fail, tis!Get
<1>2. ASSUME NEW t \in Threads, tis!Release(t, TRUE) \/ tis!Release(t, FALSE)
      PROVE  TisTyped'
  <2>1. tis!Empty \in [TisConns -> Seq(TisRequests)] /\ tis!Empty \in [TisConns -> Seq(TisAnswers)]
    BY DEF tis!Empty
  <2>2. twire' \in [TisConns -> Seq(TisRequests)] /\ treplies' \in [TisConns -> Seq(TisAnswers)]
    BY <1>2, <2>1 DEF TisTyped, tis!Release
  <2>3. /\ tpc[t] \in {"ok", "failed"} /\ tpc' = [tpc EXCEPT ![t] = "idle"]
        /\ tconn' = [tconn EXCEPT ![t] = NoConn] /\ tanswer' = [tanswer EXCEPT ![t] = NoAnswer]
    BY <1>2 DEF tis!Release
  <2>4. QED
    BY <2>2, <2>3 DEF TisTyped
<1>3. ASSUME NEW t \in Threads, tis!Recv(t)
      PROVE  TisTyped'
  <2> DEFINE c == tconn[t]
  <2>1. c \in TisConns
    BY <1>3 DEF TisTyped, tis!Recv
  <2>2. treplies[c] \in Seq(TisAnswers) /\ treplies[c] # <<>>
    BY <1>3, <2>1 DEF TisTyped, tis!Recv
  <2>3. Head(treplies[c]) \in TisAnswers /\ Tail(treplies[c]) \in Seq(TisAnswers)
    BY <2>2, QueueTypes
  <2>4. treplies' \in [TisConns -> Seq(TisAnswers)]
    BY <1>3, <2>1, <2>3 DEF TisTyped, tis!Recv
  <2>5. tanswer' \in [Threads -> TisAnswers \cup {NoAnswer}]
        /\ \A u \in Threads : tpc'[u] = "ok" => tanswer'[u] \in TisAnswers
    BY <1>3, <2>3 DEF TisTyped, tis!Recv
  <2>6. QED
    BY <1>3, <2>4, <2>5 DEF TisTyped, tis!Recv
<1>4. ASSUME NEW t \in Threads, task[t] \in Packages, tis!Send(t, TisRequest(task[t]))
      PROVE  TisTyped'
  <2> DEFINE c == tconn[t]
  <2>1. c \in TisConns /\ TisRequest(task[t]) \in TisRequests
    BY <1>4 DEF TisTyped, tis!Send, TisRequests
  <2>2. Append(twire[c], TisRequest(task[t])) \in Seq(TisRequests)
    BY <2>1, QueueTypes DEF TisTyped
  <2>3. twire' \in [TisConns -> Seq(TisRequests)]
    BY <1>4, <2>1, <2>2 DEF TisTyped, tis!Send
  <2>4. QED
    BY <1>4, <2>3 DEF TisTyped, tis!Send
<1>5. ASSUME NEW c \in TisConns, NEW o \in Verdicts,
             tis!Serve(c, TisServiceProcessor_dispatchCall(Head(twire[c]), o))
      PROVE  TisTyped'
  <2> DEFINE a == TisServiceProcessor_dispatchCall(Head(twire[c]), o)
  <2>1. Head(twire[c]) \in TisRequests /\ Tail(twire[c]) \in Seq(TisRequests)
    BY <1>5, QueueTypes DEF TisTyped, tis!Serve
  <2>2. a \in TisAnswers
    BY <2>1 DEF TisAnswers
  <2> HIDE DEF a
  <2>3. Append(treplies[c], a) \in Seq(TisAnswers)
    BY <2>2, QueueTypes DEF TisTyped
  <2>4. QED
    BY <1>5, <2>1, <2>3 DEF TisTyped, tis!Serve, a
<1>6. ASSUME NEW cs \in SUBSET TisConns, tis!Lose(cs)
      PROVE  TisTyped'
  <2>1. <<>> \in Seq(TisRequests) /\ <<>> \in Seq(TisAnswers)
    OBVIOUS
  <2>2. twire' \in [TisConns -> Seq(TisRequests)]
    BY <1>6, <2>1 DEF TisTyped, tis!Lose
  <2>3. treplies' \in [TisConns -> Seq(TisAnswers)]
    <3>1. CASE treplies' = treplies
      BY <3>1 DEF TisTyped
    <3>2. CASE treplies' = [c \in TisConns |-> IF c \in cs THEN <<>> ELSE treplies[c]]
      BY <2>1, <3>2 DEF TisTyped
    <3>3. QED
      BY <1>6, <3>1, <3>2 DEF tis!Lose
  <2>4. QED
    BY <1>6, <2>2, <2>3 DEF TisTyped, tis!Lose
<1>7. CASE UNCHANGED tisVars
  BY <1>7 DEF TisTyped, tisVars
<1>8. QED
  BY <1>1, <1>2, <1>3, <1>4, <1>5, <1>6, <1>7 DEF TisStep, TisOp

LEMMA DbserTypes ==
  ASSUME DbserTyped, DbserStep, HandlerTyped
  PROVE  DbserTyped'
<1> USE DEF CallStates
<1>1. ASSUME NEW t \in Threads,
             dbser!GetNull(t) \/ dbser!GiveUp(t) \/ dbser!Fail(t)
               \/ \E c \in DbserConns : dbser!Get(t, c)
      PROVE  DbserTyped'
  BY <1>1, ConnsAssumption DEF DbserTyped, dbser!GetNull, dbser!GiveUp, dbser!Fail, dbser!Get
<1>2. ASSUME NEW t \in Threads, dbser!Release(t, TRUE) \/ dbser!Release(t, FALSE)
      PROVE  DbserTyped'
  <2>1. /\ dbser!Empty \in [DbserConns -> Seq(DbserRequests)]
        /\ dbser!Empty \in [DbserConns -> Seq(DbserAnswers)]
    BY DEF dbser!Empty
  <2>2. /\ dwire' \in [DbserConns -> Seq(DbserRequests)]
        /\ dreplies' \in [DbserConns -> Seq(DbserAnswers)]
    BY <1>2, <2>1 DEF DbserTyped, dbser!Release
  <2>3. /\ dpc[t] \in {"ok", "failed"} /\ dpc' = [dpc EXCEPT ![t] = "idle"]
        /\ dconn' = [dconn EXCEPT ![t] = NoConn] /\ danswer' = [danswer EXCEPT ![t] = NoAnswer]
    BY <1>2 DEF dbser!Release
  <2>4. QED
    BY <2>2, <2>3 DEF DbserTyped
<1>3. ASSUME NEW t \in Threads, dbser!Recv(t)
      PROVE  DbserTyped'
  <2> DEFINE c == dconn[t]
  <2>1. c \in DbserConns
    BY <1>3 DEF DbserTyped, dbser!Recv
  <2>2. dreplies[c] \in Seq(DbserAnswers) /\ dreplies[c] # <<>>
    BY <1>3, <2>1 DEF DbserTyped, dbser!Recv
  <2>3. Tail(dreplies[c]) \in Seq(DbserAnswers)
    BY <2>2, QueueTypes
  <2>4. dreplies' \in [DbserConns -> Seq(DbserAnswers)]
    BY <1>3, <2>1, <2>3 DEF DbserTyped, dbser!Recv
  <2>5. QED
    BY <1>3, <2>4 DEF DbserTyped, dbser!Recv
<1>4. ASSUME NEW t \in Threads, task[t] \in Packages,
             dbser!Send(t, DbserRequest(task[t], dirty_flag[t]))
      PROVE  DbserTyped'
  <2> DEFINE c == dconn[t]
             m == DbserRequest(task[t], dirty_flag[t])
  <2>1. c \in DbserConns
    BY <1>4 DEF DbserTyped, dbser!Send
  <2>2. m \in DbserRequests
    BY <1>4 DEF HandlerTyped, DbserRequests
  <2> HIDE DEF m
  <2>3. Append(dwire[c], m) \in Seq(DbserRequests)
    BY <2>1, <2>2, QueueTypes DEF DbserTyped
  <2>4. dwire' \in [DbserConns -> Seq(DbserRequests)]
    BY <1>4, <2>1, <2>3 DEF DbserTyped, dbser!Send, m
  <2>5. QED
    BY <1>4, <2>4 DEF DbserTyped, dbser!Send
<1>5. ASSUME NEW c \in DbserConns, NEW o \in {Return(0), Throw("what")},
             dbser!Serve(c, IdentityServProcessor_dispatchCall(Head(dwire[c]), o))
      PROVE  DbserTyped'
  <2> DEFINE a == IdentityServProcessor_dispatchCall(Head(dwire[c]), o)
  <2>1. Head(dwire[c]) \in DbserRequests /\ Tail(dwire[c]) \in Seq(DbserRequests)
    BY <1>5, QueueTypes DEF DbserTyped, dbser!Serve
  <2>2. a \in DbserAnswers
    BY <2>1 DEF DbserAnswers
  <2> HIDE DEF a
  <2>3. Append(dreplies[c], a) \in Seq(DbserAnswers)
    BY <2>2, QueueTypes DEF DbserTyped
  <2>4. QED
    BY <1>5, <2>1, <2>3 DEF DbserTyped, dbser!Serve, a
<1>6. ASSUME NEW cs \in SUBSET DbserConns, dbser!Lose(cs)
      PROVE  DbserTyped'
  <2>1. <<>> \in Seq(DbserRequests) /\ <<>> \in Seq(DbserAnswers)
    OBVIOUS
  <2>2. dwire' \in [DbserConns -> Seq(DbserRequests)]
    BY <1>6, <2>1 DEF DbserTyped, dbser!Lose
  <2>3. dreplies' \in [DbserConns -> Seq(DbserAnswers)]
    <3>1. CASE dreplies' = dreplies
      BY <3>1 DEF DbserTyped
    <3>2. CASE dreplies' = [c \in DbserConns |-> IF c \in cs THEN <<>> ELSE dreplies[c]]
      BY <2>1, <3>2 DEF DbserTyped
    <3>3. QED
      BY <1>6, <3>1, <3>2 DEF dbser!Lose
  <2>4. QED
    BY <1>6, <2>2, <2>3 DEF DbserTyped, dbser!Lose
<1>7. CASE UNCHANGED dbserVars
  BY <1>7 DEF DbserTyped, dbserVars
<1>8. QED
  BY <1>1, <1>2, <1>3, <1>4, <1>5, <1>6, <1>7 DEF DbserStep, DbserOp

(***************************************************************************)
(* The rest of the handler's state keeps its types, and a thread is in a   *)
(* call of a service only in that half of the handler.                     *)
(***************************************************************************)
LEMMA ToldTypes ==
  ASSUME HandlerTyped, NEW p \in Packages, NEW status \in {0, 1001, 1002}, NEW f \in Flags,
         reply(p, status, f)
  PROVE  told' \in [Packages -> Seq(Reports)]
<1>1. told[p] \in Seq(Reports)
  BY DEF HandlerTyped
<1>2. Append(told[p], [status |-> status, flag |-> f]) \in Seq(Reports)
  <2>1. [status |-> status, flag |-> f] \in Reports
    BY DEF Reports
  <2>2. QED
    BY <1>1, <2>1, QueueTypes
<1>3. QED
  BY <1>2 DEF reply, HandlerTyped

LEMMA FlagTypes ==
  ASSUME NEW a \in TisAnswers
  PROVE  flagOf(TisServiceClient_recv_check(a)) \in Flags
  BY DEF flagOf, Flags

(***************************************************************************)
(* The four ways out of the first half of the handler: the client is told, *)
(* and the flag kept is the one told with status 0, or the 2 it was.       *)
(***************************************************************************)
keep(t, f) == dirty_flag' = [dirty_flag EXCEPT ![t] = f]
Tells(t) ==
  /\ phase[t] = "check" /\ store(t)
  /\ \/ dirty_flag' = dirty_flag /\ \E status \in {1001, 1002} : reply(task[t], status, 0)
     \/ \E f \in Flags : keep(t, f) /\ reply(task[t], 0, f)
  /\ tpc' = [tpc EXCEPT ![t] = "idle"]
  /\ \/ UNCHANGED <<tconn, shared>>
     \/ tconn' = [tconn EXCEPT ![t] = NoConn] /\ shared' = shared \ {t}
  /\ UNCHANGED <<queue, task, dpc, dwire, judged, db>>

LEMMA TellingSteps ==
  ASSUME Typed, NEW t \in Threads, skipCheck(t) \/ tisNull(t) \/ checked(t) \/ checkFailed(t)
  PROVE  Tells(t)
<1>0. TisTyped /\ HandlerTyped
  BY DEF Typed
<1>1. CASE skipCheck(t)
  <2>1. tpc' = [tpc EXCEPT ![t] = "idle"]
    BY <1>0, <1>1 DEF skipCheck, tisVars, TisTyped
  <2>2. /\ phase[t] = "check" /\ store(t) /\ reply(task[t], 1002, 0) /\ dirty_flag' = dirty_flag
        /\ UNCHANGED <<tconn, shared, queue, task, dpc, dwire, judged, db>>
    BY <1>1 DEF skipCheck, tisVars, dbserVars
  <2>3. QED
    BY <2>1, <2>2 DEF Tells
<1>2. CASE tisNull(t)
  <2>1. tpc' = [tpc EXCEPT ![t] = "idle"] /\ UNCHANGED tconn /\ phase[t] = "check"
    BY <1>0, <1>2 DEF tisNull, tis!GiveUp, HandlerTyped, TypeOK
  <2>2. /\ store(t) /\ reply(task[t], 1001, 0) /\ dirty_flag' = dirty_flag
        /\ UNCHANGED <<shared, queue, task, dpc, dwire, judged, db>>
    BY <1>2 DEF tisNull, dbserVars
  <2>3. QED
    BY <2>1, <2>2 DEF Tells
<1>3. CASE checkFailed(t)
  <2>1. /\ tpc' = [tpc EXCEPT ![t] = "idle"] /\ tconn' = [tconn EXCEPT ![t] = NoConn]
        /\ phase[t] = "check"
    BY <1>0, <1>3 DEF checkFailed, tis!Release, HandlerTyped, TypeOK
  <2>2. /\ store(t) /\ reply(task[t], 1001, 0) /\ dirty_flag' = dirty_flag
        /\ shared' = shared \ {t} /\ UNCHANGED <<queue, task, dpc, dwire, judged, db>>
    BY <1>3 DEF checkFailed, dbserVars
  <2>3. QED
    BY <2>1, <2>2 DEF Tells
<1>4. CASE checked(t)
  <2>1. /\ tpc' = [tpc EXCEPT ![t] = "idle"] /\ tconn' = [tconn EXCEPT ![t] = NoConn]
        /\ phase[t] = "check" /\ tanswer[t] \in TisAnswers
    BY <1>0, <1>4 DEF checked, tis!Release, HandlerTyped, TypeOK, TisTyped
  <2>2. \E f \in Flags : keep(t, f) /\ reply(task[t], 0, f)
    BY <1>4, <2>1, FlagTypes DEF checked, flagOf, keep
  <2>3. /\ store(t) /\ shared' = shared \ {t}
        /\ UNCHANGED <<queue, task, dpc, dwire, judged, db>>
    BY <1>4 DEF checked, dbserVars
  <2>4. QED
    BY <2>1, <2>2, <2>3 DEF Tells
<1>5. QED
  BY <1>1, <1>2, <1>3, <1>4

LEMMA HandlerTypes ==
  ASSUME Typed, [Next]_vars
  PROVE  HandlerTyped'
<1>0. TisTyped /\ DbserTyped /\ HandlerTyped
  BY DEF Typed
<1>1. ASSUME NEW t \in Threads, take(t)
      PROVE  HandlerTyped'
  <2>1. 2 \in Flags
    BY DEF Flags
  <2>2. PICK p \in queue : queue' = queue \ {p} /\ task' = [task EXCEPT ![t] = p]
    BY <1>1 DEF take
  <2>3. p \in Packages /\ p # NoPackage
    BY <1>0, <2>2, NoPackageAssumption DEF HandlerTyped, TypeOK
  <2>4. QED
    BY <1>0, <1>1, <2>1, <2>2, <2>3
    DEF take, HandlerTyped, TypeOK, tisVars, dbserVars, history
<1>2. ASSUME NEW t \in Threads, Tells(t)
      PROVE  HandlerTyped'
  <2>1. task[t] \in Packages
    BY <1>0, <1>2 DEF Tells, HandlerTyped, TypeOK
  <2>2. told' \in [Packages -> Seq(Reports)]
    BY <1>0, <1>2, <2>1, ToldTypes DEF Tells, Flags
  <2>3. shared' \subseteq {u \in Threads : tconn'[u] # NoConn}
    BY <1>0, <1>2 DEF Tells, HandlerTyped, TypeOK, TisTyped
  <2>4. dirty_flag' \in [Threads -> Flags]
    <3>1. ASSUME NEW f \in Flags, keep(t, f) PROVE dirty_flag' \in [Threads -> Flags]
      BY <1>0, <3>1 DEF keep, HandlerTyped
    <3>2. dirty_flag' = dirty_flag \/ \E f \in Flags : keep(t, f)
      BY <1>2 DEF Tells
    <3>3. QED
      BY <1>0, <3>1, <3>2 DEF HandlerTyped
  <2>5. QED
    BY <1>0, <1>2, <2>2, <2>3, <2>4 DEF Tells, store, HandlerTyped, TypeOK, TisTyped
<1>3. ASSUME NEW t \in Threads, skipCheck(t) \/ tisNull(t) \/ checked(t) \/ checkFailed(t)
      PROVE  HandlerTyped'
  BY <1>2, <1>3, TellingSteps
<1>7. ASSUME NEW t \in Threads, tisGet(t)
      PROVE  HandlerTyped'
  <2>1. /\ phase[t] = "check" /\ UNCHANGED <<queue, task, phase, dirty_flag, dpc, told, judged, db>>
        /\ \A u \in Threads : u # t => tpc'[u] = tpc[u]
    BY <1>0, <1>7 DEF tisGet, dbserVars, history, tis!GetNull, tis!Get, TisTyped
  <2>2. shared' \subseteq {u \in Threads : tconn'[u] # NoConn}
    <3>1. CASE tis!GetNull(t) /\ UNCHANGED shared
      BY <1>0, <3>1 DEF tis!GetNull, HandlerTyped, TypeOK
    <3>2. ASSUME NEW c \in TisConns, tis!Get(t, c),
                 shared' \subseteq shared \cup {u \in Threads : tconn[u] = c} \cup {t}
          PROVE  shared' \subseteq {u \in Threads : tconn'[u] # NoConn}
      BY <1>0, <3>2, ConnsAssumption DEF tis!Get, HandlerTyped, TypeOK, TisTyped
    <3>3. QED
      BY <1>7, <3>1, <3>2 DEF tisGet
  <2>3. QED
    BY <1>0, <2>1, <2>2 DEF HandlerTyped, TypeOK
<1>8. ASSUME NEW t \in Threads, tisCall(t) \/ tisThrows(t)
      PROVE  HandlerTyped'
  <2>1. /\ tpc[t] # "idle" /\ UNCHANGED <<queue, task, phase, dirty_flag, dpc, told, judged, db>>
        /\ UNCHANGED <<tconn, shared>>
        /\ \A u \in Threads : u # t => tpc'[u] = tpc[u]
    BY <1>0, <1>8 DEF tisCall, tisThrows, dbserVars, history, tis!Send, tis!Recv, tis!Fail, TisTyped
  <2>2. QED
    BY <1>0, <2>1 DEF HandlerTyped, TypeOK
<1>9. ASSUME NEW t \in Threads, dbserGet(t)
      PROVE  HandlerTyped'
  <2>1. /\ phase[t] = "store" /\ \A u \in Threads : u # t => dpc'[u] = dpc[u]
        /\ UNCHANGED <<queue, task, phase, dirty_flag, tpc, tconn, shared, told, judged, db>>
    BY <1>0, <1>9 DEF dbserGet, tisVars, history, dbser!GetNull, dbser!Get, DbserTyped
  <2>2. QED
    BY <1>0, <2>1 DEF HandlerTyped, TypeOK
<1>10. ASSUME NEW t \in Threads, dbserCall(t) \/ dbserThrows(t)
      PROVE  HandlerTyped'
  <2>1. /\ dpc[t] # "idle" /\ \A u \in Threads : u # t => dpc'[u] = dpc[u]
        /\ UNCHANGED <<queue, task, phase, dirty_flag, tpc, tconn, shared, told, judged, db>>
    BY <1>0, <1>10 DEF dbserCall, dbserThrows, tisVars, history,
      dbser!Send, dbser!Recv, dbser!Fail, DbserTyped
  <2>2. QED
    BY <1>0, <2>1 DEF HandlerTyped, TypeOK
<1>11. ASSUME NEW t \in Threads, dbserNull(t) \/ stored(t) \/ storeFailed(t)
      PROVE  HandlerTyped'
  <2>1. /\ dpc[t] # "idle" /\ dpc' = [dpc EXCEPT ![t] = "idle"] /\ finish(t)
        /\ UNCHANGED <<queue, dirty_flag, tpc, tconn, shared, told, judged, db>>
    BY <1>11 DEF dbserNull, stored, storeFailed, tisVars, history,
      dbser!GiveUp, dbser!Release
  <2>2. phase[t] = "store" /\ tpc[t] = "idle"
    BY <1>0, <2>1 DEF HandlerTyped, TypeOK
  <2>3. QED
    BY <1>0, <2>1, <2>2, NoPackageAssumption DEF finish, HandlerTyped, TypeOK, DbserTyped
<1>12. ASSUME NEW c \in TisConns, tisServe(c)
       PROVE  HandlerTyped'
  <2>1. PICK o \in Verdicts :
          judged' = [p \in Packages |->
            IF p.content = TisService_check_args_read(Head(twire[c]).body).req.content
            THEN judged[p] \cup {o} ELSE judged[p]]
    BY <1>12 DEF tisServe
  <2>2. judged' \in [Packages -> SUBSET Verdicts]
    BY <1>0, <2>1 DEF HandlerTyped
  <2>3. UNCHANGED <<queue, task, phase, dirty_flag, tpc, dpc, tconn, shared, told, db>>
    BY <1>12 DEF tisServe, dbserVars, tis!Serve
  <2>4. QED
    BY <1>0, <2>2, <2>3 DEF HandlerTyped, TypeOK
<1>13. ASSUME NEW c \in DbserConns, dbserServe(c)
       PROVE  HandlerTyped'
  <2>1. record(Head(dwire[c])) \in Records
    BY <1>0, <1>13, QueueTypes DEF dbserServe, DbserTyped, Records
  <2>2. db' = db \/ db' = Append(db, record(Head(dwire[c])))
    BY <1>13 DEF dbserServe, record
  <2>3. db \in Seq(Records)
    BY <1>0 DEF HandlerTyped
  <2>4. db' \in Seq(Records)
    BY <2>1, <2>2, <2>3, QueueTypes
  <2>5. UNCHANGED <<queue, task, phase, dirty_flag, tpc, dpc, tconn, shared, told, judged>>
    BY <1>13 DEF dbserServe, tisVars, dbser!Serve
  <2>6. QED
    BY <1>0, <2>4, <2>5 DEF HandlerTyped, TypeOK
<1>14. CASE tisLost \/ dbserLost \/ UNCHANGED vars
  <2>1. UNCHANGED <<queue, task, phase, dirty_flag, tpc, dpc, tconn, shared, told, judged, db>>
    BY <1>14 DEF tisLost, dbserLost, vars, tisVars, dbserVars, history, tis!Lose, dbser!Lose
  <2>2. QED
    BY <1>0, <2>1 DEF HandlerTyped, TypeOK
<1>15. QED
  BY <1>1, <1>3, <1>7, <1>8, <1>9, <1>10, <1>11, <1>12, <1>13, <1>14
  DEF Next, tisProtoHandler

(***************************************************************************)
(* At the start nothing is taken, told or stored.                          *)
(***************************************************************************)
LEMMA TypesInit == Init => Typed
<1> SUFFICES ASSUME Init PROVE Typed
  OBVIOUS
<1>1. TisTyped
  <2>1. tis!Empty \in [TisConns -> Seq(TisRequests)] /\ tis!Empty \in [TisConns -> Seq(TisAnswers)]
    BY DEF tis!Empty
  <2>2. QED
    BY <2>1 DEF Init, tis!Init, TisTyped, CallStates
<1>2. DbserTyped
  <2>1. /\ dbser!Empty \in [DbserConns -> Seq(DbserRequests)]
        /\ dbser!Empty \in [DbserConns -> Seq(DbserAnswers)]
    BY DEF dbser!Empty
  <2>2. QED
    BY <2>1 DEF Init, dbser!Init, DbserTyped, CallStates
<1>3. HandlerTyped
  BY DEF Init, tis!Init, dbser!Init, HandlerTyped, TypeOK, Flags
<1>4. QED
  BY <1>1, <1>2, <1>3 DEF Typed

LEMMA TypesHold == Spec => []Typed
<1>1. Typed /\ [Next]_vars => Typed'
  BY TisSteps, DbserSteps, TisTypes, DbserTypes, HandlerTypes DEF Typed
<1>2. QED
  BY <1>1, TypesInit, PTL DEF Spec

(***************************************************************************)
(* The handler is well typed for any number of threads and packages; a     *)
(* thread is in a call of at most one of the services.                     *)
(***************************************************************************)
THEOREM TypeCorrect == Spec => []TypeOK
<1>1. Typed => TypeOK
  BY DEF Typed, HandlerTyped
<1>2. QED
  BY <1>1, TypesHold, PTL

-----------------------------------------------------------------------------
(* What is told, kept and stored *)

\* The flag the message of package p is stored with.
keptFlag(p) == IF told[p][1].status = 0 THEN told[p][1].flag ELSE 2
kept(p) == dbser_req(p, keptFlag(p))

(***************************************************************************)
(* How far each package is: told nothing while it is queued or checked,    *)
(* told once from then on, with what was told in the thread's flag.        *)
(***************************************************************************)
ToldOnce == \A p \in Packages : told[p] = <<>> \/ Len(told[p]) = 1
Waiting == \A p \in queue : told[p] = <<>> /\ \A t \in Threads : task[t] # p
OneThread == \A t, u \in Threads : task[t] \in Packages /\ task[t] = task[u] => t = u
AtStage(t) ==
  /\ phase[t] = "check" => told[task[t]] = <<>> /\ dirty_flag[t] = 2
  /\ phase[t] = "store" => told[task[t]] # <<>> /\ dirty_flag[t] = keptFlag(task[t])
Stages == ToldOnce /\ Waiting /\ OneThread /\ \A t \in Threads : AtStage(t)

(***************************************************************************)
(* A step takes a package, tells its client, is done with it, or leaves it *)
(* where it is.                                                            *)
(***************************************************************************)
Ends(t) ==
  /\ phase[t] = "store" /\ finish(t)
  /\ dpc' = [dpc EXCEPT ![t] = "idle"]
  /\ UNCHANGED <<queue, dirty_flag, tpc, tconn, shared, told, judged, db>>
Sent(t) == dpc[t] \in {"sent", "ok", "failed"}
Rests ==
  /\ UNCHANGED <<queue, task, phase, dirty_flag, told>>
  /\ \A t \in Threads : Sent(t) => Sent(t)'

LEMMA Kinds ==
  ASSUME Typed, [Next]_vars
  PROVE  (\E t \in Threads : take(t) \/ Tells(t) \/ Ends(t)) \/ Rests
<1>0. DbserTyped /\ HandlerTyped
  BY DEF Typed
<1>1. ASSUME NEW t \in Threads, skipCheck(t) \/ tisNull(t) \/ checked(t) \/ checkFailed(t)
      PROVE  Tells(t)
  BY <1>1, TellingSteps
<1>2. ASSUME NEW t \in Threads, dbserNull(t) \/ stored(t) \/ storeFailed(t)
      PROVE  Ends(t)
  <2>1. /\ dpc[t] # "idle" /\ dpc' = [dpc EXCEPT ![t] = "idle"] /\ finish(t)
        /\ UNCHANGED <<queue, dirty_flag, tpc, tconn, shared, told, judged, db>>
    BY <1>2 DEF dbserNull, stored, storeFailed, tisVars, history, dbser!GiveUp, dbser!Release
  <2>2. QED
    BY <1>0, <2>1 DEF HandlerTyped, TypeOK, Ends
<1>3. ASSUME NEW t \in Threads, tisGet(t) \/ tisCall(t) \/ tisThrows(t)
      PROVE  Rests
  BY <1>3 DEF tisGet, tisCall, tisThrows, history, dbserVars, Rests, Sent
<1>4. ASSUME NEW t \in Threads, dbserGet(t) \/ dbserCall(t) \/ dbserThrows(t)
      PROVE  Rests
  <2>1. dbser!GetNull(t) \/ (\E c \in DbserConns : dbser!Get(t, c)) \/ dbser!Recv(t)
          \/ dbser!Fail(t) \/ \E m : dbser!Send(t, m)
    BY <1>4 DEF dbserGet, dbserCall, dbserThrows
  <2>2. \A u \in Threads : Sent(u) => Sent(u)'
    BY <1>0, <2>1 DEF dbser!GetNull, dbser!Get, dbser!Recv, dbser!Fail, dbser!Send,
      DbserTyped, Sent
  <2>3. QED
    BY <1>4, <2>2 DEF dbserGet, dbserCall, dbserThrows, history, Rests
<1>5. CASE \/ \E c \in TisConns : tisServe(c)
           \/ \E c \in DbserConns : dbserServe(c)
           \/ tisLost \/ dbserLost \/ UNCHANGED vars
  BY <1>5 DEF tisServe, dbserServe, tisLost, dbserLost, vars, history, dbserVars, Rests, Sent,
    dbser!Serve, dbser!Lose
<1>6. QED
  BY <1>1, <1>2, <1>3, <1>4, <1>5 DEF Next, tisProtoHandler

TellsAs(t, r) ==
  /\ told' = [told EXCEPT ![task[t]] = Append(@, r)]
  /\ dirty_flag' = [dirty_flag EXCEPT ![t] = IF r.status = 0 THEN r.flag ELSE 2]

LEMMA StagesNext ==
  ASSUME Typed, Stages, [Next]_vars
  PROVE  Stages'
<1>0. /\ HandlerTyped /\ TypeOK
      /\ ToldOnce /\ Waiting /\ OneThread /\ \A u \in Threads : AtStage(u)
  BY DEF Typed, HandlerTyped, Stages
<1>1. ASSUME NEW t \in Threads, take(t)
      PROVE  Stages'
  <2>1. PICK p \in queue : queue' = queue \ {p} /\ task' = [task EXCEPT ![t] = p]
    BY <1>1 DEF take
  <2>2. /\ p \in Packages /\ UNCHANGED told
        /\ phase' = [phase EXCEPT ![t] = "check"] /\ dirty_flag' = [dirty_flag EXCEPT ![t] = 2]
    BY <1>0, <1>1, <2>1 DEF take, TypeOK, history
  <2>3. \A u \in Threads :
          /\ task'[u] = IF u = t THEN p ELSE task[u]
          /\ phase'[u] = IF u = t THEN "check" ELSE phase[u]
          /\ dirty_flag'[u] = IF u = t THEN 2 ELSE dirty_flag[u]
    BY <1>0, <2>1, <2>2 DEF HandlerTyped, TypeOK
  <2>4. Waiting'
    BY <1>0, <2>1, <2>2, <2>3 DEF Waiting
  <2>5. OneThread'
    BY <1>0, <2>1, <2>3 DEF Waiting, OneThread
  <2>6. ASSUME NEW u \in Threads PROVE AtStage(u)'
    <3>1. CASE u = t
      <4>1. told[p] = <<>>
        BY <1>0, <2>1 DEF Waiting
      <4>2. QED
        BY <2>2, <2>3, <3>1, <4>1 DEF AtStage
    <3>2. CASE u # t
      BY <1>0, <2>2, <2>3, <3>2 DEF AtStage, keptFlag
    <3>3. QED
      BY <3>1, <3>2
  <2>7. ToldOnce'
    BY <1>0, <2>2 DEF ToldOnce
  <2>8. QED
    BY <2>4, <2>5, <2>6, <2>7 DEF Stages
<1>2. ASSUME NEW t \in Threads, Tells(t)
      PROVE  Stages'
  <2> DEFINE p == task[t]
  <2>1. /\ p \in Packages /\ told[p] = <<>> /\ UNCHANGED <<queue, task>>
        /\ phase' = [phase EXCEPT ![t] = "store"] /\ dirty_flag[t] = 2
    BY <1>0, <1>2 DEF Tells, TypeOK, AtStage, store
  <2>2. \A u \in Threads : task[u] = p => u = t
    BY <1>0, <2>1 DEF OneThread
  <2>3. PICK r : TellsAs(t, r)
    <3>1. CASE dirty_flag' = dirty_flag /\ \E status \in {1001, 1002} : reply(p, status, 0)
      <4>1. PICK status \in {1001, 1002} : reply(p, status, 0)
        BY <3>1
      <4> DEFINE r == [status |-> status, flag |-> 0]
      <4>2. told' = [told EXCEPT ![p] = Append(@, r)] /\ r.status # 0
        BY <4>1 DEF reply
      <4> HIDE DEF r
      <4>3. dirty_flag' = [dirty_flag EXCEPT ![t] = 2]
        BY <1>0, <2>1, <3>1 DEF HandlerTyped
      <4>4. TellsAs(t, r)
        BY <4>2, <4>3 DEF TellsAs
      <4>5. QED
        BY <4>4
    <3>2. CASE \E f \in Flags : keep(t, f) /\ reply(p, 0, f)
      <4>1. PICK f \in Flags : keep(t, f) /\ reply(p, 0, f)
        BY <3>2
      <4> DEFINE r == [status |-> 0, flag |-> f]
      <4>2. told' = [told EXCEPT ![p] = Append(@, r)] /\ r.status = 0 /\ r.flag = f
        BY <4>1 DEF reply
      <4> HIDE DEF r
      <4>3. TellsAs(t, r)
        BY <4>1, <4>2 DEF TellsAs, keep
      <4>4. QED
        BY <4>3
    <3>3. QED
      BY <1>2, <3>1, <3>2 DEF Tells
  <2>4. /\ \A q \in Packages : q # p => told'[q] = told[q]
        /\ told'[p] # <<>> /\ Len(told'[p]) = 1 /\ told'[p][1] = r
    BY <1>0, <2>1, <2>3 DEF HandlerTyped, TellsAs
  <2>5. /\ \A u \in Threads :
             u # t => phase'[u] = phase[u] /\ dirty_flag'[u] = dirty_flag[u]
        /\ phase'[t] = "store" /\ dirty_flag'[t] = IF r.status = 0 THEN r.flag ELSE 2
    BY <1>0, <2>1, <2>3 DEF HandlerTyped, TypeOK, TellsAs
  <2>6. ASSUME NEW u \in Threads PROVE AtStage(u)'
    <3>1. CASE u = t
      <4>1. keptFlag(p)' = IF r.status = 0 THEN r.flag ELSE 2
        BY <2>1, <2>4 DEF keptFlag
      <4>2. QED
        BY <2>1, <2>4, <2>5, <3>1, <4>1 DEF AtStage
    <3>2. CASE u # t /\ phase[u] = "idle"
      BY <2>5, <3>2 DEF AtStage
    <3>3. CASE u # t /\ phase[u] # "idle"
      <4>1. task[u] \in Packages /\ task[u] # p
        BY <1>0, <2>2, <3>3 DEF TypeOK
      <4>2. told'[task[u]] = told[task[u]] /\ task'[u] = task[u]
        BY <2>1, <2>4, <4>1
      <4>3. keptFlag(task[u])' = keptFlag(task[u])
        BY <4>2 DEF keptFlag
      <4>4. QED
        BY <1>0, <2>5, <3>3, <4>2, <4>3 DEF AtStage
    <3>4. QED
      BY <3>1, <3>2, <3>3
  <2>7. ToldOnce'
    BY <1>0, <2>4 DEF ToldOnce
  <2>8. Waiting'
    <3>1. p \notin queue
      BY <1>0 DEF Waiting
    <3>2. QED
      BY <1>0, <2>1, <2>4, <3>1 DEF Waiting, TypeOK
  <2>9. OneThread'
    BY <1>0, <2>1 DEF OneThread
  <2>10. QED
    BY <2>6, <2>7, <2>8, <2>9 DEF Stages
<1>3. ASSUME NEW t \in Threads, Ends(t)
      PROVE  Stages'
  <2>1. /\ \A u \in Threads : u # t => task'[u] = task[u] /\ phase'[u] = phase[u]
        /\ task'[t] = NoPackage /\ phase'[t] = "idle"
    BY <1>0, <1>3 DEF Ends, finish, HandlerTyped, TypeOK
  <2>2. UNCHANGED <<queue, told, dirty_flag>>
    BY <1>3 DEF Ends
  <2>3. ASSUME NEW u \in Threads PROVE AtStage(u)'
    <3>1. CASE u = t
      BY <2>1, <3>1 DEF AtStage
    <3>2. CASE u # t
      <4>1. keptFlag(task[u])' = keptFlag(task[u])
        BY <2>1, <2>2, <3>2 DEF keptFlag
      <4>2. QED
        BY <1>0, <2>1, <2>2, <3>2, <4>1 DEF AtStage
    <3>3. QED
      BY <3>1, <3>2
  <2>4. Waiting' /\ OneThread' /\ ToldOnce'
    BY <1>0, <2>1, <2>2, NoPackageAssumption DEF Waiting, OneThread, ToldOnce, TypeOK
  <2>5. QED
    BY <2>3, <2>4 DEF Stages
<1>4. CASE Rests
  BY <1>4 DEF Rests, Stages, ToldOnce, Waiting, OneThread, AtStage, keptFlag
<1>5. QED
  BY <1>1, <1>2, <1>3, <1>4, Kinds

(***************************************************************************)
(* The request to store the message of package p has been sent.            *)
(***************************************************************************)
Away(p) ==
  /\ p \in Packages /\ told[p] # <<>> /\ p \notin queue
  /\ \A t \in Threads : task[t] = p => Sent(t)

(***************************************************************************)
(* It stays sent, and what was told about the message stays.               *)
(***************************************************************************)
LEMMA AwayStays ==
  ASSUME Typed, Stages, [Next]_vars, NEW p, Away(p)
  PROVE  Away(p)' /\ kept(p)' = kept(p)
<1>0. HandlerTyped /\ TypeOK /\ DbserTyped /\ p \in Packages /\ p # NoPackage
  BY NoPackageAssumption DEF Typed, HandlerTyped, Away
<1>1. ASSUME NEW t \in Threads, take(t)
      PROVE  Away(p)' /\ kept(p)' = kept(p)
  <2>1. PICK q \in queue : queue' = queue \ {q} /\ task' = [task EXCEPT ![t] = q]
    BY <1>1 DEF take
  <2>2. UNCHANGED <<told, dpc>>
    BY <1>1 DEF take, history, dbserVars
  <2>3. \A u \in Threads : task'[u] = p => task[u] = p
    BY <1>0, <2>1 DEF HandlerTyped, Away
  <2>4. QED
    BY <2>1, <2>2, <2>3 DEF Away, kept, keptFlag, Sent
<1>2. ASSUME NEW t \in Threads, Tells(t)
      PROVE  Away(p)' /\ kept(p)' = kept(p)
  <2>1. task[t] # p
    BY <1>2 DEF Tells, Stages, AtStage, Away
  <2>2. told'[p] = told[p]
    <3>1. PICK status, f : reply(task[t], status, f)
      BY <1>2 DEF Tells
    <3>2. QED
      BY <1>0, <2>1, <3>1 DEF reply, HandlerTyped
  <2>3. UNCHANGED <<queue, task, dpc>>
    BY <1>2 DEF Tells
  <2>4. QED
    BY <2>2, <2>3 DEF Away, kept, keptFlag, Sent
<1>3. ASSUME NEW t \in Threads, Ends(t)
      PROVE  Away(p)' /\ kept(p)' = kept(p)
  <2>1. \A u \in Threads : task'[u] = p => task[u] = p /\ u # t
    BY <1>0, <1>3 DEF Ends, finish, HandlerTyped
  <2>2. \A u \in Threads : u # t => dpc'[u] = dpc[u]
    BY <1>0, <1>3 DEF Ends, DbserTyped
  <2>3. QED
    BY <1>3, <2>1, <2>2 DEF Ends, Away, kept, keptFlag, Sent
<1>4. CASE Rests
  BY <1>4 DEF Rests, Away, kept, keptFlag
<1>5. QED
  BY <1>1, <1>2, <1>3, <1>4, Kinds

(***************************************************************************)
(* What is on its way to the database and what is in it is what was told,  *)
(* of packages whose request has been sent, and of each only one.          *)
(***************************************************************************)
AsTold(r) == \E p \in Packages : Away(p) /\ r = kept(p)
KeptAsTold ==
  /\ \A c \in DbserConns : \A i \in 1..Len(dwire[c]) : AsTold(record(dwire[c][i]))
  /\ \A k \in 1..Len(db) : AsTold(db[k])

WireOnce ==
  \A c, d \in DbserConns : \A i \in 1..Len(dwire[c]), j \in 1..Len(dwire[d]) :
    record(dwire[c][i]).message = record(dwire[d][j]).message => c = d /\ i = j
WireOrDb ==
  \A c \in DbserConns : \A i \in 1..Len(dwire[c]), k \in 1..Len(db) :
    record(dwire[c][i]).message # db[k].message
DbOnce == \A k, l \in 1..Len(db) : db[k].message = db[l].message => k = l
KeptOnce == WireOnce /\ WireOrDb /\ DbOnce

LEMMA TakeFirst ==
  ASSUME NEW S, NEW s \in Seq(S), s # <<>>
  PROVE  /\ 1 \in 1..Len(s) /\ Head(s) = s[1]
         /\ \A i \in 1..Len(Tail(s)) : i + 1 \in 1..Len(s) /\ i + 1 # 1
                                       /\ Tail(s)[i] = s[i + 1]
<1>1. Len(s) \in Nat \ {0} /\ Len(Tail(s)) = Len(s) - 1 /\ Head(s) = s[1]
  OBVIOUS
<1>2. 1 \in 1..Len(s) /\ \A i \in 1..Len(Tail(s)) : i + 1 \in 1..Len(s) /\ i + 1 # 1
  BY <1>1
<1>3. \A i \in 1..Len(Tail(s)) : Tail(s)[i] = s[i + 1]
  BY <1>1
<1>4. QED
  BY <1>1, <1>2, <1>3

LEMMA AddLast ==
  ASSUME NEW S, NEW s \in Seq(S), NEW e
  PROVE  \A i \in 1..Len(Append(s, e)) :
           \/ i \in 1..Len(s) /\ Append(s, e)[i] = s[i]
           \/ i = Len(s) + 1 /\ Append(s, e)[i] = e
<1>1. Len(s) \in Nat /\ Len(Append(s, e)) = Len(s) + 1
  OBVIOUS
<1>2. Append(s, e)[Len(s) + 1] = e
  OBVIOUS
<1>3. \A i \in 1..Len(s) : Append(s, e)[i] = s[i]
  OBVIOUS
<1>4. QED
  BY <1>1, <1>2, <1>3

(***************************************************************************)
(* A step adds a request, has one served, or removes some.                 *)
(***************************************************************************)
Posts(t) ==
  /\ dpc[t] = "held" /\ dpc' = [dpc EXCEPT ![t] = "sent"]
  /\ dwire' = [dwire EXCEPT ![dconn[t]] = Append(@, DbserRequest(task[t], dirty_flag[t]))]
  /\ UNCHANGED <<queue, task, told, db>>
Stores(c) ==
  /\ dwire[c] # <<>> /\ dwire' = [dwire EXCEPT ![c] = Tail(@)]
  /\ db' = db \/ db' = Append(db, record(Head(dwire[c])))
Empties ==
  /\ \A c \in DbserConns : dwire'[c] = dwire[c] \/ dwire'[c] = <<>>
  /\ UNCHANGED db

LEMMA Traffic ==
  ASSUME Typed, [Next]_vars
  PROVE  \/ \E t \in Threads : Posts(t)
         \/ \E c \in DbserConns : Stores(c)
         \/ Empties
<1>0. DbserTyped
  BY DEF Typed
<1>1. ASSUME NEW t \in Threads, dbserCall(t)
      PROVE  Posts(t) \/ Empties
  <2>1. CASE dbser!Recv(t) \/ dbser!Fail(t)
    BY <1>1, <2>1 DEF dbserCall, dbser!Recv, dbser!Fail, history, Empties
  <2>2. CASE dbser!Send(t, IdentityServClient_send_StoreMessage(
                             dbser_req(task[t], dirty_flag[t])))
    BY <1>1, <2>2 DEF dbserCall, dbser!Send, history, Posts, DbserRequest
  <2>3. QED
    BY <1>1, <2>1, <2>2 DEF dbserCall
<1>2. ASSUME NEW t \in Threads, storeFailed(t) \/ stored(t)
      PROVE  Empties
  BY <1>2 DEF storeFailed, stored, history, dbser!Release, dbser!Empty, Empties
<1>3. ASSUME NEW t \in Threads, dbserGet(t) \/ dbserNull(t) \/ dbserThrows(t)
      PROVE  Empties
  BY <1>3 DEF dbserGet, dbserNull, dbserThrows, history, Empties,
    dbser!Get, dbser!GetNull, dbser!GiveUp, dbser!Fail
<1>4. ASSUME NEW t \in Threads, take(t) \/ tisGet(t) \/ tisCall(t) \/ tisThrows(t)
      PROVE  Empties
  BY <1>4 DEF take, tisGet, tisCall, tisThrows, history, dbserVars, Empties
<1>5. ASSUME NEW t \in Threads, skipCheck(t) \/ tisNull(t) \/ checked(t) \/ checkFailed(t)
      PROVE  Empties
  <2> USE DEF dbserVars, Empties
  <2>1. CASE skipCheck(t)
    BY <2>1 DEF skipCheck
  <2>2. CASE tisNull(t)
    BY <2>2 DEF tisNull
  <2>3. CASE checked(t)
    BY <2>3 DEF checked
  <2>4. CASE checkFailed(t)
    BY <2>4 DEF checkFailed
  <2>5. QED
    BY <1>5, <2>1, <2>2, <2>3, <2>4
<1>6. ASSUME NEW c \in DbserConns, dbserServe(c)
      PROVE  Stores(c)
  BY <1>6 DEF dbserServe, dbser!Serve, Stores, record
<1>7. CASE (\E c \in TisConns : tisServe(c)) \/ tisLost \/ UNCHANGED vars
  BY <1>7 DEF tisServe, tisLost, vars, history, dbserVars, Empties
<1>8. CASE dbserLost
  BY <1>8 DEF dbserLost, dbser!Lose, history, Empties
<1>9. QED
  BY <1>1, <1>2, <1>3, <1>4, <1>5, <1>6, <1>7, <1>8 DEF Next, tisProtoHandler

(***************************************************************************)
(* A request that is added is the first and only one for its package,      *)
(* with what its client was told.                                          *)
(***************************************************************************)
LEMMA PostsOwn ==
  ASSUME Typed, Stages, NEW t \in Threads, Posts(t)
  PROVE  /\ dconn[t] \in DbserConns
         /\ \E p \in Packages : /\ ~Away(p) /\ Away(p)'
                                /\ record(DbserRequest(task[t], dirty_flag[t])) = kept(p)'
<1>0. HandlerTyped /\ TypeOK /\ DbserTyped
  BY DEF Typed, HandlerTyped
<1>1. phase[t] = "store" /\ dconn[t] \in DbserConns
  BY <1>0 DEF Posts, TypeOK, DbserTyped
<1>2. PICK p \in Packages : p = task[t] /\ told[p] # <<>> /\ dirty_flag[t] = keptFlag(p)
  BY <1>0, <1>1 DEF TypeOK, Stages, AtStage
<1>3. ~Away(p)
  BY <1>2 DEF Away, Sent, Posts
<1>4. Away(p)'
  <2>1. dpc'[t] = "sent"
    BY <1>0 DEF Posts, DbserTyped
  <2>2. \A u \in Threads : task[u] = p => u = t
    BY <1>2 DEF Stages, OneThread
  <2>3. p \notin queue
    BY <1>2 DEF Stages, Waiting
  <2>4. UNCHANGED <<queue, task, told>>
    BY DEF Posts
  <2>5. QED
    BY <1>2, <2>1, <2>2, <2>3, <2>4 DEF Away, Sent
<1>5. kept(p)' = dbser_req(p, dirty_flag[t])
  <2>1. UNCHANGED told
    BY DEF Posts
  <2>2. QED
    BY <1>2, <2>1 DEF kept, keptFlag
<1>6. QED
  BY <1>1, <1>2, <1>3, <1>4, <1>5, RecordRead

(***************************************************************************)
(* AsTold(r) in the next state.                                            *)
(***************************************************************************)
ToldAfter(r) == \E p \in Packages : Away(p)' /\ r = kept(p)'

LEMMA KeptAsToldNext ==
  ASSUME Typed, Stages, KeptAsTold, [Next]_vars
  PROVE  KeptAsTold'
<1>0. HandlerTyped /\ DbserTyped
  BY DEF Typed
<1>1. ASSUME NEW r, AsTold(r) PROVE ToldAfter(r)
  <2>1. PICK p \in Packages : Away(p) /\ r = kept(p)
    BY <1>1 DEF AsTold
  <2>2. Away(p)' /\ kept(p)' = kept(p)
    BY <2>1, AwayStays
  <2>3. QED
    BY <2>1, <2>2 DEF ToldAfter
<1> DEFINE WireAfter == \A c \in DbserConns : \A i \in 1..Len(dwire'[c]) :
                          ToldAfter(record(dwire'[c][i]))
           DbAfter == \A k \in 1..Len(db') : ToldAfter(db'[k])
<1>6. /\ \A c \in DbserConns : \A i \in 1..Len(dwire[c]) : ToldAfter(record(dwire[c][i]))
      /\ \A k \in 1..Len(db) : ToldAfter(db[k])
  BY <1>1 DEF KeptAsTold
<1>7. WireAfter /\ DbAfter => KeptAsTold'
  BY DEF KeptAsTold, AsTold, ToldAfter
<1> HIDE DEF WireAfter, DbAfter
<1>2. ASSUME NEW t \in Threads, Posts(t)
      PROVE  KeptAsTold'
  <2> DEFINE e == DbserRequest(task[t], dirty_flag[t])
             d == dconn[t]
  <2>1. d \in DbserConns /\ ToldAfter(record(e))
    BY <1>2, PostsOwn DEF ToldAfter
  <2>2. dwire' = [dwire EXCEPT ![d] = Append(@, e)] /\ UNCHANGED db
    BY <1>2 DEF Posts
  <2> HIDE DEF e, d
  <2>3. dwire[d] \in Seq(DbserRequests)
    BY <1>0, <2>1 DEF DbserTyped
  <2>4. \A i \in 1..Len(Append(dwire[d], e)) :
          (i \in 1..Len(dwire[d]) /\ Append(dwire[d], e)[i] = dwire[d][i])
            \/ Append(dwire[d], e)[i] = e
    BY <2>3, AddLast
  <2>5. \A c \in DbserConns : dwire'[c] = IF c = d THEN Append(dwire[d], e) ELSE dwire[c]
    BY <1>0, <2>1, <2>2 DEF DbserTyped
  <2>6. ASSUME NEW c \in DbserConns, NEW i \in 1..Len(dwire'[c])
        PROVE  ToldAfter(record(dwire'[c][i]))
    <3>1. dwire'[c][i] = e \/ (i \in 1..Len(dwire[c]) /\ dwire'[c][i] = dwire[c][i])
      BY <2>4, <2>5
    <3>2. QED
      BY <1>6, <2>1, <3>1
  <2>7. DbAfter
    BY <1>6, <2>2 DEF DbAfter
  <2>8. QED
    BY <1>7, <2>6, <2>7 DEF WireAfter
<1>3. ASSUME NEW d \in DbserConns, Stores(d)
      PROVE  KeptAsTold'
  <2>1. dwire[d] \in Seq(DbserRequests) /\ dwire[d] # <<>> /\ db \in Seq(Records)
    BY <1>0, <1>3 DEF DbserTyped, HandlerTyped, Stores
  <2>2. /\ 1 \in 1..Len(dwire[d]) /\ Head(dwire[d]) = dwire[d][1]
        /\ \A i \in 1..Len(Tail(dwire[d])) : i + 1 \in 1..Len(dwire[d])
                                             /\ Tail(dwire[d])[i] = dwire[d][i + 1]
    BY <2>1, TakeFirst
  <2>3. \A c \in DbserConns : dwire'[c] = IF c = d THEN Tail(dwire[d]) ELSE dwire[c]
    BY <1>0, <1>3 DEF DbserTyped, Stores
  <2>4. ASSUME NEW c \in DbserConns, NEW i \in 1..Len(dwire'[c])
        PROVE  ToldAfter(record(dwire'[c][i]))
    <3>1. CASE c = d
      <4>1. i + 1 \in 1..Len(dwire[d]) /\ dwire'[c][i] = dwire[d][i + 1]
        BY <2>2, <2>3, <3>1
      <4>2. QED
        BY <1>6, <4>1
    <3>2. CASE c # d
      BY <1>6, <2>3, <3>2
    <3>3. QED
      BY <3>1, <3>2
  <2>5. ASSUME NEW k \in 1..Len(db')
        PROVE  ToldAfter(db'[k])
    <3>1. ToldAfter(record(Head(dwire[d])))
      BY <1>6, <2>2
    <3>2. db'[k] = record(Head(dwire[d])) \/ (k \in 1..Len(db) /\ db'[k] = db[k])
      BY <1>3, <2>1, AddLast DEF Stores
    <3>3. QED
      BY <1>6, <3>1, <3>2
  <2>6. QED
    BY <1>7, <2>4, <2>5 DEF WireAfter, DbAfter
<1>4. CASE Empties
  <2>1. ASSUME NEW c \in DbserConns, NEW i \in 1..Len(dwire'[c])
        PROVE  dwire'[c] = dwire[c]
    BY <1>4, <2>1 DEF Empties
  <2>2. QED
    BY <1>4, <1>6, <1>7, <2>1 DEF Empties, WireAfter, DbAfter
<1>5. QED
  BY <1>2, <1>3, <1>4, Traffic

LEMMA KeptOnceNext ==
  ASSUME Typed, Stages, KeptAsTold, KeptOnce, [Next]_vars
  PROVE  KeptOnce'
<1>0. HandlerTyped /\ DbserTyped /\ WireOnce /\ WireOrDb /\ DbOnce
  BY DEF Typed, KeptOnce
<1>2. ASSUME NEW t \in Threads, Posts(t)
      PROVE  KeptOnce'
  <2> DEFINE e == DbserRequest(task[t], dirty_flag[t])
             d == dconn[t]
  <2>1. d \in DbserConns /\ \E q \in Packages : ~Away(q) /\ record(e) = kept(q)'
    BY <1>2, PostsOwn
  <2>2. ASSUME NEW r, AsTold(r) PROVE r.message # record(e).message
    <3>1. PICK p \in Packages : Away(p) /\ r = kept(p)
      BY <2>2 DEF AsTold
    <3>2. PICK q \in Packages : ~Away(q) /\ record(e) = kept(q)'
      BY <2>1
    <3>3. p.content # q.content
      BY <3>1, <3>2, PackagesAssumption
    <3>4. r.message = p.content /\ record(e).message = q.content
      BY <3>1, <3>2 DEF kept, dbser_req
    <3>5. QED
      BY <3>3, <3>4
  <2>3. dwire' = [dwire EXCEPT ![d] = Append(@, e)] /\ UNCHANGED db
    BY <1>2 DEF Posts
  <2> HIDE DEF e, d
  <2>4. dwire[d] \in Seq(DbserRequests)
    BY <1>0, <2>1 DEF DbserTyped
  <2>5. \A i \in 1..Len(Append(dwire[d], e)) :
          (i \in 1..Len(dwire[d]) /\ Append(dwire[d], e)[i] = dwire[d][i])
            \/ (i = Len(dwire[d]) + 1 /\ Append(dwire[d], e)[i] = e)
    BY <2>4, AddLast
  <2>6. \A c \in DbserConns : dwire'[c] = IF c = d THEN Append(dwire[d], e) ELSE dwire[c]
    BY <1>0, <2>1, <2>3 DEF DbserTyped
  <2> DEFINE New(c, i) == c = d /\ i = Len(dwire[d]) + 1 /\ dwire'[c][i] = e
             Old(c, i) == i \in 1..Len(dwire[c]) /\ dwire'[c][i] = dwire[c][i]
  <2>7. \A c \in DbserConns : \A i \in 1..Len(dwire'[c]) : New(c, i) \/ Old(c, i)
    BY <2>5, <2>6
  <2> HIDE DEF New, Old
  <2>8. \A c \in DbserConns : \A i \in 1..Len(dwire'[c]) :
          Old(c, i) => record(dwire'[c][i]).message # record(e).message
    BY <2>2 DEF Old, KeptAsTold
  <2>9. ASSUME NEW c \in DbserConns, NEW b \in DbserConns,
               NEW i \in 1..Len(dwire'[c]), NEW j \in 1..Len(dwire'[b]),
               record(dwire'[c][i]).message = record(dwire'[b][j]).message
        PROVE  c = b /\ i = j
    <3>1. CASE Old(c, i) /\ Old(b, j)
      BY <1>0, <2>9, <3>1 DEF Old, WireOnce
    <3>2. CASE New(c, i) /\ New(b, j)
      BY <3>2 DEF New
    <3>3. CASE New(c, i) /\ Old(b, j)
      BY <2>8, <2>9, <3>3 DEF New
    <3>4. CASE Old(c, i) /\ New(b, j)
      BY <2>8, <2>9, <3>4 DEF New
    <3>5. QED
      BY <2>7, <3>1, <3>2, <3>3, <3>4
  <2>10. ASSUME NEW c \in DbserConns, NEW i \in 1..Len(dwire'[c]), NEW k \in 1..Len(db)
         PROVE  record(dwire'[c][i]).message # db[k].message
    <3>1. CASE Old(c, i)
      BY <1>0, <3>1 DEF Old, WireOrDb
    <3>2. CASE New(c, i)
      BY <2>2, <3>2 DEF New, KeptAsTold
    <3>3. QED
      BY <2>7, <3>1, <3>2
  <2>11. WireOnce'
    BY <2>9 DEF WireOnce
  <2>12. WireOrDb' /\ DbOnce'
    BY <1>0, <2>3, <2>10 DEF WireOrDb, DbOnce
  <2>13. QED
    BY <2>11, <2>12 DEF KeptOnce
<1>3. ASSUME NEW d \in DbserConns, Stores(d)
      PROVE  KeptOnce'
  <2>1. dwire[d] \in Seq(DbserRequests) /\ dwire[d] # <<>> /\ db \in Seq(Records)
    BY <1>0, <1>3 DEF DbserTyped, HandlerTyped, Stores
  <2>2. /\ 1 \in 1..Len(dwire[d]) /\ Head(dwire[d]) = dwire[d][1]
        /\ \A i \in 1..Len(Tail(dwire[d])) : i + 1 \in 1..Len(dwire[d]) /\ i + 1 # 1
                                             /\ Tail(dwire[d])[i] = dwire[d][i + 1]
    BY <2>1, TakeFirst
  <2>3. \A c \in DbserConns : dwire'[c] = IF c = d THEN Tail(dwire[d]) ELSE dwire[c]
    BY <1>0, <1>3 DEF DbserTyped, Stores
  <2> DEFINE at(c, i) == IF c = d THEN i + 1 ELSE i
  <2>4. \A c \in DbserConns : \A i \in 1..Len(dwire'[c]) :
          /\ at(c, i) \in 1..Len(dwire[c]) /\ dwire'[c][i] = dwire[c][at(c, i)]
          /\ c = d => at(c, i) # 1
    BY <2>2, <2>3
  <2>5. \A c \in DbserConns : \A i, j \in 1..Len(dwire'[c]) : at(c, i) = at(c, j) => i = j
    OBVIOUS
  <2> HIDE DEF at
  <2>6. ASSUME NEW c \in DbserConns, NEW b \in DbserConns,
               NEW i \in 1..Len(dwire'[c]), NEW j \in 1..Len(dwire'[b]),
               record(dwire'[c][i]).message = record(dwire'[b][j]).message
        PROVE  c = b /\ i = j
    <3>1. record(dwire[c][at(c, i)]).message = record(dwire[b][at(b, j)]).message
      BY <2>4, <2>6
    <3>2. at(c, i) \in 1..Len(dwire[c]) /\ at(b, j) \in 1..Len(dwire[b])
      BY <2>4
    <3>3. c = b /\ at(c, i) = at(b, j)
      BY <1>0, <3>1, <3>2 DEF WireOnce
    <3>4. QED
      BY <2>5, <3>3
  <2> DEFINE r == record(Head(dwire[d]))
  <2>7. \A k \in 1..Len(db') : (k \in 1..Len(db) /\ db'[k] = db[k])
                               \/ (k = Len(db) + 1 /\ db'[k] = r)
    BY <1>3, <2>1, AddLast DEF Stores
  <2>8. ASSUME NEW c \in DbserConns, NEW i \in 1..Len(dwire'[c])
        PROVE  record(dwire'[c][i]).message # r.message
    <3>1. at(c, i) \in 1..Len(dwire[c]) /\ dwire'[c][i] = dwire[c][at(c, i)]
      BY <2>4
    <3>2. r = record(dwire[d][1]) /\ ~(c = d /\ at(c, i) = 1)
      BY <2>2, <2>4
    <3>3. QED
      BY <1>0, <2>2, <3>1, <3>2 DEF WireOnce
  <2>9. \A k \in 1..Len(db) : db[k].message # r.message
    BY <1>0, <2>2 DEF WireOrDb
  <2> HIDE DEF r
  <2>10. ASSUME NEW c \in DbserConns, NEW i \in 1..Len(dwire'[c]), NEW k \in 1..Len(db')
         PROVE  record(dwire'[c][i]).message # db'[k].message
    <3>1. CASE db'[k] = r
      BY <2>8, <3>1
    <3>2. CASE k \in 1..Len(db) /\ db'[k] = db[k]
      <4>1. at(c, i) \in 1..Len(dwire[c]) /\ dwire'[c][i] = dwire[c][at(c, i)]
        BY <2>4
      <4>2. QED
        BY <1>0, <3>2, <4>1 DEF WireOrDb
    <3>3. QED
      BY <2>7, <3>1, <3>2
  <2>11. ASSUME NEW k \in 1..Len(db'), NEW l \in 1..Len(db'), db'[k].message = db'[l].message
         PROVE  k = l
    BY <1>0, <2>7, <2>9, <2>11 DEF DbOnce
  <2>12. WireOnce'
    BY <2>6 DEF WireOnce
  <2>13. WireOrDb' /\ DbOnce'
    BY <2>10, <2>11 DEF WireOrDb, DbOnce
  <2>14. QED
    BY <2>12, <2>13 DEF KeptOnce
<1>4. CASE Empties
  <2>1. \A c \in DbserConns : \A i \in 1..Len(dwire'[c]) : dwire'[c] = dwire[c]
    BY <1>4 DEF Empties
  <2>2. UNCHANGED db
    BY <1>4 DEF Empties
  <2>3. WireOnce'
    BY <1>0, <2>1 DEF WireOnce
  <2>4. WireOrDb'
    BY <1>0, <2>1, <2>2 DEF WireOrDb
  <2>5. DbOnce'
    BY <1>0, <2>2 DEF DbOnce
  <2>6. QED
    BY <2>3, <2>4, <2>5 DEF KeptOnce
<1>5. QED
  BY <1>2, <1>3, <1>4, Traffic

Stored == Stages /\ KeptAsTold /\ KeptOnce

LEMMA StoredHolds == Spec => [](Typed /\ Stored)
<1>1. Init => Stored
  <2> SUFFICES ASSUME Init PROVE Stored
    OBVIOUS
  <2>1. Typed
    BY TypesInit
  <2>2. /\ \A p \in Packages : told[p] = <<>>
        /\ \A t \in Threads : task[t] = NoPackage /\ phase[t] = "idle"
        /\ queue \subseteq Packages
        /\ db = <<>> /\ \A c \in DbserConns : dwire[c] = <<>>
    BY DEF Init, dbser!Init, dbser!Empty
  <2>3. Stages
    <3>1. ToldOnce /\ Waiting /\ OneThread
      BY <2>2, NoPackageAssumption DEF ToldOnce, Waiting, OneThread
    <3>2. \A t \in Threads : AtStage(t)
      BY <2>2 DEF AtStage
    <3>3. QED
      BY <3>1, <3>2 DEF Stages
  <2>4. KeptAsTold /\ KeptOnce
    BY <2>2 DEF KeptAsTold, KeptOnce, WireOnce, WireOrDb, DbOnce
  <2>5. QED
    BY <2>3, <2>4 DEF Stored
<1>2. Typed /\ Stored /\ [Next]_vars => Stored'
  BY StagesNext, KeptAsToldNext, KeptOnceNext DEF Stored
<1>3. QED
  BY <1>1, <1>2, TypesHold, PTL DEF Spec

(***************************************************************************)
(* What a client is told and what the database keeps of its message agree, *)
(* whichever of the calls fails and wherever: a verdict is stored with the *)
(* message, and a message that could not be checked is stored as suspect.  *)
(***************************************************************************)
THEOREM KeptWhatWasTold == Spec => []ToldIsStored
<1>1. Typed /\ Stored => ToldIsStored
  <2> SUFFICES ASSUME Typed, Stored, NEW p \in Packages, NEW i \in records(p)
               PROVE  told[p] # <<>> /\ db[i] = kept(p)
    BY DEF ToldIsStored, kept, keptFlag
  <2>1. i \in 1..Len(db) /\ db[i].message = p.content
    BY DEF records, Typed, HandlerTyped
  <2>2. PICK q \in Packages : Away(q) /\ db[i] = kept(q)
    BY <2>1 DEF Stored, KeptAsTold, AsTold
  <2>3. db[i].message = q.content
    BY <2>2 DEF kept, dbser_req
  <2>4. q = p
    BY <2>1, <2>3, PackagesAssumption
  <2>5. QED
    BY <2>2, <2>4 DEF Away
<1>2. QED
  BY <1>1, StoredHolds, PTL

(***************************************************************************)
(* A client is told at most once, and its message is stored at most once.  *)
(***************************************************************************)
THEOREM StoredOnce == Spec => []OnceEach
<1>1. Typed /\ Stored => OnceEach
  <2> SUFFICES ASSUME Typed, Stored, NEW p \in Packages
               PROVE  Len(told[p]) <= 1 /\ \A i, j \in records(p) : i = j
    BY DEF OnceEach
  <2>1. Len(told[p]) <= 1
    <3>1. ToldOnce
      BY DEF Stored, Stages
    <3>2. CASE told[p] = <<>>
      BY <3>2
    <3>3. CASE Len(told[p]) = 1
      BY <3>3
    <3>4. QED
      BY <3>1, <3>2, <3>3 DEF ToldOnce
  <2>2. \A i \in records(p) : i \in 1..Len(db) /\ db[i].message = p.content
    BY DEF records, Typed, HandlerTyped
  <2>3. QED
    BY <2>1, <2>2 DEF Stored, KeptOnce, DbOnce
<1>2. QED
  BY <1>1, StoredHolds, PTL

-----------------------------------------------------------------------------
(* Whose verdict a client is told *)

Requests(c) == Len(twire[c])
Answers(c) == Len(treplies[c])

\* The threads that an answer on connection c may be for.
Owed(c) == {t \in Threads : tconn[t] = c /\ tpc[t] \in {"sent", "failed"}}

(***************************************************************************)
(* A connection carries no more requests and answers than it has threads   *)
(* that sent a request and have not read.                                  *)
(***************************************************************************)
Fits(c) == Requests(c) + Answers(c) <= Cardinality(Owed(c))
NoMoreThanOwed == \A c \in TisConns : Fits(c)

LEMMA OwedFinite ==
  /\ \A c : IsFiniteSet(Owed(c)) /\ Cardinality(Owed(c)) \in Nat
  /\ \A c : IsFiniteSet(Owed(c)') /\ Cardinality(Owed(c)') \in Nat
<1>1. \A S : S \subseteq Threads => IsFiniteSet(S) /\ Cardinality(S) \in Nat
  BY ThreadsAssumption, FS_Subset, FS_CardinalityType
<1>2. QED
  BY <1>1 DEF Owed

LEMMA OneMore ==
  ASSUME NEW S, NEW x, IsFiniteSet(S)
  PROVE  /\ Cardinality(S) \in Nat
         /\ Cardinality(S \cup {x}) \in Nat
         /\ Cardinality(S \cup {x}) >= Cardinality(S)
         /\ x \notin S => Cardinality(S \cup {x}) = Cardinality(S) + 1
         /\ x \in S => Cardinality(S \ {x}) = Cardinality(S) - 1
<1>1. Cardinality(S) \in Nat
  BY FS_CardinalityType
<1>2. Cardinality(S \cup {x}) = IF x \in S THEN Cardinality(S) ELSE Cardinality(S) + 1
  BY FS_AddElement
<1>3. x \in S => Cardinality(S \ {x}) = Cardinality(S) - 1
  BY FS_RemoveElement
<1>4. QED
  BY <1>1, <1>2, <1>3

(***************************************************************************)
(* How much a connection carries changes with who is owed: a request more  *)
(* for one thread more, an answer less for one less; failed calls and lost *)
(* connections only empty it.                                              *)
(***************************************************************************)
LEMMA OwedNext ==
  ASSUME TisTyped, NoMoreThanOwed, TisStep
  PROVE  NoMoreThanOwed'
<1>0. \A c \in TisConns :
        /\ Requests(c) \in Nat /\ Answers(c) \in Nat
        /\ Requests(c) + Answers(c) <= Cardinality(Owed(c))
        /\ Cardinality(Owed(c)) \in Nat /\ Cardinality(Owed(c)') \in Nat
  BY OwedFinite DEF TisTyped, Requests, Answers, NoMoreThanOwed, Fits
<1>1. ASSUME NEW c \in TisConns, Owed(c)' = Owed(c),
             twire'[c] = twire[c], treplies'[c] = treplies[c]
      PROVE  Fits(c)'
  <2>1. Requests(c)' = Requests(c) /\ Answers(c)' = Answers(c)
        /\ Cardinality(Owed(c))' = Cardinality(Owed(c))
    BY <1>1 DEF Requests, Answers
  <2>2. QED
    BY <1>0, <2>1 DEF Fits
<1>2. ASSUME NEW c \in TisConns, Requests(c)' = 0 \/ Requests(c)' = Requests(c),
             Answers(c)' = 0 \/ Answers(c)' = Answers(c),
             Cardinality(Owed(c)') >= Cardinality(Owed(c))
                \/ (Requests(c)' = 0 /\ Answers(c)' = 0)
      PROVE  Fits(c)'
  BY <1>0, <1>2 DEF Fits
<1>3. ASSUME NEW t \in Threads,
             tis!GetNull(t) \/ tis!GiveUp(t) \/ tis!Release(t, TRUE)
               \/ \E d \in TisConns : tis!Get(t, d)
      PROVE  NoMoreThanOwed'
  <2>1. \A c \in TisConns : Owed(c)' = Owed(c)
    BY <1>3, ConnsAssumption DEF tis!GetNull, tis!GiveUp, tis!Release, tis!Get, TisTyped, Owed
  <2>2. UNCHANGED <<twire, treplies>>
    BY <1>3 DEF tis!GetNull, tis!GiveUp, tis!Release, tis!Get
  <2>3. QED
    BY <1>1, <2>1, <2>2 DEF NoMoreThanOwed
<1>4. ASSUME NEW t \in Threads, NEW m, tis!Send(t, m)
      PROVE  NoMoreThanOwed'
  <2> SUFFICES ASSUME NEW c \in TisConns PROVE Fits(c)'
    BY DEF NoMoreThanOwed
  <2>1. CASE c # tconn[t]
    <3>1. Owed(c)' = Owed(c) /\ twire'[c] = twire[c] /\ treplies'[c] = treplies[c]
      BY <1>4, <2>1 DEF tis!Send, TisTyped, Owed
    <3>2. QED
      BY <1>1, <3>1
  <2>2. CASE c = tconn[t]
    <3>1. Owed(c)' = Owed(c) \cup {t} /\ t \notin Owed(c)
      BY <1>4, <2>2 DEF tis!Send, TisTyped, Owed
    <3>2. Requests(c)' = Requests(c) + 1
      BY <1>4, <2>2 DEF tis!Send, TisTyped, Requests
    <3>3. Answers(c)' = Answers(c)
      BY <1>4 DEF tis!Send, Answers
    <3>4. Cardinality(Owed(c)') = Cardinality(Owed(c)) + 1
      BY <3>1, OneMore, OwedFinite
    <3>5. QED
      BY <1>0, <3>2, <3>3, <3>4 DEF Fits
  <2>3. QED
    BY <2>1, <2>2
<1>5. ASSUME NEW t \in Threads, tis!Recv(t)
      PROVE  NoMoreThanOwed'
  <2> SUFFICES ASSUME NEW c \in TisConns PROVE Fits(c)'
    BY DEF NoMoreThanOwed
  <2>1. CASE c # tconn[t]
    <3>1. Owed(c)' = Owed(c) /\ twire'[c] = twire[c] /\ treplies'[c] = treplies[c]
      BY <1>5, <2>1 DEF tis!Recv, TisTyped, Owed
    <3>2. QED
      BY <1>1, <3>1
  <2>2. CASE c = tconn[t]
    <3>1. Owed(c)' = Owed(c) \ {t} /\ t \in Owed(c)
      BY <1>5, <2>2 DEF tis!Recv, TisTyped, Owed
    <3>2. Answers(c)' = Answers(c) - 1
      BY <1>5, <2>2 DEF tis!Recv, TisTyped, Answers
    <3>3. Requests(c)' = Requests(c)
      BY <1>5 DEF tis!Recv, Requests
    <3>4. Cardinality(Owed(c)') = Cardinality(Owed(c)) - 1
      BY <3>1, OneMore, OwedFinite
    <3>5. QED
      BY <1>0, <3>2, <3>3, <3>4 DEF Fits
  <2>3. QED
    BY <2>1, <2>2
<1>6. ASSUME NEW t \in Threads, tis!Fail(t)
      PROVE  NoMoreThanOwed'
  <2> SUFFICES ASSUME NEW c \in TisConns PROVE Fits(c)'
    BY DEF NoMoreThanOwed
  <2>1. Owed(c)' = Owed(c) \/ Owed(c)' = Owed(c) \cup {t}
    BY <1>6 DEF tis!Fail, TisTyped, Owed
  <2>2. Cardinality(Owed(c)') >= Cardinality(Owed(c))
    BY <2>1, OneMore, OwedFinite
  <2>3. Requests(c)' = Requests(c) /\ Answers(c)' = Answers(c)
    BY <1>6 DEF tis!Fail, Requests, Answers
  <2>4. QED
    BY <1>2, <2>2, <2>3
<1>7. ASSUME NEW t \in Threads, tis!Release(t, FALSE)
      PROVE  NoMoreThanOwed'
  <2> SUFFICES ASSUME NEW c \in TisConns PROVE Fits(c)'
    BY DEF NoMoreThanOwed
  <2>1. twire'[c] = <<>> /\ treplies'[c] = <<>>
    BY <1>7 DEF tis!Release, tis!Empty
  <2>2. Requests(c)' = 0 /\ Answers(c)' = 0
    BY <2>1 DEF Requests, Answers
  <2>3. QED
    BY <1>2, <2>2
<1>8. ASSUME NEW d \in TisConns, NEW a, tis!Serve(d, a)
      PROVE  NoMoreThanOwed'
  <2> SUFFICES ASSUME NEW c \in TisConns PROVE Fits(c)'
    BY DEF NoMoreThanOwed
  <2>1. Owed(c)' = Owed(c)
    BY <1>8 DEF tis!Serve, Owed
  <2>2. CASE c # d
    BY <1>1, <1>8, <2>1, <2>2 DEF tis!Serve, TisTyped
  <2>3. CASE c = d
    <3>1. Requests(c)' = Requests(c) - 1
      BY <1>8, <2>3 DEF tis!Serve, TisTyped, Requests
    <3>2. Answers(c)' = Answers(c) + 1
      BY <1>8, <2>3 DEF tis!Serve, TisTyped, Answers
    <3>3. Cardinality(Owed(c)') = Cardinality(Owed(c))
      BY <2>1
    <3>4. QED
      BY <1>0, <3>1, <3>2, <3>3 DEF Fits
  <2>4. QED
    BY <2>2, <2>3
<1>9. ASSUME NEW cs \in SUBSET TisConns, tis!Lose(cs)
      PROVE  NoMoreThanOwed'
  <2> SUFFICES ASSUME NEW c \in TisConns PROVE Fits(c)'
    BY DEF NoMoreThanOwed
  <2>1. Owed(c)' = Owed(c)
    BY <1>9 DEF tis!Lose, Owed
  <2>2. twire'[c] \in {<<>>, twire[c]} /\ treplies'[c] \in {<<>>, treplies[c]}
    BY <1>9 DEF tis!Lose
  <2>3. /\ Requests(c)' = 0 \/ Requests(c)' = Requests(c)
        /\ Answers(c)' = 0 \/ Answers(c)' = Answers(c)
    BY <2>2 DEF Requests, Answers
  <2>4. Cardinality(Owed(c)') = Cardinality(Owed(c))
    BY <2>1
  <2>5. Cardinality(Owed(c)') >= Cardinality(Owed(c))
    BY <1>0, <2>4
  <2>6. QED
    BY <1>2, <2>3, <2>5
<1>10. CASE UNCHANGED tisVars
  <2>1. \A c \in TisConns : Owed(c)' = Owed(c)
    BY <1>10 DEF tisVars, Owed
  <2>2. QED
    BY <1>1, <1>10, <2>1 DEF tisVars, NoMoreThanOwed
<1>11. QED
  BY <1>3, <1>4, <1>5, <1>6, <1>7, <1>8, <1>9, <1>10 DEF TisStep, TisOp

(***************************************************************************)
(* A thread that is not in shared has its connection to itself, with only  *)
(* its own package's request and verdicts on it.                           *)
(***************************************************************************)
Own(t) == t \in Threads /\ t \notin shared /\ tconn[t] # NoConn
Alone == \A t, u \in Threads : Own(t) /\ tconn[u] = tconn[t] => u = t

Verdict(a, p) == \E o \in judged[p] : a = TisServiceProcessor_dispatchCall(TisRequest(p), o)

Mine(t) ==
  /\ \A i \in 1..Len(twire[tconn[t]]) : twire[tconn[t]][i] = TisRequest(task[t])
  /\ \A i \in 1..Len(treplies[tconn[t]]) : Verdict(treplies[tconn[t]][i], task[t])
  /\ tpc[t] = "ok" => Verdict(tanswer[t], task[t])
OwnTraffic == \A t \in Threads : Own(t) => Mine(t)

(***************************************************************************)
(* While a thread has a connection it keeps its package, and verdicts are  *)
(* not forgotten.                                                          *)
(***************************************************************************)
LEMMA TaskStays ==
  ASSUME Typed, [Next]_vars, NEW t \in Threads, tconn'[t] # NoConn
  PROVE  task'[t] = task[t]
<1>0. TisTyped /\ HandlerTyped /\ TypeOK
  BY DEF Typed, HandlerTyped
<1>1. ASSUME NEW u \in Threads, take(u)
      PROVE  task'[t] = task[t]
  <2>1. tconn[t] # NoConn
    BY <1>1 DEF take, tisVars
  <2>2. phase[t] = "check"
    BY <1>0, <2>1 DEF TisTyped, TypeOK
  <2>3. u # t
    BY <1>1, <2>2 DEF take
  <2>4. QED
    BY <1>0, <1>1, <2>3 DEF take, HandlerTyped
<1>2. ASSUME NEW u \in Threads, Ends(u)
      PROVE  task'[t] = task[t]
  <2>1. tconn[t] # NoConn
    BY <1>2 DEF Ends
  <2>2. phase[t] = "check"
    BY <1>0, <2>1 DEF TisTyped, TypeOK
  <2>3. u # t
    BY <1>2, <2>2 DEF Ends
  <2>4. QED
    BY <1>0, <1>2, <2>3 DEF Ends, finish, HandlerTyped
<1>3. QED
  BY <1>1, <1>2, Kinds DEF Tells, Rests

LEMMA JudgedGrows ==
  ASSUME Typed, [Next]_vars, NEW p \in Packages
  PROVE  judged[p] \subseteq judged'[p]
<1>1. ASSUME NEW c \in TisConns, tisServe(c)
      PROVE  judged[p] \subseteq judged'[p]
  <2>1. PICK o \in Verdicts :
          judged' = [q \in Packages |->
            IF q.content = TisService_check_args_read(Head(twire[c]).body).req.content
            THEN judged[q] \cup {o} ELSE judged[q]]
    BY <1>1 DEF tisServe
  <2>2. QED
    BY <2>1
<1>2. ASSUME NEW t \in Threads,
             take(t) \/ tisGet(t) \/ tisCall(t) \/ tisThrows(t)
               \/ dbserGet(t) \/ dbserNull(t) \/ dbserCall(t) \/ dbserThrows(t)
               \/ stored(t) \/ storeFailed(t)
      PROVE  judged' = judged
  BY <1>2 DEF take, tisGet, tisCall, tisThrows, dbserGet, dbserNull, dbserCall,
    dbserThrows, stored, storeFailed, history
<1>3. ASSUME NEW t \in Threads, skipCheck(t) \/ tisNull(t) \/ checked(t) \/ checkFailed(t)
      PROVE  judged' = judged
  <2>1. CASE skipCheck(t)
    BY <2>1 DEF skipCheck
  <2>2. CASE tisNull(t)
    BY <2>2 DEF tisNull
  <2>3. CASE checked(t)
    BY <2>3 DEF checked
  <2>4. CASE checkFailed(t)
    BY <2>4 DEF checkFailed
  <2>5. QED
    BY <1>3, <2>1, <2>2, <2>3, <2>4
<1>4. CASE (\E c \in DbserConns : dbserServe(c)) \/ tisLost \/ dbserLost \/ UNCHANGED vars
  BY <1>4 DEF dbserServe, tisLost, dbserLost, vars, history
<1>5. QED
  BY <1>1, <1>2, <1>3, <1>4 DEF Next, tisProtoHandler

(***************************************************************************)
(* Who has which connection, and who shares.                               *)
(***************************************************************************)
Takes(t, c) ==
  /\ tis!Get(t, c)
  /\ \/ shared' = shared /\ \A u \in Threads : tconn[u] # c
     \/ shared' = shared \cup {u \in Threads : tconn[u] = c} \cup {t}
Leaves(t) ==
  /\ tpc[t] \in {"ok", "failed"} /\ tpc' = [tpc EXCEPT ![t] = "idle"]
  /\ tconn' = [tconn EXCEPT ![t] = NoConn] /\ shared' = shared \ {t}
  /\ \A c \in TisConns : /\ twire'[c] \in {<<>>, twire[c]}
                         /\ treplies'[c] \in {<<>>, treplies[c]}
  /\ \A u \in Threads : u # t => tanswer'[u] = tanswer[u]

LEMMA Getting ==
  ASSUME NEW t \in Threads, tisGet(t)
  PROVE  (\E c \in TisConns : Takes(t, c)) \/ (tis!GetNull(t) /\ UNCHANGED shared)
<1>1. ASSUME NEW c \in TisConns, tis!Get(t, c),
             shared' = IF {u \in Threads : tconn[u] = c} = {} THEN shared
                       ELSE shared \cup {u \in Threads : tconn[u] = c} \cup {t}
      PROVE  Takes(t, c)
  BY <1>1 DEF Takes
<1>2. QED
  BY <1>1 DEF tisGet

LEMMA Leaving ==
  ASSUME TisTyped, NEW t \in Threads, checked(t) \/ checkFailed(t)
  PROVE  Leaves(t)
<1>1. (tis!Release(t, TRUE) \/ tis!Release(t, FALSE)) /\ shared' = shared \ {t}
  BY DEF checked, checkFailed
<1>2. \A c \in TisConns : /\ twire'[c] \in {<<>>, twire[c]}
                          /\ treplies'[c] \in {<<>>, treplies[c]}
  BY <1>1 DEF tis!Release, tis!Empty
<1>3. QED
  BY <1>1, <1>2 DEF tis!Release, TisTyped, Leaves

LEMMA Holders ==
  ASSUME Typed, [Next]_vars
  PROVE  \/ \E t \in Threads, c \in TisConns : Takes(t, c)
         \/ \E t \in Threads : Leaves(t)
         \/ UNCHANGED <<tconn, shared>>
<1>0. TisTyped
  BY DEF Typed
<1>1. ASSUME NEW t \in Threads, tisGet(t)
      PROVE  (\E c \in TisConns : Takes(t, c)) \/ UNCHANGED <<tconn, shared>>
  BY <1>1, Getting DEF tis!GetNull
<1>2. ASSUME NEW t \in Threads, checked(t) \/ checkFailed(t)
      PROVE  Leaves(t)
  BY <1>0, <1>2, Leaving
<1>3. ASSUME NEW t \in Threads, skipCheck(t) \/ take(t) \/ tisNull(t)
      PROVE  UNCHANGED <<tconn, shared>>
  BY <1>3 DEF skipCheck, take, tisNull, tis!GiveUp, tisVars
<1>4. ASSUME NEW t \in Threads, tisCall(t) \/ tisThrows(t)
      PROVE  UNCHANGED <<tconn, shared>>
  BY <1>4 DEF tisCall, tisThrows, tis!Send, tis!Recv, tis!Fail
<1>5. ASSUME NEW t \in Threads,
             dbserGet(t) \/ dbserNull(t) \/ dbserCall(t) \/ dbserThrows(t)
               \/ stored(t) \/ storeFailed(t)
      PROVE  UNCHANGED <<tconn, shared>>
  BY <1>5 DEF dbserGet, dbserNull, dbserCall, dbserThrows, stored, storeFailed, tisVars
<1>6. CASE \/ \E c \in TisConns : tisServe(c)
           \/ \E c \in DbserConns : dbserServe(c)
           \/ tisLost \/ dbserLost \/ UNCHANGED vars
  BY <1>6 DEF tisServe, dbserServe, tisLost, dbserLost, vars, tisVars, tis!Serve, tis!Lose
<1>7. QED
  BY <1>1, <1>2, <1>3, <1>4, <1>5, <1>6 DEF Next, tisProtoHandler

LEMMA AloneNext ==
  ASSUME Typed, Alone, [Next]_vars
  PROVE  Alone'
<1>0. TisTyped
  BY DEF Typed
<1> SUFFICES ASSUME NEW a \in Threads, NEW b \in Threads,
                    Own(a)', tconn'[b] = tconn'[a]
             PROVE  b = a
  BY DEF Alone
<1>1. ASSUME NEW t \in Threads, NEW c \in TisConns, Takes(t, c)
      PROVE  b = a
  <2>1. \A u \in Threads : tconn'[u] = IF u = t THEN c ELSE tconn[u]
    BY <1>0, <1>1 DEF Takes, tis!Get, TisTyped
  <2>2. CASE a # t /\ b # t
    BY <1>1, <2>1, <2>2 DEF Own, Alone, Takes
  <2>3. CASE a = t /\ b # t
    BY <1>1, <2>1, <2>3 DEF Own, Takes
  <2>4. CASE a # t /\ b = t
    BY <1>1, <2>1, <2>4 DEF Own, Takes
  <2>5. QED
    BY <2>2, <2>3, <2>4
<1>2. ASSUME NEW t \in Threads, Leaves(t)
      PROVE  b = a
  <2>1. \A u \in Threads : tconn'[u] = IF u = t THEN NoConn ELSE tconn[u]
    BY <1>0, <1>2 DEF Leaves, TisTyped
  <2>2. a # t /\ b # t /\ a \notin shared
    BY <1>2, <2>1 DEF Own, Leaves
  <2>3. QED
    BY <2>1, <2>2 DEF Own, Alone
<1>3. CASE UNCHANGED <<tconn, shared>>
  BY <1>3 DEF Own, Alone
<1>4. QED
  BY <1>1, <1>2, <1>3, Holders

(***************************************************************************)
(* A step that does not concern a thread leaves its traffic as it is, or   *)
(* loses some of it.                                                       *)
(***************************************************************************)
Quiet(t) ==
  /\ tconn'[t] = tconn[t]
  /\ twire'[tconn[t]] \in {<<>>, twire[tconn[t]]}
  /\ treplies'[tconn[t]] \in {<<>>, treplies[tconn[t]]}
  /\ tpc'[t] = "ok" => tpc[t] = "ok" /\ tanswer'[t] = tanswer[t]

LEMMA VerdictStays ==
  ASSUME Typed, [Next]_vars, NEW t \in Threads, tconn[t] # NoConn, tconn'[t] # NoConn, NEW a,
         Verdict(a, task[t])
  PROVE  Verdict(a, task[t])'
<1>1. task'[t] = task[t]
  BY TaskStays
<1>2. task[t] \in Packages
  BY DEF Typed, TisTyped, HandlerTyped, TypeOK
<1>3. judged[task[t]] \subseteq judged'[task[t]]
  BY <1>2, JudgedGrows
<1>4. QED
  BY <1>1, <1>3 DEF Verdict

LEMMA MineStays ==
  ASSUME Typed, [Next]_vars, NEW t \in Threads, Own(t), Own(t)', Mine(t), Quiet(t)
  PROVE  Mine(t)'
<1>1. tconn[t] # NoConn /\ tconn'[t] # NoConn /\ task'[t] = task[t]
  BY TaskStays DEF Own
<1>2. \A a : Verdict(a, task[t]) => Verdict(a, task[t])'
  BY <1>1, VerdictStays
<1> DEFINE c == tconn[t]
<1>3. ASSUME NEW i \in 1..Len(twire'[c]) PROVE twire'[c][i] = TisRequest(task[t])
  BY <1>3 DEF Quiet, Mine
<1>4. ASSUME NEW i \in 1..Len(treplies'[c]) PROVE Verdict(treplies[c][i], task[t])
                                                  /\ treplies'[c][i] = treplies[c][i]
  BY <1>4 DEF Quiet, Mine
<1>5. tconn'[t] = c
  BY DEF Quiet
<1>6. QED
  BY <1>1, <1>2, <1>3, <1>4, <1>5 DEF Quiet, Mine

(***************************************************************************)
(* A thread's own call puts its request on the connection and takes its    *)
(* answer from it; a request it is given an answer to is its own.          *)
(***************************************************************************)
LEMMA OwnGet ==
  ASSUME Typed, NoMoreThanOwed, NEW t \in Threads, tisGet(t), Own(t)'
  PROVE  Mine(t)'
<1>0. TisTyped
  BY DEF Typed
<1>1. CASE tis!GetNull(t) /\ UNCHANGED shared
  BY <1>0, <1>1 DEF tis!GetNull, Own, TisTyped
<1>2. ASSUME NEW c \in TisConns, Takes(t, c)
      PROVE  Mine(t)'
  <2>1. \A u \in Threads : tconn[u] # c
    BY <1>2 DEF Takes, Own
  <2>2. Owed(c) = {}
    BY <2>1 DEF Owed
  <2>3. Requests(c) + Answers(c) <= 0
    BY <2>2, FS_EmptySet DEF NoMoreThanOwed, Fits
  <2>4. twire[c] \in Seq(TisRequests) /\ treplies[c] \in Seq(TisAnswers)
    BY <1>0 DEF TisTyped
  <2>5. Requests(c) \in Nat /\ Answers(c) \in Nat
    BY <2>4 DEF Requests, Answers
  <2>6. Requests(c) = 0 /\ Answers(c) = 0
    BY <2>3, <2>5
  <2>7. twire[c] = <<>> /\ treplies[c] = <<>>
    BY <2>4, <2>6 DEF Requests, Answers
  <2>8. tconn'[t] = c /\ tpc'[t] = "held" /\ UNCHANGED <<twire, treplies>>
    BY <1>0, <1>2 DEF Takes, tis!Get, TisTyped
  <2>9. twire'[tconn'[t]] = <<>> /\ treplies'[tconn'[t]] = <<>> /\ tpc'[t] # "ok"
    BY <2>7, <2>8
  <2>10. QED
    BY <2>9 DEF Mine
<1>3. QED
  BY <1>1, <1>2, Getting

LEMMA OwnSend ==
  ASSUME Typed, NEW t \in Threads, Own(t), Mine(t), [Next]_vars, Own(t)',
         tis!Send(t, TisRequest(task[t]))
  PROVE  Mine(t)'
<1> DEFINE c == tconn[t]
           m == TisRequest(task[t])
<1>1. c \in TisConns /\ twire[c] \in Seq(TisRequests)
  BY DEF Typed, TisTyped, Own
<1>2. /\ tconn'[t] = c /\ treplies' = treplies /\ tanswer' = tanswer /\ tpc'[t] = "sent"
      /\ twire'[c] = Append(twire[c], m)
  BY <1>1 DEF tis!Send, Typed, TisTyped
<1>3. \A i \in 1..Len(twire'[c]) : twire'[c][i] = m
  <2>1. \A i \in 1..Len(Append(twire[c], m)) :
          (i \in 1..Len(twire[c]) /\ Append(twire[c], m)[i] = twire[c][i])
            \/ Append(twire[c], m)[i] = m
    BY <1>1, AddLast
  <2>2. \A i \in 1..Len(twire[c]) : twire[c][i] = m
    BY DEF Mine
  <2> HIDE DEF c, m
  <2>3. QED
    BY <1>2, <2>1, <2>2
<1>4. \A i \in 1..Len(treplies[c]) : Verdict(treplies[c][i], task[t])'
  <2>1. \A a : Verdict(a, task[t]) => Verdict(a, task[t])'
    BY VerdictStays DEF Own
  <2>2. \A i \in 1..Len(treplies[c]) : Verdict(treplies[c][i], task[t])
    BY DEF Mine
  <2>3. treplies' = treplies /\ tconn'[t] = tconn[t]
    BY <1>2
  <2>4. QED
    BY <2>1, <2>2, <2>3
<1>5. task'[t] = task[t]
  BY TaskStays DEF Own
<1>6. QED
  BY <1>2, <1>3, <1>4, <1>5 DEF Mine

LEMMA OwnRecv ==
  ASSUME Typed, NEW t \in Threads, Own(t), Mine(t), [Next]_vars, Own(t)', tis!Recv(t)
  PROVE  Mine(t)'
<1> DEFINE c == tconn[t]
<1>1. c \in TisConns /\ treplies[c] \in Seq(TisAnswers) /\ treplies[c] # <<>>
  BY DEF Typed, TisTyped, Own, tis!Recv
<1>2. /\ tconn'[t] = c /\ twire' = twire
      /\ treplies'[c] = Tail(treplies[c]) /\ tanswer'[t] = Head(treplies[c])
  BY <1>1 DEF tis!Recv, Typed, TisTyped
<1>3. /\ 1 \in 1..Len(treplies[c]) /\ Head(treplies[c]) = treplies[c][1]
      /\ \A i \in 1..Len(Tail(treplies[c])) : /\ i + 1 \in 1..Len(treplies[c])
                                              /\ Tail(treplies[c])[i] = treplies[c][i + 1]
  BY <1>1, TakeFirst
<1>4. \A i \in 1..Len(treplies[c]) : Verdict(treplies[c][i], task[t])
  BY DEF Mine
<1>5. Verdict(tanswer'[t], task[t])
  BY <1>2, <1>3, <1>4
<1>6. \A i \in 1..Len(treplies'[c]) : Verdict(treplies'[c][i], task[t])
  BY <1>2, <1>3, <1>4
<1>7. \A a : Verdict(a, task[t]) => Verdict(a, task[t])'
  BY VerdictStays DEF Own
<1>8. task'[t] = task[t]
  BY TaskStays DEF Own
<1>9. \A i \in 1..Len(twire'[c]) : twire'[c][i] = TisRequest(task[t])
  BY <1>2 DEF Mine
<1>10. QED
  BY <1>2, <1>5, <1>6, <1>7, <1>8, <1>9 DEF Mine

(***************************************************************************)
(* The service judges the text of the very package the connection is for.  *)
(***************************************************************************)
LEMMA OwnServed ==
  ASSUME Typed, NEW t \in Threads, Own(t), Mine(t), [Next]_vars, Own(t)',
         NEW d \in TisConns, tisServe(d), d = tconn[t]
  PROVE  Mine(t)'
<1>1. PICK o \in Verdicts :
        /\ tis!Serve(d, TisServiceProcessor_dispatchCall(Head(twire[d]), o))
        /\ judged' = [p \in Packages |->
             IF p.content = TisService_check_args_read(Head(twire[d]).body).req.content
             THEN judged[p] \cup {o} ELSE judged[p]]
  BY DEF tisServe
<1> DEFINE p == task[t]
           a == TisServiceProcessor_dispatchCall(TisRequest(p), o)
<1>2. /\ twire[d] \in Seq(TisRequests) /\ twire[d] # <<>> /\ treplies[d] \in Seq(TisAnswers)
      /\ p \in Packages
  BY <1>1 DEF Typed, TisTyped, HandlerTyped, TypeOK, Own, tis!Serve
<1>3. /\ 1 \in 1..Len(twire[d]) /\ Head(twire[d]) = twire[d][1]
      /\ \A i \in 1..Len(Tail(twire[d])) : /\ i + 1 \in 1..Len(twire[d])
                                           /\ Tail(twire[d])[i] = twire[d][i + 1]
  BY <1>2, TakeFirst
<1>4. \A i \in 1..Len(twire[d]) : twire[d][i] = TisRequest(p)
  BY DEF Mine
<1>5. Head(twire[d]) = TisRequest(p)
  BY <1>3, <1>4
<1>6. o \in judged'[p]
  <2>1. TisService_check_args_read(Head(twire[d]).body).req.content = p.content
    BY <1>5, TextRead
  <2>2. QED
    BY <1>1, <1>2, <2>1
<1>7. task'[t] = p
  BY TaskStays DEF Own
<1>8. /\ tconn' = tconn /\ tpc' = tpc /\ tanswer' = tanswer
      /\ twire'[d] = Tail(twire[d]) /\ treplies'[d] = Append(treplies[d], a)
  BY <1>1, <1>5 DEF tis!Serve, Typed, TisTyped
<1>9. \A i \in 1..Len(twire'[d]) : twire'[d][i] = TisRequest(p)
  BY <1>3, <1>4, <1>8
<1>10. \A x : Verdict(x, p) => \E v \in judged'[p] : x = TisServiceProcessor_dispatchCall(TisRequest(p), v)
  BY <1>2, JudgedGrows DEF Verdict
<1>11. ASSUME NEW i \in 1..Len(treplies'[d])
       PROVE  \E v \in judged'[p] :
                treplies'[d][i] = TisServiceProcessor_dispatchCall(TisRequest(p), v)
  <2>1. CASE treplies'[d][i] = a
    BY <1>6, <2>1
  <2>2. CASE i \in 1..Len(treplies[d]) /\ treplies'[d][i] = treplies[d][i]
    BY <1>10, <2>2 DEF Mine
  <2> HIDE DEF a
  <2>3. QED
    BY <1>2, <1>8, <2>1, <2>2, AddLast
<1>12. tpc'[t] = "ok" => \E v \in judged'[p] :
                           tanswer'[t] = TisServiceProcessor_dispatchCall(TisRequest(p), v)
  BY <1>8, <1>10 DEF Mine
<1>13. QED
  BY <1>7, <1>8, <1>9, <1>11, <1>12 DEF Mine, Verdict

(***************************************************************************)
(* So the traffic of a thread that has its connection to itself stays its  *)
(* own.                                                                    *)
(***************************************************************************)
LEMMA OwnTrafficNext ==
  ASSUME Typed, NoMoreThanOwed, Alone, OwnTraffic, [Next]_vars
  PROVE  OwnTraffic'
<1>0. TisTyped
  BY DEF Typed
<1> SUFFICES ASSUME NEW t \in Threads, Own(t)' PROVE Mine(t)'
  BY DEF OwnTraffic
<1>1. ASSUME Own(t), Quiet(t) PROVE Mine(t)'
  BY <1>1, MineStays DEF OwnTraffic
<1>2. ASSUME UNCHANGED <<tconn, shared>>
      PROVE  Own(t) /\ Mine(t) /\ tconn[t] \in TisConns
  BY <1>0, <1>2 DEF Own, OwnTraffic, TisTyped
<1>3. ASSUME NEW u \in Threads, tisGet(u)
      PROVE  Mine(t)'
  <2>1. CASE u = t
    BY <1>3, <2>1, OwnGet
  <2>2. CASE tis!GetNull(u) /\ UNCHANGED shared
    <3>1. UNCHANGED <<tconn, twire, treplies, tanswer>> /\ (tpc'[t] = "ok" => tpc[t] = "ok")
      BY <1>0, <2>2 DEF tis!GetNull, TisTyped
    <3>2. QED
      BY <1>1, <1>2, <2>2, <3>1 DEF Quiet
  <2>3. ASSUME NEW c \in TisConns, Takes(u, c), u # t
        PROVE  Mine(t)'
    <3>1. /\ tconn'[t] = tconn[t] /\ tpc'[t] = tpc[t] /\ UNCHANGED <<twire, treplies, tanswer>>
          /\ t \notin shared
      BY <1>0, <2>3 DEF Takes, tis!Get, TisTyped, Own
    <3>2. QED
      BY <1>1, <3>1 DEF Own, Quiet
  <2>4. QED
    BY <1>3, <2>1, <2>2, <2>3, Getting
<1>4. ASSUME NEW u \in Threads, tisNull(u)
      PROVE  Mine(t)'
  <2>1. UNCHANGED <<tconn, shared, twire, treplies, tanswer>> /\ (tpc'[t] = "ok" => tpc[t] = "ok")
    BY <1>0, <1>4 DEF tisNull, tis!GiveUp, TisTyped
  <2>2. QED
    BY <1>1, <1>2, <2>1 DEF Quiet
<1>5. ASSUME NEW u \in Threads, tis!Fail(u), UNCHANGED shared
      PROVE  Mine(t)'
  <2>1. UNCHANGED <<tconn, twire, treplies, tanswer>> /\ (tpc'[t] = "ok" => tpc[t] = "ok")
    BY <1>0, <1>5 DEF tis!Fail, TisTyped
  <2>2. QED
    BY <1>1, <1>2, <1>5, <2>1 DEF Quiet
<1>6. ASSUME NEW u \in Threads, UNCHANGED shared,
             tis!Recv(u) \/ tis!Send(u, TisRequest(task[u]))
      PROVE  Mine(t)'
  <2>1. UNCHANGED tconn
    BY <1>6 DEF tis!Recv, tis!Send
  <2>2. Own(t) /\ Mine(t) /\ tconn[t] \in TisConns
    BY <1>2, <1>6, <2>1
  <2>3. CASE u = t
    BY <1>6, <2>2, <2>3, OwnSend, OwnRecv
  <2>4. CASE u # t
    <3>1. tconn[u] # tconn[t]
      BY <2>2, <2>4 DEF Alone
    <3>2. /\ twire'[tconn[t]] = twire[tconn[t]] /\ treplies'[tconn[t]] = treplies[tconn[t]]
          /\ tpc'[t] = tpc[t] /\ tanswer'[t] = tanswer[t]
      BY <1>0, <1>6, <2>2, <2>4, <3>1 DEF tis!Recv, tis!Send, TisTyped
    <3>3. QED
      BY <1>1, <2>1, <2>2, <3>2 DEF Quiet
  <2>5. QED
    BY <2>3, <2>4
<1>7. ASSUME NEW u \in Threads, tisCall(u) \/ tisThrows(u)
      PROVE  Mine(t)'
  BY <1>5, <1>6, <1>7 DEF tisCall, tisThrows, TisRequest
<1>8. ASSUME NEW u \in Threads, checked(u) \/ checkFailed(u)
      PROVE  Mine(t)'
  <2>1. Leaves(u)
    BY <1>0, <1>8, Leaving
  <2>2. u # t
    BY <1>0, <2>1 DEF Leaves, Own, TisTyped
  <2>3. tconn'[t] = tconn[t] /\ tpc'[t] = tpc[t] /\ tanswer'[t] = tanswer[t] /\ t \notin shared
    BY <1>0, <2>1, <2>2 DEF Leaves, Own, TisTyped
  <2>4. Own(t) /\ tconn[t] \in TisConns
    BY <1>0, <2>3 DEF Own, TisTyped
  <2>5. QED
    BY <1>1, <2>1, <2>3, <2>4 DEF Leaves, Quiet
<1>9. ASSUME NEW d \in TisConns, tisServe(d)
      PROVE  Mine(t)'
  <2>1. UNCHANGED <<tconn, shared, tpc, tanswer>>
    BY <1>9 DEF tisServe, tis!Serve
  <2>2. Own(t) /\ Mine(t) /\ tconn[t] \in TisConns
    BY <1>2, <2>1
  <2>3. CASE d = tconn[t]
    BY <1>9, <2>2, <2>3, OwnServed
  <2>4. CASE d # tconn[t]
    <3>1. twire'[tconn[t]] = twire[tconn[t]] /\ treplies'[tconn[t]] = treplies[tconn[t]]
      BY <1>0, <1>9, <2>2, <2>4 DEF tisServe, tis!Serve, TisTyped
    <3>2. QED
      BY <1>1, <2>1, <2>2, <3>1 DEF Quiet
  <2>5. QED
    BY <2>3, <2>4
<1>10. CASE tisLost
  <2>1. UNCHANGED <<tconn, shared, tpc, tanswer>>
    BY <1>10 DEF tisLost, tis!Lose
  <2>2. \A c \in TisConns : /\ twire'[c] \in {<<>>, twire[c]}
                            /\ treplies'[c] \in {<<>>, treplies[c]}
    BY <1>10 DEF tisLost, tis!Lose
  <2>3. QED
    BY <1>1, <1>2, <2>1, <2>2 DEF Quiet
<1>11. ASSUME UNCHANGED <<tisVars, shared>>
       PROVE  Mine(t)'
  BY <1>1, <1>2, <1>11 DEF tisVars, Quiet
<1>12. ASSUME NEW u \in Threads,
              skipCheck(u) \/ take(u) \/ dbserGet(u) \/ dbserNull(u) \/ dbserCall(u)
                \/ dbserThrows(u) \/ stored(u) \/ storeFailed(u)
       PROVE  UNCHANGED <<tisVars, shared>>
  BY <1>12 DEF skipCheck, take, dbserGet, dbserNull, dbserCall, dbserThrows, stored, storeFailed
<1>13. CASE dbserLost \/ UNCHANGED vars \/ \E c \in DbserConns : dbserServe(c)
  BY <1>11, <1>13 DEF dbserLost, vars, dbserServe
<1>14. QED
  BY <1>3, <1>4, <1>7, <1>8, <1>9, <1>10, <1>11, <1>12, <1>13 DEF Next, tisProtoHandler

(***************************************************************************)
(* What a thread tells with status 0 is what it makes of the answer it has *)
(* read, and without sharing that is a verdict on its own package.         *)
(***************************************************************************)
Told(t) == told'[task[t]]
OwnTold(t) ==
  task[t] # NoPackage /\ t \notin shared =>
    \A i \in 1..Len(Told(t)) :
      told[task[t]] = <<>> /\ Told(t)[i].status = 0 => Told(t)[i].flag \in ownFlags(task[t])

LEMMA FirstTold ==
  ASSUME HandlerTyped, NEW p \in Packages, told[p] = <<>>, NEW status, NEW f, reply(p, status, f)
  PROVE  \A i \in 1..Len(told'[p]) : told'[p][i].status = status /\ told'[p][i].flag = f
<1> DEFINE r == [status |-> status, flag |-> f]
<1>1. r.status = status /\ r.flag = f /\ told' = [told EXCEPT ![p] = Append(@, r)]
  BY DEF reply
<1> HIDE DEF r
<1>2. told'[p] = << r >>
  BY <1>1 DEF HandlerTyped
<1>3. QED
  BY <1>1, <1>2

LEMMA OwnToldNext ==
  ASSUME Typed, Stages, OwnTraffic, [Next]_vars, NEW t \in Threads
  PROVE  OwnTold(t)
<1>0. TisTyped /\ HandlerTyped /\ TypeOK
  BY DEF Typed, HandlerTyped
<1> SUFFICES ASSUME task[t] # NoPackage, t \notin shared, told[task[t]] = <<>>
             PROVE  \A i \in 1..Len(Told(t)) :
                      Told(t)[i].status = 0 => Told(t)[i].flag \in ownFlags(task[t])
  BY DEF OwnTold
<1> DEFINE p == task[t]
<1>1. p \in Packages
  BY <1>0 DEF TypeOK
<1>2. ASSUME told'[p] = told[p]
      PROVE  Told(t) = <<>>
  BY <1>2 DEF Told
<1>3. ASSUME NEW u \in Threads, u # t, NEW status, NEW f, reply(task[u], status, f)
      PROVE  Told(t) = <<>>
  <2>1. task[u] # p
    BY <1>1, <1>3 DEF Stages, OneThread
  <2>2. told'[p] = told[p]
    BY <1>0, <1>1, <1>3, <2>1 DEF reply, HandlerTyped
  <2>3. QED
    BY <1>2, <2>2
<1>4. ASSUME skipCheck(t) \/ tisNull(t) \/ checkFailed(t)
      PROVE  \A i \in 1..Len(Told(t)) : Told(t)[i].status # 0
  <2>1. reply(p, 1001, 0) \/ reply(p, 1002, 0)
    BY <1>4 DEF skipCheck, tisNull, checkFailed
  <2>2. QED
    BY <1>0, <1>1, <2>1, FirstTold DEF Told
<1>5. ASSUME checked(t)
      PROVE  \A i \in 1..Len(Told(t)) : Told(t)[i].flag \in ownFlags(p)
  <2> DEFINE o == TisServiceClient_recv_check(tanswer[t])
  <2>1. tpc[t] = "ok" /\ ~o.thrown /\ reply(p, 0, flagOf(o))
    BY <1>5 DEF checked, flagOf
  <2>2. tconn[t] # NoConn
    BY <1>0, <2>1 DEF TisTyped
  <2>3. PICK v \in judged[p] : tanswer[t] = TisServiceProcessor_dispatchCall(TisRequest(p), v)
    BY <2>1, <2>2 DEF OwnTraffic, Own, Mine, Verdict
  <2>4. ~v.thrown /\ flagOf(o) = flagOf(v)
    BY <2>1, <2>3, VerdictRead
  <2> HIDE DEF o
  <2>5. flagOf(o) \in ownFlags(p)
    BY <2>4 DEF ownFlags
  <2>6. QED
    BY <1>0, <1>1, <2>1, <2>5, FirstTold DEF Told
<1>6. ASSUME NEW u \in Threads, skipCheck(u) \/ tisNull(u) \/ checked(u) \/ checkFailed(u)
      PROVE  \/ u = t
             \/ Told(t) = <<>>
  <2>1. \/ reply(task[u], 1001, 0) \/ reply(task[u], 1002, 0)
        \/ reply(task[u], 0, flagOf(TisServiceClient_recv_check(tanswer[u])))
    BY <1>6 DEF skipCheck, tisNull, checked, checkFailed, flagOf
  <2> DEFINE f == flagOf(TisServiceClient_recv_check(tanswer[u]))
  <2>2. ASSUME u # t, reply(task[u], 1001, 0) PROVE Told(t) = <<>>
    BY <1>3, <2>2
  <2>3. ASSUME u # t, reply(task[u], 1002, 0) PROVE Told(t) = <<>>
    BY <1>3, <2>3
  <2> HIDE DEF f
  <2>4. ASSUME u # t, reply(task[u], 0, f) PROVE Told(t) = <<>>
    BY <1>3, <2>4
  <2>5. QED
    BY <2>1, <2>2, <2>3, <2>4 DEF f
<1>7. ASSUME NEW u \in Threads,
             take(u) \/ tisGet(u) \/ tisCall(u) \/ tisThrows(u)
               \/ dbserGet(u) \/ dbserNull(u) \/ dbserCall(u) \/ dbserThrows(u)
               \/ stored(u) \/ storeFailed(u)
      PROVE  told' = told
  BY <1>7 DEF take, tisGet, tisCall, tisThrows, dbserGet, dbserNull, dbserCall,
    dbserThrows, stored, storeFailed, history
<1>8. ASSUME \/ \E c \in TisConns : tisServe(c)
             \/ \E c \in DbserConns : dbserServe(c)
             \/ tisLost \/ dbserLost \/ UNCHANGED vars
      PROVE  told' = told
  BY <1>8 DEF tisServe, dbserServe, tisLost, dbserLost, vars, history
<1>9. CASE Told(t) = <<>>
  BY <1>9
<1>10. CASE Told(t) # <<>>
  <2>1. told' # told
    BY <1>2, <1>10
  <2>2. PICK u \in Threads : skipCheck(u) \/ tisNull(u) \/ checked(u) \/ checkFailed(u)
    BY <1>7, <1>8, <2>1 DEF Next, tisProtoHandler
  <2>3. u = t
    BY <1>6, <1>10, <2>2
  <2>4. QED
    BY <1>4, <1>5, <2>2, <2>3
<1>11. QED
  BY <1>9, <1>10

(***************************************************************************)
(* A client is told the verdict on its own message, unless the connection  *)
(* was shared during the call: no answer left by a call that failed or     *)
(* timed out is ever read as the answer to the next.                       *)
(***************************************************************************)
THEOREM ToldOwnVerdict == Spec => OwnVerdictUnlessShared
<1> DEFINE Inv == NoMoreThanOwed /\ Alone /\ OwnTraffic
<1>1. Init => Inv
  <2> SUFFICES ASSUME Init PROVE Inv
    OBVIOUS
  <2>1. \A t \in Threads : tconn[t] = NoConn
    BY DEF Init, tis!Init
  <2>2. \A c \in TisConns : Requests(c) = 0 /\ Answers(c) = 0
    BY DEF Init, tis!Init, tis!Empty, Requests, Answers
  <2>3. \A c \in TisConns : Cardinality(Owed(c)) \in Nat
    BY OwedFinite
  <2>4. NoMoreThanOwed
    BY <2>2, <2>3 DEF NoMoreThanOwed, Fits
  <2>5. QED
    BY <2>1, <2>4 DEF Alone, OwnTraffic, Own
<1>2. Typed /\ Inv /\ [Next]_vars => Inv'
  BY TisSteps, OwedNext, AloneNext, OwnTrafficNext DEF Typed
<1>3. Typed /\ Stored /\ Inv /\ [Next]_vars => \A t \in Threads : OwnTold(t)
  BY OwnToldNext DEF Stored
<1>4. (\A t \in Threads : OwnTold(t)) =>
        \A t \in Threads :
          task[t] # NoPackage /\ t \notin shared =>
            \A i \in 1..Len(told'[task[t]]) :
              LET r == told'[task[t]][i] IN
              told[task[t]] = <<>> /\ r.status = 0 => r.flag \in ownFlags(task[t])
  BY DEF OwnTold, Told
<1> HIDE DEF Inv
<1>5. QED
  BY <1>1, <1>2, <1>3, <1>4, StoredHolds, PTL DEF Spec, OwnVerdictUnlessShared
=============================================================================
