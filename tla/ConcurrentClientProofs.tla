----------------------- MODULE ConcurrentClientProofs -----------------------
(***************************************************************************)
(* Theorems about threads that share one concurrent client, for any number *)
(* of threads and calls.                                                   *)
(***************************************************************************)
EXTENDS ConcurrentClient, ThriftProofs, WellFoundedInduction

-----------------------------------------------------------------------------
(* What goes over the wire *)

LEMMA NameOf ==
  ASSUME NEW s \in Services, NEW n \in 1..MaxCalls
  PROVE  /\ Program[s][n] \in {"ping", "reloadModel", "check", "GetIdentity", "StoreMessage"}
         /\ s = "TisService" => Program[s][n] \in {"ping", "reloadModel", "check"}
         /\ s # "TisService" => Program[s][n] \in {"GetIdentity", "StoreMessage"}
BY ProgramAssumption DEF Services, Methods

(***************************************************************************)
(* A request carries the number of the call, and so does the answer.       *)
(***************************************************************************)
LEMMA RequestNumbered ==
  ASSUME NEW s \in Services, NEW n \in 1..MaxCalls, NEW t
  PROVE  LET m == request(Program[s][n], t, n) IN m.seqid = n /\ m.name = Program[s][n]
<1> DEFINE name == Program[s][n]
<1>1. name \in {"ping", "reloadModel", "check", "GetIdentity", "StoreMessage"}
  BY NameOf
<1> HIDE DEF name
<1>2. request(name, t, n).seqid = n /\ request(name, t, n).name = name
  BY <1>1 DEF request, Message,
    TisServiceConcurrentClient_send_ping, TisServiceClient_send_ping,
    TisServiceConcurrentClient_send_reloadModel, TisServiceClient_send_reloadModel,
    TisServiceConcurrentClient_send_check, TisServiceClient_send_check,
    IdentityServConcurrentClient_send_GetIdentity, IdentityServClient_send_GetIdentity,
    IdentityServConcurrentClient_send_StoreMessage, IdentityServClient_send_StoreMessage
<1>3. QED
  BY <1>2 DEF name

LEMMA AnswerNumbered ==
  ASSUME NEW s, NEW m, NEW o
  PROVE  answer(s, m, o).seqid = m.seqid
<1>1. \A name, body : answered(m, name, o, body).seqid = m.seqid
  BY DEF answered, Message
<1>2. unknownMethod(m).seqid = m.seqid
  BY DEF unknownMethod, Message
<1>3. TisServiceProcessor_dispatchCall(m, o).seqid = m.seqid
  BY <1>1, <1>2 DEF TisServiceProcessor_dispatchCall, process_ping, process_reloadModel,
                    process_check
<1>4. IdentityServProcessor_dispatchCall(m, o).seqid = m.seqid
  BY <1>1, <1>2 DEF IdentityServProcessor_dispatchCall, process_GetIdentity,
                    process_StoreMessage
<1>5. QED
  BY <1>3, <1>4 DEF answer

(***************************************************************************)
(* The value that a call of thread t with number n ends with.              *)
(***************************************************************************)
own(name, t, n) ==
  CASE name = "check"       -> [CheckResultStruct EXCEPT !.action = n, !.detail = t]
    [] name = "ping"        -> 0
    [] name = "GetIdentity" -> [identity |-> t]
    [] OTHER                -> n

(***************************************************************************)
(* What the caller makes of a processor's answer.                          *)
(***************************************************************************)
LEMMA ReadsReply ==
  ASSUME NEW a, NEW name, NEW r, a.mtype = "REPLY", a.name = name, r.isset = TRUE
  PROVE  receivedChecked(a, name, received(a, name, r)) = Return(r.success)
BY DEF received, receivedChecked

LEMMA ReadsException ==
  ASSUME NEW a, NEW name, NEW r, a.mtype = "EXCEPTION"
  PROVE  receivedChecked(a, name, received(a, name, r)) = Throw("TApplicationException")
BY DEF received, receivedChecked

LEMMA ThrownAnswered ==
  ASSUME NEW m, NEW name, NEW what, NEW body
  PROVE  answered(m, name, Throw(what), body).mtype = "EXCEPTION"
BY DEF answered, Message, Throw

(***************************************************************************)
(* Through the request, the service and the answer each method's caller    *)
(* gets back what tells its own call from all others, or the service's     *)
(* exception.                                                              *)
(***************************************************************************)
Right(r, name, t, n) ==
  \/ r = Return(own(name, t, n))
  \/ r = Throw("TApplicationException")

LEMMA PingRoundTrip ==
  ASSUME NEW t, NEW n, NEW o \in outcomes(request("ping", t, n))
  PROVE  Right(result("ping", answer("TisService", request("ping", t, n), o)), "ping", t, n)
<1> DEFINE m == request("ping", t, n)
           body == TisService_ping_result_write(Nothing)
<1>1. m.name = "ping"
  BY DEF request, TisServiceConcurrentClient_send_ping, TisServiceClient_send_ping, Message
<1>2. o \in {Return(0), Throw("what the service says")}
  BY <1>1 DEF outcomes, returned
<1> HIDE DEF m, body
<1>3. answer("TisService", m, o) = answered(m, "ping", o, body)
  BY <1>1 DEF answer, TisServiceProcessor_dispatchCall, process_ping, body
<1>4. \A a : result("ping", a) = receivedChecked(a, "ping", received(a, "ping", Nothing))
  BY DEF result, TisServiceConcurrentClient_recv_ping, TisServiceClient_recv_ping,
         TisService_ping_presult_read
<1>5. Nothing.isset = TRUE /\ Nothing.success = 0
  BY DEF Nothing
<1>6. result("ping", answer("TisService", m, o)) \in {Return(0), Throw("TApplicationException")}
  <2> DEFINE a == answered(m, "ping", o, body)
             x == receivedChecked(a, "ping", received(a, "ping", Nothing))
  <2>1. CASE o = Return(0)
    <3>1. a.mtype = "REPLY" /\ a.name = "ping"
      BY <2>1 DEF answered, Message, Return
    <3>2. x = Return(0)
      BY <1>5, <3>1, ReadsReply
    <3>3. QED
      BY <1>3, <1>4, <3>2
  <2>2. CASE o = Throw("what the service says")
    <3>1. x = Throw("TApplicationException")
      BY <2>2, ReadsException DEF answered, Message, Throw
    <3>2. QED
      BY <1>3, <1>4, <3>1
  <2>3. QED
    BY <1>2, <2>1, <2>2
<1>7. QED
  BY <1>6 DEF Right, own, m

LEMMA ReloadRoundTrip ==
  ASSUME NEW t, NEW n, NEW o \in outcomes(request("reloadModel", t, n))
  PROVE  Right(result("reloadModel", answer("TisService", request("reloadModel", t, n), o)),
               "reloadModel", t, n)
<1> DEFINE m == request("reloadModel", t, n)
           body == TisService_reloadModel_result_write([success |-> o.value, isset |-> TRUE])
<1>1. m.name = "reloadModel" /\ m.seqid = n
  BY DEF request, TisServiceConcurrentClient_send_reloadModel,
         TisServiceClient_send_reloadModel, Message
<1>2. o \in {Return(n), Throw("what the service says")}
  BY <1>1 DEF outcomes, returned
<1>3. body = << Field(0, "I32", o.value) >>
  BY DEF TisService_reloadModel_result_write
<1> HIDE DEF m, body
<1>4. answer("TisService", m, o) = answered(m, "reloadModel", o, body)
  BY <1>1 DEF answer, TisServiceProcessor_dispatchCall, process_reloadModel, body
<1>5. \A a : result("reloadModel", a) =
        receivedChecked(a, "reloadModel",
          received(a, "reloadModel", TisService_reloadModel_presult_read(a.body)))
  BY DEF result, TisServiceConcurrentClient_recv_reloadModel,
         TisServiceClient_recv_reloadModel
<1>6. CASE o = Return(n)
  <2> DEFINE r == TisService_reloadModel_presult_read(body)
  <2>1. r.isset = TRUE /\ r.success = n
    <3>1. body = << Field(0, "I32", n) >>
      BY <1>3, <1>6 DEF Return
    <3>2. i32(body, 0) = n /\ has(body, 0, "I32") = TRUE
      BY <3>1, OneI32
    <3>3. QED
      BY <3>2 DEF TisService_reloadModel_presult_read
  <2> HIDE DEF r
  <2>3. result("reloadModel", answer("TisService", m, o)) = Return(n)
    <3> DEFINE a == answer("TisService", m, o)
    <3>1. a.mtype = "REPLY" /\ a.name = "reloadModel" /\ a.body = body
      BY <1>4, <1>6 DEF answered, Message, Return
    <3> HIDE DEF a
    <3>2. result("reloadModel", a) = receivedChecked(a, "reloadModel", received(a, "reloadModel", r))
      BY <1>5, <3>1 DEF r
    <3>3. receivedChecked(a, "reloadModel", received(a, "reloadModel", r)) = Return(n)
      BY <2>1, <3>1, ReadsReply
    <3>4. QED
      BY <3>2, <3>3 DEF a
  <2>4. QED
    BY <2>3 DEF Right, own, m
<1>7. CASE o = Throw("what the service says")
  <2>1. answer("TisService", m, o).mtype = "EXCEPTION"
    BY <1>4, <1>7, ThrownAnswered
  <2>2. result("reloadModel", answer("TisService", m, o)) = Throw("TApplicationException")
    BY <1>5, <2>1, ReadsException
  <2>3. QED
    BY <2>2 DEF Right, m
<1>8. QED
  BY <1>2, <1>6, <1>7

LEMMA StoreRoundTrip ==
  ASSUME NEW t, NEW n, NEW o \in outcomes(request("StoreMessage", t, n))
  PROVE  Right(result("StoreMessage", answer("IdentityServ", request("StoreMessage", t, n), o)),
               "StoreMessage", t, n)
<1> DEFINE m == request("StoreMessage", t, n)
           body == IdentityServ_StoreMessage_result_write([success |-> o.value, isset |-> TRUE])
<1>1. m.name = "StoreMessage" /\ m.seqid = n
  BY DEF request, IdentityServConcurrentClient_send_StoreMessage,
         IdentityServClient_send_StoreMessage, Message
<1>2. o \in {Return(n), Throw("what the service says")}
  BY <1>1 DEF outcomes, returned
<1>3. body = << Field(0, "I32", o.value) >>
  BY DEF IdentityServ_StoreMessage_result_write
<1> HIDE DEF m, body
<1>4. answer("IdentityServ", m, o) = answered(m, "StoreMessage", o, body)
  BY <1>1 DEF answer, IdentityServProcessor_dispatchCall, process_StoreMessage, body
<1>5. \A a : result("StoreMessage", a) =
        receivedChecked(a, "StoreMessage",
          received(a, "StoreMessage", IdentityServ_StoreMessage_presult_read(a.body)))
  BY DEF result, IdentityServConcurrentClient_recv_StoreMessage,
         IdentityServClient_recv_StoreMessage
<1>6. CASE o = Return(n)
  <2> DEFINE r == IdentityServ_StoreMessage_presult_read(body)
  <2>1. r.isset = TRUE /\ r.success = n
    <3>1. body = << Field(0, "I32", n) >>
      BY <1>3, <1>6 DEF Return
    <3>2. i32(body, 0) = n /\ has(body, 0, "I32") = TRUE
      BY <3>1, OneI32
    <3>3. QED
      BY <3>2 DEF IdentityServ_StoreMessage_presult_read
  <2> HIDE DEF r
  <2>3. result("StoreMessage", answer("IdentityServ", m, o)) = Return(n)
    <3> DEFINE a == answer("IdentityServ", m, o)
    <3>1. a.mtype = "REPLY" /\ a.name = "StoreMessage" /\ a.body = body
      BY <1>4, <1>6 DEF answered, Message, Return
    <3> HIDE DEF a
    <3>2. result("StoreMessage", a) = receivedChecked(a, "StoreMessage", received(a, "StoreMessage", r))
      BY <1>5, <3>1 DEF r
    <3>3. receivedChecked(a, "StoreMessage", received(a, "StoreMessage", r)) = Return(n)
      BY <2>1, <3>1, ReadsReply
    <3>4. QED
      BY <3>2, <3>3 DEF a
  <2>4. QED
    BY <2>3 DEF Right, own, m
<1>7. CASE o = Throw("what the service says")
  <2>1. answer("IdentityServ", m, o).mtype = "EXCEPTION"
    BY <1>4, <1>7, ThrownAnswered
  <2>2. result("StoreMessage", answer("IdentityServ", m, o)) = Throw("TApplicationException")
    BY <1>5, <2>1, ReadsException
  <2>3. QED
    BY <2>2 DEF Right, m
<1>8. QED
  BY <1>2, <1>6, <1>7

LEMMA VerdictIs ==
  ASSUME NEW t, NEW n
  PROVE  LET v == [CheckResultStruct EXCEPT !.action = n, !.detail = t] IN
         v = [code |-> v.code, action |-> v.action, label |-> v.label,
              level |-> v.level, detail |-> v.detail]
<1> DEFINE v == [CheckResultStruct EXCEPT !.action = n, !.detail = t]
<1>1. v \in [code : {0}, action : {n}, label : {0}, level : {0}, detail : {t}]
  BY DEF CheckResultStruct
<1> HIDE DEF v
<1>2. v = [code |-> v.code, action |-> v.action, label |-> v.label,
           level |-> v.level, detail |-> v.detail]
  BY <1>1
<1>3. QED
  BY <1>2 DEF v

LEMMA CheckRoundTrip ==
  ASSUME NEW t, NEW n, NEW o \in outcomes(request("check", t, n))
  PROVE  Right(result("check", answer("TisService", request("check", t, n), o)), "check", t, n)
<1> DEFINE m == request("check", t, n)
           verdict == [CheckResultStruct EXCEPT !.action = n, !.detail = t]
           body == TisService_check_result_write([success |-> o.value, isset |-> TRUE])
<1>1. /\ m.name = "check" /\ m.seqid = n
      /\ m.body = TisService_check_pargs_write([req |-> [RequestCheckStruct EXCEPT !.content = t]])
  BY DEF request, TisServiceConcurrentClient_send_check, TisServiceClient_send_check, Message
<1>2. TisService_check_args_read(m.body).req.content = t
  <2> DEFINE req == [RequestCheckStruct EXCEPT !.content = t]
  <2>1. req.content = t
    BY DEF RequestCheckStruct
  <2>2. m.body = << Field(1, "STRUCT", RequestCheckStruct_write(req)) >>
    BY <1>1 DEF TisService_check_pargs_write
  <2> HIDE DEF req
  <2>3. struct(m.body, 1) = RequestCheckStruct_write(req)
    BY <2>2, OneStruct
  <2>4. QED
    BY <2>1, <2>3, ContentFound DEF TisService_check_args_read, RequestCheckStruct_read
<1>3. o \in {Return(verdict), Throw("what the service says")}
  BY <1>1, <1>2 DEF outcomes, returned
<1>4. body = << Field(0, "STRUCT", CheckResultStruct_write(o.value)) >>
  BY DEF TisService_check_result_write
<1>5. verdict = [code |-> verdict.code, action |-> verdict.action, label |-> verdict.label,
                 level |-> verdict.level, detail |-> verdict.detail]
  BY VerdictIs
<1> HIDE DEF m, body, verdict
<1>6. answer("TisService", m, o) = answered(m, "check", o, body)
  BY <1>1 DEF answer, TisServiceProcessor_dispatchCall, process_check, body
<1>7. \A a : result("check", a) =
        receivedChecked(a, "check", received(a, "check", TisService_check_presult_read(a.body)))
  BY DEF result, TisServiceConcurrentClient_recv_check, TisServiceClient_recv_check
<1>8. CASE o = Return(verdict)
  <2> DEFINE r == TisService_check_presult_read(body)
  <2>1. r.isset = TRUE /\ r.success = verdict
    <3>1. body = << Field(0, "STRUCT", CheckResultStruct_write(verdict)) >>
      BY <1>4, <1>8 DEF Return
    <3>2. struct(body, 0) = CheckResultStruct_write(verdict) /\ has(body, 0, "STRUCT")
      BY <3>1, OneStruct
    <3>3. CheckResultStruct_read(struct(body, 0)) = verdict
      BY <1>5, <3>2, CheckResultFound
    <3>4. QED
      BY <3>2, <3>3 DEF TisService_check_presult_read, has
  <2> HIDE DEF r
  <2>3. result("check", answer("TisService", m, o)) = Return(verdict)
    <3> DEFINE a == answer("TisService", m, o)
    <3>1. a.mtype = "REPLY" /\ a.name = "check" /\ a.body = body
      BY <1>6, <1>8 DEF answered, Message, Return
    <3> HIDE DEF a
    <3>2. result("check", a) = receivedChecked(a, "check", received(a, "check", r))
      BY <1>7, <3>1 DEF r
    <3>3. receivedChecked(a, "check", received(a, "check", r)) = Return(verdict)
      BY <2>1, <3>1, ReadsReply
    <3>4. QED
      BY <3>2, <3>3 DEF a
  <2>4. QED
    BY <2>3 DEF Right, own, m, verdict
<1>9. CASE o = Throw("what the service says")
  <2>1. answer("TisService", m, o).mtype = "EXCEPTION"
    BY <1>6, <1>9, ThrownAnswered
  <2>2. result("check", answer("TisService", m, o)) = Throw("TApplicationException")
    BY <1>7, <2>1, ReadsException
  <2>3. QED
    BY <2>2 DEF Right, m
<1>10. QED
  BY <1>3, <1>8, <1>9

LEMMA GetRoundTrip ==
  ASSUME NEW t, NEW n, NEW o \in outcomes(request("GetIdentity", t, n))
  PROVE  Right(result("GetIdentity", answer("IdentityServ", request("GetIdentity", t, n), o)),
               "GetIdentity", t, n)
<1> DEFINE m == request("GetIdentity", t, n)
           body == IdentityServ_GetIdentity_result_write([success |-> o.value, isset |-> TRUE])
           ack == [identity |-> t]
<1>1. /\ m.name = "GetIdentity" /\ m.seqid = n
      /\ m.body = << Field(1, "STRUCT", << Field(1, "I32", t) >>) >>
  BY DEF request, IdentityServConcurrentClient_send_GetIdentity,
         IdentityServClient_send_GetIdentity, Message,
         IdentityServ_GetIdentity_pargs_write, ReqProto_write, ReqProto
<1>2. IdentityServ_GetIdentity_args_read(m.body).s.userid = t
  <2>1. struct(m.body, 1) = << Field(1, "I32", t) >>
    BY <1>1, OneStruct
  <2>2. i32(struct(m.body, 1), 1) = t
    BY <2>1, OneI32
  <2>3. QED
    BY <2>2 DEF IdentityServ_GetIdentity_args_read, ReqProto_read
<1>3. o \in {Return(ack), Throw("what the service says")}
  BY <1>1, <1>2 DEF outcomes, returned
<1>4. body = << Field(0, "STRUCT", << Field(1, "STRING", o.value.identity) >>) >>
  BY DEF IdentityServ_GetIdentity_result_write, AckProto_write
<1> HIDE DEF m, body
<1>5. answer("IdentityServ", m, o) = answered(m, "GetIdentity", o, body)
  BY <1>1 DEF answer, IdentityServProcessor_dispatchCall, process_GetIdentity, body
<1>6. \A a : result("GetIdentity", a) =
        receivedChecked(a, "GetIdentity",
          received(a, "GetIdentity", IdentityServ_GetIdentity_presult_read(a.body)))
  BY DEF result, IdentityServConcurrentClient_recv_GetIdentity,
         IdentityServClient_recv_GetIdentity
<1>7. CASE o = Return(ack)
  <2> DEFINE r == IdentityServ_GetIdentity_presult_read(body)
  <2>1. r.isset = TRUE /\ r.success = ack
    <3>1. body = << Field(0, "STRUCT", << Field(1, "STRING", t) >>) >>
      BY <1>4, <1>7 DEF Return
    <3>2. struct(body, 0) = << Field(1, "STRING", t) >> /\ has(body, 0, "STRUCT")
      BY <3>1, OneStruct
    <3>3. string(struct(body, 0), 1) = t
      BY <3>2, OneString
    <3>4. QED
      BY <3>2, <3>3 DEF IdentityServ_GetIdentity_presult_read, AckProto_read, has
  <2> HIDE DEF r
  <2>3. result("GetIdentity", answer("IdentityServ", m, o)) = Return(ack)
    <3> DEFINE a == answer("IdentityServ", m, o)
    <3>1. a.mtype = "REPLY" /\ a.name = "GetIdentity" /\ a.body = body
      BY <1>5, <1>7 DEF answered, Message, Return
    <3> HIDE DEF a
    <3>2. result("GetIdentity", a) = receivedChecked(a, "GetIdentity", received(a, "GetIdentity", r))
      BY <1>6, <3>1 DEF r
    <3>3. receivedChecked(a, "GetIdentity", received(a, "GetIdentity", r)) = Return(ack)
      BY <2>1, <3>1, ReadsReply
    <3>4. QED
      BY <3>2, <3>3 DEF a
  <2>4. QED
    BY <2>3 DEF Right, own, m
<1>8. CASE o = Throw("what the service says")
  <2>1. answer("IdentityServ", m, o).mtype = "EXCEPTION"
    BY <1>5, <1>8, ThrownAnswered
  <2>2. result("GetIdentity", answer("IdentityServ", m, o)) = Throw("TApplicationException")
    BY <1>6, <2>1, ReadsException
  <2>3. QED
    BY <2>2 DEF Right, m
<1>9. QED
  BY <1>3, <1>7, <1>8

LEMMA RoundTrip ==
  ASSUME NEW s \in Services, NEW n \in 1..MaxCalls, NEW t,
         NEW o \in outcomes(request(Program[s][n], t, n))
  PROVE  Right(result(Program[s][n], answer(s, request(Program[s][n], t, n), o)),
               Program[s][n], t, n)
<1>1. CASE s = "TisService"
  BY <1>1, NameOf, PingRoundTrip, ReloadRoundTrip, CheckRoundTrip
<1>2. CASE s # "TisService"
  <2>1. s = "IdentityServ"
    BY <1>2 DEF Services
  <2>2. QED
    BY <1>2, <2>1, NameOf, GetRoundTrip, StoreRoundTrip
<1>3. QED
  BY <1>1, <1>2

-----------------------------------------------------------------------------
(* Types *)

Reading == {"get", "read", "header", "test", "wait"}

Typed ==
  /\ TypeOK
  /\ DOMAIN header = Threads /\ DOMAIN method = Threads /\ DOMAIN outcome = Threads

(***************************************************************************)
(* A call that ends in the receiving half: what its three ways have in     *)
(* common.                                                                 *)
(***************************************************************************)
Leaving(t) == throwDeadConnection(t) \/ readFails(t) \/ receive(t)

Left(t, committed) ==
  LET others == seqids \ {seqid[t]} IN
  /\ pc[t] \in {"get", "read", "header", "test"}
  /\ pc' = [pc EXCEPT ![t] = "idle"]
  /\ header' = [header EXCEPT ![t] = NoMessage]
  /\ seqids' = others
  /\ wakeupSomeone_' = TRUE
  /\ stop_' = (stop_ \/ ~committed)
  /\ notified' = notified \cup owners(IF committed THEN latest(others) ELSE others)
  /\ readMutex_' = Nobody
  /\ UNCHANGED <<service, requests, replies, nextseqid_, method, seqid, recvPending_>>
  /\ committed => pc[t] = "header" /\ header[t].seqid = seqid[t]
  /\ \E o : outcome' = [outcome EXCEPT ![t] = o]

LEMMA LeavingLeft ==
  ASSUME NEW t \in Threads, Leaving(t)
  PROVE  \E committed \in BOOLEAN : Left(t, committed)
<1>1. CASE throwDeadConnection(t)
  <2>1. Left(t, FALSE)
    BY <1>1 DEF throwDeadConnection, leave, stay, Left
  <2>2. QED
    BY <2>1
<1>2. CASE readFails(t)
  <2>1. Left(t, FALSE)
    BY <1>2 DEF readFails, leave, stay, Left
  <2>2. QED
    BY <2>1
<1>3. CASE receive(t)
  <2>1. PICK o : leave(t, o, commits(o)) /\ pc[t] = "header" /\ header[t].seqid = seqid[t]
                 /\ stay /\ UNCHANGED recvPending_
    BY <1>3 DEF receive
  <2>2. commits(o) \in BOOLEAN
    BY DEF commits
  <2>3. Left(t, commits(o))
    BY <2>1 DEF leave, stay, Left
  <2>4. QED
    BY <2>2, <2>3
<1>4. QED
  BY <1>1, <1>2, <1>3 DEF Leaving

LEMMA TypeInit == Init => Typed
<1> SUFFICES ASSUME Init PROVE Typed
  OBVIOUS
<1>1. nextseqid_ \in 1..(MaxCalls + 1) /\ \A t \in Threads : seqid[t] \in 0..(nextseqid_ - 1)
  BY CallsAssumption DEF Init
<1>2. notified \subseteq waiters
  BY DEF Init
<1>3. seqids \subseteq 1..(nextseqid_ - 1)
  BY DEF Init
<1>4. \A t \in Threads : readMutex_ = t <=> pc[t] \in Reading
  BY NobodyAssumption DEF Init, Reading
<1>5. pc \in [Threads -> {"idle", "send", "recv", "get", "read", "header", "test",
                          "wait", "waiting"}]
  BY DEF Init
<1>6. seqid \in [Threads -> 0..(nextseqid_ - 1)]
  BY <1>1 DEF Init
<1>7. QED
  BY <1>1, <1>2, <1>3, <1>4, <1>5, <1>6 DEF Init, Typed, TypeOK, Reading

LEMMA TypeStep ==
  ASSUME Typed, [Next]_vars
  PROVE  Typed'
<1> USE DEF Typed, TypeOK, waiters, stay
<1>0. \A t \in Threads : t # Nobody
  BY NobodyAssumption
<1>1. ASSUME NEW t \in Threads, generateSeqId(t) PROVE Typed'
  <2>1. nextseqid_' \in 1..(MaxCalls + 1)
    BY <1>1, CallsAssumption DEF generateSeqId
  <2>2. nextseqid_ \in 1..(nextseqid_' - 1) /\ nextseqid_ \in 0..(nextseqid_' - 1)
    BY <1>1, CallsAssumption DEF generateSeqId
  <2>3. 0..(nextseqid_ - 1) \subseteq 0..(nextseqid_' - 1)
        /\ 1..(nextseqid_ - 1) \subseteq 1..(nextseqid_' - 1)
    BY <1>1, CallsAssumption DEF generateSeqId
  <2>4. seqid' \in [Threads -> 0..(nextseqid_' - 1)]
    BY <1>1, <2>2, <2>3 DEF generateSeqId
  <2>5. seqids' \subseteq 1..(nextseqid_' - 1)
    BY <1>1, <2>2, <2>3 DEF generateSeqId
  <2>6. QED
    BY <1>1, <2>1, <2>4, <2>5 DEF generateSeqId
<1>2. ASSUME NEW t \in Threads, callRefused(t) PROVE Typed'
  BY <1>2 DEF callRefused
<1>3. ASSUME NEW t \in Threads, send(t) PROVE Typed'
  BY <1>3 DEF send
<1>4. ASSUME NEW t \in Threads, sendFails(t) PROVE Typed'
  BY <1>4 DEF sendFails, owners
<1>5. ASSUME NEW t \in Threads, lock(t) PROVE Typed'
  BY <1>0, <1>5 DEF lock
<1>6. ASSUME NEW t \in Threads, getPending(t) PROVE Typed'
  BY <1>0, <1>6 DEF getPending
<1>7. ASSUME NEW t \in Threads, Leaving(t) PROVE Typed'
  <2>1. PICK committed \in BOOLEAN : Left(t, committed)
    BY <1>7, LeavingLeft
  <2>2. notified' \subseteq waiters'
    BY <2>1 DEF Left, owners
  <2>3. \A u \in Threads : readMutex_' = u <=> pc'[u] \in Reading
    BY <1>0, <2>1 DEF Left, Reading
  <2>4. stop_' \in BOOLEAN /\ seqids' \subseteq seqids
    BY <2>1 DEF Left
  <2>5. QED
    BY <1>0, <2>1, <2>2, <2>3, <2>4 DEF Left, Reading
<1>8. ASSUME NEW t \in Threads, readMessageBegin(t) PROVE Typed'
  BY <1>0, <1>8 DEF readMessageBegin
<1>9. ASSUME NEW t \in Threads, updatePending(t) PROVE Typed'
  BY <1>0, <1>9 DEF updatePending, owners
<1>10. ASSUME NEW t \in Threads, waitTest(t) PROVE Typed'
  BY <1>0, <1>10 DEF waitTest
<1>11. ASSUME NEW t \in Threads, waitForever(t) PROVE Typed'
  BY <1>0, <1>11 DEF waitForever
<1>12. ASSUME NEW t \in Threads, wake(t) PROVE Typed'
  BY <1>0, <1>12 DEF wake
<1>13. ASSUME NEW m \in requests, Serve(m) PROVE Typed'
  BY <1>13 DEF Serve
<1>14. CASE UNCHANGED vars
  BY <1>14 DEF vars
<1>15. QED
  BY <1>1, <1>2, <1>3, <1>4, <1>5, <1>6, <1>7, <1>8, <1>9, <1>10, <1>11, <1>12, <1>13, <1>14
  DEF Next, Steps, Leaving

(***************************************************************************)
(* Type correctness; one thread at a time reads.                           *)
(***************************************************************************)
THEOREM TypeCorrect == Spec => []TypeOK
<1>1. Typed /\ [Next]_vars => Typed'
  BY TypeStep
<1>2. Typed => TypeOK
  BY DEF Typed
<1>3. QED
  BY <1>1, <1>2, TypeInit, PTL DEF Spec

-----------------------------------------------------------------------------
(* Calls and their numbers *)

active(t) == pc[t] # "idle"

(***************************************************************************)
(* A call has a number of its own, which is registered; while the client   *)
(* is alive nothing else is.                                               *)
(***************************************************************************)
Numbered ==
  /\ \A t \in Threads : active(t) =>
       seqid[t] \in seqids /\ method[t] = Program[service][seqid[t]]
  /\ \A t, u \in Threads : active(t) /\ active(u) /\ seqid[t] = seqid[u] => t = u
  /\ ~stop_ => \A n \in seqids : \E t \in Threads : active(t) /\ seqid[t] = n

LEMMA NumberedInit == Init => Numbered
BY DEF Init, Numbered, active

LEMMA NumberedStep ==
  ASSUME Typed, Numbered, [Next]_vars
  PROVE  Numbered'
<1> USE DEF active, stay
<1>0. /\ DOMAIN pc = Threads /\ DOMAIN seqid = Threads /\ DOMAIN method = Threads
      /\ \A n \in seqids : n # nextseqid_
  BY CallsAssumption DEF Typed, TypeOK
<1>1. ASSUME NEW t \in Threads, generateSeqId(t) PROVE Numbered'
  <2>1. /\ seqid' = [seqid EXCEPT ![t] = nextseqid_] /\ seqids' = seqids \cup {nextseqid_}
        /\ pc' = [pc EXCEPT ![t] = "send"] /\ pc[t] = "idle"
        /\ method' = [method EXCEPT ![t] = Program[service][nextseqid_]]
        /\ UNCHANGED <<stop_, service>>
    BY <1>1 DEF generateSeqId
  <2>2. QED
    BY <1>0, <2>1 DEF Numbered
<1>2. ASSUME NEW t \in Threads, sendFails(t) PROVE Numbered'
  BY <1>0, <1>2 DEF sendFails, Numbered
<1>3. ASSUME NEW t \in Threads, Leaving(t) PROVE Numbered'
  <2>1. PICK committed \in BOOLEAN : Left(t, committed)
    BY <1>3, LeavingLeft
  <2>2. /\ seqids' = seqids \ {seqid[t]} /\ pc' = [pc EXCEPT ![t] = "idle"] /\ pc[t] # "idle"
        /\ (~stop_' => ~stop_)
        /\ UNCHANGED <<service, seqid, method>>
    BY <2>1 DEF Left
  <2>3. QED
    BY <1>0, <2>2 DEF Numbered
<1>4. ASSUME NEW t \in Threads,
             \/ callRefused(t) \/ send(t) \/ lock(t) \/ getPending(t) \/ readMessageBegin(t)
             \/ updatePending(t) \/ waitTest(t) \/ waitForever(t) \/ wake(t)
      PROVE Numbered'
  <2>1. /\ \A u \in Threads : pc'[u] # "idle" <=> pc[u] # "idle"
        /\ UNCHANGED <<stop_, service, seqid, seqids, method>>
    BY <1>0, <1>4 DEF callRefused, send, lock, getPending, readMessageBegin, updatePending,
       waitTest, waitForever, wake
  <2>2. QED
    BY <2>1 DEF Numbered
<1>5. ASSUME NEW m \in requests, Serve(m) PROVE Numbered'
  BY <1>5 DEF Serve, Numbered
<1>6. CASE UNCHANGED vars
  BY <1>6 DEF vars, Numbered
<1>7. QED
  BY <1>1, <1>2, <1>3, <1>4, <1>5, <1>6 DEF Next, Steps, Leaving

-----------------------------------------------------------------------------
(* Messages *)

(***************************************************************************)
(* The numbers of the requests, of the answers in the stream, and of the   *)
(* answers that have been read and not yet been taken.                     *)
(***************************************************************************)
Ids(s) == {s[k].seqid : k \in 1..Len(s)}
Distinct(s) == \A j, k \in 1..Len(s) : s[j].seqid = s[k].seqid => j = k
Elements(s) == {s[k] : k \in 1..Len(s)}

ReqIds == {m.seqid : m \in requests}
HandIds == {header[t].seqid : t \in {u \in Threads : pc[u] = "header"}}
             \cup {a.seqid : a \in {recvPending_} \ {NoMessage}}
Transit == ReqIds \cup Ids(replies) \cup HandIds

LEMMA AppendFacts ==
  ASSUME NEW S, NEW s \in Seq(S), NEW x \in S
  PROVE  /\ Append(s, x) \in Seq(S)
         /\ Elements(Append(s, x)) = Elements(s) \cup {x}
         /\ Ids(Append(s, x)) = Ids(s) \cup {x.seqid}
         /\ Distinct(s) /\ x.seqid \notin Ids(s) => Distinct(Append(s, x))
<1> DEFINE a == Append(s, x)
<1>1. a \in Seq(S) /\ Len(a) = Len(s) + 1 /\ Len(s) \in Nat
  OBVIOUS
<1>2. (\A k \in 1..Len(s) : a[k] = s[k]) /\ a[Len(s) + 1] = x
  OBVIOUS
<1> HIDE DEF a
<1>3. 1..Len(a) = 1..Len(s) \cup {Len(a)} /\ a[Len(a)] = x /\ Len(a) \notin 1..Len(s)
  BY <1>1, <1>2
<1>4. Elements(a) = Elements(s) \cup {x}
  BY <1>2, <1>3 DEF Elements
<1>5. Ids(a) = Ids(s) \cup {x.seqid}
  BY <1>2, <1>3 DEF Ids
<1>6. Distinct(s) /\ x.seqid \notin Ids(s) => Distinct(a)
  <2> SUFFICES ASSUME Distinct(s), x.seqid \notin Ids(s),
                      NEW j \in 1..Len(a), NEW k \in 1..Len(a), a[j].seqid = a[k].seqid
               PROVE  j = k
    BY DEF Distinct
  <2>1. CASE j \in 1..Len(s) /\ k \in 1..Len(s)
    BY <1>2, <2>1 DEF Distinct
  <2>2. CASE j = Len(a) /\ k \in 1..Len(s)
    BY <1>2, <1>3, <2>2 DEF Ids
  <2>3. CASE k = Len(a) /\ j \in 1..Len(s)
    BY <1>2, <1>3, <2>3 DEF Ids
  <2>4. QED
    BY <1>3, <2>1, <2>2, <2>3
<1>7. QED
  BY <1>1, <1>4, <1>5, <1>6 DEF a

LEMMA TailFacts ==
  ASSUME NEW S, NEW s \in Seq(S), s # <<>>
  PROVE  /\ Tail(s) \in Seq(S) /\ Head(s) \in S
         /\ Elements(Tail(s)) \subseteq Elements(s) /\ Head(s) \in Elements(s)
         /\ Head(s).seqid \in Ids(s)
         /\ Distinct(s) => Distinct(Tail(s)) /\ Ids(Tail(s)) = Ids(s) \ {Head(s).seqid}
<1> DEFINE r == Tail(s)
<1>1. /\ r \in Seq(S) /\ Len(s) \in Nat \ {0} /\ Len(r) = Len(s) - 1
      /\ Head(s) = s[1] /\ Head(s) \in S
  OBVIOUS
<1>2. \A k \in 1..Len(r) : r[k] = s[k + 1]
  OBVIOUS
<1> HIDE DEF r
<1>3. /\ 1 \in 1..Len(s)
      /\ \A k \in 1..Len(r) : k + 1 \in 1..Len(s) /\ k + 1 # 1
      /\ \A k \in 1..Len(s) : k = 1 \/ (k - 1 \in 1..Len(r) /\ (k - 1) + 1 = k)
  BY <1>1
<1>4. Elements(r) \subseteq Elements(s) /\ Head(s) \in Elements(s)
  BY <1>1, <1>2, <1>3 DEF Elements
<1>5. Head(s).seqid \in Ids(s)
  BY <1>1, <1>3 DEF Ids
<1>6. ASSUME Distinct(s) PROVE Distinct(r)
  <2> SUFFICES ASSUME NEW j \in 1..Len(r), NEW k \in 1..Len(r), r[j].seqid = r[k].seqid
               PROVE  j = k
    BY DEF Distinct
  <2>1. j + 1 = k + 1
    BY <1>2, <1>3, <1>6 DEF Distinct
  <2>2. QED
    BY <2>1, <1>1
<1>7. ASSUME Distinct(s) PROVE Ids(r) = Ids(s) \ {Head(s).seqid}
  <2>1. \A k \in 1..Len(r) : r[k].seqid \in Ids(s) /\ r[k].seqid # Head(s).seqid
    BY <1>1, <1>2, <1>3, <1>7 DEF Ids, Distinct
  <2>2. \A k \in 1..Len(s) : s[k].seqid # Head(s).seqid => s[k].seqid \in Ids(r)
    <3> SUFFICES ASSUME NEW k \in 1..Len(s), s[k].seqid # Head(s).seqid
                 PROVE  s[k].seqid \in Ids(r)
      OBVIOUS
    <3>1. k - 1 \in 1..Len(r) /\ r[k - 1] = s[k]
      BY <1>1, <1>2, <1>3
    <3>2. QED
      BY <3>1 DEF Ids
  <2>3. QED
    BY <2>1, <2>2 DEF Ids
<1>8. QED
  BY <1>1, <1>4, <1>5, <1>6, <1>7 DEF r

(***************************************************************************)
(* The requests and answers of the calls made so far.  Thread t is the     *)
(* only one that can be in the call with number n.                         *)
(***************************************************************************)
req(n, t) == request(Program[service][n], t, n)
AnswersTo(n, t) == {answer(service, req(n, t), o) : o \in outcomes(req(n, t))}

Caller(n, t) ==
  /\ n < nextseqid_
  /\ \A u \in Threads : active(u) /\ seqid[u] = n => u = t

Callers(n) == {t \in Threads : Caller(n, t)}
OurRequests == UNION {{req(n, t) : t \in Callers(n)} : n \in 1..MaxCalls}
OurAnswers == UNION {UNION {AnswersTo(n, t) : t \in Callers(n)} : n \in 1..MaxCalls}

LEMMA OurFacts ==
  /\ \A n \in 1..MaxCalls : \A t \in Threads : Caller(n, t) =>
       req(n, t) \in OurRequests /\ AnswersTo(n, t) \subseteq OurAnswers
  /\ \A m \in OurRequests : \E n \in 1..MaxCalls : \E t \in Threads :
       Caller(n, t) /\ m = req(n, t)
  /\ \A a \in OurAnswers : \E n \in 1..MaxCalls : \E t \in Threads :
       Caller(n, t) /\ a \in AnswersTo(n, t)
BY DEF OurRequests, OurAnswers, Callers

(***************************************************************************)
(* They carry the number of a call that was made.                          *)
(***************************************************************************)
LEMMA OurNumbers ==
  ASSUME Typed
  PROVE  /\ \A n \in 1..MaxCalls : \A t : req(n, t).seqid = n
         /\ \A n \in 1..MaxCalls : \A t : \A a \in AnswersTo(n, t) : a.seqid = n
         /\ \A m \in OurRequests : m.seqid \in 1..(nextseqid_ - 1)
         /\ \A a \in OurAnswers : a.seqid \in 1..(nextseqid_ - 1)
<1>1. service \in Services /\ nextseqid_ \in 1..(MaxCalls + 1)
  BY DEF Typed, TypeOK
<1>2. ASSUME NEW n \in 1..MaxCalls, NEW t PROVE req(n, t).seqid = n
  BY <1>1, RequestNumbered DEF req
<1>3. ASSUME NEW n \in 1..MaxCalls, NEW t, NEW a \in AnswersTo(n, t) PROVE a.seqid = n
  BY <1>2, AnswerNumbered DEF AnswersTo
<1>4. \A n \in 1..MaxCalls : n < nextseqid_ => n \in 1..(nextseqid_ - 1)
  BY <1>1, CallsAssumption
<1>5. QED
  BY <1>2, <1>3, <1>4, OurFacts DEF Caller

LEMMA OurStep ==
  ASSUME Typed, Numbered, [Next]_vars
  PROVE  /\ OurRequests \subseteq OurRequests' /\ OurAnswers \subseteq OurAnswers'
         /\ service' = service
<1>1. /\ service' = service /\ nextseqid_' >= nextseqid_
      /\ \A t \in Threads : active(t)' =>
           \/ active(t) /\ seqid'[t] = seqid[t]
           \/ seqid'[t] = nextseqid_
  <2>0. DOMAIN pc = Threads /\ DOMAIN seqid = Threads /\ nextseqid_ \in Int
    BY CallsAssumption DEF Typed, TypeOK
  <2>1. ASSUME NEW t \in Threads, generateSeqId(t) PROVE <1>1!:
    BY <2>0, <2>1 DEF generateSeqId, active
  <2>2. ASSUME NEW t \in Threads, Leaving(t) PROVE <1>1!:
    <3>1. PICK committed \in BOOLEAN : Left(t, committed)
      BY <2>2, LeavingLeft
    <3>2. QED
      BY <2>0, <3>1 DEF Left, active
  <2>3. ASSUME NEW t \in Threads,
               \/ callRefused(t) \/ send(t) \/ sendFails(t) \/ lock(t) \/ getPending(t)
               \/ readMessageBegin(t) \/ updatePending(t) \/ waitTest(t) \/ waitForever(t)
               \/ wake(t)
        PROVE <1>1!:
    BY <2>0, <2>3 DEF callRefused, send, sendFails, lock, getPending, readMessageBegin,
       updatePending, waitTest, waitForever, wake, stay, active
  <2>4. ASSUME NEW m \in requests, Serve(m) PROVE <1>1!:
    BY <2>0, <2>4 DEF Serve, active
  <2>5. CASE UNCHANGED vars
    BY <2>0, <2>5 DEF vars, active
  <2>6. QED
    BY <2>1, <2>2, <2>3, <2>4, <2>5 DEF Next, Steps, Leaving
<1>2. nextseqid_ \in Int /\ nextseqid_' \in Int
  BY TypeStep, CallsAssumption DEF Typed, TypeOK
<1>3. ASSUME NEW n \in 1..MaxCalls, NEW t \in Threads, Caller(n, t)
      PROVE  Caller(n, t)' /\ req(n, t)' = req(n, t) /\ AnswersTo(n, t)' = AnswersTo(n, t)
  <2>1. n < nextseqid_'
    BY <1>1, <1>2, <1>3 DEF Caller
  <2>2. \A u \in Threads : active(u)' /\ seqid'[u] = n => active(u) /\ seqid[u] = n
    BY <1>1, <1>2, <1>3 DEF Caller
  <2>3. QED
    BY <1>1, <1>3, <2>1, <2>2 DEF Caller, req, AnswersTo
<1>4. \A n \in 1..MaxCalls : Callers(n) \subseteq Callers(n)'
  BY <1>3 DEF Callers
<1>5. QED
  BY <1>1, <1>3, <1>4 DEF OurRequests, OurAnswers, Callers

(***************************************************************************)
(* Whatever is on the way is of one of our calls, and no answer is taken   *)
(* for none.                                                               *)
(***************************************************************************)
Ours ==
  /\ requests \subseteq OurRequests
  /\ replies \in Seq(OurAnswers)
  /\ \A t \in Threads : pc[t] = "header" => header[t] \in OurAnswers
  /\ recvPending_ # NoMessage => recvPending_ \in OurAnswers

LEMMA OursNotNone == Typed => NoMessage \notin OurAnswers
BY OurFacts, NoMessageAssumption DEF AnswersTo, req, Typed, TypeOK

LEMMA OursInit == Init => Ours
<1>1. <<>> \in Seq(OurAnswers)
  OBVIOUS
<1>2. QED
  BY <1>1 DEF Init, Ours

(***************************************************************************)
(* The answer of the service to a request of ours is one of ours, with the *)
(* same number.                                                            *)
(***************************************************************************)
LEMMA ServeFacts ==
  ASSUME Typed, Ours, NEW m \in requests, Serve(m)
  PROVE  \E a \in OurAnswers :
           a.seqid = m.seqid /\ replies' = Append(replies, a) /\ requests' = requests \ {m}
<1>1. PICK o \in outcomes(m) : replies' = Append(replies, answer(service, m, o))
  BY DEF Serve
<1>2. PICK n \in 1..MaxCalls, t \in Threads : Caller(n, t) /\ m = req(n, t)
  BY OurFacts DEF Ours
<1>3. answer(service, m, o) \in OurAnswers
  BY <1>1, <1>2, OurFacts DEF AnswersTo
<1>4. answer(service, m, o).seqid = m.seqid
  BY AnswerNumbered
<1>5. QED
  BY <1>1, <1>3, <1>4 DEF Serve

LEMMA SendFacts ==
  ASSUME Typed, Numbered, NEW t \in Threads, send(t)
  PROVE  \E m \in OurRequests : m.seqid = seqid[t] /\ requests' = requests \cup {m}
<1> DEFINE n == seqid[t]
<1>1. n \in seqids /\ n < nextseqid_ /\ n \in 1..MaxCalls /\ active(t)
      /\ method[t] = Program[service][n]
  <2>1. n \in seqids /\ active(t) /\ method[t] = Program[service][n]
    BY DEF send, Numbered, active
  <2>2. seqids \subseteq 1..(nextseqid_ - 1) /\ nextseqid_ \in 1..(MaxCalls + 1)
    BY DEF Typed, TypeOK
  <2> HIDE DEF n
  <2>3. n \in 1..(nextseqid_ - 1) /\ nextseqid_ \in Int /\ MaxCalls \in Int
    BY <2>1, <2>2, CallsAssumption
  <2>4. n < nextseqid_ /\ n \in 1..MaxCalls
    BY <2>2, <2>3
  <2>5. QED
    BY <2>1, <2>4
<1>2. Caller(n, t)
  BY <1>1 DEF Caller, Numbered
<1>3. req(n, t) \in OurRequests /\ req(n, t).seqid = n
  BY <1>1, <1>2, OurFacts, OurNumbers
<1>4. requests' = requests \cup {req(n, t)}
  BY <1>1 DEF send, req
<1>5. QED
  BY <1>3, <1>4

LEMMA SeqGrows ==
  ASSUME NEW S, NEW R, S \subseteq R, NEW s \in Seq(S)
  PROVE  s \in Seq(R)
OBVIOUS

LEMMA OursStep ==
  ASSUME Typed, Numbered, Ours, [Next]_vars
  PROVE  Ours'
<1>0. DOMAIN pc = Threads /\ DOMAIN header = Threads
  BY DEF Typed, TypeOK
<1>1. OurRequests \subseteq OurRequests' /\ OurAnswers \subseteq OurAnswers'
  BY OurStep
<1>2. \A s \in Seq(OurAnswers) : s \in Seq(OurAnswers')
  BY <1>1, SeqGrows
<1> SUFFICES
      /\ requests' \subseteq OurRequests \cup OurRequests'
      /\ replies' \in Seq(OurAnswers)
      /\ \A t \in Threads : pc'[t] = "header" => header'[t] \in OurAnswers
      /\ recvPending_' # NoMessage => recvPending_' \in OurAnswers
  BY <1>1, <1>2 DEF Ours
<1> DEFINE Goal == /\ requests' \subseteq OurRequests \cup OurRequests'
                   /\ replies' \in Seq(OurAnswers)
                   /\ \A t \in Threads : pc'[t] = "header" => header'[t] \in OurAnswers
                   /\ recvPending_' # NoMessage => recvPending_' \in OurAnswers
<1> HIDE DEF OurRequests, OurAnswers
<1>3. ASSUME NEW t \in Threads, send(t) PROVE Goal
  BY <1>0, <1>3, SendFacts DEF send, Ours
<1>4. ASSUME NEW t \in Threads, readMessageBegin(t) PROVE Goal
  <2>1. Tail(replies) \in Seq(OurAnswers) /\ Head(replies) \in OurAnswers
    BY <1>4, TailFacts DEF readMessageBegin, Ours
  <2>2. QED
    BY <1>0, <1>4, <2>1 DEF readMessageBegin, Ours
<1>5. ASSUME NEW t \in Threads, Leaving(t) PROVE Goal
  <2>1. PICK committed \in BOOLEAN : Left(t, committed)
    BY <1>5, LeavingLeft
  <2>2. QED
    BY <1>0, <2>1 DEF Left, Ours
<1>6. ASSUME NEW t \in Threads, getPending(t) PROVE Goal
  BY <1>0, <1>6 DEF getPending, stay, Ours
<1>7. ASSUME NEW t \in Threads, updatePending(t) PROVE Goal
  BY <1>0, <1>7 DEF updatePending, stay, Ours
<1>8. ASSUME NEW t \in Threads,
             \/ generateSeqId(t) \/ callRefused(t) \/ sendFails(t) \/ lock(t) \/ waitTest(t)
             \/ waitForever(t) \/ wake(t)
      PROVE Goal
  BY <1>0, <1>8 DEF generateSeqId, callRefused, sendFails, lock, waitTest, waitForever, wake,
     stay, Ours
<1>9. ASSUME NEW m \in requests, Serve(m) PROVE Goal
  <2>1. PICK a \in OurAnswers : replies' = Append(replies, a) /\ requests' = requests \ {m}
    BY <1>9, ServeFacts
  <2>2. replies' \in Seq(OurAnswers)
    BY <2>1, AppendFacts DEF Ours
  <2>3. QED
    BY <1>9, <2>1, <2>2 DEF Serve, Ours
<1>10. CASE UNCHANGED vars
  BY <1>10 DEF vars, Ours
<1>11. QED
  BY <1>3, <1>4, <1>5, <1>6, <1>7, <1>8, <1>9, <1>10 DEF Next, Steps, Leaving

(***************************************************************************)
(* What holds of threads, calls and messages together.                     *)
(***************************************************************************)
Calls == Typed /\ Numbered /\ Ours

LEMMA CallsHold == Spec => []Calls
<1>1. Init => Calls
  BY TypeInit, NumberedInit, OursInit DEF Calls
<1>2. Calls /\ [Next]_vars => Calls'
  BY TypeStep, NumberedStep, OursStep DEF Calls
<1>3. QED
  BY <1>1, <1>2, PTL DEF Spec

-----------------------------------------------------------------------------
(* Refinement *)

(***************************************************************************)
(* An answer with the number of t's call is an answer to t's request, so   *)
(* what t makes of it is its own answer or an exception.                   *)
(***************************************************************************)
LEMMA OwnAnswer ==
  ASSUME Calls, NEW t \in Threads, active(t), NEW a \in OurAnswers, a.seqid = seqid[t]
  PROVE  Right(result(method[t], a), method[t], t, seqid[t])
<1>1. service \in Services
  BY DEF Calls, Typed, TypeOK
<1>2. PICK n \in 1..MaxCalls, u \in Threads : Caller(n, u) /\ a \in AnswersTo(n, u)
  BY OurFacts
<1>3. a.seqid = n
  BY <1>2, OurNumbers DEF Calls
<1>4. u = t
  BY <1>2, <1>3 DEF Caller
<1>5. method[t] = Program[service][n]
  BY <1>3 DEF Calls, Numbered
<1>6. PICK o \in outcomes(request(Program[service][n], t, n)) :
        a = answer(service, request(Program[service][n], t, n), o)
  BY <1>2, <1>4 DEF AnswersTo, req
<1>7. Right(result(Program[service][n], a), Program[service][n], t, n)
  BY <1>1, <1>6, RoundTrip
<1>8. QED
  BY <1>3, <1>5, <1>7

LEMMA ReturnIs == \A v : Return(v).thrown = FALSE /\ Return(v).value = v
BY DEF Return

LEMMA ThrowIs == \A x : Throw(x).thrown = TRUE /\ Throw(x).value = x
BY DEF Throw

LEMMA EndsWell ==
  ASSUME Calls, NEW t \in Threads, Leaving(t)
  PROVE  ended(t)' \in {"own answer", "exception"}
<1>0. /\ DOMAIN outcome = Threads
      /\ UNCHANGED <<method, seqid>>
  <2>1. PICK committed \in BOOLEAN : Left(t, committed)
    BY LeavingLeft
  <2>2. QED
    BY <2>1 DEF Left, Calls, Typed
<1>1. ASSUME outcome'[t] = DeadConnection \/ outcome'[t] = Throw("TApplicationException")
      PROVE  ended(t)' = "exception"
  <2>0. PICK x \in {"TTransportException", "TApplicationException"} : outcome'[t] = Throw(x)
    BY <1>1 DEF DeadConnection
  <2>1. outcome'[t].thrown = TRUE /\ outcome'[t].value # "not called"
    <3>1. outcome'[t].thrown = TRUE /\ outcome'[t].value = x
      BY <2>0, ThrowIs
    <3>2. QED
      BY <3>1
  <2>2. outcome'[t] # NotCalled
    BY <2>1, ThrowIs DEF NotCalled
  <2>3. QED
    BY <2>1, <2>2 DEF ended
<1>2. CASE throwDeadConnection(t) \/ readFails(t)
  <2>1. outcome'[t] = DeadConnection
    BY <1>0, <1>2 DEF throwDeadConnection, readFails, leave
  <2>2. QED
    BY <1>1, <2>1
<1>3. CASE receive(t)
  <2>1. /\ active(t) /\ header[t] \in OurAnswers /\ header[t].seqid = seqid[t]
        /\ outcome'[t] = result(method[t], header[t])
    BY <1>0, <1>3 DEF receive, leave, active, Calls, Ours
  <2>2. Right(outcome'[t], method[t], t, seqid[t])
    BY <2>1, OwnAnswer
  <2>3. CASE outcome'[t] = Throw("TApplicationException")
    BY <1>1, <2>3
  <2>4. CASE outcome'[t] = Return(own(method[t], t, seqid[t]))
    <3>1. outcome'[t].thrown = FALSE /\ outcome'[t].value = own(method[t], t, seqid[t])
      BY <2>4, ReturnIs
    <3>2. outcome'[t] # NotCalled
      BY <3>1, ThrowIs DEF NotCalled
    <3>3. ownAnswer(t)' = own(method[t], t, seqid[t])
      BY <1>0 DEF ownAnswer, own
    <3>4. ended(t)' = "own answer"
      BY <3>1, <3>2, <3>3 DEF ended
    <3>5. QED
      BY <3>4
  <2>5. QED
    BY <2>2, <2>3, <2>4 DEF Right
<1>4. QED
  BY <1>2, <1>3 DEF Leaving

calling == {t \in Threads : pc[t] # "idle"}
last == [t \in Threads |-> ended(t)]

LEMMA EndedStays ==
  ASSUME NEW t \in Threads,
         outcome'[t] = outcome[t], method'[t] = method[t], seqid'[t] = seqid[t]
  PROVE  ended(t)' = ended(t)
<1>1. ownAnswer(t)' = ownAnswer(t)
  BY DEF ownAnswer
<1>2. QED
  BY <1>1 DEF ended

LEMMA StepIsRemoteStep ==
  ASSUME Calls, [Next]_vars
  PROVE  [Abstract!Next]_(Abstract!vars)
<1> USE DEF calling, last
<1>0. /\ DOMAIN outcome = Threads /\ DOMAIN method = Threads /\ DOMAIN seqid = Threads
      /\ DOMAIN pc = Threads
  BY DEF Calls, Typed, TypeOK
<1>1. ASSUME NEW t \in Threads, generateSeqId(t) PROVE Abstract!Next
  <2>1. calling' = calling \cup {t} /\ t \notin calling
    BY <1>0, <1>1 DEF generateSeqId
  <2>2. \A u \in Threads : u # t => ended(u)' = ended(u)
    BY <1>0, <1>1, EndedStays DEF generateSeqId
  <2>3. ended(t)' = "none"
    BY <1>0, <1>1 DEF generateSeqId, ended
  <2>4. Abstract!Begin(t)
    BY <2>1, <2>2, <2>3 DEF Abstract!Begin
  <2>5. QED
    BY <2>4 DEF Abstract!Next
<1>2. ASSUME NEW t \in Threads, callRefused(t) \/ sendFails(t) \/ Leaving(t)
      PROVE  /\ \A u \in Threads : u # t => ended(u)' = ended(u)
             /\ ended(t)' \in {"own answer", "exception"}
             /\ callRefused(t) => ended(t)' = "exception"
  <2>1. ASSUME callRefused(t) \/ sendFails(t) PROVE ended(t)' = "exception"
    <3>1. outcome'[t] = DeadConnection
      BY <1>0, <2>1 DEF callRefused, sendFails
    <3>2. outcome'[t].thrown = TRUE /\ outcome'[t].value # "not called"
      <4>1. outcome'[t].thrown = TRUE /\ outcome'[t].value = "TTransportException"
        BY <3>1, ThrowIs DEF DeadConnection
      <4>2. QED
        BY <4>1
    <3>3. outcome'[t] # NotCalled
      BY <3>2, ThrowIs DEF NotCalled
    <3>4. QED
      BY <3>2, <3>3 DEF ended
  <2>2. (\E o : outcome' = [outcome EXCEPT ![t] = o]) /\ UNCHANGED <<method, seqid>>
    <3>1. CASE callRefused(t) \/ sendFails(t)
      BY <3>1 DEF callRefused, sendFails
    <3>2. CASE Leaving(t)
      <4>1. PICK committed \in BOOLEAN : Left(t, committed)
        BY <3>2, LeavingLeft
      <4>2. QED
        BY <4>1 DEF Left
    <3>3. QED
      BY <1>2, <3>1, <3>2
  <2>3. \A u \in Threads : u # t => ended(u)' = ended(u)
    BY <1>0, <2>2, EndedStays
  <2>4. QED
    BY <1>2, <2>1, <2>3, EndsWell
<1>3. ASSUME NEW t \in Threads, callRefused(t) PROVE Abstract!Next
  <2>1. calling' = calling /\ t \notin calling
    BY <1>3 DEF callRefused
  <2>2. Abstract!Refuse(t)
    BY <1>2, <1>3, <2>1 DEF Abstract!Refuse
  <2>3. QED
    BY <2>2 DEF Abstract!Next
<1>4. ASSUME NEW t \in Threads, sendFails(t) \/ Leaving(t) PROVE Abstract!Next
  <2>1. calling' = calling \ {t} /\ t \in calling
    <3>1. pc' = [pc EXCEPT ![t] = "idle"] /\ pc[t] # "idle"
      <4>1. CASE sendFails(t)
        BY <4>1 DEF sendFails
      <4>2. CASE Leaving(t)
        BY <4>2, LeavingLeft DEF Left
      <4>3. QED
        BY <1>4, <4>1, <4>2
    <3>2. QED
      BY <1>0, <3>1
  <2>2. \A u \in Threads : u # t => ended(u)' = ended(u)
    BY <1>2, <1>4
  <2>3. CASE ended(t)' = "own answer"
    BY <2>1, <2>2, <2>3 DEF Abstract!Next, Abstract!Ends, Abstract!End
  <2>4. CASE ended(t)' = "exception"
    BY <2>1, <2>2, <2>4 DEF Abstract!Next, Abstract!Ends, Abstract!End
  <2>5. QED
    BY <1>2, <1>4, <2>3, <2>4
<1>5. ASSUME NEW t \in Threads,
             \/ send(t) \/ lock(t) \/ getPending(t) \/ readMessageBegin(t)
             \/ updatePending(t) \/ waitTest(t) \/ waitForever(t) \/ wake(t)
      PROVE UNCHANGED Abstract!vars
  <2>1. UNCHANGED <<outcome, method, seqid>>
        /\ \A u \in Threads : pc'[u] # "idle" <=> pc[u] # "idle"
    BY <1>0, <1>5 DEF send, lock, getPending, readMessageBegin, updatePending, waitTest,
       waitForever, wake, stay
  <2>2. \A u \in Threads : ended(u)' = ended(u)
    BY <2>1, EndedStays
  <2>3. QED
    BY <2>1, <2>2 DEF Abstract!vars
<1>6. ASSUME (\E m \in requests : Serve(m)) \/ UNCHANGED vars PROVE UNCHANGED Abstract!vars
  <2>1. UNCHANGED <<outcome, method, seqid, pc>>
    BY <1>6 DEF Serve, vars
  <2>2. \A u \in Threads : ended(u)' = ended(u)
    BY <2>1, EndedStays
  <2>3. QED
    BY <2>1, <2>2 DEF Abstract!vars
<1>7. QED
  BY <1>1, <1>3, <1>4, <1>5, <1>6 DEF Next, Steps, Leaving

(***************************************************************************)
(* However the threads, the answers and the failures interleave, a call    *)
(* ends with the answer to its own request or with an exception.           *)
(***************************************************************************)
THEOREM CallsAreRemoteCalls == Spec => ImplementsRemoteCalls
<1>1. Init => Abstract!Init
  <2> SUFFICES ASSUME Init PROVE Abstract!Init
    OBVIOUS
  <2>1. \A t \in Threads : ended(t) = "none" /\ pc[t] = "idle"
    BY DEF Init, ended
  <2>2. QED
    BY <2>1 DEF Abstract!Init
<1>2. Calls /\ [Next]_vars => [Abstract!Next]_(Abstract!vars)
  BY StepIsRemoteStep
<1>3. QED
  BY <1>1, <1>2, CallsHold, PTL DEF Spec, ImplementsRemoteCalls, Abstract!Spec

-----------------------------------------------------------------------------
(* Every answer has its owner *)

(***************************************************************************)
(* A number is on the way at most once: in a request, in the stream, or in *)
(* the hand of the reader or pending; not before its request is sent, and  *)
(* nothing is pending while a thread reads.                                *)
(***************************************************************************)
Once ==
  /\ Distinct(replies)
  /\ \A m, k \in requests : m.seqid = k.seqid => m = k
  /\ ReqIds \cap Ids(replies) = {}
  /\ HandIds \cap (ReqIds \cup Ids(replies)) = {}
  /\ \A t \in Threads : pc[t] \in {"read", "header"} => recvPending_ = NoMessage
  /\ \A t \in Threads : pc[t] = "send" => seqid[t] \notin Transit

(***************************************************************************)
(* The numbers on the way are registered.  After a failure those who fail  *)
(* take theirs away, and only the one that still reads relies on it.       *)
(***************************************************************************)
Registered ==
  ~stop_ \/ (\E t \in Threads : pc[t] \in {"read", "header"}) => Transit \subseteq seqids

LEMMA OneReader ==
  ASSUME Typed
  PROVE  \A t, u \in Threads : pc[t] \in Reading /\ pc[u] \in Reading => t = u
BY DEF Typed, TypeOK, Reading

LEMMA InTransit ==
  ASSUME Calls
  PROVE  Transit \subseteq 1..(nextseqid_ - 1)
<1>1. ReqIds \subseteq 1..(nextseqid_ - 1)
  BY OurNumbers DEF ReqIds, Calls, Ours
<1>2. HandIds \subseteq 1..(nextseqid_ - 1)
  BY OurNumbers DEF HandIds, Calls, Ours
<1>3. Ids(replies) \subseteq 1..(nextseqid_ - 1)
  <2>1. \A k \in 1..Len(replies) : replies[k] \in OurAnswers
    BY DEF Calls, Ours
  <2>2. QED
    BY <2>1, OurNumbers DEF Ids, Calls
<1>4. QED
  BY <1>1, <1>2, <1>3 DEF Transit

LEMMA NewNumber ==
  ASSUME Calls
  PROVE  nextseqid_ \notin Transit
<1>1. nextseqid_ \in Int
  BY CallsAssumption DEF Calls, Typed, TypeOK
<1>2. nextseqid_ \notin 1..(nextseqid_ - 1)
  BY <1>1
<1>3. QED
  BY <1>2, InTransit

LEMMA OnceInit == Init => Once /\ Registered
<1> SUFFICES ASSUME Init PROVE Once /\ Registered
  OBVIOUS
<1>1. ReqIds = {} /\ HandIds = {} /\ Ids(replies) = {} /\ Distinct(replies)
  BY DEF Init, ReqIds, HandIds, Ids, Distinct
<1>2. QED
  BY <1>1 DEF Init, Once, Registered, Transit

(***************************************************************************)
(* What holds of the messages once their numbers have moved on.            *)
(***************************************************************************)
LEMMA OnceStep ==
  ASSUME Calls, Once, Registered, [Next]_vars
  PROVE  Once' /\ Registered'
<1>0. /\ DOMAIN pc = Threads /\ DOMAIN seqid = Threads /\ DOMAIN header = Threads
      /\ \A t, u \in Threads : pc[t] \in Reading /\ pc[u] \in Reading => t = u
  BY OneReader DEF Calls, Typed, TypeOK
<1> USE <1>0
<1>1. ASSUME NEW t \in Threads, generateSeqId(t) PROVE Once' /\ Registered'
  <2>1. UNCHANGED <<requests, replies, recvPending_, header, stop_>>
        /\ seqid' = [seqid EXCEPT ![t] = nextseqid_]
        /\ seqids' = seqids \cup {nextseqid_}
        /\ pc[t] = "idle" /\ pc' = [pc EXCEPT ![t] = "send"]
    BY <1>1 DEF generateSeqId
  <2>2. ReqIds' = ReqIds /\ Ids(replies)' = Ids(replies) /\ HandIds' = HandIds
    BY <2>1 DEF ReqIds, Ids, HandIds
  <2>3. Transit' = Transit
    BY <2>2 DEF Transit
  <2>4. Once'
    BY <2>1, <2>2, <2>3, NewNumber DEF Once, Distinct
  <2>5. Registered'
    BY <2>1, <2>3 DEF Registered
  <2>6. QED
    BY <2>4, <2>5
<1>2. ASSUME NEW t \in Threads, send(t) PROVE Once' /\ Registered'
  <2>1. PICK m \in OurRequests : m.seqid = seqid[t] /\ requests' = requests \cup {m}
    BY <1>2, SendFacts DEF Calls
  <2>2. UNCHANGED <<replies, recvPending_, header, stop_, seqid, seqids>>
        /\ pc[t] = "send" /\ pc' = [pc EXCEPT ![t] = "recv"]
    BY <1>2 DEF send
  <2>3. /\ ReqIds' = ReqIds \cup {seqid[t]} /\ Ids(replies)' = Ids(replies)
        /\ HandIds' = HandIds
    BY <2>1, <2>2 DEF ReqIds, Ids, HandIds
  <2>4. seqid[t] \notin Transit /\ seqid[t] \in seqids
        /\ \A u \in Threads : pc[u] = "send" /\ seqid[u] = seqid[t] => u = t
    BY <2>2 DEF Once, Calls, Numbered, active
  <2>5. \A k \in requests : k.seqid # m.seqid
    BY <2>1, <2>4 DEF Transit, ReqIds
  <2>6. Transit' = Transit \cup {seqid[t]}
    BY <2>3 DEF Transit
  <2>7. Once'
    BY <2>1, <2>2, <2>3, <2>4, <2>5, <2>6 DEF Once, Distinct, Transit
  <2>8. Registered'
    BY <2>2, <2>4, <2>6 DEF Registered
  <2>9. QED
    BY <2>7, <2>8
<1>3. ASSUME NEW m \in requests, Serve(m) PROVE Once' /\ Registered'
  <2>1. PICK a \in OurAnswers : /\ a.seqid = m.seqid /\ replies' = Append(replies, a)
                                /\ requests' = requests \ {m}
    BY <1>3, ServeFacts DEF Calls
  <2>2. UNCHANGED <<pc, recvPending_, header, stop_, seqid, seqids>>
    BY <1>3 DEF Serve
  <2>3. m.seqid \in ReqIds /\ m.seqid \notin Ids(replies)
    BY DEF ReqIds, Once
  <2>4. Ids(replies)' = Ids(replies) \cup {m.seqid} /\ Distinct(replies)'
    BY <2>1, <2>3, AppendFacts DEF Calls, Ours, Once
  <2>5. ReqIds' = ReqIds \ {m.seqid}
    BY <2>1 DEF ReqIds, Once
  <2>6. HandIds' = HandIds
    BY <2>2 DEF HandIds
  <2>7. Transit' = Transit
    BY <2>3, <2>4, <2>5, <2>6 DEF Transit
  <2>8. Once'
    BY <2>1, <2>2, <2>3, <2>4, <2>5, <2>6, <2>7 DEF Once
  <2>9. QED
    BY <2>2, <2>7, <2>8 DEF Registered
<1>4. ASSUME NEW t \in Threads, readMessageBegin(t) PROVE Once' /\ Registered'
  <2> DEFINE a == Head(replies)
  <2>1. UNCHANGED <<requests, recvPending_, stop_, seqid, seqids>>
        /\ replies # <<>> /\ replies' = Tail(replies) /\ header' = [header EXCEPT ![t] = a]
        /\ pc[t] = "read" /\ pc' = [pc EXCEPT ![t] = "header"]
    BY <1>4 DEF readMessageBegin
  <2>2. /\ a.seqid \in Ids(replies) /\ Distinct(replies)'
        /\ Ids(replies)' = Ids(replies) \ {a.seqid}
    BY <2>1, TailFacts DEF Calls, Ours, Once
  <2> HIDE DEF a
  <2>3. recvPending_ = NoMessage
    BY <2>1 DEF Once
  <2>4. \A u \in Threads : u # t => pc[u] \notin {"read", "header"}
    BY <2>1 DEF Reading
  <2>5. HandIds' = {a.seqid} /\ HandIds = {} /\ ReqIds' = ReqIds
    BY <2>1, <2>3, <2>4 DEF HandIds, ReqIds
  <2>6. Transit' = Transit
    BY <2>2, <2>5 DEF Transit
  <2>7. Once'
    BY <2>1, <2>2, <2>3, <2>4, <2>5, <2>6 DEF Once
  <2>8. Registered'
    BY <2>1, <2>6 DEF Registered
  <2>9. QED
    BY <2>7, <2>8
<1>5. ASSUME NEW t \in Threads, getPending(t) PROVE Once' /\ Registered'
  <2>1. UNCHANGED <<requests, replies, stop_, seqid, seqids>> /\ ~stop_
        /\ recvPending_' = NoMessage /\ header' = [header EXCEPT ![t] = recvPending_]
        /\ pc[t] = "get"
        /\ pc' = [pc EXCEPT ![t] = IF recvPending_ = NoMessage THEN "read" ELSE "header"]
    BY <1>5 DEF getPending, stay
  <2>2. \A u \in Threads : pc[u] \notin {"read", "header"}
    BY <2>1 DEF Reading
  <2>3. HandIds' = HandIds /\ ReqIds' = ReqIds /\ Ids(replies)' = Ids(replies)
    BY <2>1, <2>2 DEF HandIds, ReqIds, Ids
  <2>4. Transit' = Transit
    BY <2>3 DEF Transit
  <2>5. Once'
    BY <2>1, <2>2, <2>3, <2>4 DEF Once, Distinct
  <2>6. Registered'
    BY <2>1, <2>4 DEF Registered
  <2>7. QED
    BY <2>5, <2>6
<1>6. ASSUME NEW t \in Threads, updatePending(t) PROVE Once' /\ Registered'
  <2>1. UNCHANGED <<requests, replies, stop_, seqid, seqids>>
        /\ recvPending_' = header[t] /\ header' = [header EXCEPT ![t] = NoMessage]
        /\ pc[t] = "header" /\ pc' = [pc EXCEPT ![t] = "test"]
    BY <1>6 DEF updatePending, stay
  <2>2. recvPending_ = NoMessage
    BY <2>1 DEF Once
  <2>3. \A u \in Threads : u # t => pc[u] \notin {"read", "header"}
    BY <2>1 DEF Reading
  <2>4. header[t] # NoMessage
    BY <2>1, OursNotNone DEF Calls, Ours
  <2>5. HandIds' = {header[t].seqid} /\ HandIds = {header[t].seqid}
    BY <2>1, <2>2, <2>3, <2>4 DEF HandIds
  <2>6. ReqIds' = ReqIds /\ Ids(replies)' = Ids(replies) /\ Transit' = Transit
    BY <2>1, <2>5 DEF ReqIds, Ids, Transit
  <2>7. Once'
    BY <2>1, <2>3, <2>5, <2>6 DEF Once, Distinct
  <2>8. Registered'
    BY <2>1, <2>6 DEF Registered
  <2>9. QED
    BY <2>7, <2>8
<1>7. ASSUME NEW t \in Threads, Leaving(t) PROVE Once' /\ Registered'
  <2>1. PICK committed \in BOOLEAN : Left(t, committed)
    BY <1>7, LeavingLeft
  <2>2. UNCHANGED <<requests, replies, recvPending_, seqid>>
        /\ seqids' = seqids \ {seqid[t]} /\ header' = [header EXCEPT ![t] = NoMessage]
        /\ stop_' = (stop_ \/ ~committed)
        /\ pc[t] \in {"get", "read", "header", "test"} /\ pc' = [pc EXCEPT ![t] = "idle"]
    BY <2>1 DEF Left
  <2>3. \A u \in Threads : pc'[u] \notin {"read", "header"}
    BY <2>2 DEF Reading
  <2>4. /\ ReqIds' = ReqIds /\ Ids(replies)' = Ids(replies)
        /\ HandIds' = {b.seqid : b \in {recvPending_} \ {NoMessage}}
        /\ HandIds' \subseteq HandIds
    BY <2>2, <2>3 DEF ReqIds, Ids, HandIds
  <2>5. Transit' \subseteq Transit
    BY <2>4 DEF Transit
  <2>6. Once'
    BY <2>2, <2>3, <2>4, <2>5 DEF Once, Distinct
  <2>7. CASE ~committed
    BY <2>2, <2>3, <2>6, <2>7 DEF Registered
  <2>8. CASE committed
    <3>1. pc[t] = "header" /\ header[t].seqid = seqid[t]
      BY <2>1, <2>8 DEF Left
    <3>2. recvPending_ = NoMessage
      BY <3>1 DEF Once
    <3>3. HandIds' = {} /\ seqid[t] \in HandIds
      BY <2>4, <3>1, <3>2 DEF HandIds
    <3>4. seqid[t] \notin Transit'
      BY <2>4, <3>3 DEF Transit, Once
    <3>5. Transit \subseteq seqids
      BY <3>1 DEF Registered
    <3>6. QED
      BY <2>2, <2>5, <2>6, <3>4, <3>5 DEF Registered
  <2>9. QED
    BY <2>7, <2>8
<1>8. ASSUME NEW t \in Threads,
             \/ callRefused(t) \/ sendFails(t) \/ lock(t) \/ waitTest(t) \/ waitForever(t)
             \/ wake(t)
      PROVE  Once' /\ Registered'
  <2>1. /\ UNCHANGED <<requests, replies, recvPending_, header, seqid, seqids>>
        /\ ~stop_' => ~stop_
        /\ \A u \in Threads : /\ pc'[u] \in {"read", "header"} <=> pc[u] \in {"read", "header"}
                              /\ pc'[u] = "header" <=> pc[u] = "header"
                              /\ pc'[u] = "send" => pc[u] = "send"
    BY <1>8 DEF callRefused, sendFails, lock, waitTest, waitForever, wake, stay
  <2>2. ReqIds' = ReqIds /\ Ids(replies)' = Ids(replies) /\ HandIds' = HandIds
    BY <2>1 DEF ReqIds, Ids, HandIds
  <2>3. Transit' = Transit
    BY <2>2 DEF Transit
  <2>4. Once'
    BY <2>1, <2>2, <2>3 DEF Once, Distinct
  <2>5. Registered'
    BY <2>1, <2>3 DEF Registered
  <2>6. QED
    BY <2>4, <2>5
<1>9. CASE UNCHANGED vars
  <2>1. UNCHANGED <<requests, replies, recvPending_, header, seqid, seqids, stop_, pc>>
    BY <1>9 DEF vars
  <2>2. ReqIds' = ReqIds /\ Ids(replies)' = Ids(replies) /\ HandIds' = HandIds
    BY <2>1 DEF ReqIds, Ids, HandIds
  <2>3. Transit' = Transit
    BY <2>2 DEF Transit
  <2>4. QED
    BY <2>1, <2>2, <2>3 DEF Once, Distinct, Registered
<1>10. QED
  BY <1>1, <1>2, <1>3, <1>4, <1>5, <1>6, <1>7, <1>8, <1>9 DEF Next, Steps, Leaving

LEMMA OnceHolds == Spec => [](Calls /\ Once /\ Registered)
<1>1. Calls /\ Once /\ Registered /\ [Next]_vars => (Once /\ Registered)'
  BY OnceStep
<1>2. QED
  BY <1>1, OnceInit, CallsHold, PTL DEF Spec

(***************************************************************************)
(* An answer in the hand of the reader has its number registered, so that  *)
(* updatePending always knows it, and a pending one has its owner inside a *)
(* call: nothing that was read is lost.                                    *)
(***************************************************************************)
THEOREM OwnersAreThere == Spec => []AnswerHasOwner
<1>1. Calls /\ Registered => AnswerHasOwner
  <2> SUFFICES ASSUME Calls, Registered PROVE AnswerHasOwner
    OBVIOUS
  <2>1. ASSUME NEW t \in Threads, pc[t] = "header" PROVE header[t].seqid \in seqids
    <3>1. header[t].seqid \in Transit
      BY <2>1 DEF Transit, HandIds
    <3>2. QED
      BY <2>1, <3>1 DEF Registered
  <2>2. ASSUME recvPending_ # NoMessage, ~stop_
        PROVE  \E t \in Threads : pc[t] # "idle" /\ seqid[t] = recvPending_.seqid
    <3>1. recvPending_.seqid \in Transit
      BY <2>2 DEF Transit, HandIds
    <3>2. recvPending_.seqid \in seqids
      BY <2>2, <3>1 DEF Registered
    <3>3. QED
      BY <2>2, <3>2 DEF Calls, Numbered, active
  <2>3. QED
    BY <2>1, <2>2 DEF AnswerHasOwner
<1>2. QED
  BY <1>1, OnceHolds, PTL

-----------------------------------------------------------------------------
(* Why they do not all wait *)

(***************************************************************************)
(* The wait of one thread is safe because of another: one that has yet to  *)
(* take readMutex_, or that has been woken.                                *)
(***************************************************************************)
coming(u) == pc[u] = "recv" \/ u \in notified
SomebodyComes == \E u \in Threads : coming(u)

(***************************************************************************)
(* A thread that has made up its mind to wait, and one that will once it   *)
(* finds no work.                                                          *)
(***************************************************************************)
WaitIsSafe ==
  \A t \in Threads : \/ pc[t] = "wait"
                     \/ pc[t] = "test" /\ ~stop_ /\ ~isWork(t)
                     => SomebodyComes

(***************************************************************************)
(* The owner of a pending answer is on its way to it.                      *)
(***************************************************************************)
OwnerComes ==
  recvPending_ # NoMessage /\ ~stop_ =>
    \E o \in Threads : /\ active(o) /\ seqid[o] = recvPending_.seqid
                       /\ pc[o] \in {"get", "test"} \/ coming(o)

(***************************************************************************)
(* wakeupSomeone_ is only off while a thread reads or an answer is pending *)
(* for another, or nobody has waited yet.                                  *)
(***************************************************************************)
NobodyWaitsUnread ==
  /\ ~wakeupSomeone_ /\ recvPending_ = NoMessage
  /\ \A t \in Threads : pc[t] \notin {"get", "read", "header"}
  => \A t \in Threads : pc[t] \notin {"test", "wait", "waiting"}

(***************************************************************************)
(* A failure while a thread reads has told all that wait.                  *)
(***************************************************************************)
DeadAreTold ==
  stop_ /\ (\E t \in Threads : pc[t] \in {"read", "header"}) => waiters \subseteq notified

Waiting == WaitIsSafe /\ OwnerComes /\ NobodyWaitsUnread /\ DeadAreTold /\ SomebodyReads

(***************************************************************************)
(* The latest of a set of calls is one of them.                            *)
(***************************************************************************)
LEMMA LatestIsElement ==
  ASSUME NEW N \in Nat, NEW S, S \subseteq 1..N, S # {}
  PROVE  latest(S) # {} /\ latest(S) \subseteq S
<1> DEFINE less == {p \in Nat \X Nat : p[1] < p[2]}
           left == {N - i : i \in S}
<1>1. IsWellFoundedOn(less, Nat)
  <2>1. OpToRel(<, Nat) = less
    BY DEF OpToRel
  <2>2. QED
    BY <2>1, NatLessThanWellFounded
<1>2. left \subseteq Nat /\ left # {}
  <2>1. \A i \in 1..N : N - i \in Nat
    OBVIOUS
  <2>2. QED
    BY <2>1
<1>3. S \subseteq Int
  OBVIOUS
<1> HIDE DEF less
<1>4. PICK x \in left : \A y \in left : ~(<<y, x>> \in less)
  <2> HIDE DEF left
  <2>1. QED
    BY <1>1, <1>2, WFMin
<1>5. PICK i \in S : x = N - i
  OBVIOUS
<1>6. \A j \in S : j <= i
  <2>1. ASSUME NEW j \in S, i < j PROVE FALSE
    <3>1. N - j \in left /\ N - j \in Nat /\ x \in Nat /\ N - j < x
      BY <1>3, <1>5, <2>1
    <3>2. <<N - j, x>> \in Nat \X Nat /\ <<N - j, x>>[1] < <<N - j, x>>[2]
      BY <3>1
    <3>3. QED
      BY <1>4, <3>1, <3>2 DEF less
  <2>2. QED
    BY <1>3, <2>1
<1>7. QED
  BY <1>6 DEF latest

(***************************************************************************)
(* Of the others that are in a call when one ends, those that wait have    *)
(* their number among the others', and if the client lives a thread with   *)
(* the latest of these numbers is woken or need not be.                    *)
(***************************************************************************)
LEMMA OthersAreKnown ==
  ASSUME Calls, NEW t \in Threads, NEW u \in Threads, pc[t] # "waiting", u \in waiters
  PROVE  seqid[u] \in seqids /\ (active(t) => seqid[u] \in seqids \ {seqid[t]})
BY DEF Calls, Numbered, active, waiters

LEMMA LatestIsActive ==
  ASSUME Calls, ~stop_, NEW t \in Threads, active(t), seqids \ {seqid[t]} # {}
  PROVE  \E u \in Threads \ {t} :
           active(u) /\ (u \in waiters => u \in owners(latest(seqids \ {seqid[t]})))
<1> DEFINE others == seqids \ {seqid[t]}
<1>1. seqids \subseteq 1..(nextseqid_ - 1) /\ nextseqid_ - 1 \in Nat
  BY CallsAssumption DEF Calls, Typed, TypeOK
<1>2. others \subseteq 1..(nextseqid_ - 1) /\ others # {}
  BY <1>1
<1> HIDE DEF others
<1>3. PICK n \in latest(others) : n \in others
  BY <1>1, <1>2, LatestIsElement
<1>4. n \in seqids /\ n # seqid[t]
  BY <1>3 DEF others
<1>5. PICK u \in Threads : active(u) /\ seqid[u] = n
  BY <1>4 DEF Calls, Numbered
<1>6. QED
  BY <1>3, <1>4, <1>5 DEF owners, others

LEMMA WaitingInit == Init => Waiting
BY DEF Init, Waiting, WaitIsSafe, OwnerComes, NobodyWaitsUnread, DeadAreTold, SomebodyReads,
   waiters, isWork

(***************************************************************************)
(* What every step needs: one thread has readMutex_, who is notified       *)
(* waits, and the functions have the threads as their domain.              *)
(***************************************************************************)
LEMMA Facts ==
  ASSUME Typed
  PROVE  /\ DOMAIN pc = Threads /\ DOMAIN seqid = Threads /\ DOMAIN header = Threads
         /\ \A t, u \in Threads : pc[t] \in Reading /\ pc[u] \in Reading => t = u
         /\ readMutex_ = Nobody => \A t \in Threads : pc[t] \notin Reading
         /\ \A t \in notified : t \in Threads /\ pc[t] = "waiting"
         /\ waiters \subseteq Threads
<1>1. \A t \in Threads : t # Nobody
  BY NobodyAssumption
<1>2. \A t \in notified : t \in Threads /\ pc[t] = "waiting"
  BY DEF Typed, TypeOK, waiters
<1>3. QED
  BY <1>1, <1>2, OneReader DEF Typed, TypeOK, Reading, waiters

LEMMA WaitingStep ==
  ASSUME Calls, Once, Registered, Waiting, [Next]_vars
  PROVE  Waiting'
<1>0. /\ DOMAIN pc = Threads /\ DOMAIN seqid = Threads /\ DOMAIN header = Threads
      /\ \A t, u \in Threads : pc[t] \in Reading /\ pc[u] \in Reading => t = u
      /\ readMutex_ = Nobody => \A t \in Threads : pc[t] \notin Reading
      /\ \A t \in notified : t \in Threads /\ pc[t] = "waiting"
  BY Facts DEF Calls
<1> USE <1>0
<1>1. ASSUME NEW t \in Threads, generateSeqId(t) \/ callRefused(t) \/ send(t) PROVE Waiting'
  <2>1. /\ UNCHANGED <<recvPending_, notified, stop_, wakeupSomeone_>>
        /\ pc[t] \in {"idle", "send"} /\ pc'[t] \in {"idle", "send", "recv"}
        /\ \A u \in Threads : u # t => pc'[u] = pc[u]
        /\ \A u \in Threads : active(u) => active(u)' /\ seqid'[u] = seqid[u]
    BY <1>1 DEF generateSeqId, callRefused, send, active
  <2>2. \A u \in Threads : coming(u) => coming(u)'
    BY <2>1 DEF coming
  <2>3. waiters' = waiters
    BY <2>1 DEF waiters
  <2>4. \A u \in Threads : pc'[u] = "test" => (isWork(u)' <=> isWork(u))
    BY <2>1 DEF isWork, active
  <2>5. WaitIsSafe'
    BY <2>1, <2>2, <2>4 DEF Waiting, WaitIsSafe, SomebodyComes
  <2>6. OwnerComes'
    BY <2>1, <2>2 DEF Waiting, OwnerComes
  <2>7. NobodyWaitsUnread'
    BY <2>1 DEF Waiting, NobodyWaitsUnread
  <2>8. DeadAreTold'
    BY <2>1, <2>3 DEF Waiting, DeadAreTold
  <2>9. SomebodyReads'
    BY <2>1, <2>3 DEF Waiting, SomebodyReads, active
  <2>10. QED
    BY <2>5, <2>6, <2>7, <2>8, <2>9 DEF Waiting
<1>2. ASSUME NEW t \in Threads, sendFails(t) PROVE Waiting'
  <2>1. /\ UNCHANGED <<recvPending_, seqid>> /\ stop_' /\ wakeupSomeone_'
        /\ notified' = notified \cup owners(seqids)
        /\ pc[t] = "send" /\ pc' = [pc EXCEPT ![t] = "idle"]
    BY <1>2 DEF sendFails
  <2>2. waiters' = waiters
    BY <2>1 DEF waiters
  <2>3. \A u \in waiters : u \in Threads /\ seqid[u] \in seqids
    BY <2>1, OthersAreKnown DEF waiters
  <2>4. waiters' \subseteq notified'
    BY <2>1, <2>2, <2>3 DEF owners
  <2>5. WaitIsSafe'
    BY <2>1 DEF Waiting, WaitIsSafe, SomebodyComes, coming
  <2>6. OwnerComes' /\ NobodyWaitsUnread' /\ DeadAreTold' /\ SomebodyReads'
    BY <2>1, <2>4 DEF OwnerComes, NobodyWaitsUnread, DeadAreTold, SomebodyReads
  <2>7. QED
    BY <2>5, <2>6 DEF Waiting
<1>3. ASSUME NEW t \in Threads, lock(t) PROVE Waiting'
  <2>1. /\ UNCHANGED <<recvPending_, seqid, notified, stop_, wakeupSomeone_>>
        /\ pc[t] = "recv" /\ pc' = [pc EXCEPT ![t] = "get"]
        /\ \A u \in Threads : pc[u] \notin Reading
    BY <1>3 DEF lock, stay
  <2>2. \A u \in Threads : pc'[u] \notin {"wait", "test", "read", "header"}
    BY <2>1 DEF Reading
  <2>3. WaitIsSafe' /\ DeadAreTold'
    BY <2>2 DEF WaitIsSafe, DeadAreTold
  <2>4. OwnerComes'
    BY <2>1 DEF Waiting, OwnerComes, coming, active
  <2>5. NobodyWaitsUnread' /\ SomebodyReads'
    BY <2>1 DEF NobodyWaitsUnread, SomebodyReads
  <2>6. QED
    BY <2>3, <2>4, <2>5 DEF Waiting
<1>4. ASSUME NEW t \in Threads, getPending(t) PROVE Waiting'
  <2>1. /\ UNCHANGED <<seqid, notified, stop_>> /\ ~stop_ /\ recvPending_' = NoMessage
        /\ pc[t] = "get" /\ pc'[t] \in {"read", "header"}
        /\ \A u \in Threads : u # t => pc'[u] = pc[u]
    BY <1>4 DEF getPending, stay
  <2>2. \A u \in Threads : pc'[u] \notin {"wait", "test"}
    BY <2>1 DEF Reading
  <2>3. WaitIsSafe' /\ OwnerComes' /\ DeadAreTold'
    BY <2>1, <2>2 DEF WaitIsSafe, OwnerComes, DeadAreTold
  <2>4. NobodyWaitsUnread' /\ SomebodyReads'
    BY <2>1 DEF NobodyWaitsUnread, SomebodyReads
  <2>5. QED
    BY <2>3, <2>4 DEF Waiting
<1>5. ASSUME NEW t \in Threads, readMessageBegin(t) PROVE Waiting'
  <2>1. /\ UNCHANGED <<recvPending_, seqid, notified, stop_, wakeupSomeone_>>
        /\ pc[t] = "read" /\ pc' = [pc EXCEPT ![t] = "header"]
    BY <1>5 DEF readMessageBegin
  <2>2. recvPending_ = NoMessage /\ waiters' = waiters
    BY <2>1 DEF Once, waiters
  <2>3. \A u \in Threads : pc'[u] \notin {"wait", "test"}
    BY <2>1 DEF Reading
  <2>4. WaitIsSafe' /\ OwnerComes'
    BY <2>1, <2>2, <2>3 DEF WaitIsSafe, OwnerComes
  <2>5. NobodyWaitsUnread' /\ SomebodyReads'
    BY <2>1 DEF NobodyWaitsUnread, SomebodyReads
  <2>6. DeadAreTold'
    BY <2>1, <2>2 DEF Waiting, DeadAreTold
  <2>7. QED
    BY <2>4, <2>5, <2>6 DEF Waiting
<1>6. ASSUME NEW t \in Threads, updatePending(t) PROVE Waiting'
  <2>1. /\ UNCHANGED <<seqid, stop_, wakeupSomeone_>>
        /\ recvPending_' = header[t] /\ header[t].seqid \in seqids
        /\ header[t].seqid # seqid[t]
        /\ notified' = notified \cup owners({header[t].seqid})
        /\ pc[t] = "header" /\ pc' = [pc EXCEPT ![t] = "test"]
    BY <1>6 DEF updatePending, stay
  <2>2. header[t] # NoMessage
    BY <2>1, OursNotNone DEF Calls, Ours
  <2>3. ~stop_ => \E o \in Threads : active(o)' /\ seqid'[o] = header[t].seqid /\ coming(o)'
    <3>1. SUFFICES ASSUME ~stop_
                   PROVE  \E o \in Threads : active(o)' /\ seqid'[o] = header[t].seqid /\ coming(o)'
      OBVIOUS
    <3>2. PICK o \in Threads : active(o) /\ seqid[o] = header[t].seqid
      BY <2>1, <3>1 DEF Calls, Numbered
    <3>3. o # t /\ pc[o] \notin Reading
      BY <2>1, <3>2 DEF Reading
    <3>4. header[t].seqid \in Transit
      BY <2>1 DEF Transit, HandIds
    <3>5. pc[o] # "send"
      BY <3>2, <3>4 DEF Once
    <3>6. pc[o] \in {"recv", "waiting"}
      BY <3>2, <3>3, <3>5 DEF Calls, Typed, TypeOK, Reading, active
    <3>7. pc[o] = "waiting" => o \in notified'
      BY <2>1, <3>2 DEF owners, waiters
    <3>8. QED
      BY <2>1, <3>2, <3>3, <3>6, <3>7 DEF coming, active
  <2>4. \A u \in Threads : pc'[u] \notin {"wait", "read", "header"}
    BY <2>1 DEF Reading
  <2>5. WaitIsSafe'
    BY <2>1, <2>3, <2>4 DEF WaitIsSafe, SomebodyComes
  <2>6. OwnerComes'
    BY <2>1, <2>3 DEF OwnerComes
  <2>7. NobodyWaitsUnread' /\ DeadAreTold' /\ SomebodyReads'
    BY <2>1, <2>2, <2>4 DEF NobodyWaitsUnread, DeadAreTold, SomebodyReads
  <2>8. QED
    BY <2>5, <2>6, <2>7 DEF Waiting
<1>7. ASSUME NEW t \in Threads, waitTest(t) PROVE Waiting'
  <2>1. /\ UNCHANGED <<seqid, stop_, wakeupSomeone_, recvPending_, notified>> /\ ~stop_
        /\ pc[t] = "test" /\ pc' = [pc EXCEPT ![t] = IF isWork(t) THEN "get" ELSE "wait"]
    BY <1>7 DEF waitTest, stay
  <2>2. \A u \in Threads : coming(u) => coming(u)'
    BY <2>1 DEF coming
  <2>3. \A u \in Threads : u # t => pc'[u] = pc[u] /\ pc[u] \notin Reading
    BY <2>1 DEF Reading
  <2>4. WaitIsSafe'
    <3>1. CASE isWork(t)
      BY <2>1, <2>3, <3>1 DEF WaitIsSafe, Reading
    <3>2. CASE ~isWork(t)
      <4>1. SomebodyComes
        BY <2>1, <3>2 DEF Waiting, WaitIsSafe
      <4>2. QED
        BY <2>2, <4>1 DEF WaitIsSafe, SomebodyComes
    <3>3. QED
      BY <3>1, <3>2
  <2>5. OwnerComes'
    <3>1. SUFFICES ASSUME recvPending_ # NoMessage PROVE OwnerComes'
      BY <2>1 DEF OwnerComes
    <3>2. PICK o \in Threads : /\ active(o) /\ seqid[o] = recvPending_.seqid
                               /\ pc[o] \in {"get", "test"} \/ coming(o)
      BY <2>1, <3>1 DEF Waiting, OwnerComes
    <3>3. o = t => isWork(t) /\ pc'[t] = "get"
      BY <2>1, <3>1, <3>2 DEF isWork
    <3>4. active(o)' /\ (pc'[o] \in {"get", "test"} \/ coming(o)')
      BY <2>2, <2>3, <3>2, <3>3 DEF active
    <3>5. QED
      BY <2>1, <3>2, <3>4 DEF OwnerComes
  <2>6. NobodyWaitsUnread'
    BY <2>1, <2>3 DEF Waiting, NobodyWaitsUnread, Reading, isWork
  <2>7. DeadAreTold' /\ SomebodyReads'
    BY <2>1 DEF DeadAreTold, SomebodyReads
  <2>8. QED
    BY <2>4, <2>5, <2>6, <2>7 DEF Waiting
<1>8. ASSUME NEW t \in Threads, waitForever(t) PROVE Waiting'
  <2>1. /\ UNCHANGED <<seqid, stop_, wakeupSomeone_, recvPending_>>
        /\ notified' = notified \ {t}
        /\ pc[t] = "wait" /\ pc' = [pc EXCEPT ![t] = "waiting"]
    BY <1>8 DEF waitForever, stay
  <2>2. \A u \in Threads : coming(u) => coming(u)' /\ u # t
    BY <2>1 DEF coming
  <2>3. \A u \in Threads : u # t => pc'[u] = pc[u] /\ pc[u] \notin Reading
    BY <2>1 DEF Reading
  <2>4. PICK c \in Threads : coming(c)
    BY <2>1 DEF Waiting, WaitIsSafe, SomebodyComes
  <2>5. \A u \in Threads : pc'[u] \notin Reading
    BY <2>1, <2>3 DEF Reading
  <2>6. WaitIsSafe' /\ DeadAreTold'
    BY <2>5 DEF WaitIsSafe, DeadAreTold, Reading
  <2>7. OwnerComes'
    BY <2>1, <2>2, <2>3 DEF Waiting, OwnerComes, active, Reading
  <2>8. NobodyWaitsUnread'
    BY <2>1, <2>3 DEF Waiting, NobodyWaitsUnread, Reading
  <2>9. SomebodyReads'
    BY <2>2, <2>4 DEF SomebodyReads, coming
  <2>10. QED
    BY <2>6, <2>7, <2>8, <2>9 DEF Waiting
<1>9. ASSUME NEW t \in Threads, wake(t) PROVE Waiting'
  <2>1. /\ UNCHANGED <<seqid, stop_, wakeupSomeone_, recvPending_>>
        /\ notified' = notified \ {t}
        /\ pc[t] = "waiting" /\ pc' = [pc EXCEPT ![t] = "test"]
        /\ \A u \in Threads : pc[u] \notin Reading
    BY <1>9 DEF wake, stay
  <2>2. \A u \in Threads : u # t /\ coming(u) => coming(u)'
    BY <2>1 DEF coming
  <2>3. ASSUME ~stop_, ~isWork(t) PROVE SomebodyComes'
    <3>1. ~wakeupSomeone_
      BY <2>3 DEF isWork
    <3>2. recvPending_ # NoMessage
      BY <2>1, <3>1 DEF Waiting, NobodyWaitsUnread, Reading
    <3>3. PICK o \in Threads : /\ seqid[o] = recvPending_.seqid
                               /\ pc[o] \in {"get", "test"} \/ coming(o)
      BY <2>3, <3>2 DEF Waiting, OwnerComes
    <3>4. o # t /\ coming(o)
      BY <2>1, <2>3, <3>2, <3>3 DEF isWork, Reading
    <3>5. QED
      BY <2>2, <3>4 DEF SomebodyComes
  <2>4. \A u \in Threads : pc'[u] \notin {"wait", "read", "header"}
    BY <2>1 DEF Reading
  <2>5. isWork(t)' <=> isWork(t)
    BY <2>1 DEF isWork
  <2>6. WaitIsSafe'
    BY <2>1, <2>3, <2>4, <2>5 DEF WaitIsSafe, Reading
  <2>7. OwnerComes'
    BY <2>1, <2>2 DEF Waiting, OwnerComes, active, Reading
  <2>8. NobodyWaitsUnread'
    BY <2>1 DEF Waiting, NobodyWaitsUnread, Reading
  <2>9. DeadAreTold' /\ SomebodyReads'
    BY <2>1, <2>4 DEF DeadAreTold, SomebodyReads
  <2>10. QED
    BY <2>6, <2>7, <2>8, <2>9 DEF Waiting
<1>10. ASSUME NEW t \in Threads, Leaving(t) PROVE Waiting'
  <2>1. PICK committed \in BOOLEAN : Left(t, committed)
    BY <1>10, LeavingLeft
  <2> DEFINE others == seqids \ {seqid[t]}
             told == owners(IF committed THEN latest(others) ELSE others)
  <2>2. /\ UNCHANGED <<seqid, recvPending_>> /\ wakeupSomeone_'
        /\ stop_' = (stop_ \/ ~committed)
        /\ notified' = notified \cup told
        /\ pc[t] \in {"get", "read", "header", "test"} /\ pc' = [pc EXCEPT ![t] = "idle"]
        /\ committed => pc[t] = "header"
    BY <2>1 DEF Left
  <2>3. \A u \in Threads : pc'[u] \notin Reading
    BY <2>2 DEF Reading
  <2>4. waiters' = waiters /\ active(t)
    BY <2>2 DEF waiters, active
  <2>5. WaitIsSafe' /\ DeadAreTold' /\ NobodyWaitsUnread'
    BY <2>2, <2>3 DEF WaitIsSafe, DeadAreTold, NobodyWaitsUnread, Reading
  <2>6. OwnerComes'
    <3>1. ~stop_' => recvPending_ = NoMessage
      BY <2>2 DEF Once
    <3>2. QED
      BY <2>2, <3>1 DEF OwnerComes
  <2>7. SomebodyReads'
    <3>1. SUFFICES ASSUME waiters # {} PROVE SomebodyReads'
      BY <2>4 DEF SomebodyReads
    <3>2. \A u \in waiters : seqid[u] \in others
      BY <2>2, <2>4, OthersAreKnown DEF waiters
    <3>3. CASE ~committed
      <4>1. waiters \subseteq notified'
        BY <2>2, <3>2, <3>3 DEF owners
      <4>2. QED
        BY <3>1, <4>1 DEF SomebodyReads
    <3>4. CASE committed /\ stop_
      <4>1. waiters \subseteq notified
        BY <2>2, <3>4 DEF Waiting, DeadAreTold
      <4>2. QED
        BY <2>2, <3>1, <4>1 DEF SomebodyReads
    <3>5. CASE committed /\ ~stop_
      <4>1. PICK u \in Threads \ {t} : active(u) /\ (u \in waiters => u \in told)
        BY <2>4, <3>1, <3>2, <3>5, LatestIsActive
      <4>2. pc'[u] # "idle" /\ (pc'[u] = "waiting" => u \in notified')
        BY <2>2, <4>1 DEF active, waiters
      <4>3. QED
        BY <4>2 DEF SomebodyReads
    <3>6. QED
      BY <3>3, <3>4, <3>5
  <2>8. QED
    BY <2>5, <2>6, <2>7 DEF Waiting
<1>11. ASSUME (\E m \in requests : Serve(m)) \/ UNCHANGED vars PROVE Waiting'
  <2>1. UNCHANGED <<pc, seqid, stop_, wakeupSomeone_, recvPending_, notified>>
    BY <1>11 DEF Serve, vars
  <2>2. QED
    BY <2>1 DEF Waiting, WaitIsSafe, OwnerComes, NobodyWaitsUnread, DeadAreTold,
       SomebodyReads, SomebodyComes, coming, isWork, active, waiters
<1>12. QED
  BY <1>1, <1>2, <1>3, <1>4, <1>5, <1>6, <1>7, <1>8, <1>9, <1>10, <1>11
  DEF Next, Steps, Leaving

(***************************************************************************)
(* While a thread waits, another has been woken or is on its way through   *)
(* the reading: the threads of a client never all sleep.                   *)
(***************************************************************************)
THEOREM NotAllWait == Spec => []SomebodyReads
<1>1. Calls /\ Once /\ Registered /\ Waiting /\ [Next]_vars => Waiting'
  BY WaitingStep
<1>2. Waiting => SomebodyReads
  BY DEF Waiting
<1>3. QED
  BY <1>1, <1>2, WaitingInit, OnceHolds, PTL DEF Spec
=============================================================================
