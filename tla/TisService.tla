----------------------------- MODULE TisService -----------------------------
(***************************************************************************)
(* The generated stubs of the filter service (src/src/thrift/TisService):  *)
(* arguments and results of its three methods on the wire, the client and  *)
(* the processor.  A client's send_ gives the message it writes, its recv_ *)
(* what the caller gets out of a message.  A processor's handler is what   *)
(* the service does with the arguments; its outcome is an input here.      *)
(***************************************************************************)
EXTENDS ThriftStructs

Nothing == [success |-> 0, isset |-> TRUE]   \* of a method that returns void

TisService_ping_pargs_write(a) == <<>>
TisService_ping_args_read(w) == [void |-> 0]
TisService_ping_result_write(r) == <<>>
TisService_ping_presult_read(w) == Nothing

TisService_reloadModel_pargs_write(a) == <<>>
TisService_reloadModel_args_read(w) == [void |-> 0]
TisService_reloadModel_result_write(r) ==
  IF r.isset THEN << Field(0, "I32", r.success) >> ELSE <<>>
TisService_reloadModel_presult_read(w) ==
  [success |-> i32(w, 0), isset |-> has(w, 0, "I32")]

TisService_check_pargs_write(a) == << Field(1, "STRUCT", RequestCheckStruct_write(a.req)) >>
TisService_check_args_read(w) == [req |-> RequestCheckStruct_read(struct(w, 1))]
TisService_check_result_write(r) ==
  IF r.isset THEN << Field(0, "STRUCT", CheckResultStruct_write(r.success)) >> ELSE <<>>
TisService_check_presult_read(w) ==
  [success |-> CheckResultStruct_read(struct(w, 0)), isset |-> has(w, 0, "STRUCT")]

-----------------------------------------------------------------------------
(* The plain client numbers every call 0 and does not look at the number   *)
(* of an answer; the concurrent client is given the number.                *)

TisServiceClient_send_ping == Message("ping", "CALL", 0, TisService_ping_pargs_write(<<>>))
TisServiceClient_send_reloadModel ==
  Message("reloadModel", "CALL", 0, TisService_reloadModel_pargs_write(<<>>))
TisServiceClient_send_check(req) ==
  Message("check", "CALL", 0, TisService_check_pargs_write([req |-> req]))

TisServiceClient_recv_ping(m) == received(m, "ping", TisService_ping_presult_read(m.body))
TisServiceClient_recv_reloadModel(m) ==
  received(m, "reloadModel", TisService_reloadModel_presult_read(m.body))
TisServiceClient_recv_check(m) ==
  received(m, "check", TisService_check_presult_read(m.body))

TisServiceConcurrentClient_send_ping(seqid) ==
  [TisServiceClient_send_ping EXCEPT !.seqid = seqid]
TisServiceConcurrentClient_send_reloadModel(seqid) ==
  [TisServiceClient_send_reloadModel EXCEPT !.seqid = seqid]
TisServiceConcurrentClient_send_check(req, seqid) ==
  [TisServiceClient_send_check(req) EXCEPT !.seqid = seqid]

TisServiceConcurrentClient_recv_ping(m) ==
  receivedChecked(m, "ping", TisServiceClient_recv_ping(m))
TisServiceConcurrentClient_recv_reloadModel(m) ==
  receivedChecked(m, "reloadModel", TisServiceClient_recv_reloadModel(m))
TisServiceConcurrentClient_recv_check(m) ==
  receivedChecked(m, "check", TisServiceClient_recv_check(m))

-----------------------------------------------------------------------------
process_ping(m, outcome) ==
  answered(m, "ping", outcome, TisService_ping_result_write(Nothing))
process_reloadModel(m, outcome) ==
  answered(m, "reloadModel", outcome,
           TisService_reloadModel_result_write([success |-> outcome.value, isset |-> TRUE]))
process_check(m, outcome) ==
  answered(m, "check", outcome,
           TisService_check_result_write([success |-> outcome.value, isset |-> TRUE]))

TisServiceProcessor_dispatchCall(m, outcome) ==
  CASE m.name = "ping"        -> process_ping(m, outcome)
    [] m.name = "reloadModel" -> process_reloadModel(m, outcome)
    [] m.name = "check"       -> process_check(m, outcome)
    [] OTHER                  -> unknownMethod(m)
=============================================================================
