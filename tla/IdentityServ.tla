---------------------------- MODULE IdentityServ ----------------------------
(***************************************************************************)
(* The generated stubs of the database service                             *)
(* (src/src/thrift/IdentityServ), as in TisService.                        *)
(***************************************************************************)
EXTENDS ThriftStructs

IdentityServ_GetIdentity_pargs_write(a) == << Field(1, "STRUCT", ReqProto_write(a.s)) >>
IdentityServ_GetIdentity_args_read(w) == [s |-> ReqProto_read(struct(w, 1))]
IdentityServ_GetIdentity_result_write(r) ==
  IF r.isset THEN << Field(0, "STRUCT", AckProto_write(r.success)) >> ELSE <<>>
IdentityServ_GetIdentity_presult_read(w) ==
  [success |-> AckProto_read(struct(w, 0)), isset |-> has(w, 0, "STRUCT")]

IdentityServ_StoreMessage_pargs_write(a) ==
  << Field(1, "STRUCT", ReqCheckResult_write(a.s)) >>
IdentityServ_StoreMessage_args_read(w) == [s |-> ReqCheckResult_read(struct(w, 1))]
IdentityServ_StoreMessage_result_write(r) ==
  IF r.isset THEN << Field(0, "I32", r.success) >> ELSE <<>>
IdentityServ_StoreMessage_presult_read(w) ==
  [success |-> i32(w, 0), isset |-> has(w, 0, "I32")]

-----------------------------------------------------------------------------
IdentityServClient_send_GetIdentity(s) ==
  Message("GetIdentity", "CALL", 0, IdentityServ_GetIdentity_pargs_write([s |-> s]))
IdentityServClient_send_StoreMessage(s) ==
  Message("StoreMessage", "CALL", 0, IdentityServ_StoreMessage_pargs_write([s |-> s]))

IdentityServClient_recv_GetIdentity(m) ==
  received(m, "GetIdentity", IdentityServ_GetIdentity_presult_read(m.body))
IdentityServClient_recv_StoreMessage(m) ==
  received(m, "StoreMessage", IdentityServ_StoreMessage_presult_read(m.body))

IdentityServConcurrentClient_send_GetIdentity(s, seqid) ==
  [IdentityServClient_send_GetIdentity(s) EXCEPT !.seqid = seqid]
IdentityServConcurrentClient_send_StoreMessage(s, seqid) ==
  [IdentityServClient_send_StoreMessage(s) EXCEPT !.seqid = seqid]

IdentityServConcurrentClient_recv_GetIdentity(m) ==
  receivedChecked(m, "GetIdentity", IdentityServClient_recv_GetIdentity(m))
IdentityServConcurrentClient_recv_StoreMessage(m) ==
  receivedChecked(m, "StoreMessage", IdentityServClient_recv_StoreMessage(m))

-----------------------------------------------------------------------------
process_GetIdentity(m, outcome) ==
  answered(m, "GetIdentity", outcome,
           IdentityServ_GetIdentity_result_write([success |-> outcome.value, isset |-> TRUE]))
process_StoreMessage(m, outcome) ==
  answered(m, "StoreMessage", outcome,
           IdentityServ_StoreMessage_result_write([success |-> outcome.value, isset |-> TRUE]))

IdentityServProcessor_dispatchCall(m, outcome) ==
  CASE m.name = "GetIdentity"  -> process_GetIdentity(m, outcome)
    [] m.name = "StoreMessage" -> process_StoreMessage(m, outcome)
    [] OTHER                   -> unknownMethod(m)
=============================================================================
