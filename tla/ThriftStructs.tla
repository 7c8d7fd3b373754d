---------------------------- MODULE ThriftStructs ----------------------------
(***************************************************************************)
(* The structures of the two services (tis_types and identity_types in     *)
(* src/src/thrift/), what they are on the wire, and the messages they      *)
(* travel in.                                                              *)
(*                                                                         *)
(* A structure on the wire is a sequence of fields up to the stop mark,    *)
(* each with its id, its type and its value, in the order of the writer;   *)
(* the value of a field of type "STRUCT" is such a sequence.  No writer    *)
(* puts a field twice.  A reader takes the fields it knows by id and type, *)
(* skips the others, and leaves what is absent as the constructor set it.  *)
(***************************************************************************)
EXTENDS Integers, Sequences

Field(fid, ftype, fval) == [fid |-> fid, ftype |-> ftype, fval |-> fval]

has(w, fid, ftype) == \E i \in DOMAIN w : w[i].fid = fid /\ w[i].ftype = ftype
value(w, fid, ftype, default) ==
  IF has(w, fid, ftype)
  THEN w[CHOOSE i \in DOMAIN w : w[i].fid = fid /\ w[i].ftype = ftype].fval
  ELSE default

i32(w, fid) == value(w, fid, "I32", 0)
byte(w, fid) == value(w, fid, "BYTE", 0)
string(w, fid) == value(w, fid, "STRING", "")
struct(w, fid) == value(w, fid, "STRUCT", <<>>)

-----------------------------------------------------------------------------
(* tis_types *)

CheckResultStruct ==
  [code |-> 0, action |-> 0, label |-> 0, level |-> 0, detail |-> ""]

CheckResultStruct_read(w) ==
  [code |-> i32(w, 1), action |-> i32(w, 2), label |-> i32(w, 3),
   level |-> i32(w, 4), detail |-> string(w, 5)]

\* Mutant of CheckResultStruct_write: code and action swapped.
CheckResultStruct_write_swapped(s) ==
  << Field(1, "I32", s.action), Field(2, "I32", s.code), Field(3, "I32", s.label),
     Field(4, "I32", s.level), Field(5, "STRING", s.detail) >>

CheckResultStruct_write(s) ==
  << Field(1, "I32", s.code), Field(2, "I32", s.action), Field(3, "I32", s.label),
     Field(4, "I32", s.level), Field(5, "STRING", s.detail) >>

RequestCheckStruct ==
  [appid |-> 0, gameid |-> 0, content |-> "", dataid |-> "", userid |-> "", ip |-> ""]

RequestCheckStruct_read(w) ==
  [appid |-> i32(w, 1), gameid |-> i32(w, 2), content |-> string(w, 3),
   dataid |-> string(w, 4), userid |-> string(w, 5), ip |-> string(w, 6)]

RequestCheckStruct_write(s) ==
  << Field(1, "I32", s.appid), Field(2, "I32", s.gameid), Field(3, "STRING", s.content),
     Field(4, "STRING", s.dataid), Field(5, "STRING", s.userid), Field(6, "STRING", s.ip) >>

-----------------------------------------------------------------------------
(* identity_types *)

ReqProto == [userid |-> 0]
ReqProto_read(w) == [userid |-> i32(w, 1)]
ReqProto_write(s) == << Field(1, "I32", s.userid) >>

AckProto == [identity |-> ""]
AckProto_read(w) == [identity |-> string(w, 1)]
AckProto_write(s) == << Field(1, "STRING", s.identity) >>

ReqCheckResult ==
  [message |-> "", flag |-> 0, appid |-> 0, gameid |-> 0, nick |-> "", type |-> 0,
   serverid |-> 0, userid |-> 0, rolegrade |-> 0, vipgrade |-> 0]

ReqCheckResult_read(w) ==
  [message |-> string(w, 1), flag |-> i32(w, 2), appid |-> i32(w, 3),
   gameid |-> i32(w, 4), nick |-> string(w, 5), type |-> byte(w, 6),
   serverid |-> i32(w, 7), userid |-> i32(w, 8), rolegrade |-> i32(w, 9),
   vipgrade |-> i32(w, 10)]

ReqCheckResult_write(s) ==
  << Field(1, "STRING", s.message), Field(2, "I32", s.flag), Field(3, "I32", s.appid),
     Field(4, "I32", s.gameid), Field(5, "STRING", s.nick), Field(6, "BYTE", s.type),
     Field(7, "I32", s.serverid), Field(8, "I32", s.userid), Field(9, "I32", s.rolegrade),
     Field(10, "I32", s.vipgrade) >>

-----------------------------------------------------------------------------
(* Messages, and how a call ends: it returns a value or throws *)

Message(name, mtype, seqid, body) ==
  [name |-> name, mtype |-> mtype, seqid |-> seqid, body |-> body]

Return(v) == [thrown |-> FALSE, value |-> v]
Throw(x) == [thrown |-> TRUE, value |-> x]

(***************************************************************************)
(* What a reader makes of message m, the answer to the method name, whose  *)
(* result it reads as r.  On a message of another type or name the plain   *)
(* client skips the body and reads on, where nothing comes.                *)
(***************************************************************************)
received(m, name, r) ==
  IF m.mtype = "EXCEPTION" THEN Throw("TApplicationException")
  ELSE IF m.mtype # "REPLY" \/ m.name # name THEN Throw("TTransportException")
  ELSE IF r.isset THEN Return(r.success) ELSE Throw("MISSING_RESULT")

(***************************************************************************)
(* The concurrent client gives up on a message of another name.  Only what *)
(* is returned and what the service threw leave its connection usable.     *)
(***************************************************************************)
receivedChecked(m, name, plain) ==
  IF m.mtype = "REPLY" /\ m.name # name THEN Throw("TProtocolException") ELSE plain
commits(outcome) == ~outcome.thrown \/ outcome.value = "TApplicationException"

(***************************************************************************)
(* The answer of a processor to m: how the call of the handler ended, the  *)
(* result written as body if it returned.                                  *)
(***************************************************************************)
answered(m, name, outcome, body) ==
  IF outcome.thrown
  THEN Message(name, "EXCEPTION", m.seqid, << Field(1, "STRING", outcome.value) >>)
  ELSE Message(name, "REPLY", m.seqid, body)
unknownMethod(m) ==
  Message(m.name, "EXCEPTION", m.seqid, << Field(1, "STRING", "Invalid method name") >>)
=============================================================================
