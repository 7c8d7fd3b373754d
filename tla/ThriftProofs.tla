---------------------------- MODULE ThriftProofs ----------------------------
(***************************************************************************)
(* What the reader of a structure finds of what its writer put in.         *)
(***************************************************************************)
EXTENDS TisService, IdentityServ, TLAPS

(***************************************************************************)
(* A reader finds the field that the writer put in.                        *)
(***************************************************************************)
LEMMA FieldFound ==
  ASSUME NEW w, NEW i \in DOMAIN w, NEW default,
         \A j \in DOMAIN w : w[j].fid = w[i].fid => j = i
  PROVE  /\ has(w, w[i].fid, w[i].ftype)
         /\ value(w, w[i].fid, w[i].ftype, default) = w[i].fval
<1>1. has(w, w[i].fid, w[i].ftype)
  BY DEF has
<1>2. (CHOOSE j \in DOMAIN w : w[j].fid = w[i].fid /\ w[j].ftype = w[i].ftype) = i
  OBVIOUS
<1>3. QED
  BY <1>1, <1>2 DEF value

LEMMA OnlyField ==
  ASSUME NEW w, NEW default, DOMAIN w = {1}
  PROVE  /\ has(w, w[1].fid, w[1].ftype) = TRUE
         /\ value(w, w[1].fid, w[1].ftype, default) = w[1].fval
<1>1. 1 \in DOMAIN w /\ \A j \in DOMAIN w : w[j].fid = w[1].fid => j = 1
  OBVIOUS
<1>2. has(w, w[1].fid, w[1].ftype) \in BOOLEAN
  BY DEF has
<1>3. QED
  BY <1>1, <1>2, FieldFound

LEMMA OneStruct ==
  ASSUME NEW id, NEW val
  PROVE  /\ struct(<< Field(id, "STRUCT", val) >>, id) = val
         /\ has(<< Field(id, "STRUCT", val) >>, id, "STRUCT") = TRUE
<1> DEFINE w == << Field(id, "STRUCT", val) >>
<1>1. DOMAIN w = {1} /\ w[1].fid = id /\ w[1].ftype = "STRUCT" /\ w[1].fval = val
  BY DEF Field
<1> HIDE DEF w
<1>2. has(w, id, "STRUCT") = TRUE /\ value(w, id, "STRUCT", <<>>) = val
  BY <1>1, OnlyField
<1>3. QED
  BY <1>2 DEF w, struct

LEMMA OneI32 ==
  ASSUME NEW id, NEW val
  PROVE  /\ i32(<< Field(id, "I32", val) >>, id) = val
         /\ has(<< Field(id, "I32", val) >>, id, "I32") = TRUE
<1> DEFINE w == << Field(id, "I32", val) >>
<1>1. DOMAIN w = {1} /\ w[1].fid = id /\ w[1].ftype = "I32" /\ w[1].fval = val
  BY DEF Field
<1> HIDE DEF w
<1>2. has(w, id, "I32") = TRUE /\ value(w, id, "I32", 0) = val
  BY <1>1, OnlyField
<1>3. QED
  BY <1>2 DEF w, i32

LEMMA OneString ==
  ASSUME NEW id, NEW val
  PROVE  /\ string(<< Field(id, "STRING", val) >>, id) = val
         /\ has(<< Field(id, "STRING", val) >>, id, "STRING") = TRUE
<1> DEFINE w == << Field(id, "STRING", val) >>
<1>1. DOMAIN w = {1} /\ w[1].fid = id /\ w[1].ftype = "STRING" /\ w[1].fval = val
  BY DEF Field
<1> HIDE DEF w
<1>2. has(w, id, "STRING") = TRUE /\ value(w, id, "STRING", "") = val
  BY <1>1, OnlyField
<1>3. QED
  BY <1>2 DEF w, string

(***************************************************************************)
(* The structures that have several fields come through as they are.       *)
(***************************************************************************)
LEMMA ContentFound ==
  ASSUME NEW s
  PROVE  string(RequestCheckStruct_write(s), 3) = s.content
<1> DEFINE w == RequestCheckStruct_write(s)
<1>1. /\ DOMAIN w = 1..6 /\ \A j \in 1..6 : w[j].fid = j
      /\ w[3].ftype = "STRING" /\ w[3].fval = s.content
  BY DEF Field, RequestCheckStruct_write
<1> HIDE DEF w
<1>2. 3 \in DOMAIN w /\ \A j \in DOMAIN w : w[j].fid = w[3].fid => j = 3
  BY <1>1
<1>3. value(w, w[3].fid, w[3].ftype, "") = w[3].fval
  BY <1>2, FieldFound
<1>4. value(w, 3, "STRING", "") = s.content
  <2>1. w[3].fid = 3
    BY <1>1
  <2>2. QED
    BY <1>1, <1>3, <2>1
<1>5. QED
  BY <1>4 DEF string, w

LEMMA CheckResultFound ==
  ASSUME NEW s, s = [code |-> s.code, action |-> s.action, label |-> s.label,
                     level |-> s.level, detail |-> s.detail]
  PROVE  CheckResultStruct_read(CheckResultStruct_write(s)) = s
<1> DEFINE w == CheckResultStruct_write(s)
<1>1. /\ DOMAIN w = 1..5 /\ \A j \in 1..5 : w[j].fid = j
      /\ \A j \in 1..4 : w[j].ftype = "I32"
      /\ w[5].ftype = "STRING"
      /\ w[1].fval = s.code /\ w[2].fval = s.action /\ w[3].fval = s.label
      /\ w[4].fval = s.level /\ w[5].fval = s.detail
  BY DEF Field, CheckResultStruct_write
<1> HIDE DEF w
<1>2. \A i \in 1..5 : \A d : value(w, i, w[i].ftype, d) = w[i].fval
  <2> SUFFICES ASSUME NEW i \in 1..5, NEW d PROVE value(w, i, w[i].ftype, d) = w[i].fval
    OBVIOUS
  <2>1. i \in DOMAIN w /\ w[i].fid = i /\ \A j \in DOMAIN w : w[j].fid = w[i].fid => j = i
    BY <1>1
  <2>2. value(w, w[i].fid, w[i].ftype, d) = w[i].fval
    BY <2>1, FieldFound
  <2>3. QED
    BY <2>1, <2>2
<1>3. /\ i32(w, 1) = s.code /\ i32(w, 2) = s.action /\ i32(w, 3) = s.label
      /\ i32(w, 4) = s.level /\ string(w, 5) = s.detail
  <2>1. \A i \in 1..4 : i \in 1..5 /\ w[i].ftype = "I32"
    BY <1>1
  <2>2. 1 \in 1..4 /\ 2 \in 1..4 /\ 3 \in 1..4 /\ 4 \in 1..4 /\ 5 \in 1..5
    OBVIOUS
  <2>3. \A i \in 1..4 : i32(w, i) = w[i].fval
    BY <1>2, <2>1, Zenon DEF i32
  <2>4. string(w, 5) = w[5].fval
    <3>1. value(w, 5, w[5].ftype, "") = w[5].fval
      BY <1>2, <2>2
    <3>2. QED
      BY <1>1, <3>1 DEF string
  <2>5. QED
    BY <1>1, <2>2, <2>3, <2>4, Zenon
<1>4. QED
  BY <1>3 DEF w, CheckResultStruct_read

LEMMA CodesFound ==
  ASSUME NEW s
  PROVE  /\ i32(CheckResultStruct_write(s), 1) = s.code
         /\ i32(CheckResultStruct_write(s), 2) = s.action
<1> DEFINE w == CheckResultStruct_write(s)
<1>1. /\ DOMAIN w = 1..5 /\ \A j \in 1..5 : w[j].fid = j
      /\ w[1].ftype = "I32" /\ w[1].fval = s.code
      /\ w[2].ftype = "I32" /\ w[2].fval = s.action
  BY DEF Field, CheckResultStruct_write
<1> HIDE DEF w
<1>2. \A i \in {1, 2} : i32(w, i) = w[i].fval
  <2> SUFFICES ASSUME NEW i \in {1, 2} PROVE i32(w, i) = w[i].fval
    OBVIOUS
  <2>1. i \in DOMAIN w /\ \A j \in DOMAIN w : w[j].fid = w[i].fid => j = i
    BY <1>1
  <2>2. value(w, w[i].fid, w[i].ftype, 0) = w[i].fval
    BY <2>1, FieldFound
  <2>3. w[i].fid = i /\ w[i].ftype = "I32"
    BY <1>1
  <2>4. QED
    BY <2>2, <2>3 DEF i32
<1>3. QED
  BY <1>1, <1>2 DEF w

LEMMA RecordFound ==
  ASSUME NEW s, s = [message |-> s.message, flag |-> s.flag, appid |-> s.appid,
                     gameid |-> s.gameid, nick |-> s.nick, type |-> s.type,
                     serverid |-> s.serverid, userid |-> s.userid,
                     rolegrade |-> s.rolegrade, vipgrade |-> s.vipgrade]
  PROVE  ReqCheckResult_read(ReqCheckResult_write(s)) = s
<1> DEFINE w == ReqCheckResult_write(s)
           ints == {2, 3, 4, 7, 8, 9, 10}
<1>1. /\ DOMAIN w = 1..10 /\ \A j \in 1..10 : w[j].fid = j
      /\ \A j \in ints : w[j].ftype = "I32"
      /\ w[1].ftype = "STRING" /\ w[5].ftype = "STRING" /\ w[6].ftype = "BYTE"
  BY DEF Field, ReqCheckResult_write
<1>2. /\ w[1].fval = s.message /\ w[2].fval = s.flag /\ w[3].fval = s.appid
      /\ w[4].fval = s.gameid /\ w[5].fval = s.nick /\ w[6].fval = s.type
      /\ w[7].fval = s.serverid /\ w[8].fval = s.userid /\ w[9].fval = s.rolegrade
      /\ w[10].fval = s.vipgrade
  BY DEF Field, ReqCheckResult_write
<1> HIDE DEF w
<1>3. \A i \in 1..10 : \A d : value(w, i, w[i].ftype, d) = w[i].fval
  <2> SUFFICES ASSUME NEW i \in 1..10, NEW d PROVE value(w, i, w[i].ftype, d) = w[i].fval
    OBVIOUS
  <2>1. i \in DOMAIN w /\ w[i].fid = i /\ \A j \in DOMAIN w : w[j].fid = w[i].fid => j = i
    BY <1>1
  <2>2. value(w, w[i].fid, w[i].ftype, d) = w[i].fval
    BY <2>1, FieldFound
  <2>3. QED
    BY <2>1, <2>2
<1>4. \A i \in ints : i \in 1..10 /\ w[i].ftype = "I32"
  BY <1>1
<1>5. \A i \in ints : i32(w, i) = w[i].fval
  BY <1>3, <1>4, Zenon DEF i32
<1>6. string(w, 1) = w[1].fval /\ string(w, 5) = w[5].fval /\ byte(w, 6) = w[6].fval
  <2>1. 1 \in 1..10 /\ 5 \in 1..10 /\ 6 \in 1..10
    OBVIOUS
  <2>2. /\ value(w, 1, w[1].ftype, "") = w[1].fval
        /\ value(w, 5, w[5].ftype, "") = w[5].fval
        /\ value(w, 6, w[6].ftype, 0) = w[6].fval
    BY <1>3, <2>1
  <2>3. QED
    BY <1>1, <2>2 DEF string, byte
<1>7. /\ i32(w, 2) = s.flag /\ i32(w, 3) = s.appid /\ i32(w, 4) = s.gameid
      /\ i32(w, 7) = s.serverid /\ i32(w, 8) = s.userid /\ i32(w, 9) = s.rolegrade
      /\ i32(w, 10) = s.vipgrade
  BY <1>2, <1>5
<1>8. QED
  BY <1>2, <1>6, <1>7 DEF w, ReqCheckResult_read
=============================================================================
