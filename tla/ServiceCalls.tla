---------------------------- MODULE ServiceCalls ----------------------------
(***************************************************************************)
(* What a pool of connections gives the handlers: calls of one service by  *)
(* the threads of the proxy.  A thread is given a connection or none,      *)
(* sends its request, reads an answer, and gives the connection back with  *)
(* the outcome.  Which connection it is is left open, and two threads may  *)
(* be given the same one; but after a failed call all connections start    *)
(* afresh, so that no answer is left on a connection that nobody uses.     *)
(***************************************************************************)
EXTENDS Sequences

CONSTANTS Threads, Conns, NoConn, NoAnswer

VARIABLES
  pc,       \* where each thread is in its call
  conn,     \* the connection it was given
  answer,   \* the answer it has read
  wire,     \* the requests on each connection
  replies   \* the answers on each connection

vars == <<pc, conn, answer, wire, replies>>

Empty == [c \in Conns |-> <<>>]

Init ==
  /\ pc = [t \in Threads |-> "idle"]
  /\ conn = [t \in Threads |-> NoConn]
  /\ answer = [t \in Threads |-> NoAnswer]
  /\ wire = Empty /\ replies = Empty

Get(t, c) ==
  /\ pc[t] = "idle"
  /\ pc' = [pc EXCEPT ![t] = "held"]
  /\ conn' = [conn EXCEPT ![t] = c]
  /\ UNCHANGED <<answer, wire, replies>>

GetNull(t) ==
  /\ pc[t] = "idle"
  /\ pc' = [pc EXCEPT ![t] = "null"]
  /\ UNCHANGED <<conn, answer, wire, replies>>

GiveUp(t) ==
  /\ pc[t] = "null"
  /\ pc' = [pc EXCEPT ![t] = "idle"]
  /\ UNCHANGED <<conn, answer, wire, replies>>

Send(t, request) ==
  /\ pc[t] = "held"
  /\ pc' = [pc EXCEPT ![t] = "sent"]
  /\ wire' = [wire EXCEPT ![conn[t]] = Append(@, request)]
  /\ UNCHANGED <<conn, answer, replies>>

(***************************************************************************)
(* The service takes the first request of a connection and answers it.     *)
(***************************************************************************)
Serve(c, reply) ==
  /\ wire[c] # <<>>
  /\ wire' = [wire EXCEPT ![c] = Tail(@)]
  /\ replies' = [replies EXCEPT ![c] = Append(@, reply)]
  /\ UNCHANGED <<pc, conn, answer>>

Recv(t) ==
  /\ pc[t] = "sent" /\ replies[conn[t]] # <<>>
  /\ pc' = [pc EXCEPT ![t] = "ok"]
  /\ answer' = [answer EXCEPT ![t] = Head(replies[conn[t]])]
  /\ replies' = [replies EXCEPT ![conn[t]] = Tail(@)]
  /\ UNCHANGED <<conn, wire>>

Fail(t) ==
  /\ pc[t] \in {"held", "sent", "ok"}
  /\ pc' = [pc EXCEPT ![t] = "failed"]
  /\ UNCHANGED <<conn, answer, wire, replies>>

Release(t, status) ==
  /\ pc[t] = IF status THEN "ok" ELSE "failed"
  /\ pc' = [pc EXCEPT ![t] = "idle"]
  /\ conn' = [conn EXCEPT ![t] = NoConn]
  /\ answer' = [answer EXCEPT ![t] = NoAnswer]
  /\ IF status THEN UNCHANGED <<wire, replies>> ELSE wire' = Empty /\ replies' = Empty

(***************************************************************************)
(* The backend of some connections goes away.                              *)
(***************************************************************************)
Lose(cs) ==
  /\ wire' = [c \in Conns |-> IF c \in cs THEN <<>> ELSE wire[c]]
  /\ \/ UNCHANGED replies
     \/ replies' = [c \in Conns |-> IF c \in cs THEN <<>> ELSE replies[c]]
  /\ UNCHANGED <<pc, conn, answer>>

(***************************************************************************)
(* As a specification of its own: requests and answers carry the thread    *)
(* they are for.                                                           *)
(***************************************************************************)
Next ==
  \/ \E t \in Threads :
       \/ \E c \in Conns : Get(t, c)
       \/ GetNull(t) \/ GiveUp(t) \/ Send(t, t) \/ Recv(t) \/ Fail(t)
       \/ \E status \in BOOLEAN : Release(t, status)
  \/ \E c \in Conns : wire[c] # <<>> /\ Serve(c, Head(wire[c]))
  \/ \E cs \in SUBSET Conns : Lose(cs)

Spec == Init /\ [][Next]_vars
=============================================================================
