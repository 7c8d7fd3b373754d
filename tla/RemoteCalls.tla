---------------------------- MODULE RemoteCalls -----------------------------
(***************************************************************************)
(* What threads that share a connection are promised by the concurrent     *)
(* client (src/src/thrift/TisService.h): a call ends with the answer to    *)
(* that very call or with an exception.                                    *)
(***************************************************************************)
CONSTANT Threads

VARIABLES
  calling,   \* the threads inside a call
  last       \* how each thread's last call ended

vars == <<calling, last>>

Init == calling = {} /\ last = [t \in Threads |-> "none"]

Begin(t) ==
  /\ t \notin calling
  /\ calling' = calling \cup {t}
  /\ last' = [last EXCEPT ![t] = "none"]

End(t, how) ==
  /\ t \in calling
  /\ calling' = calling \ {t}
  /\ last' = [last EXCEPT ![t] = how]

(***************************************************************************)
(* A call of a client that is already dead is refused in one step.         *)
(***************************************************************************)
Refuse(t) ==
  /\ t \notin calling
  /\ last' = [last EXCEPT ![t] = "exception"]
  /\ UNCHANGED calling

Ends(t) == End(t, "own answer") \/ End(t, "exception")
Next == \E t \in Threads : Begin(t) \/ Ends(t) \/ Refuse(t)

Spec == Init /\ [][Next]_vars
=============================================================================
