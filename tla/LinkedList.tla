----------------------------- MODULE LinkedList -----------------------------
(***************************************************************************)
(* The links of src/src/common/list.h: a memory m gives every node its     *)
(* next and its prev, and an operation returns the memory it leaves, with  *)
(* its stores in the order of the code.  IsList says what a list is, the   *)
(* sequence that the module IntrusiveList takes for it.                    *)
(***************************************************************************)
EXTENDS Integers, Sequences

Memories(Nodes, Values) == [next : [Nodes -> Values], prev : [Nodes -> Values]]

INIT_LIST_HEAD(ptr, m) ==
  [next |-> [m.next EXCEPT ![ptr] = ptr], prev |-> [m.prev EXCEPT ![ptr] = ptr]]

\* Between two neighbours, which are one node when the list is empty.
__list_add(new_entry, prev, next, m) ==
  [next |-> [m.next EXCEPT ![new_entry] = next, ![prev] = new_entry],
   prev |-> [m.prev EXCEPT ![next] = new_entry, ![new_entry] = prev]]

\* Mutant of list_add_tail: the entry is linked first.
list_add(new_entry, head, m) == __list_add(new_entry, head, m.next[head], m)

list_add_tail(new_entry, head, m) == __list_add(new_entry, m.prev[head], head, m)

__list_del(prev, next, m) ==
  [next |-> [m.next EXCEPT ![prev] = next], prev |-> [m.prev EXCEPT ![next] = prev]]

list_del_init(entry, m) ==
  INIT_LIST_HEAD(entry, __list_del(m.prev[entry], m.next[entry], m))

\* list_for_each_safe and list_for_each_entry_safe: where the loop is, and the
\* entry it goes to next, read before the body may delete the one it is at.
list_for_each_safe(head, m) ==
  [pos |-> m.next[head], next |-> m.next[m.next[head]]]

next_entry(loop, m) == [pos |-> loop.next, next |-> m.next[loop.next]]

(***************************************************************************)
(* head and the entries s are a ring, in this order, of different nodes.   *)
(***************************************************************************)
At(head, s, i) == IF i \in 1..Len(s) THEN s[i] ELSE head

Linked(m, x, y) == m.next[x] = y /\ m.prev[y] = x

Different(head, s) ==
  \A i, j \in 0..Len(s) : At(head, s, i) = At(head, s, j) => i = j

IsList(m, head, s) ==
  /\ Different(head, s)
  /\ \A i \in 0..Len(s) : Linked(m, At(head, s, i), At(head, s, i + 1))
=============================================================================
