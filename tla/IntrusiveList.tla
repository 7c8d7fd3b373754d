--------------------------- MODULE IntrusiveList ---------------------------
(***************************************************************************)
(* The intrusive doubly linked lists of src/src/common/list.h, seen as the *)
(* sequence of the entries met when walking the list from its head.  An    *)
(* entry (a ClientInfo seen through its fd_list_node or its event) is in a *)
(* list at most once, because the links are members of the entry.          *)
(***************************************************************************)
EXTENDS Integers, Sequences, Functions

(***************************************************************************)
(* list_add_tail: the entry is linked before the head, hence last.         *)
(***************************************************************************)
list_add_tail(entry, list) == Append(list, entry)

(***************************************************************************)
(* list_del_init: the neighbours of the entry are linked to each other and *)
(* the entry to itself.  On an entry that is linked to itself only, i.e.   *)
(* one that is in no list, this changes no list.                           *)
(***************************************************************************)
list_del_init(entry, list) ==
  IF entry \in Range(list)
  THEN LET at == CHOOSE i \in 1..Len(list) : list[i] = entry
       IN  [i \in 1..(Len(list) - 1) |-> IF i < at THEN list[i] ELSE list[i + 1]]
  ELSE list
=============================================================================
