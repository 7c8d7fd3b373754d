--------------------------- MODULE MCProxyMemory ---------------------------
(* A small instance of ProxyMemory for TLC. *)
EXTENDS ProxyMemory, TLC

(***************************************************************************)
(* Threads are interchangeable, and so are descriptors.                    *)
(***************************************************************************)
Symmetry == Permutations(Threads) \cup Permutations(Fds)

(***************************************************************************)
(* mempool_create and the addresses, for many sizes.                       *)
(***************************************************************************)
PoolOf(word, default, page) == INSTANCE MemoryPool WITH
  WORD_SIZE <- word, DEFAULT_ALLOC_SIZE <- default, pagesize <- page

ASSUME SizesExamples ==
  \A word \in {1, 2, 4}, default \in 1..3, page \in {1, 3, 4, 8} :
    \A item_size \in 0..9, alloc_size \in 0..40 :
      PoolOf(word, default, page)!Apart(item_size, alloc_size)
=============================================================================
