----------------------------- MODULE MemoryPool -----------------------------
(***************************************************************************)
(* The sizes that mempool_create of src/src/utils/mempool.cpp gives a pool *)
(* and the addresses that mempool_alloc carves out of a chunk, counted     *)
(* from its start.  The first word of a chunk links it to the one before.  *)
(***************************************************************************)
EXTENDS Integers

CONSTANTS
  WORD_SIZE,         \* sizeof(void*)
  DEFAULT_ALLOC_SIZE, \* 100
  pagesize           \* getpagesize()

atLeast(n, least) == IF n < least THEN least ELSE n

roundUp(n, unit) == IF n % unit = 0 THEN n ELSE n + unit - (n % unit)

mempool_create(item_size, alloc_size) ==
  LET size  == roundUp(atLeast(item_size, WORD_SIZE), WORD_SIZE)
      asked == atLeast(alloc_size, size * DEFAULT_ALLOC_SIZE + WORD_SIZE)
      chunk == roundUp(atLeast(asked, DEFAULT_ALLOC_SIZE * pagesize), pagesize)
  IN  [item_size        |-> size,
       alloc_size       |-> chunk,
       total_alloc_item |-> (chunk - WORD_SIZE) \div size]

\* Where the item at a position of a chunk starts.
address(pool, pos) == WORD_SIZE + pool.item_size * pos

(***************************************************************************)
(* A chunk holds at least DEFAULT_ALLOC_SIZE items of the size asked for,  *)
(* each aligned to a word, within the chunk, after its link, and before    *)
(* the next: an overlap would let one client's request write over          *)
(* another's, or over the chain of the chunks.                             *)
(***************************************************************************)
Apart(item_size, alloc_size) ==
  LET pool == mempool_create(item_size, alloc_size)
      positions == 0..(pool.total_alloc_item - 1)
  IN  /\ item_size <= pool.item_size
      /\ DEFAULT_ALLOC_SIZE <= pool.total_alloc_item
      /\ \A i \in positions :
           /\ address(pool, i) % WORD_SIZE = 0
           /\ WORD_SIZE <= address(pool, i)
           /\ address(pool, i) + pool.item_size <= pool.alloc_size
      /\ \A i, j \in positions :
           i < j => address(pool, i) + pool.item_size <= address(pool, j)
=============================================================================
