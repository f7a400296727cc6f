---------------------------- MODULE MemoryBlock ----------------------------
(***************************************************************************)
(* The heap and struct memory_block, as src/src/memory.c manipulates them. *)
(* An address is an opaque value, a heap maps each address to the size of  *)
(* the block malloc put there (0: no block), and what a block contains is  *)
(* left out.  realloc and free are external: their contract is in Moved    *)
(* and in the outcomes AltMemoryBlock offers.                              *)
(***************************************************************************)
EXTENDS Naturals

CONSTANTS Addr,     \* the addresses malloc can return
          NULL,     \* the null pointer
          MaxBytes  \* bound: the largest block the model asks for

ASSUME NullAssumption == NULL \notin Addr
ASSUME BytesAssumption == MaxBytes \in Nat \ {0}

Heap == [Addr -> 0..MaxBytes]
Pointer == Addr \cup {NULL}

\* struct memory_block: where the block is and how long it is believed to be.
Block == [block : Pointer, bytes : 0..MaxBytes]

EmptyHeap == [a \in Addr |-> 0]

Live(h) == {a \in Addr : h[a] > 0}

\* A pointer that may be handed to realloc or free.
Valid(h, ptr) == ptr = NULL \/ ptr \in Live(h)

\* h once the block at old has gone and the block at new has n bytes.
Moved(h, old, new, n) ==
  [a \in Addr |-> IF a = new THEN n ELSE IF a = old THEN 0 ELSE h[a]]

\* Where realloc may put a block that is now at ptr: in place, or anywhere free.
Room(h, ptr) == {a \in Addr : h[a] = 0 \/ a = ptr}

\* Mutant: the size is updated and the address is not.
AltKeepsAddress(h, mb, n) ==
  {[heap |-> h, mb |-> mb]} \cup
  {[heap |-> Moved(h, mb.block, a, n),
    mb |-> [block |-> IF mb.block = NULL THEN a ELSE mb.block, bytes |-> n]] :
     a \in Room(h, mb.block)}

\* alt_memory_block: every outcome of realloc(mb.block, n) with n > 0.  On
\* failure the structure and the heap are left as they were.
AltMemoryBlock(h, mb, n) ==
  {[heap |-> h, mb |-> mb]} \cup
  {[heap |-> Moved(h, mb.block, a, n), mb |-> [block |-> a, bytes |-> n]] :
     a \in Room(h, mb.block)}

\* del_memory_block: free the block and clear the structure.
DelMemoryBlock(h, mb) ==
  [heap |-> Moved(h, mb.block, NULL, 0), mb |-> [block |-> NULL, bytes |-> 0]]
=============================================================================
