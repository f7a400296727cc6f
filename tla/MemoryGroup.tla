---------------------------- MODULE MemoryGroup ----------------------------
(***************************************************************************)
(* struct memory_group of src/include/memory.h, a vector of entries of     *)
(* Tsize bytes in one memory block, with every call on it, in any order.   *)
(*                                                                         *)
(* The functions of this header give their allocator the old size and take *)
(* a request for nothing for a release, which those of memory.c do not.    *)
(*                                                                         *)
(* malloc and realloc are external, as in MemoryBlock.  Left out: the user *)
(* data of the allocator, what the entries hold, a group whose entries     *)
(* have no size yet (the calls divide by it), new_memory_group_block for a *)
(* group that has a block, and whatever follows a call with a dead block.  *)
(***************************************************************************)
EXTENDS MemoryBlock, Integers

CONSTANTS EntrySizes, \* the sizes of entries
          Numbers,    \* the numbers handed to the calls
          MaxInt      \* INT_MAX

ASSUME EntryAssumption == EntrySizes \subseteq Nat \ {0}
ASSUME NumbersAssumption ==
  MaxInt \in Nat /\ Numbers \subseteq Int /\ \A n \in Numbers : n <= MaxInt
ASSUME RoomAssumption == MaxBytes <= MaxInt

VARIABLES
  heap,                       \* what is allocated
  mb,                         \* memory_group->memory_block
  total, count, focus, Tsize, \* the other members
  ret,                        \* what the last call returned
  want,                       \* the entries it was to make room for
  emptied,                    \* a request for nothing has released the block
  cut                         \* the total has been lowered

vars == <<heap, mb, total, count, focus, Tsize, ret, want, emptied, cut>>

TypeOK ==
  /\ heap \in Heap /\ mb \in Block
  /\ total \in 0..MaxBytes /\ count \in 0..MaxBytes /\ focus \in 0..MaxBytes
  /\ Tsize \in EntrySizes \cup {0}
  /\ ret \in Pointer /\ want \in Int
  /\ emptied \in BOOLEAN /\ cut \in BOOLEAN

Init ==
  /\ heap = EmptyHeap /\ mb = [block |-> NULL, bytes |-> 0]
  /\ total = 0 /\ count = 0 /\ focus = 0 /\ Tsize = 0
  /\ ret = NULL /\ want = 0
  /\ emptied = FALSE /\ cut = FALSE

-----------------------------------------------------------------------------
\* n where it is at least 0, and 0 where it is not: (n >= 0) * n.
Clamp(n) == IF n >= 0 THEN n ELSE 0

\* default_alloc: every outcome of a request for n bytes in place of prev.
Memory(prev, n) ==
  IF n = 0 THEN {[heap |-> Moved(heap, prev, NULL, 0), ptr |-> NULL]}
  ELSE {[heap |-> heap, ptr |-> NULL]} \cup
       {[heap |-> Moved(heap, prev, a, n), ptr |-> a] :
          a \in IF n <= MaxBytes THEN Room(heap, prev) ELSE {}}

\* Mutant: the block counts as altered where the request failed.
RequestBlind(prev, t) ==
  /\ Valid(heap, prev)
  /\ \E r \in Memory(prev, t * Tsize) :
       /\ heap' = r.heap /\ ret' = r.ptr
       /\ mb' = IF t * Tsize \in 1..MaxBytes
                THEN [mb EXCEPT !.bytes = t * Tsize,
                                !.block = IF r.ptr = NULL THEN @ ELSE r.ptr]
                ELSE mb
       /\ total' = mb'.bytes \div Tsize
       /\ emptied' = IF r.ptr # NULL THEN FALSE
                     ELSE emptied \/ (t = 0 /\ prev # NULL)

\* A request for t entries in place of prev.  The structure is left as it is
\* where the answer is NULL, which it is, too, where the request was for nothing.
Request(prev, t) ==
  /\ Valid(heap, prev)
  /\ \E r \in Memory(prev, t * Tsize) :
       /\ heap' = r.heap /\ ret' = r.ptr
       /\ mb' = IF r.ptr # NULL THEN [block |-> r.ptr, bytes |-> t * Tsize] ELSE mb
       /\ total' = mb'.bytes \div Tsize
       /\ emptied' = IF r.ptr # NULL THEN FALSE
                     ELSE emptied \/ (t = 0 /\ prev # NULL)

\* The block is long enough, or short enough, and there is nothing to do: the
\* answer is the block that is named, released or not.
NoRequest ==
  /\ ret' = mb.block
  /\ total' = mb.bytes \div Tsize
  /\ UNCHANGED <<heap, mb, emptied>>

Members ==
  /\ cut' = (cut \/ total' < total)
  /\ UNCHANGED <<count, focus, Tsize>>

-----------------------------------------------------------------------------
\* The owner of an empty group says how long its entries are.
SetTsize(s) ==
  /\ Tsize = 0 /\ Tsize' = s
  /\ UNCHANGED <<heap, mb, total, count, focus, ret, want, emptied, cut>>

\* Mutant: the count may be as large as anybody likes.
SetCountFreely(n) ==
  /\ count' = Clamp(n)
  /\ UNCHANGED <<heap, mb, total, focus, Tsize, ret, want, emptied, cut>>

\* An index is one below total, or becomes 0; a count as well, so that a full
\* group counts nothing.
Index(n) == IF n \in 0..total - 1 THEN n ELSE 0

SetCount(n) ==
  /\ count' = Index(n)
  /\ UNCHANGED <<heap, mb, total, focus, Tsize, ret, want, emptied, cut>>

SetFocus(n) ==
  /\ focus' = Index(n)
  /\ UNCHANGED <<heap, mb, total, count, Tsize, ret, want, emptied, cut>>

NewBlock(n) ==
  /\ Tsize # 0 /\ (mb.block = NULL \/ emptied)
  /\ want' = Clamp(n) /\ Request(NULL, Clamp(n)) /\ Members

AltTotal(n) ==
  /\ Tsize # 0
  /\ want' = Clamp(n) /\ Request(mb.block, Clamp(n)) /\ Members

\* What an int may be that should be total + n: past INT_MAX it wraps, and what
\* wrapped is replaced by other, unless the compiler counts on no int wrapping.
Sums(n, other) ==
  IF total + Clamp(n) <= MaxInt THEN {total + Clamp(n)}
                                ELSE {total + Clamp(n), other}

\* Mutant: the group is asked to have n entries, not n more.
IncTotalTo(n) ==
  /\ Tsize # 0 /\ want' = total + Clamp(n)
  /\ IF Clamp(n) * Tsize > mb.bytes THEN Request(mb.block, Clamp(n)) ELSE NoRequest
  /\ Members

IncTotal(n) ==
  /\ Tsize # 0 /\ want' = total + Clamp(n)
  /\ \E t \in Sums(n, total) :
       IF t * Tsize > mb.bytes THEN Request(mb.block, t) ELSE NoRequest
  /\ Members

\* The code adds what it should take away, so that the block is never too long,
\* but for a total that wrapped: it becomes 0, and the block is released.  No room
\* is asked for.
DecTotal(n) ==
  /\ Tsize # 0 /\ want' = 0
  /\ \E t \in Sums(n, 0) :
       IF t * Tsize < mb.bytes THEN Request(mb.block, t) ELSE NoRequest
  /\ Members

\* Mutant: the block is released and the members are kept.
DelKeepsMembers ==
  /\ Valid(heap, mb.block)
  /\ heap' = Moved(heap, mb.block, NULL, 0)
  /\ mb' = [block |-> NULL, bytes |-> 0]
  /\ total' = 0 /\ cut' = FALSE
  /\ ret' = NULL /\ want' = 0 /\ emptied' = FALSE
  /\ UNCHANGED <<count, focus, Tsize>>

\* del_memory_group_block clears the whole structure, the length of the entries
\* included.
DelBlock ==
  /\ Valid(heap, mb.block)
  /\ heap' = Moved(heap, mb.block, NULL, 0)
  /\ mb' = [block |-> NULL, bytes |-> 0]
  /\ total' = 0 /\ count' = 0 /\ focus' = 0 /\ Tsize' = 0
  /\ ret' = NULL /\ want' = 0 /\ emptied' = FALSE /\ cut' = FALSE

Next ==
  \/ \E s \in EntrySizes : SetTsize(s)
  \/ \E n \in Numbers : \/ SetCount(n) \/ SetFocus(n) \/ NewBlock(n) \/ AltTotal(n)
                        \/ IncTotal(n) \/ DecTotal(n)
  \/ DelBlock

Spec == Init /\ [][Next]_vars

-----------------------------------------------------------------------------
\* The entries below total lie in a block that exists, and nothing else does:
\* no call that failed has lost a block or left a dead one behind.  A request
\* for nothing does: it releases the block and, its answer being NULL, leaves
\* the structure as it is.
EntriesExist ==
  ~emptied =>
    /\ Live(heap) = {mb.block} \ {NULL}
    /\ mb.block # NULL => heap[mb.block] = mb.bytes
    /\ total * Tsize <= mb.bytes

\* The block that a call answers is allocated and has the room that the call was
\* to make, and total says so, unless there is no int for as many entries.  A block
\* that a request for nothing released is answered all the same, by the next call
\* that finds nothing to do.
RoomIsMade ==
  ~emptied /\ ret # NULL /\ want <= MaxInt =>
    /\ ret \in Live(heap) /\ want * Tsize <= heap[ret]
    /\ want <= total

\* count and focus stay inside the group, until the total is lowered: nothing
\* brings them back in.
IndicesInside ==
  ~cut => /\ count < total \/ count = 0
          /\ focus < total \/ focus = 0
=============================================================================
