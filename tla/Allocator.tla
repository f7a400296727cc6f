----------------------------- MODULE Allocator -----------------------------
(***************************************************************************)
(* What lua_memory (src/src/main.c) promises to its caller, with no word   *)
(* of threads, pipes or messages: one request at a time, each answered by  *)
(* one atomic step of the heap, until the service ends.  It is the         *)
(* contract of a lua_Alloc function, and Workers implements it.            *)
(***************************************************************************)
EXTENDS MemoryBlock

VARIABLES state,   \* "idle", "asked", "answered" or "over"
          request, \* the arguments of the call under way
          heap,    \* the blocks that exist
          result   \* the pointer an answered call will return

vars == <<state, request, heap, result>>

Request == [ptr : Pointer, osize : 0..MaxBytes, nsize : 0..MaxBytes]

NoRequest == [ptr |-> NULL, osize |-> 0, nsize |-> 0]

Init ==
  /\ state = "idle"
  /\ request = NoRequest
  /\ heap = EmptyHeap
  /\ result = NULL

\* The caller owns the block it names, knows no more of it than there is, and
\* asks for something.
Ask ==
  /\ state = "idle"
  /\ state' = "asked"
  /\ request' \in {r \in Request :
       /\ Valid(heap, r.ptr)
       /\ r.ptr # NULL => r.osize <= heap[r.ptr]
       /\ r.ptr # NULL \/ r.nsize > 0}
  /\ UNCHANGED <<heap, result>>

Free ==
  /\ request.nsize = 0
  /\ heap' = Moved(heap, request.ptr, NULL, 0)
  /\ result' = NULL

Allocate ==
  /\ request.nsize > 0
  /\ result' \in Room(heap, request.ptr)
  /\ heap' = Moved(heap, request.ptr, result', request.nsize)

\* A refused block is left alone, and a block is never refused a smaller size.
Refuse ==
  /\ request.nsize > 0
  /\ heap' = heap
  /\ result' = IF request.osize >= request.nsize THEN request.ptr ELSE NULL

Answer ==
  /\ state = "asked"
  /\ state' = "answered"
  /\ Free \/ Allocate \/ Refuse
  /\ UNCHANGED request

\* The request does not get through and the caller is told NULL, even where it
\* asked for less than it has.
Decline ==
  /\ state = "asked" /\ request.nsize > 0
  /\ state' = "idle"
  /\ request' = NoRequest
  /\ UNCHANGED <<heap, result>>

Take ==
  /\ state = "answered"
  /\ state' = "idle"
  /\ request' = NoRequest
  /\ result' = NULL
  /\ UNCHANGED heap

Quit ==
  /\ state # "over"
  /\ state' = "over"
  /\ request' = NoRequest
  /\ result' = NULL
  /\ UNCHANGED heap

Next == Ask \/ Answer \/ Decline \/ Take \/ Quit

Spec == Init /\ [][Next]_vars
=============================================================================
