------------------------- MODULE MemoryGroupProofs -------------------------
(***************************************************************************)
(* What the calls on a group keep, for any sizes of entries, any numbers   *)
(* and any widths of an int.                                               *)
(***************************************************************************)
EXTENDS MemoryGroup, TLAPS

USE NullAssumption, BytesAssumption, EntryAssumption, NumbersAssumption,
    RoomAssumption

\* Entries fill their bytes, and bytes hold as many entries as fill them.
LEMMA Exact == ASSUME NEW t \in Nat, NEW s \in Nat \ {0}
               PROVE  (t * s) \div s = t /\ t <= t * s /\ t * s \in Nat
OBVIOUS

LEMMA Ordered == ASSUME NEW t \in Nat, NEW u \in Nat, NEW s \in Nat \ {0}
                 PROVE  t * s <= u * s <=> t <= u
OBVIOUS

\* The block is as long as total says, also where it is dead.
Filled ==
  /\ Tsize # 0 => mb.bytes = total * Tsize
  /\ Tsize = 0 => mb = [block |-> NULL, bytes |-> 0] /\ total = 0 /\ ~emptied
  /\ emptied => Live(heap) = {} /\ mb.block # NULL

\* An answer is the group's block, which total says is long enough.
Answered == ret # NULL => ret = mb.block /\ (want <= MaxInt => want <= total)

GroupInv == TypeOK /\ Filled /\ EntriesExist /\ Answered /\ IndicesInside

LEMMA GroupInit == Init => GroupInv
<1> SUFFICES ASSUME Init PROVE GroupInv
  OBVIOUS
<1>1. heap \in Heap /\ Live(heap) = {}
  BY DEF Init, EmptyHeap, Heap, Live
<1>2. /\ mb = [block |-> NULL, bytes |-> 0] /\ mb \in Block
      /\ total = 0 /\ count = 0 /\ focus = 0 /\ Tsize = 0
      /\ ret = NULL /\ want = 0 /\ emptied = FALSE /\ cut = FALSE
  BY DEF Init, Block, Pointer
<1>a. emptied \in BOOLEAN /\ cut \in BOOLEAN
  BY <1>2
<1>b. 0 \in 0..MaxBytes
  OBVIOUS
<1>3. TypeOK
  BY <1>1, <1>2, <1>a, <1>b DEF TypeOK, Pointer
<1>4. Filled /\ EntriesExist
  BY <1>1, <1>2 DEF Filled, EntriesExist
<1>5. Answered /\ IndicesInside
  BY <1>2 DEF Answered, IndicesInside
<1> QED  BY <1>3, <1>4, <1>5 DEF GroupInv

\* What is allocated once the block at old has become one of n bytes at new.
LEMMA LiveMoved == ASSUME heap \in Heap, NEW old \in Pointer, NEW new \in Pointer,
                          NEW n \in 0..MaxBytes, new # NULL <=> n > 0
                   PROVE  /\ Moved(heap, old, new, n) \in Heap
                          /\ Live(Moved(heap, old, new, n)) =
                               (Live(heap) \ {old}) \cup ({new} \ {NULL})
                          /\ new # NULL => Moved(heap, old, new, n)[new] = n
<1> DEFINE h == Moved(heap, old, new, n)
<1>1. /\ h \in [Addr -> 0..MaxBytes]
      /\ \A a \in Addr : h[a] = IF a = new THEN n ELSE IF a = old THEN 0 ELSE heap[a]
  BY DEF Heap, Moved
<1> HIDE DEF h
<1>2. \A a \in Addr : h[a] > 0 <=> (heap[a] > 0 /\ a # old) \/ (a = new /\ new # NULL)
  <2> SUFFICES ASSUME NEW a \in Addr
               PROVE  h[a] > 0 <=> (heap[a] > 0 /\ a # old) \/ (a = new /\ new # NULL)
    OBVIOUS
  <2>1. heap[a] \in Nat /\ n \in Nat /\ a # NULL
    BY DEF Heap
  <2>2. CASE a = new
    BY <1>1, <2>1, <2>2
  <2>3. CASE a # new /\ a = old
    BY <1>1, <2>1, <2>3
  <2>4. CASE a # new /\ a # old
    BY <1>1, <2>1, <2>4
  <2> QED  BY <2>2, <2>3, <2>4
<1>3. Live(h) = (Live(heap) \ {old}) \cup ({new} \ {NULL})
  BY <1>2 DEF Live, Pointer
<1>4. new # NULL => h[new] = n
  BY <1>1 DEF Pointer
<1> QED  BY <1>1, <1>3, <1>4 DEF h, Heap

\* What a call leaves alone, or changes together, is in order.
Kept == /\ heap' \in Heap /\ mb' \in Block /\ total' \in 0..MaxBytes
        /\ ret' \in Pointer /\ emptied' \in BOOLEAN
        /\ mb'.bytes = total' * Tsize
        /\ ret' # NULL => ret' = mb'.block
        /\ emptied' => Live(heap') = {} /\ mb'.block # NULL
        /\ ~emptied' => /\ Live(heap') = {mb'.block} \ {NULL}
                        /\ mb'.block # NULL => heap'[mb'.block] = mb'.bytes

\* A request succeeds with what was asked for, or fails and leaves total as it
\* is; and either way the block is the group's, unless nothing was asked for.
LEMMA RequestKeeps ==
  ASSUME GroupInv, Tsize # 0, NEW prev \in {NULL, mb.block}, NEW t \in Nat,
         prev = NULL => mb.block = NULL \/ emptied, Request(prev, t)
  PROVE  Kept /\ (ret' # NULL => total' = t)
<1>1. Tsize \in Nat \ {0} /\ t * Tsize \in Nat /\ mb \in Block
  BY Exact DEF GroupInv, TypeOK
<1>2. PICK r \in Memory(prev, t * Tsize) :
        /\ heap' = r.heap /\ ret' = r.ptr
        /\ mb' = IF r.ptr # NULL THEN [block |-> r.ptr, bytes |-> t * Tsize] ELSE mb
        /\ total' = mb'.bytes \div Tsize
        /\ emptied' = IF r.ptr # NULL THEN FALSE
                      ELSE emptied \/ (t = 0 /\ prev # NULL)
  BY DEF Request
<1>3. /\ heap \in Heap /\ prev \in Pointer /\ mb.block \in Pointer
      /\ total \in Nat /\ mb.bytes = total * Tsize /\ total <= MaxBytes
      /\ emptied \in BOOLEAN
  BY <1>1 DEF GroupInv, TypeOK, Filled, Block, Pointer
<1>4. CASE t = 0
  <2>1. r.heap = Moved(heap, prev, NULL, 0) /\ r.ptr = NULL
    BY <1>2, <1>4, <1>1 DEF Memory
  <2>2. /\ heap' \in Heap /\ Live(heap') = Live(heap) \ {prev}
    BY <2>1, <1>2, <1>3, LiveMoved DEF Pointer
  <2>3. prev = NULL => heap' = heap
    BY <2>1, <1>2, <1>3 DEF Moved, Heap
  <2>4. mb' = mb /\ ret' = NULL /\ total' = total
        /\ emptied' = (emptied \/ prev # NULL)
    BY <1>2, <1>3, <1>4, <2>1, <1>1, Exact
  <2>5. prev # NULL => prev = mb.block
    OBVIOUS
  <2> QED
    BY <1>1, <1>3, <2>2, <2>3, <2>4, <2>5
       DEF Kept, GroupInv, Filled, EntriesExist, TypeOK, Pointer, Live
<1>5. CASE t # 0 /\ r.ptr = NULL
  <2>1. r.heap = heap
    BY <1>2, <1>5, <1>1, <1>3, Exact DEF Memory, Room
  <2>2. mb' = mb /\ ret' = NULL /\ total' = total /\ emptied' = emptied /\ heap' = heap
    BY <1>2, <1>3, <1>5, <2>1, <1>1, Exact
  <2> QED
    BY <1>1, <1>3, <2>2 DEF Kept, GroupInv, Filled, EntriesExist, TypeOK, Pointer
<1>6. CASE t # 0 /\ r.ptr # NULL
  <2>1. /\ r.ptr \in Room(heap, prev) /\ t * Tsize <= MaxBytes
        /\ r.heap = Moved(heap, prev, r.ptr, t * Tsize)
    BY <1>2, <1>6, <1>1, Exact DEF Memory
  <2>2. t * Tsize \in 1..MaxBytes /\ r.ptr \in Pointer /\ t <= MaxBytes
    BY <2>1, <1>1, <1>6, Exact DEF Room, Pointer
  <2>3. /\ heap' \in Heap
        /\ Live(heap') = (Live(heap) \ {prev}) \cup {r.ptr}
        /\ heap'[r.ptr] = t * Tsize
    BY <2>1, <2>2, <1>2, <1>3, <1>6, LiveMoved
  <2>4. /\ mb' = [block |-> r.ptr, bytes |-> t * Tsize] /\ ret' = r.ptr
        /\ total' = t /\ emptied' = FALSE
    BY <1>2, <1>6, <1>1, Exact
  <2>5. Live(heap) \ {prev} = {}
    <3>1. emptied => Live(heap) = {}
      BY DEF GroupInv, Filled
    <3>2. ~emptied => Live(heap) = {mb.block} \ {NULL}
      BY DEF GroupInv, EntriesExist
    <3>3. prev = NULL \/ prev = mb.block
      OBVIOUS
    <3> QED  BY <3>1, <3>2, <3>3
  <2>6. /\ mb' \in Block /\ mb'.block = r.ptr /\ ret' = r.ptr /\ mb'.bytes = total' * Tsize
        /\ total' \in 0..MaxBytes /\ ret' \in Pointer
    BY <2>2, <2>4 DEF Block
  <2>7. Live(heap') = {mb'.block} \ {NULL} /\ heap'[mb'.block] = mb'.bytes
    BY <2>3, <2>4, <2>5, <2>6, <1>6
  <2>8. emptied' \in BOOLEAN /\ ~emptied'
    BY <2>4
  <2> QED
    BY <2>3, <2>4, <2>6, <2>7, <2>8 DEF Kept
<1> QED  BY <1>4, <1>5, <1>6

\* So it is where there is nothing to do.
LEMMA NoRequestKeeps == ASSUME GroupInv, Tsize # 0, NoRequest
                        PROVE  Kept /\ total' = total
<1>1. Tsize \in Nat \ {0} /\ total \in Nat /\ mb.bytes = total * Tsize
  BY DEF GroupInv, TypeOK, Filled
<1>2. total' = total
  BY <1>1, Exact DEF NoRequest
<1> QED
  BY <1>1, <1>2
     DEF NoRequest, Kept, GroupInv, TypeOK, Filled, EntriesExist, Block

\* A call keeps the invariant if it keeps the block and makes the room it says.
LEMMA CallKeeps ==
  ASSUME GroupInv, Tsize # 0, Kept, Members, want' \in Int,
         ret' # NULL /\ want' <= MaxInt => want' <= total'
  PROVE  GroupInv'
<1>1. TypeOK'
  BY DEF GroupInv, TypeOK, Kept, Members
<1>2. Filled' /\ EntriesExist'
  <2>1. Tsize' = Tsize /\ total' * Tsize = mb'.bytes /\ mb'.bytes \in Nat
    BY DEF Kept, Members, Block
  <2>2. total' * Tsize' <= mb'.bytes
    BY <2>1
  <2>3. Filled'
    BY <2>1 DEF Filled, Kept
  <2>4. EntriesExist'
    BY <2>1, <2>2 DEF EntriesExist, Kept
  <2> QED  BY <2>3, <2>4
<1>3. Answered'
  BY DEF Answered, Kept
<1>4. IndicesInside'
  <2>1. CASE ~cut'
    <3>1. ~cut /\ ~(total' < total) /\ count' = count /\ focus' = focus
      BY <2>1 DEF Members
    <3>2. total' >= total
      BY <3>1 DEF Kept, GroupInv, TypeOK
    <3> QED  BY <3>1, <3>2 DEF GroupInv, IndicesInside, Kept, TypeOK
  <2>2. CASE cut'
    BY <2>2 DEF IndicesInside
  <2> QED  BY <2>1, <2>2
<1> QED  BY <1>1, <1>2, <1>3, <1>4 DEF GroupInv

LEMMA ClampNat == \A n \in Numbers : Clamp(n) \in Nat
BY DEF Clamp

LEMMA GroupStep == GroupInv /\ [Next]_vars => GroupInv'
<1> SUFFICES ASSUME GroupInv, [Next]_vars PROVE GroupInv'
  OBVIOUS
<1>t. Tsize # 0 => Tsize \in Nat \ {0} /\ total \in Nat /\ mb.bytes = total * Tsize
  BY DEF GroupInv, TypeOK, Filled
<1>1. ASSUME NEW s \in EntrySizes, SetTsize(s) PROVE GroupInv'
  BY <1>1 DEF SetTsize, GroupInv, TypeOK, Filled, EntriesExist, Answered,
              IndicesInside, Block, Live
<1>2. ASSUME NEW n \in Numbers, SetCount(n) \/ SetFocus(n) PROVE GroupInv'
  BY <1>2 DEF SetCount, SetFocus, Index, GroupInv, TypeOK, Filled, EntriesExist,
              Answered, IndicesInside, Live
<1>3. ASSUME NEW n \in Numbers, NewBlock(n) PROVE GroupInv'
  <2>1. Kept /\ (ret' # NULL => total' = Clamp(n))
    BY <1>3, ClampNat, RequestKeeps DEF NewBlock
  <2> QED  BY <1>3, <2>1, ClampNat, CallKeeps DEF NewBlock
<1>4. ASSUME NEW n \in Numbers, AltTotal(n) PROVE GroupInv'
  <2>1. mb.block = NULL => mb.block = NULL \/ emptied
    OBVIOUS
  <2>2. Kept /\ (ret' # NULL => total' = Clamp(n))
    BY <1>4, <2>1, ClampNat, RequestKeeps DEF AltTotal
  <2> QED  BY <1>4, <2>2, ClampNat, CallKeeps DEF AltTotal
<1>5. ASSUME NEW n \in Numbers, IncTotal(n) PROVE GroupInv'
  <2>1. PICK t \in Sums(n, total) :
          IF t * Tsize > mb.bytes THEN Request(mb.block, t) ELSE NoRequest
    BY <1>5 DEF IncTotal
  <2>2. /\ t \in Nat /\ want' = total + Clamp(n) /\ want' \in Nat
        /\ t = want' \/ want' > MaxInt
    BY <1>5, <1>t, <2>1, ClampNat DEF IncTotal, Sums
  <2>3. CASE t * Tsize > mb.bytes
    <3>1. Kept /\ (ret' # NULL => total' = t)
      BY <2>1, <2>2, <2>3, <1>5, RequestKeeps DEF IncTotal
    <3> QED  BY <3>1, <2>2, <1>5, CallKeeps DEF IncTotal
  <2>4. CASE ~(t * Tsize > mb.bytes)
    <3>1. Kept /\ total' = total
      BY <2>1, <2>4, <1>5, NoRequestKeeps DEF IncTotal
    <3>2. t <= total
      BY <2>2, <2>4, <1>5, <1>t, Exact, Ordered DEF IncTotal
    <3> QED  BY <3>1, <3>2, <2>2, <1>5, CallKeeps DEF IncTotal
  <2> QED  BY <2>3, <2>4
<1>6. ASSUME NEW n \in Numbers, DecTotal(n) PROVE GroupInv'
  <2>1. PICK t \in Sums(n, 0) :
          IF t * Tsize < mb.bytes THEN Request(mb.block, t) ELSE NoRequest
    BY <1>6 DEF DecTotal
  <2>2. t \in Nat /\ want' = 0 /\ (t >= total \/ t = 0)
    BY <1>6, <1>t, <2>1, ClampNat DEF DecTotal, Sums
  <2>3. CASE t * Tsize < mb.bytes
    <3>1. Kept /\ (ret' # NULL => total' = t)
      BY <2>1, <2>2, <2>3, <1>6, RequestKeeps DEF DecTotal
    <3>2. t = 0
      BY <2>2, <2>3, <1>6, <1>t, Ordered, Exact DEF DecTotal
    <3>3. ret' = NULL
      <4>1. t * Tsize = 0
        BY <3>2, <1>6, <1>t DEF DecTotal
      <4>2. \A r \in Memory(mb.block, t * Tsize) : r.ptr = NULL
        BY <4>1 DEF Memory
      <4> QED  BY <2>1, <2>3, <4>2 DEF Request
    <3> QED  BY <3>1, <3>3, <2>2, <1>6, CallKeeps DEF DecTotal
  <2>4. CASE ~(t * Tsize < mb.bytes)
    <3>1. Kept /\ total' = total
      BY <2>1, <2>4, <1>6, NoRequestKeeps DEF DecTotal
    <3> QED  BY <3>1, <2>2, <1>6, <1>t, CallKeeps DEF DecTotal
  <2> QED  BY <2>3, <2>4
<1>7. CASE DelBlock
  <2>1. heap' \in Heap /\ Live(heap') = {}
    <3>1. mb.block \in Pointer /\ heap \in Heap
      BY DEF GroupInv, TypeOK, Block
    <3>2. heap' \in Heap /\ Live(heap') = Live(heap) \ {mb.block}
      BY <1>7, <3>1, LiveMoved DEF DelBlock, Pointer
    <3> QED  BY <3>2 DEF GroupInv, Filled, EntriesExist, TypeOK
  <2>2. /\ mb' = [block |-> NULL, bytes |-> 0] /\ mb' \in Block
        /\ total' = 0 /\ count' = 0 /\ focus' = 0 /\ Tsize' = 0
        /\ ret' = NULL /\ want' = 0 /\ emptied' = FALSE /\ cut' = FALSE
    BY <1>7 DEF DelBlock, Block, Pointer
  <2>3. emptied' \in BOOLEAN /\ cut' \in BOOLEAN
    BY <2>2
  <2>4. 0 \in 0..MaxBytes
    OBVIOUS
  <2>5. TypeOK'
    BY <2>1, <2>2, <2>3, <2>4 DEF TypeOK, Pointer
  <2>6. (Filled /\ EntriesExist)'
    BY <2>1, <2>2 DEF Filled, EntriesExist
  <2>7. (Answered /\ IndicesInside)'
    BY <2>2 DEF Answered, IndicesInside
  <2> QED  BY <2>5, <2>6, <2>7 DEF GroupInv
<1>8. CASE UNCHANGED vars
  BY <1>8 DEF vars, GroupInv, TypeOK, Filled, EntriesExist, Answered,
              IndicesInside, Live
<1> QED  BY <1>1, <1>2, <1>3, <1>4, <1>5, <1>6, <1>7, <1>8 DEF Next

LEMMA Grouped == Spec => []GroupInv
BY GroupInit, GroupStep, PTL DEF Spec

\* Every member keeps to its type; no total is more than the block can hold.
THEOREM TypeCorrect == Spec => []TypeOK
<1>1. GroupInv => TypeOK
  BY DEF GroupInv
<1> QED  BY <1>1, Grouped, PTL

\* Every entry of a group is in its block and nothing is lost, whichever
\* allocations fail, until a request for nothing.
THEOREM EntriesAreThere == Spec => []EntriesExist
<1>1. GroupInv => EntriesExist
  BY DEF GroupInv
<1> QED  BY <1>1, Grouped, PTL

\* What a call answers is a block that is allocated and as long as the call was to
\* make it, up to INT_MAX and until a request for nothing.
THEOREM RoomIsThere == Spec => []RoomIsMade
<1>1. GroupInv => RoomIsMade
  <2> SUFFICES ASSUME GroupInv, ~emptied, ret # NULL, want <= MaxInt
               PROVE  ret \in Live(heap) /\ want * Tsize <= heap[ret] /\ want <= total
    BY DEF RoomIsMade
  <2>1. ret = mb.block /\ want <= total
    BY DEF GroupInv, Answered
  <2>2. ret \in Live(heap) /\ heap[ret] = mb.bytes
    BY <2>1 DEF GroupInv, EntriesExist
  <2>3. Tsize \in Nat \ {0} /\ mb.bytes = total * Tsize
    BY <2>1 DEF GroupInv, TypeOK, Filled
  <2>4. want \in Int /\ total \in Nat
    BY DEF GroupInv, TypeOK
  <2>5. want * Tsize <= total * Tsize
    BY <2>1, <2>3, <2>4
  <2> QED  BY <2>1, <2>2, <2>3, <2>5
<1> QED  BY <1>1, Grouped, PTL

\* Only a lower total leaves count or focus outside of the group.
THEOREM IndicesStayInside == Spec => []IndicesInside
<1>1. GroupInv => IndicesInside
  BY DEF GroupInv
<1> QED  BY <1>1, Grouped, PTL
=============================================================================
