--------------------------- MODULE WorkersProofs ---------------------------
(***************************************************************************)
(* What holds of Workers for every heap, every size and every number of    *)
(* failures, proved.                                                       *)
(***************************************************************************)
EXTENDS Workers, SequenceTheorems, TLAPS

-----------------------------------------------------------------------------
\* The heap operators keep the types of heaps and blocks.

LEMMA MovedType ==
  ASSUME NEW h \in Heap, NEW old \in Pointer, NEW new \in Pointer,
         NEW n \in 0..MaxBytes
  PROVE  Moved(h, old, new, n) \in Heap
  BY BytesAssumption DEF Moved, Heap

LEMMA AltMemoryBlockType ==
  ASSUME NEW h \in Heap, NEW mb \in Block, NEW n \in 0..MaxBytes,
         NEW out \in AltMemoryBlock(h, mb, n)
  PROVE  out.heap \in Heap /\ out.mb \in Block
<1>1. CASE out = [heap |-> h, mb |-> mb]
  BY <1>1
<1>2. CASE \E a \in Room(h, mb.block) :
             out = [heap |-> Moved(h, mb.block, a, n),
                    mb |-> [block |-> a, bytes |-> n]]
  <2>1. PICK a \in Room(h, mb.block) :
               out = [heap |-> Moved(h, mb.block, a, n),
                      mb |-> [block |-> a, bytes |-> n]]
    BY <1>2
  <2>2. a \in Pointer /\ mb.block \in Pointer
    BY DEF Room, Block, Pointer
  <2>3. Moved(h, mb.block, a, n) \in Heap
    BY <2>2, MovedType
  <2> QED
    BY <2>1, <2>2, <2>3 DEF Block
<1> QED
  BY <1>1, <1>2 DEF AltMemoryBlock

LEMMA DelMemoryBlockType ==
  ASSUME NEW h \in Heap, NEW mb \in Block
  PROVE  /\ DelMemoryBlock(h, mb).heap \in Heap
         /\ DelMemoryBlock(h, mb).mb \in Block
<1>1. mb.block \in Pointer /\ NULL \in Pointer /\ 0 \in 0..MaxBytes
  BY BytesAssumption DEF Block, Pointer
<1>2. Moved(h, mb.block, NULL, 0) \in Heap
  BY <1>1, MovedType
<1> QED
  BY <1>1, <1>2 DEF DelMemoryBlock, Block

\* Every request is a call.
LEMMA RequestsType ==
  ASSUME TypeOK
  PROVE  Requests \subseteq Call
<1>1. /\ MaxBytes \in Nat \ {0} /\ PathBytes \in 0..MaxBytes
      /\ NeedBytes \in 0..MaxBytes /\ NULL \in Pointer
  BY BytesAssumption, PathAssumption DEF Pointer
<1>2. New \subseteq Call
  BY <1>1 DEF New, Call
<1>3. Resize \subseteq Call
  BY <1>1 DEF Resize, Call, LuaBlocks, Live, Pointer
<1>4. ASSUME NEW blocks, blocks \subseteq Addr
      PROVE  Release(blocks) \subseteq Call
  BY <1>1, <1>4 DEF Release, Call, Pointer, TypeOK, Heap
<1>5. LuaBlocks \subseteq Addr /\ {path} \ {NULL} \subseteq Addr
  BY DEF LuaBlocks, Live, TypeOK, Pointer
<1>6. /\ Release(LuaBlocks) \subseteq Call
      /\ Release({path} \ {NULL}) \subseteq Call
  BY <1>4, <1>5
<1>7. /\ [ptr |-> NULL, osize |-> 0, nsize |-> PathBytes] \in Call
      /\ [ptr |-> path, osize |-> 0, nsize |-> NeedBytes] \in Call
  BY <1>1 DEF Call, TypeOK
<1>8. phase \in Phase
  BY DEF TypeOK
<1> QED
  BY <1>2, <1>3, <1>6, <1>7, <1>8 DEF Requests, Phase

LEMMA VerdictType ==
  ASSUME TypeOK
  PROVE  Verdict(call, frame.mb) \in Pointer
  BY DEF TypeOK, Verdict, Frame, Block, Pointer

LEMMA AcceptType ==
  ASSUME TypeOK, NEW r \in Pointer, Accept(call, r)
  PROVE  /\ held' \in Heap
         /\ path' \in Pointer
         /\ phase' \in Phase
         /\ thread' = "run"
         /\ frame' \in Frame
<1>1. call.ptr \in Pointer /\ call.nsize \in 0..MaxBytes /\ NULL \in Pointer
  BY DEF TypeOK, Call, Pointer
<1>2. 0 \in 0..MaxBytes
  BY BytesAssumption
<1>3. held \in Heap
  BY DEF TypeOK
<1>4. held' \in Heap
  BY <1>1, <1>2, <1>3, MovedType DEF Accept, After
<1>5. path' \in Pointer
  BY <1>1 DEF Accept, TypeOK, Phase
<1>6. phase' \in Phase
  BY DEF Accept, TypeOK, Phase
<1>7. frame' \in Frame
  BY DEF Accept, TypeOK, Frame
<1> QED
  BY <1>4, <1>5, <1>6, <1>7 DEF Accept

-----------------------------------------------------------------------------
\* The variables have their types.

LEMMA TypeInit == Init => TypeOK
<1> SUFFICES ASSUME Init PROVE TypeOK
  OBVIOUS
<1>1. 0 \in 0..MaxBytes /\ NULL \in Pointer
  BY BytesAssumption DEF Pointer
<1>2. frame \in Frame /\ call \in Call
  BY <1>1 DEF Init, Frame, Block, Call, NoCall
<1>3. heap \in Heap /\ held \in Heap /\ path \in Pointer
  BY <1>1 DEF Init, Heap, EmptyHeap
<1>4. /\ seekErrors \in 0..SeekErrors
      /\ pollErrors \in 0..PollErrors
      /\ writeErrors \in 0..WriteErrors
  BY FaultAssumption DEF Init
<1>5. pipes \in Seq({"own_msg"}) /\ own_pipes \in Seq({"tmp_msg", "raw"})
  BY DEF Init
<1>6. main = "open" /\ ret = "0" /\ count = 0 /\ object = "none"
      /\ thread = "none" /\ cancel = FALSE /\ phase = "cfg"
      /\ own_msg = "NONE" /\ tmp_msg = "NONE"
  BY DEF Init
<1>7. cancel \in BOOLEAN
  BY DEF Init
<1>8. count \in 0..1
  BY <1>6
<1> QED
  BY <1>2, <1>3, <1>4, <1>5, <1>6, <1>7, <1>8 DEF TypeOK, Phase, Serving, Over

LEMMA TypeStep == TypeOK /\ [Next]_vars => TypeOK'
<1> SUFFICES ASSUME TypeOK, [Next]_vars PROVE TypeOK'
  OBVIOUS
<1> USE FaultAssumption DEF Serving, Over
<1>1. CASE OpenPipes
  BY <1>1 DEF OpenPipes, TypeOK, worker, msgs, memory, faults
<1>2. CASE IncGroup
  BY <1>2 DEF IncGroup, TypeOK, worker, msgs, memory, faults
<1>3. CASE NewWorker
  BY <1>3 DEF NewWorker, TypeOK, msgs, memory, faults
<1>4. CASE Register
  BY <1>4 DEF Register, TypeOK, worker, msgs, memory, faults
<1>5. CASE MainReads
  <2>1. pipes' \in Seq({"own_msg"})
    BY <1>5 DEF MainReads, TypeOK
  <2>2. own_pipes' = <<>> \/ own_pipes' = own_pipes
    BY <1>5 DEF MainReads, WorkerDied
  <2>3. own_pipes' \in Seq({"tmp_msg", "raw"})
    <3>1. CASE own_pipes' = <<>>
      BY <3>1
    <3>2. CASE own_pipes' = own_pipes
      BY <3>2 DEF TypeOK
    <3> QED
      BY <2>2, <3>1, <3>2
  <2> QED
    BY <1>5, <2>1, <2>3 DEF MainReads, WorkerDied, TypeOK, worker, memory, faults
<1>6. CASE Serve
  <2>1. heap' \in Heap /\ frame' \in Frame
    <3>1. CASE UNCHANGED <<frame, heap>>
      BY <3>1 DEF TypeOK
    <3>2. CASE \E out \in IF frame.want > 0
                          THEN AltMemoryBlock(heap, frame.mb, frame.want)
                          ELSE {DelMemoryBlock(heap, frame.mb)} :
                 /\ heap' = out.heap
                 /\ frame' = [frame EXCEPT !.mb = out.mb]
      <4>1. /\ heap \in Heap /\ frame.mb \in Block
            /\ frame.want \in 0..MaxBytes /\ frame \in Frame
        BY DEF TypeOK, Frame
      <4>2. PICK out \in IF frame.want > 0
                         THEN AltMemoryBlock(heap, frame.mb, frame.want)
                         ELSE {DelMemoryBlock(heap, frame.mb)} :
                   /\ heap' = out.heap
                   /\ frame' = [frame EXCEPT !.mb = out.mb]
        BY <3>2
      <4>3. out.heap \in Heap /\ out.mb \in Block
        BY <4>1, AltMemoryBlockType, DelMemoryBlockType
      <4> QED
        BY <4>1, <4>2, <4>3 DEF Frame
    <3> QED
      BY <1>6, <3>1, <3>2 DEF Serve
  <2> QED
    BY <1>6, <2>1 DEF Serve, TypeOK, setup, worker, msgs, faults
<1>7. CASE Reply
  <2>1. own_pipes' \in Seq({"tmp_msg", "raw"})
    BY <1>7 DEF Reply, TypeOK
  <2> QED
    BY <1>7, <2>1 DEF Reply, TypeOK, setup, worker, memory, faults
<1>8. CASE LoopEnds
  BY <1>8 DEF LoopEnds, TypeOK, setup, worker, msgs, memory
<1>9. CASE DelWorkers
  <2>1. own_pipes' \in Seq({"tmp_msg", "raw"})
    BY <1>9 DEF DelWorkers, TypeOK
  <2> QED
    BY <1>9, <2>1 DEF DelWorkers, TypeOK, setup, worker, memory, faults
<1>10. CASE Cancel
  BY <1>10 DEF Cancel, TypeOK, setup, msgs, memory, faults
<1>11. CASE Join
  BY <1>11 DEF Join, TypeOK, worker, memory, faults
<1>12. CASE ShutPipes
  BY <1>12 DEF ShutPipes, TypeOK, setup, worker, msgs, memory, faults
<1>13. CASE WritePanic
  BY <1>13 DEF WritePanic, TypeOK, setup, worker, memory
<1>14. ASSUME NEW c \in Call, Ask(c) PROVE TypeOK'
  <2>1. Built(c) \in Frame
    BY DEF Built, Frame, Block, Call
  <2> QED
    BY <1>14, <2>1 DEF Ask, TypeOK, setup, faults
<1>15. CASE SayDied
  BY <1>15 DEF SayDied, TypeOK, setup, memory, faults
<1>16. CASE Send
  <2>1. pipes' \in Seq({"own_msg"})
    BY <1>16 DEF Send, TypeOK
  <2> QED
    BY <1>16, <2>1 DEF Send, TypeOK, setup, memory, faults
<1>17. CASE SendFails
  <2>1. CASE Accept(call, NULL) /\ UNCHANGED main
    <3>1. /\ held' \in Heap /\ path' \in Pointer /\ phase' \in Phase
          /\ thread' = "run" /\ frame' \in Frame
      BY <2>1, AcceptType DEF Pointer
    <3> QED
      BY <1>17, <2>1, <3>1 DEF SendFails, TypeOK, setup, msgs
  <2>2. CASE /\ UNCHANGED <<frame, held, path, phase>>
             /\ \/ thread' = "run" /\ UNCHANGED main
                \/ main' = "exit" /\ UNCHANGED thread
    BY <1>17, <2>2 DEF SendFails, TypeOK, setup, msgs
  <2> QED
    BY <1>17, <2>1, <2>2 DEF SendFails
<1>18. CASE WorkerReads
  <2>1. own_pipes' \in Seq({"tmp_msg", "raw"})
    BY <1>18 DEF WorkerReads, TypeOK
  <2> QED
    BY <1>18, <2>1 DEF WorkerReads, TypeOK, setup, memory, faults
<1>19. CASE SeekTest
  <2>1. CASE Accept(call, Verdict(call, frame.mb))
    <3>1. /\ held' \in Heap /\ path' \in Pointer /\ phase' \in Phase
          /\ thread' = "run" /\ frame' \in Frame
      BY <2>1, AcceptType, VerdictType
    <3> QED
      BY <1>19, <3>1 DEF SeekTest, TypeOK, setup, msgs, faults
  <2>2. CASE thread' = "seek" /\ UNCHANGED <<phase, frame, held, path>>
    BY <1>19, <2>2 DEF SeekTest, TypeOK, setup, msgs, faults
  <2> QED
    BY <1>19, <2>1, <2>2 DEF SeekTest
<1>20. CASE SeekFails
  <2>1. /\ held' \in Heap /\ path' \in Pointer /\ phase' \in Phase
        /\ thread' = "run" /\ frame' \in Frame
    BY <1>20, AcceptType, VerdictType DEF SeekFails
  <2> QED
    BY <1>20, <2>1 DEF SeekFails, TypeOK, setup, msgs
<1>21. CASE Advance
  BY <1>21 DEF Advance, TypeOK, setup, msgs, memory, faults, Phase
<1>22. CASE ThreadReturns
  BY <1>22 DEF ThreadReturns, TypeOK, setup, msgs, memory, faults
<1>23. CASE Cancelled
  BY <1>23 DEF Cancelled, TypeOK, setup, msgs, memory, faults
<1>24. CASE UNCHANGED vars
  BY <1>24 DEF vars, TypeOK
<1> QED
  BY <1>1, <1>2, <1>3, <1>4, <1>5, <1>6, <1>7, <1>8, <1>9, <1>10, <1>11,
     <1>12, <1>13, <1>14, <1>15, <1>16, <1>17, <1>18, <1>19, <1>20, <1>21,
     <1>22, <1>23, <1>24 DEF Next, MainStep, WorkerStep, Finished

\* Whatever fails and however the two threads are scheduled, every variable
\* keeps its type: no count below 0, no block larger than what was asked for.
THEOREM TypeCorrect == Spec => []TypeOK
<1> QED
  BY TypeInit, TypeStep, PTL DEF Spec

-----------------------------------------------------------------------------
(***************************************************************************)
(* The inductive invariant, where no wait is broken off (SeekErrors = 0).  *)
(* Handshake follows the one request there is through the two pipes,       *)
(* Lifetime the struct worker and the thread, Memory the blocks.           *)
(***************************************************************************)
Handshake ==
  /\ seekErrors = 0
  /\ pipes \in {<<>>, <<"own_msg">>}
  /\ own_pipes \in {<<>>, <<"tmp_msg">>, <<"raw">>, <<"tmp_msg", "raw">>}
  /\ main \in Serving \cup {"cleanup"} => own_pipes \in {<<>>, <<"tmp_msg">>}
  /\ main \in {"alloc", "reply"} =>
       thread = "seek" /\ pipes = <<>> /\ own_pipes = <<>>
  /\ thread \in {"none", "run", "send", "got"} =>
       pipes = <<>> /\ own_pipes \in {<<>>, <<"raw">>}
  /\ thread = "none" => own_pipes = <<>>
  /\ thread \in {"leaving", "ended"} /\ main \in {"register", "poll"} =>
       own_msg = "DIED" \/ pipes = <<>>
  /\ thread = "send" => own_msg = IF phase = "die" THEN "DIED" ELSE "ALLOC"
  /\ thread = "send" /\ phase # "die" => frame.live
  /\ thread = "seek" => own_msg = "ALLOC" /\ frame.live
  /\ thread = "got" => tmp_msg = "CONT" /\ frame.live
  /\ thread = "seek" /\ pipes # <<>> => own_pipes \in {<<>>, <<"raw">>}
  /\ own_pipes \in {<<"tmp_msg">>, <<"tmp_msg", "raw">>} /\ thread = "seek" =>
       tmp_msg = "CONT"

Lifetime ==
  /\ main \in {"open", "group", "create"} => thread = "none"
  /\ thread = "none" =>
       /\ main \in {"open", "group", "create", "cleanup", "shut"} \cup Over
       /\ count = 0 /\ object \in {"none", "leaked"}
  /\ thread \in {"run", "send", "seek", "got"} =>
       /\ object = "live"
       /\ main \notin {"shut", "return"}
       /\ main \notin {"register", "exit", "crashed"} => count = 1
  /\ cancel => main \in {"join", "shut"} \cup Over

\* What the answer to the call says of the heap.
Settled ==
  LET r == Verdict(call, frame.mb)
  IN  /\ r \notin {NULL, call.ptr} => held[r] = 0
      /\ Exact(After(call, r), heap)
      /\ call.ptr # NULL /\ call.nsize \in 1..call.osize => r # NULL

Waiting == thread \in {"send", "seek", "got"} /\ phase # "die"

Memory ==
  /\ path # NULL => path \in Live(held)
  /\ phase = "cfg" => Live(held) = {} /\ path = NULL
  /\ phase \in {"grow", "drop", "free", "die"} => Live(held) \subseteq {path}
  /\ thread = "none" => phase = "cfg"
  /\ thread = "leaving" => phase = "die"
  /\ thread \in {"seek", "got"} => phase # "die"
  /\ thread \in {"none", "run", "send", "leaving"}
     \/ (thread = "ended" /\ phase = "die") => Exact(held, heap)
  /\ Waiting => call \in Requests
  /\ Waiting /\ Running /\ ~Answered => frame = Built(call) /\ Exact(held, heap)
  /\ Waiting /\ Running /\ Answered => Settled
  /\ thread = "got" => Settled

IInv == Handshake /\ Lifetime /\ Memory

-----------------------------------------------------------------------------
\* The few queues there are.
LEMMA Queues ==
  /\ Append(<<>>, "own_msg") = <<"own_msg">>
  /\ Append(<<>>, "tmp_msg") = <<"tmp_msg">>
  /\ Append(<<>>, "raw") = <<"raw">>
  /\ Append(<<"tmp_msg">>, "raw") = <<"tmp_msg", "raw">>
  /\ Tail(<<"own_msg">>) = <<>>
  /\ Tail(<<"tmp_msg">>) = <<>> /\ Head(<<"tmp_msg">>) = "tmp_msg"
  /\ Tail(<<"raw">>) = <<>> /\ Head(<<"raw">>) = "raw"
  /\ Tail(<<"tmp_msg", "raw">>) = <<"raw">>
  /\ Head(<<"tmp_msg", "raw">>) = "tmp_msg"
  /\ <<>> # <<"own_msg">>
  /\ <<>> # <<"tmp_msg">> /\ <<>> # <<"raw">> /\ <<>> # <<"tmp_msg", "raw">>
  /\ <<"raw">> # <<"tmp_msg">> /\ <<"raw">> # <<"tmp_msg", "raw">>
<1>1. /\ Append(<<>>, "own_msg") = <<"own_msg">>
      /\ Append(<<>>, "tmp_msg") = <<"tmp_msg">>
      /\ Append(<<>>, "raw") = <<"raw">>
  OBVIOUS
<1>2. Append(<<"tmp_msg">>, "raw") = <<"tmp_msg", "raw">>
  <2> DEFINE s == Append(<<"tmp_msg">>, "raw")
             t == <<"tmp_msg", "raw">>
  <2>1. /\ s \in Seq({"tmp_msg", "raw"}) /\ Len(s) = 2
        /\ s[1] = "tmp_msg" /\ s[2] = "raw"
    OBVIOUS
  <2>2. /\ t \in Seq({"tmp_msg", "raw"}) /\ Len(t) = 2
        /\ t[1] = "tmp_msg" /\ t[2] = "raw"
    OBVIOUS
  <2>3. \A i \in 1..2 : s[i] = t[i]
    BY <2>1, <2>2
  <2> HIDE DEF s, t
  <2>4. s = t
    BY <2>1, <2>2, <2>3, SeqEqual
  <2> QED
    BY <2>4 DEF s, t
<1>3. Tail(<<"own_msg">>) = <<>> /\ Tail(<<"tmp_msg">>) = <<>> /\ Tail(<<"raw">>) = <<>>
  OBVIOUS
<1>4. /\ Head(<<"tmp_msg">>) = "tmp_msg" /\ Head(<<"raw">>) = "raw"
      /\ Head(<<"tmp_msg", "raw">>) = "tmp_msg"
  OBVIOUS
<1>5. Tail(<<"tmp_msg", "raw">>) = <<"raw">>
  OBVIOUS
<1>6. /\ <<>> # <<"own_msg">>
      /\ <<>> # <<"tmp_msg">> /\ <<>> # <<"raw">> /\ <<>> # <<"tmp_msg", "raw">>
  OBVIOUS
<1>7. <<"raw">> # <<"tmp_msg">> /\ <<"raw">> # <<"tmp_msg", "raw">>
  OBVIOUS
<1> QED
  BY <1>1, <1>2, <1>3, <1>4, <1>5, <1>6, <1>7

LEMMA InitIInv == SeekErrors = 0 /\ Init => IInv
<1> SUFFICES ASSUME SeekErrors = 0, Init PROVE IInv
  OBVIOUS
<1>1. Handshake
  BY DEF Init, Handshake, Serving
<1>2. Lifetime
  BY DEF Init, Lifetime
<1>3. Memory
  BY DEF Init, Memory, Waiting, Exact, Live, EmptyHeap
<1> QED
  BY <1>1, <1>2, <1>3 DEF IInv

LEMMA LifetimeStep ==
  ASSUME TypeOK, IInv, Next
  PROVE  Lifetime'
<1> USE DEF IInv, Lifetime, Serving, Over, Running
<1>1. CASE OpenPipes
  BY <1>1 DEF OpenPipes, worker
<1>2. CASE IncGroup
  BY <1>2 DEF IncGroup, worker
<1>3. CASE NewWorker
  BY <1>3 DEF NewWorker
<1>4. CASE Register
  BY <1>4 DEF Register, worker
<1>5. CASE MainReads
  BY <1>5 DEF MainReads, WorkerDied, worker, Handshake
<1>6. CASE Serve
  BY <1>6 DEF Serve, setup, worker
<1>7. CASE Reply
  BY <1>7 DEF Reply, setup, worker
<1>8. CASE LoopEnds
  BY <1>8 DEF LoopEnds, setup, worker
<1>9. CASE DelWorkers
  BY <1>9 DEF DelWorkers, setup, worker, TypeOK
<1>10. CASE Cancel
  BY <1>10 DEF Cancel, setup
<1>11. CASE Join
  BY <1>11 DEF Join, worker
<1>12. CASE ShutPipes
  BY <1>12 DEF ShutPipes, setup, worker
<1>13. CASE WritePanic
  BY <1>13 DEF WritePanic, setup, worker
<1>14. ASSUME NEW c \in Call, Ask(c) PROVE Lifetime'
  BY <1>14 DEF Ask, setup
<1>15. CASE SayDied
  BY <1>15 DEF SayDied, setup
<1>16. CASE Send
  BY <1>16 DEF Send, setup
<1>17. CASE SendFails
  BY <1>17 DEF SendFails, Accept, setup
<1>18. CASE WorkerReads
  BY <1>18 DEF WorkerReads, setup
<1>19. CASE SeekTest
  BY <1>19 DEF SeekTest, Accept, setup
<1>20. CASE SeekFails
  BY <1>20 DEF SeekFails, Handshake
<1>21. CASE Advance
  BY <1>21 DEF Advance, setup
<1>22. CASE ThreadReturns
  BY <1>22 DEF ThreadReturns, setup
<1>23. CASE Cancelled
  BY <1>23 DEF Cancelled, setup
<1>24. CASE Finished
  BY <1>24 DEF Finished, vars
<1> QED
  BY <1>1, <1>2, <1>3, <1>4, <1>5, <1>6, <1>7, <1>8, <1>9, <1>10, <1>11,
     <1>12, <1>13, <1>14, <1>15, <1>16, <1>17, <1>18, <1>19, <1>20, <1>21,
     <1>22, <1>23, <1>24 DEF Next, MainStep, WorkerStep

LEMMA HandshakeStep ==
  ASSUME TypeOK, IInv, Next
  PROVE  Handshake'
<1> USE Queues DEF IInv, Handshake, Serving, Over, Running
<1>1. CASE OpenPipes
  BY <1>1 DEF OpenPipes, worker, msgs, memory, faults
<1>2. CASE IncGroup
  BY <1>2 DEF IncGroup, worker, msgs, memory, faults, Lifetime
<1>3. CASE NewWorker
  BY <1>3 DEF NewWorker, msgs, memory, faults, Lifetime
<1>4. CASE Register
  BY <1>4 DEF Register, worker, msgs, memory, faults
<1>5. CASE MainReads
  <2>1. pipes = <<"own_msg">> /\ pipes' = <<>> /\ main = "poll"
    BY <1>5 DEF MainReads
  <2>2. thread \in {"seek", "leaving", "ended"}
    BY <2>1 DEF TypeOK
  <2>3. CASE own_msg = "DIED" /\ WorkerDied
    <3>1. thread \in {"leaving", "ended"}
      BY <2>2, <2>3
    <3> QED
      BY <1>5, <2>1, <2>3, <3>1 DEF MainReads, WorkerDied, worker, memory, faults
  <2>4. CASE own_msg # "DIED" /\ main' = "alloc"
    <3>1. thread = "seek" /\ own_pipes = <<>>
      BY <2>1, <2>2, <2>4
    <3> QED
      BY <1>5, <2>1, <2>4, <3>1 DEF MainReads, worker, memory, faults
  <2> QED
    BY <1>5, <2>3, <2>4 DEF MainReads
<1>6. CASE Serve
  BY <1>6 DEF Serve, setup, worker, msgs, faults, TypeOK, Frame
<1>7. CASE Reply
  BY <1>7 DEF Reply, setup, worker, memory, faults, Lifetime
<1>8. CASE LoopEnds
  BY <1>8 DEF LoopEnds, setup, worker, msgs, memory
<1>9. CASE DelWorkers
  <2>1. own_pipes \in {<<>>, <<"tmp_msg">>}
    BY <1>9 DEF DelWorkers
  <2>2. CASE own_pipes' = own_pipes
    BY <1>9, <2>1, <2>2 DEF DelWorkers, setup, worker, memory, faults
  <2>3. CASE own_pipes = <<>> /\ own_pipes' = <<"raw">> /\ main' = "cancel"
    BY <1>9, <2>3 DEF DelWorkers, setup, worker, memory, faults, Lifetime
  <2>4. CASE /\ own_pipes = <<"tmp_msg">> /\ own_pipes' = <<"tmp_msg", "raw">>
             /\ main' = "cancel"
    BY <1>9, <2>4 DEF DelWorkers, setup, worker, memory, faults
  <2> QED
    BY <1>9, <2>1, <2>2, <2>3, <2>4 DEF DelWorkers
<1>10. CASE Cancel
  BY <1>10 DEF Cancel, setup, msgs, memory, faults
<1>11. CASE Join
  BY <1>11 DEF Join, worker, memory, faults
<1>12. CASE ShutPipes
  BY <1>12 DEF ShutPipes, setup, worker, msgs, memory, faults
<1>13. CASE WritePanic
  BY <1>13 DEF WritePanic, setup, worker, memory
<1>14. ASSUME NEW c \in Call, Ask(c) PROVE Handshake'
  <2>1. phase # "die"
    BY <1>14 DEF Ask, Requests
  <2> QED
    BY <1>14, <2>1 DEF Ask, Built, faults
<1>15. CASE SayDied
  BY <1>15 DEF SayDied, memory, faults
<1>16. CASE Send
  BY <1>16 DEF Send, memory, faults
<1>17. CASE SendFails
  BY <1>17 DEF SendFails, Accept, msgs
<1>18. CASE WorkerReads
  BY <1>18 DEF WorkerReads, memory, faults
<1>19. CASE SeekTest
  BY <1>19 DEF SeekTest, Accept, msgs, faults
<1>20. CASE SeekFails
  BY <1>20 DEF SeekFails
<1>21. CASE Advance
  BY <1>21 DEF Advance, msgs, memory, faults
<1>22. CASE ThreadReturns
  BY <1>22 DEF ThreadReturns, msgs, memory, faults
<1>23. CASE Cancelled
  BY <1>23 DEF Cancelled, msgs, memory, faults, Lifetime
<1>24. CASE Finished
  BY <1>24 DEF Finished, vars
<1> QED
  BY <1>1, <1>2, <1>3, <1>4, <1>5, <1>6, <1>7, <1>8, <1>9, <1>10, <1>11,
     <1>12, <1>13, <1>14, <1>15, <1>16, <1>17, <1>18, <1>19, <1>20, <1>21,
     <1>22, <1>23, <1>24 DEF Next, MainStep, WorkerStep

-----------------------------------------------------------------------------
\* Where a reply is queued.
LEMMA TmpQueued ==
  ASSUME NEW q \in {<<>>, <<"tmp_msg">>, <<"raw">>, <<"tmp_msg", "raw">>}
  PROVE  (\E i \in 1..Len(q) : q[i] = "tmp_msg")
           <=> q \in {<<"tmp_msg">>, <<"tmp_msg", "raw">>}
<1>1. CASE q = <<>>
  BY <1>1, Queues
<1>2. CASE q = <<"tmp_msg">>
  BY <1>2
<1>3. CASE q = <<"raw">>
  BY <1>3, Queues
<1>4. CASE q = <<"tmp_msg", "raw">>
  BY <1>4
<1> QED
  BY <1>1, <1>2, <1>3, <1>4

LEMMA AnsweredWhere ==
  ASSUME Handshake
  PROVE  Answered <=>
           \/ main = "reply" \/ thread = "got"
           \/ own_pipes \in {<<"tmp_msg">>, <<"tmp_msg", "raw">>}
  BY TmpQueued DEF Handshake, Answered

LEMMA AnsweredWherePrime ==
  ASSUME Handshake'
  PROVE  Answered' <=>
           \/ main' = "reply" \/ thread' = "got"
           \/ own_pipes' \in {<<"tmp_msg">>, <<"tmp_msg", "raw">>}
  BY TmpQueued DEF Handshake, Answered

LEMMA RequestsUnchanged ==
  ASSUME UNCHANGED <<phase, path, held>>
  PROVE  Requests' = Requests
  BY DEF Requests, New, Resize, Release, LuaBlocks, Live

LEMMA SettledUnchanged ==
  ASSUME UNCHANGED <<call, frame, held, heap>>
  PROVE  Settled' = Settled
  BY DEF Settled, Verdict, Exact, After, Moved

\* A step that leaves the worker and the blocks alone, and the answer where
\* it was.
LEMMA MemoryUnchanged ==
  ASSUME Memory, UNCHANGED <<thread, phase, call, frame, heap, held, path>>,
         Waiting /\ Running' => Running /\ (Answered' <=> Answered)
  PROVE  Memory'
<1>1. Requests' = Requests /\ Settled' = Settled
  BY RequestsUnchanged, SettledUnchanged
<1>2. Waiting' = Waiting /\ Built(call)' = Built(call)
  BY DEF Waiting, Built
<1>3. Exact(held, heap)' = Exact(held, heap) /\ Live(held)' = Live(held)
  BY DEF Exact, Live
<1> QED
  BY <1>1, <1>2, <1>3 DEF Memory

\* What every request says of its block.
LEMMA RequestFacts ==
  ASSUME TypeOK, Memory, NEW c \in Requests
  PROVE  /\ c \in Call
         /\ c.ptr = NULL => c.nsize > 0
         /\ c.ptr # NULL => c.ptr \in Live(held) /\ c.osize <= held[c.ptr]
         /\ phase \in {"drop", "free"} => c.ptr = path /\ c.nsize = 0
         /\ phase = "grow" => c.ptr = path /\ c.nsize > 0
         /\ phase = "cfg" => c.ptr = NULL /\ c.nsize > 0
         /\ phase \in {"open", "unwind", "lua", "close"} =>
              path = NULL \/ c.ptr # path
         /\ phase # "die"
<1>1. c \in Call
  BY RequestsType
<1>2. /\ PathBytes \in Nat /\ PathBytes > 0 /\ NeedBytes \in Nat /\ NeedBytes > 0
      /\ MaxBytes \in Nat /\ NULL \notin Addr
  BY PathAssumption, BytesAssumption, NullAssumption
<1>3. held \in Heap /\ path \in Pointer
  BY DEF TypeOK
<1>4. CASE phase = "cfg"
  BY <1>1, <1>2, <1>4 DEF Requests
<1>5. CASE phase = "grow"
  <2>1. c.ptr = path /\ c.osize = 0 /\ c.nsize = NeedBytes
    BY <1>5 DEF Requests
  <2>2. path # NULL => path \in Live(held) /\ held[path] >= 0
    BY <1>2, <1>3 DEF Memory, Heap, Live
  <2> QED
    BY <1>1, <1>2, <1>5, <2>1, <2>2
<1>6. CASE phase \in {"drop", "free"}
  <2>1. c \in Release({path} \ {NULL})
    BY <1>6 DEF Requests
  <2>2. c.ptr = path /\ c.osize = held[path] /\ c.nsize = 0 /\ path # NULL
    BY <2>1 DEF Release
  <2>3. held[path] \in Nat
    BY <1>2, <1>3, <2>2 DEF Heap, Pointer
  <2> QED
    BY <1>1, <1>6, <2>2, <2>3 DEF Memory
<1>7. ASSUME c \in New
      PROVE  c.ptr = NULL /\ c.nsize > 0
  BY <1>2, <1>7 DEF New
<1>8. ASSUME c \in Resize \cup Release(LuaBlocks)
      PROVE  c.ptr \in LuaBlocks /\ c.osize = held[c.ptr]
  BY <1>8 DEF Resize, Release
<1>9. ASSUME c.ptr \in LuaBlocks /\ c.osize = held[c.ptr]
      PROVE  /\ c.ptr # NULL /\ c.ptr # path
             /\ c.ptr \in Live(held) /\ c.osize <= held[c.ptr]
  BY <1>2, <1>3, <1>9 DEF LuaBlocks, Live, Heap
<1>10. CASE phase \in {"open", "unwind", "lua", "close"}
  <2>1. c \in New \/ c \in Resize \cup Release(LuaBlocks)
    BY <1>10 DEF Requests
  <2> QED
    BY <1>1, <1>7, <1>8, <1>9, <1>10, <2>1
<1>11. phase # "die" /\ phase \in Phase
  BY DEF Requests, TypeOK
<1> QED
  BY <1>4, <1>5, <1>6, <1>10, <1>11 DEF Phase

\* Every outcome of serving a request settles it.
LEMMA ServeSettles ==
  ASSUME TypeOK, Memory, call \in Requests, frame = Built(call),
         Exact(held, heap), UNCHANGED <<call, held>>,
         NEW out \in IF frame.want > 0
                     THEN AltMemoryBlock(heap, frame.mb, frame.want)
                     ELSE {DelMemoryBlock(heap, frame.mb)},
         heap' = out.heap, frame' = [frame EXCEPT !.mb = out.mb]
  PROVE  Settled'
<1> DEFINE ptr == call.ptr
           n == call.nsize
           r == Verdict(call, out.mb)
<1>1. /\ call \in Call /\ ptr \in Pointer /\ n \in 0..MaxBytes
      /\ ptr = NULL => n > 0
      /\ ptr # NULL => ptr \in Live(held) /\ call.osize <= held[ptr]
      /\ MaxBytes \in Nat /\ NULL \notin Addr /\ call.osize \in 0..MaxBytes
  BY RequestFacts, BytesAssumption, NullAssumption DEF Call
<1>2. heap \in Heap /\ held \in Heap
  BY DEF TypeOK
<1>3. frame.want = n /\ frame.mb = [block |-> ptr, bytes |-> call.osize]
  BY DEF Built
<1>4. frame'.mb = out.mb /\ call' = call /\ held' = held
  BY DEF TypeOK, Frame
<1>5. ASSUME /\ r \notin {NULL, ptr} => held[r] = 0
             /\ Exact(After(call, r), out.heap)
             /\ ptr # NULL /\ n \in 1..call.osize => r # NULL
      PROVE  Settled'
  BY <1>4, <1>5 DEF Settled, Verdict, Exact, After, Moved
<1>6. CASE n = 0
  <2>1. /\ out.mb = [block |-> NULL, bytes |-> 0]
        /\ out.heap = Moved(heap, ptr, NULL, 0)
    BY <1>3, <1>6 DEF DelMemoryBlock
  <2>2. r = NULL /\ After(call, r) = Moved(held, ptr, NULL, 0)
    BY <1>6, <2>1 DEF Verdict, After
  <2>3. Exact(After(call, r), out.heap)
    BY <1>2, <2>1, <2>2 DEF Exact, Moved, Heap
  <2> QED
    BY <1>5, <1>6, <2>2, <2>3
<1>7. CASE n > 0 /\ out = [heap |-> heap, mb |-> frame.mb]
  <2>1. r = IF call.osize >= n THEN ptr ELSE NULL
    BY <1>3, <1>7 DEF Verdict
  <2>2. CASE r = NULL
    <3>1. After(call, r) = held
      BY <1>7, <2>2 DEF After
    <3> QED
      BY <1>1, <1>5, <1>7, <2>1, <2>2, <3>1
  <2>3. CASE r # NULL
    <3>1. r = ptr /\ After(call, r) = Moved(held, ptr, ptr, n) /\ n <= call.osize
      BY <1>1, <1>7, <2>1, <2>3 DEF After
    <3>2. Exact(Moved(held, ptr, ptr, n), heap)
      BY <1>1, <1>2, <1>7, <2>3, <3>1 DEF Exact, Moved, Heap, Live
    <3> QED
      BY <1>5, <1>7, <2>3, <3>1, <3>2
  <2> QED
    BY <2>2, <2>3
<1>8. ASSUME n > 0,
             NEW a \in Room(heap, ptr),
             out = [heap |-> Moved(heap, ptr, a, n),
                    mb |-> [block |-> a, bytes |-> n]]
      PROVE  Settled'
  <2>1. a \in Addr /\ (heap[a] = 0 \/ a = ptr)
    BY <1>8 DEF Room
  <2>2. r = a /\ r # NULL /\ After(call, r) = Moved(held, ptr, a, n)
    BY <1>1, <1>8, <2>1 DEF Verdict, After
  <2>3. a # ptr => held[a] = 0
    BY <1>2, <2>1 DEF Exact, Heap
  <2>4. Exact(Moved(held, ptr, a, n), Moved(heap, ptr, a, n))
    BY <1>1, <1>2, <1>8, <2>1 DEF Exact, Moved, Heap
  <2> QED
    BY <1>5, <1>8, <2>2, <2>3, <2>4
<1>9. CASE n > 0
  <2>1. out \in AltMemoryBlock(heap, frame.mb, n) /\ frame.mb.block = ptr
    BY <1>3, <1>9
  <2> QED
    BY <1>7, <1>8, <1>9, <2>1 DEF AltMemoryBlock
<1> QED
  BY <1>1, <1>6, <1>9

\* A caller that takes a settled answer holds what there is.
LEMMA AcceptMemory ==
  ASSUME TypeOK, Memory, call \in Requests, NEW r \in Pointer,
         r \notin {NULL, call.ptr} => held[r] = 0,
         Accept(call, r), UNCHANGED heap, Exact(After(call, r), heap)
  PROVE  Memory'
<1> DEFINE ptr == call.ptr
           n == call.nsize
<1>1. /\ call \in Call
      /\ ptr = NULL => n > 0
      /\ ptr # NULL => ptr \in Live(held)
      /\ phase \in {"drop", "free"} => ptr = path /\ n = 0
      /\ phase = "grow" => ptr = path /\ n > 0
      /\ phase = "cfg" => ptr = NULL /\ n > 0
      /\ phase \in {"open", "unwind", "lua", "close"} => path = NULL \/ ptr # path
      /\ phase # "die"
  BY RequestFacts
<1>2. /\ held \in Heap /\ path \in Pointer /\ phase \in Phase
      /\ n \in Nat /\ MaxBytes \in Nat /\ NULL \notin Addr
  BY <1>1, BytesAssumption, NullAssumption DEF TypeOK, Call
<1>3. held' = IF n = 0 THEN Moved(held, ptr, NULL, 0)
              ELSE IF r = NULL THEN held ELSE Moved(held, ptr, r, n)
  BY DEF Accept, After
<1>4. thread' = "run" /\ ~Waiting' /\ Exact(held', heap')
  BY DEF Accept, Waiting, Exact
<1>5. CASE phase = "cfg"
  <2>1. path' = r /\ phase' = "grow"
    BY <1>5 DEF Accept
  <2>2. Live(held) = {}
    BY <1>5 DEF Memory
  <2>3. CASE r = NULL
    BY <1>1, <1>3, <1>4, <1>5, <2>1, <2>2, <2>3 DEF Memory, Live
  <2>4. CASE r # NULL
    <3>1. held' = Moved(held, NULL, r, n) /\ r \in Addr
      BY <1>1, <1>3, <1>5, <2>4 DEF Pointer
    <3>2. Live(held') = {r}
      BY <1>1, <1>2, <1>5, <2>2, <3>1 DEF Live, Moved, Heap
    <3> QED
      BY <1>4, <2>1, <2>4, <3>1, <3>2 DEF Memory, Live
  <2> QED
    BY <2>3, <2>4
<1>6. CASE phase = "grow"
  <2>1. CASE r = NULL
    <3>1. path' = path /\ phase' = "drop" /\ held' = held
      BY <1>1, <1>3, <1>6, <2>1 DEF Accept
    <3> QED
      BY <1>4, <1>6, <3>1 DEF Memory, Live
  <2>2. CASE r # NULL
    <3>1. path' = r /\ phase' = "open" /\ held' = Moved(held, path, r, n)
      BY <1>1, <1>3, <1>6, <2>2 DEF Accept
    <3>2. r \in Live(held')
      BY <1>1, <1>2, <1>6, <2>2, <3>1 DEF Live, Moved, Heap, Pointer
    <3> QED
      BY <1>4, <3>1, <3>2 DEF Memory, Live
  <2> QED
    BY <2>1, <2>2
<1>7. CASE phase \in {"drop", "free"}
  <2>1. path' = NULL /\ phase' = "die" /\ held' = Moved(held, path, NULL, 0)
    BY <1>1, <1>3, <1>7 DEF Accept
  <2>2. Live(held) \subseteq {path}
    BY <1>7 DEF Memory
  <2>3. Live(held') = {}
    BY <1>2, <2>1, <2>2 DEF Live, Moved, Heap
  <2> QED
    BY <1>4, <2>1, <2>3 DEF Memory, Live
<1>8. CASE phase \in {"open", "unwind", "lua", "close"}
  <2>1. path' = path
    BY <1>8 DEF Accept
  <2>2. phase' \in {"open", "unwind", "lua", "close"}
    BY <1>8 DEF Accept
  <2>3. path # NULL => path \in Live(held) /\ path # ptr /\ path # r
    BY <1>1, <1>2, <1>8 DEF Memory, Live
  <2>4. path # NULL => path \in Live(held')
    BY <1>2, <1>3, <2>3 DEF Live, Moved, Heap
  <2> QED
    BY <1>4, <2>1, <2>2, <2>4 DEF Memory, Live
<1> QED
  BY <1>1, <1>2, <1>5, <1>6, <1>7, <1>8 DEF Phase

LEMMA MemoryStep ==
  ASSUME TypeOK, IInv, Handshake', Lifetime', Next
  PROVE  Memory'
<1> DEFINE Fixed == UNCHANGED <<thread, phase, call, frame, heap, held, path>>
<1>0. Handshake /\ Lifetime /\ Memory
  BY DEF IInv
<1>a. Answered <=> \/ main = "reply" \/ thread = "got"
                   \/ own_pipes \in {<<"tmp_msg">>, <<"tmp_msg", "raw">>}
  BY <1>0, AnsweredWhere
<1>b. Answered' <=> \/ main' = "reply" \/ thread' = "got"
                    \/ own_pipes' \in {<<"tmp_msg">>, <<"tmp_msg", "raw">>}
  BY AnsweredWherePrime
<1>c. ASSUME Fixed, Waiting /\ Running' => Running /\ (Answered' <=> Answered)
      PROVE  Memory'
  BY <1>0, <1>c, MemoryUnchanged
<1>1. CASE OpenPipes
  BY <1>a, <1>b, <1>c, <1>1 DEF OpenPipes, worker, msgs, memory, Running, Over
<1>2. CASE IncGroup
  BY <1>a, <1>b, <1>c, <1>2 DEF IncGroup, worker, msgs, memory, Running, Over
<1>3. CASE NewWorker
  <2>1. /\ UNCHANGED <<phase, call, frame, heap, held, path>>
        /\ thread = "none" /\ thread' \in {"none", "run"}
    BY <1>0, <1>3 DEF NewWorker, memory, Lifetime
  <2> QED
    BY <1>0, <2>1 DEF Memory, Waiting, Live, Exact
<1>4. CASE Register
  BY <1>a, <1>b, <1>c, <1>4 DEF Register, worker, msgs, memory, Running, Over
<1>5. CASE MainReads
  <2>1. CASE WorkerDied
    <3>1. own_msg = "DIED"
      BY <1>0, <1>5, <2>1 DEF MainReads, WorkerDied
    <3>2. thread \in {"leaving", "ended"}
      BY <1>0, <1>5, <3>1, TypeStep DEF MainReads, Handshake, TypeOK
    <3> QED
      BY <1>c, <1>5, <3>2 DEF MainReads, worker, memory, Waiting
  <2>2. CASE main' = "alloc" /\ UNCHANGED own_pipes
    BY <1>a, <1>b, <1>c, <1>5, <2>2
       DEF MainReads, worker, memory, Running, Over
  <2> QED
    BY <1>5, <2>1, <2>2 DEF MainReads
<1>6. CASE Serve
  <2>1. thread = "seek" /\ own_msg = "ALLOC" /\ own_pipes = <<>> /\ ~Answered
        /\ Running /\ Waiting /\ main = "alloc"
    BY <1>0, <1>a, <1>6, Queues
       DEF Serve, Handshake, Running, Over, Waiting, Memory
  <2>2. call \in Requests /\ frame = Built(call) /\ Exact(held, heap)
    BY <1>0, <2>1 DEF Memory
  <2>3. CASE main' = "crashed" /\ UNCHANGED <<frame, heap>>
    BY <1>c, <1>6, <2>3 DEF Serve, worker, Running, Over
  <2>4. CASE \E out \in IF frame.want > 0
                        THEN AltMemoryBlock(heap, frame.mb, frame.want)
                        ELSE {DelMemoryBlock(heap, frame.mb)} :
               /\ heap' = out.heap
               /\ frame' = [frame EXCEPT !.mb = out.mb]
    <3>1. UNCHANGED <<call, held, path, thread, phase>>
      BY <1>6 DEF Serve, worker
    <3>2. Settled'
      BY <1>0, <2>2, <2>4, <3>1, ServeSettles
    <3>3. Requests' = Requests
      BY <3>1, RequestsUnchanged
    <3>4. CASE main' = "reply"
      <4>1. Answered'
        BY <1>b, <3>4
      <4>2. thread' = "seek" /\ phase' # "die"
        BY <2>1, <3>1 DEF Waiting
      <4> QED
        BY <1>0, <2>2, <3>1, <3>2, <3>3, <4>1, <4>2 DEF Memory, Live
    <3>5. CASE main' # "reply"
      BY <1>c, <1>6, <2>1, <2>3, <3>5 DEF Serve
    <3> QED
      BY <3>4, <3>5
  <2> QED
    BY <1>6, <2>1, <2>3, <2>4 DEF Serve
<1>7. CASE Reply
  BY <1>0, <1>a, <1>b, <1>c, <1>7, Queues
     DEF Reply, worker, memory, Running, Over, Handshake, Lifetime
<1>8. CASE LoopEnds
  BY <1>a, <1>b, <1>c, <1>8 DEF LoopEnds, worker, msgs, memory, Running, Over
<1>9. CASE DelWorkers
  <2>1. Answered' <=> Answered
    BY <1>0, <1>a, <1>b, <1>9, Queues
       DEF DelWorkers, Handshake, worker
  <2> QED
    BY <1>c, <1>9, <2>1 DEF DelWorkers, worker, memory, Running, Over
<1>10. CASE Cancel
  <2>1. Fixed /\ (Answered' <=> Answered) /\ Running
    BY <1>a, <1>b, <1>10 DEF Cancel, msgs, memory, Running, Over
  <2> QED
    BY <1>c, <2>1
<1>11. CASE Join
  BY <1>c, <1>11 DEF Join, worker, memory, Waiting
<1>12. CASE ShutPipes
  BY <1>c, <1>12 DEF ShutPipes, worker, memory, Running, Over
<1>13. CASE WritePanic
  BY <1>c, <1>13 DEF WritePanic, worker, memory, Running, Over
<1>14. ASSUME NEW c \in Call, Ask(c) PROVE Memory'
  <2>1. /\ thread = "run" /\ thread' = "send" /\ c \in Requests /\ call' = c
        /\ frame' = Built(c) /\ UNCHANGED <<main, phase, own_pipes, held, path, heap>>
    BY <1>14 DEF Ask
  <2>2. Requests' = Requests
    BY <2>1, RequestsUnchanged
  <2>3. frame' = Built(call)'
    BY <2>1 DEF Built
  <2>4. ~Answered'
    BY <1>0, <1>b, <2>1, Queues DEF Handshake
  <2> QED
    BY <1>0, <2>1, <2>2, <2>3, <2>4 DEF Memory, Waiting, Live, Exact
<1>15. CASE SayDied
  BY <1>0, <1>15 DEF SayDied, memory, Memory, Waiting, Live, Exact
<1>16. CASE Send
  <2>1. UNCHANGED <<main, phase, own_pipes, call, frame, held, path, heap>>
        /\ thread = "send"
        /\ thread' = IF phase = "die" THEN "leaving" ELSE "seek"
    BY <1>16 DEF Send, memory
  <2>2. Requests' = Requests
    BY <2>1, RequestsUnchanged
  <2>3. CASE phase = "die"
    BY <1>0, <2>1, <2>3 DEF Memory, Waiting, Live, Exact
  <2>4. CASE phase # "die"
    <3>1. frame' = Built(call)' /\ Exact(held, heap)' /\ call' \in Requests'
      BY <1>0, <1>a, <1>16, <2>1, <2>2, <2>4, Queues
         DEF Send, Memory, Waiting, Handshake, Built, Exact
    <3>2. ~Answered'
      BY <1>0, <1>b, <2>1, <2>4, Queues DEF Handshake
    <3> QED
      BY <1>0, <2>1, <2>4, <3>1, <3>2 DEF Memory, Waiting, Live
  <2> QED
    BY <2>3, <2>4
<1>17. CASE SendFails
  <2>1. UNCHANGED <<heap, call>> /\ thread = "send"
    BY <1>17 DEF SendFails
  <2>2. CASE /\ phase = "die" /\ thread' = "run"
             /\ UNCHANGED <<main, frame, held, path, phase>>
    BY <1>0, <2>1, <2>2 DEF Memory, Waiting, Live, Exact
  <2>3. CASE phase # "die" /\ call.nsize > 0 /\ Accept(call, NULL)
    <3>1. call \in Requests
      BY <1>0, <2>1, <2>3 DEF Memory, Waiting
    <3>2. After(call, NULL) = held
      BY <2>3 DEF After
    <3>3. Exact(held, heap)
      BY <1>0, <2>1 DEF Memory
    <3> QED
      BY <1>0, <2>1, <2>3, <3>1, <3>2, <3>3, AcceptMemory DEF Pointer
  <2>4. CASE main' = "exit" /\ UNCHANGED <<frame, held, path, phase, thread>>
    BY <1>c, <2>1, <2>4 DEF Running, Over
  <2> QED
    BY <1>17, <2>2, <2>3, <2>4 DEF SendFails
<1>18. CASE WorkerReads
  <2>1. UNCHANGED <<phase, call, frame, held, path, heap>> /\ thread = "seek"
    BY <1>18 DEF WorkerReads, memory
  <2>2. CASE main' = "crashed" /\ UNCHANGED thread
    BY <1>c, <2>1, <2>2 DEF Running, Over
  <2>3. CASE Head(own_pipes) = "tmp_msg" /\ thread' = "got"
    <3>1. Answered /\ Waiting /\ Running
      BY <1>0, <1>a, <1>18, <2>1, <2>3, Queues
         DEF WorkerReads, Handshake, Waiting, Memory
    <3>2. Requests' = Requests /\ Settled' = Settled
      BY <2>1, RequestsUnchanged, SettledUnchanged
    <3> QED
      BY <1>0, <1>b, <2>1, <2>3, <3>1, <3>2 DEF Memory, Waiting, Live
  <2> QED
    BY <1>18, <2>2, <2>3 DEF WorkerReads
<1>19. CASE SeekTest
  <2>1. /\ thread = "got" /\ tmp_msg = "CONT" /\ Answered /\ Waiting /\ Running
        /\ UNCHANGED <<call, heap>>
    BY <1>0, <1>a, <1>19 DEF SeekTest, Handshake, Waiting, Memory
  <2>2. call \in Requests /\ Settled
    BY <1>0, <2>1 DEF Memory
  <2>3. Accept(call, Verdict(call, frame.mb))
    BY <1>19, <2>1 DEF SeekTest
  <2> QED
    BY <1>0, <2>1, <2>2, <2>3, AcceptMemory, VerdictType DEF Settled
<1>20. CASE SeekFails
  BY <1>0, <1>20 DEF SeekFails, Handshake
<1>21. CASE Advance
  BY <1>0, <1>21 DEF Advance, memory, Memory, Waiting, Live, Exact, LuaBlocks
<1>22. CASE ThreadReturns
  BY <1>0, <1>22 DEF ThreadReturns, memory, Memory, Waiting, Live, Exact
<1>23. CASE Cancelled
  BY <1>0, <1>23 DEF Cancelled, memory, Memory, Waiting, Live, Exact
<1>24. CASE Finished
  BY <1>c, <1>24 DEF Finished, vars, Running, Over
<1> QED
  BY <1>1, <1>2, <1>3, <1>4, <1>5, <1>6, <1>7, <1>8, <1>9, <1>10, <1>11,
     <1>12, <1>13, <1>14, <1>15, <1>16, <1>17, <1>18, <1>19, <1>20, <1>21,
     <1>22, <1>23, <1>24 DEF Next, MainStep, WorkerStep

-----------------------------------------------------------------------------
\* The inductive invariant holds, and what follows from it.

LEMMA IInvStep == TypeOK /\ IInv /\ [Next]_vars => IInv'
<1> SUFFICES ASSUME TypeOK, IInv, [Next]_vars PROVE IInv'
  OBVIOUS
<1>1. CASE Next
  BY <1>1, HandshakeStep, LifetimeStep, MemoryStep DEF IInv
<1>2. CASE UNCHANGED vars
  <2>1. Handshake' /\ Lifetime'
    BY <1>2 DEF vars, IInv, Handshake, Lifetime
  <2>2. Memory'
    <3>1. UNCHANGED <<thread, phase, call, frame, heap, held, path>>
          /\ Running' = Running /\ Answered' = Answered
      BY <1>2 DEF vars, Running, Answered
    <3> QED
      BY <3>1, MemoryUnchanged DEF IInv
  <2> QED
    BY <2>1, <2>2 DEF IInv
<1> QED
  BY <1>1, <1>2

THEOREM Invariance ==
  ASSUME SeekErrors = 0
  PROVE  Spec => [](TypeOK /\ IInv)
<1>1. Init => TypeOK /\ IInv
  BY TypeInit, InitIInv
<1>2. TypeOK /\ IInv /\ [Next]_vars => (TypeOK /\ IInv)'
  BY TypeStep, IInvStep
<1> QED
  BY <1>1, <1>2, PTL DEF Spec

\* Where no wait is broken off, the worker's view of its memory is exact
\* whenever it runs: lua_memory neither loses nor invents a block.
THEOREM Ownership ==
  ASSUME SeekErrors = 0
  PROVE  Spec => []OwnershipExact
<1>1. IInv => OwnershipExact
  BY DEF IInv, Memory, OwnershipExact
<1> QED
  BY <1>1, Invariance, PTL

\* The request and reply protocol: while the worker runs both pipes hold
\* nothing of an earlier request, so no reply can be taken for another.
THEOREM OneAtATime ==
  ASSUME SeekErrors = 0
  PROVE  Spec => []OneRequest
<1>1. IInv => OneRequest
  <2> SUFFICES ASSUME IInv, thread \in {"run", "send"}
               PROVE  /\ pipes = <<>> /\ main \notin {"alloc", "reply"}
                      /\ \A i \in 1..Len(own_pipes) : own_pipes[i] # "tmp_msg"
    BY DEF OneRequest
  <2>1. /\ pipes = <<>> /\ main \notin {"alloc", "reply"}
        /\ own_pipes \in {<<>>, <<"raw">>}
    BY DEF IInv, Handshake
  <2>2. \A i \in 1..Len(own_pipes) : own_pipes[i] # "tmp_msg"
    BY <2>1, TmpQueued, Queues
  <2> QED
    BY <2>1, <2>2
<1> QED
  BY <1>1, Invariance, PTL

\* Main never writes to the frame of a lua_memory call that has returned.
THEOREM FrameOutlivesRequest ==
  ASSUME SeekErrors = 0
  PROVE  Spec => []LiveFrame
<1>1. IInv => LiveFrame
  BY DEF IInv, Handshake, LiveFrame
<1> QED
  BY <1>1, Invariance, PTL

\* A call that is to make a block smaller does so whatever realloc answers; only
\* where its request cannot be sent it returns NULL.
THEOREM Shrinking ==
  ASSUME SeekErrors = 0
  PROVE  Spec => ShrinkSucceeds
<1>1. TypeOK /\ IInv /\ [Next]_vars => [ShrinkRefused => SendFails]_vars
  <2> SUFFICES ASSUME TypeOK, IInv, Next, ShrinkRefused, ~SendFails PROVE FALSE
    BY DEF ShrinkRefused, vars
  <2>1. SeekTest /\ tmp_msg = "CONT" /\ Accept(call, Verdict(call, frame.mb))
    <3>1. ~SeekFails
      BY DEF SeekFails, IInv, Handshake
    <3>2. frame'.live # frame.live
      BY DEF ShrinkRefused
    <3>3. CASE MainStep
      <4>1. frame' = frame \/ \E mb \in {frame'.mb} : frame' = [frame EXCEPT !.mb = mb]
        BY <3>3 DEF MainStep, OpenPipes, IncGroup, NewWorker, Register, MainReads,
                    Serve, Reply, LoopEnds, DelWorkers, Cancel, Join, ShutPipes,
                    WritePanic, memory
      <4> QED  BY <3>2, <4>1 DEF TypeOK, Frame
    <3>4. CASE \E c \in Call : Ask(c)
      BY <3>4 DEF Ask, Built, ShrinkRefused
    <3>5. CASE SayDied \/ Send \/ WorkerReads \/ Advance \/ ThreadReturns \/ Cancelled
      BY <3>2, <3>5 DEF SayDied, Send, WorkerReads, Advance, ThreadReturns, Cancelled,
                        memory
    <3>6. CASE Finished
      BY <3>2, <3>6 DEF Finished, vars
    <3>7. CASE SeekTest
      BY <3>2, <3>7 DEF SeekTest
    <3> QED
      BY <3>1, <3>3, <3>4, <3>5, <3>6, <3>7 DEF Next, WorkerStep
  <2> DEFINE r == Verdict(call, frame.mb)
  <2>2. Settled /\ call \in Requests
    BY <2>1 DEF SeekTest, IInv, Memory, Waiting
  <2>3. /\ call.ptr \in Addr /\ call.nsize \in 1..MaxBytes
        /\ call.osize = held[call.ptr] /\ call.nsize # call.osize
    BY <2>2 DEF ShrinkRefused, Requests, New, Resize, Release, LuaBlocks, Live, TypeOK,
                Call, Pointer
  <2>4. r \in Addr /\ (r # call.ptr => held[r] = 0)
    BY <2>2, VerdictType DEF Settled, ShrinkRefused, Pointer
  <2>5. held[r] = call.nsize
    <3>1. held = Moved(held, call.ptr, r, call.nsize)
      BY <2>1, <2>3, <2>4, NullAssumption DEF Accept, After, ShrinkRefused
    <3> HIDE DEF r
    <3> QED  BY <2>4, <3>1 DEF Moved
  <2> HIDE DEF r
  <2> QED  BY <2>3, <2>4, <2>5
<1> QED
  BY <1>1, Invariance, PTL DEF Spec, ShrinkSucceeds

\* A worker that has died has given back all its blocks but PATH, and that is
\* left only where worker_lua jumped to die with it in hand.
THEOREM DeathReleases ==
  ASSUME SeekErrors = 0
  PROVE  Spec => []NothingLeftBehind
<1>1. TypeOK /\ IInv => NothingLeftBehind
  BY DEF TypeOK, IInv, Memory, NothingLeftBehind, Exact, Live, Heap
<1> QED
  BY <1>1, Invariance, PTL

\* The struct worker outlives every use its thread makes of it.
THEOREM ObjectOutlivesThread ==
  ASSUME SeekErrors = 0
  PROVE  Spec => []ObjectAlive
<1>1. TypeOK /\ IInv => ObjectAlive
  BY DEF TypeOK, IInv, Lifetime, ObjectAlive
<1> QED
  BY <1>1, Invariance, PTL

\* main_worker shuts its pipes and returns with no thread that still uses them; one
\* that said it died may not have ended, since worker_died does not wait for it.
THEOREM ShutAfterUse ==
  ASSUME SeekErrors = 0
  PROVE  Spec => []ShutUnused
<1>1. TypeOK /\ IInv => ShutUnused
  BY DEF TypeOK, IInv, Lifetime, ShutUnused
<1> QED
  BY <1>1, Invariance, PTL

-----------------------------------------------------------------------------
\* Until a poll of main fails no worker is told to terminate.

NoTerm ==
  /\ main = "cleanup" => count = 0
  /\ main \notin {"cancel", "join", "crashed"}
  /\ own_pipes \in {<<>>, <<"tmp_msg">>}

QuietPoll == pollErrors = PollErrors => NoTerm

LEMMA NoTermStep ==
  ASSUME TypeOK, IInv, QuietPoll, [Next]_vars, pollErrors' = PollErrors
  PROVE  NoTerm'
<1>0. pollErrors = PollErrors
  <2>1. pollErrors' = pollErrors \/ pollErrors' = pollErrors - 1
    BY DEF Next, MainStep, WorkerStep, Finished, OpenPipes, IncGroup, NewWorker,
           Register, MainReads, Serve, Reply, LoopEnds, DelWorkers, Cancel, Join,
           ShutPipes, WritePanic, Ask, SayDied, Send, SendFails, WorkerReads,
           SeekTest, SeekFails, Advance, ThreadReturns, Cancelled, faults, vars
  <2>2. pollErrors \in 0..PollErrors /\ PollErrors \in Nat
    BY FaultAssumption DEF TypeOK
  <2> QED  BY <2>1, <2>2
<1>a. NoTerm
  BY <1>0 DEF QuietPoll
<1> USE Queues, <1>a DEF NoTerm
<1>1. CASE OpenPipes
  BY <1>1 DEF OpenPipes, msgs, faults
<1>2. CASE IncGroup
  BY <1>2 DEF IncGroup, msgs, faults, IInv, Lifetime
<1>3. CASE NewWorker
  BY <1>3 DEF NewWorker, msgs, faults, IInv, Lifetime
<1>4. CASE Register
  BY <1>4 DEF Register, msgs, faults
<1>5. CASE MainReads
  BY <1>5 DEF MainReads, WorkerDied, faults
<1>6. CASE Serve
  <2>1. thread = "seek" /\ own_pipes = <<>> /\ Running /\ Waiting
    BY <1>6 DEF Serve, IInv, Handshake, Running, Over, Waiting, Memory
  <2>2. ~Answered
    BY <1>6, <2>1, AnsweredWhere DEF Serve, IInv
  <2>3. call \in Requests /\ frame = Built(call) /\ Exact(held, heap)
    BY <2>1, <2>2 DEF IInv, Memory
  <2>4. call.ptr # NULL => call.ptr \in Live(held)
    BY <2>3, RequestFacts DEF IInv
  <2>5. Valid(heap, frame.mb.block)
    BY <2>3, <2>4 DEF Built, Valid, Exact, Live, TypeOK, Heap
  <2> QED
    BY <1>6, <2>5 DEF Serve, setup, msgs, faults
<1>7. CASE Reply
  BY <1>7 DEF Reply, setup, faults, IInv, Handshake
<1>8. CASE LoopEnds
  <2>1. count = 0
    BY <1>0, <1>8 DEF LoopEnds, TypeOK
  <2> QED  BY <1>8, <2>1 DEF LoopEnds, setup, msgs
<1>9. CASE DelWorkers
  BY <1>9 DEF DelWorkers, setup, faults
<1>10. CASE Cancel
  BY <1>10 DEF Cancel
<1>11. CASE Join
  BY <1>11 DEF Join
<1>12. CASE ShutPipes
  BY <1>12 DEF ShutPipes, setup, msgs, faults
<1>13. CASE WritePanic
  BY <1>13 DEF WritePanic, setup
<1>14. ASSUME NEW c \in Call, Ask(c) PROVE NoTerm'
  BY <1>14 DEF Ask, setup, faults
<1>15. CASE SayDied
  BY <1>15 DEF SayDied, setup, faults
<1>16. CASE Send
  BY <1>16 DEF Send, setup, faults
<1>17. CASE SendFails
  BY <1>17 DEF SendFails, setup, msgs
<1>18. CASE WorkerReads
  BY <1>18 DEF WorkerReads, setup, faults
<1>19. CASE SeekTest
  BY <1>19 DEF SeekTest, setup, msgs, faults
<1>20. CASE SeekFails
  BY <1>20 DEF SeekFails, IInv, Handshake
<1>21. CASE Advance
  BY <1>21 DEF Advance, setup, msgs, faults
<1>22. CASE ThreadReturns
  BY <1>22 DEF ThreadReturns, setup, msgs, faults
<1>23. CASE Cancelled
  BY <1>23 DEF Cancelled, setup, msgs, faults
<1>24. CASE UNCHANGED vars
  BY <1>24 DEF vars
<1> QED
  BY <1>1, <1>2, <1>3, <1>4, <1>5, <1>6, <1>7, <1>8, <1>9, <1>10, <1>11,
     <1>12, <1>13, <1>14, <1>15, <1>16, <1>17, <1>18, <1>19, <1>20, <1>21,
     <1>22, <1>23, <1>24 DEF Next, MainStep, WorkerStep, Finished

\* Where the worker's wait does not fail, and until main's poll does, gasp never
\* follows a pointer that is none and never frees or resizes a block that is
\* none.
THEOREM CrashFree ==
  ASSUME SeekErrors = 0
  PROVE  Spec => []NoCrash
<1>1. Init => QuietPoll
  BY DEF Init, NoTerm, QuietPoll
<1>2. TypeOK /\ IInv /\ QuietPoll /\ [Next]_vars => QuietPoll'
  BY NoTermStep DEF QuietPoll
<1>3. TypeOK /\ QuietPoll => NoCrash
  BY FaultAssumption DEF QuietPoll, NoTerm, NoCrash, TypeOK
<1> QED
  BY <1>1, <1>2, <1>3, Invariance, PTL DEF Spec

-----------------------------------------------------------------------------
\* Workers implements Allocator.

\* A step that leaves the call and the heap alone and the service where it is,
\* or ends it.
LEMMA StutterOrQuit ==
  ASSUME UNCHANGED <<call, frame, heap>>,
         AllocatorState' \in {AllocatorState, "over"}
  PROVE  [A!Next]_(A!vars)
<1>1. CASE AllocatorState' = AllocatorState
  <2>1. AllocatorRequest' = AllocatorRequest /\ AllocatorResult' = AllocatorResult
    BY <1>1 DEF AllocatorRequest, AllocatorResult, NoCall, Verdict
  <2> QED
    BY <1>1, <2>1 DEF A!vars
<1>2. CASE AllocatorState # "over" /\ AllocatorState' = "over"
  <2>1. AllocatorRequest' = NoCall /\ AllocatorResult' = NULL
    BY <1>2 DEF AllocatorRequest, AllocatorResult, NoCall
  <2>2. A!Quit
    BY <1>2, <2>1 DEF A!Quit, A!NoRequest, NoCall
  <2> QED
    BY <2>2 DEF A!Next
<1> QED
  BY <1>1, <1>2

LEMMA RefinementInit == Init => A!Init
<1> SUFFICES ASSUME Init PROVE A!Init
  OBVIOUS
<1>1. AllocatorState = "idle"
  BY DEF Init, AllocatorState, Over
<1>2. AllocatorRequest = NoCall /\ AllocatorResult = NULL
  BY <1>1 DEF AllocatorRequest, AllocatorResult
<1> QED
  BY <1>1, <1>2 DEF Init, A!Init, A!NoRequest, NoCall, A!EmptyHeap, EmptyHeap

LEMMA RefinementStep ==
  ASSUME TypeOK, IInv, TypeOK', IInv', Next
  PROVE  [A!Next]_(A!vars)
<1>0. Handshake /\ Lifetime /\ Memory /\ Handshake' /\ Lifetime' /\ Memory'
  BY DEF IInv
<1>a. Answered <=> \/ main = "reply" \/ thread = "got"
                   \/ own_pipes \in {<<"tmp_msg">>, <<"tmp_msg", "raw">>}
  BY <1>0, AnsweredWhere
<1>b. Answered' <=> \/ main' = "reply" \/ thread' = "got"
                    \/ own_pipes' \in {<<"tmp_msg">>, <<"tmp_msg", "raw">>}
  BY <1>0, AnsweredWherePrime
<1>c. ASSUME UNCHANGED <<call, frame, heap>>,
             AllocatorState' \in {AllocatorState, "over"}
      PROVE  [A!Next]_(A!vars)
  BY <1>c, StutterOrQuit
<1> USE Queues DEF Over, Running
<1>1. CASE OpenPipes
  BY <1>a, <1>b, <1>c, <1>1 DEF OpenPipes, worker, msgs, memory, AllocatorState
<1>2. CASE IncGroup
  BY <1>a, <1>b, <1>c, <1>2 DEF IncGroup, worker, msgs, memory, AllocatorState
<1>3. CASE NewWorker
  BY <1>0, <1>c, <1>3 DEF NewWorker, memory, AllocatorState, Lifetime
<1>4. CASE Register
  BY <1>a, <1>b, <1>c, <1>4 DEF Register, worker, msgs, memory, AllocatorState
<1>5. CASE MainReads
  <2>1. CASE WorkerDied
    <3>1. own_msg = "DIED"
      BY <1>5, <2>1 DEF MainReads, WorkerDied
    <3>2. thread \in {"leaving", "ended"}
      BY <1>0, <1>5, <3>1 DEF MainReads, Handshake, TypeOK
    <3> QED
      BY <1>c, <1>5, <3>2 DEF MainReads, worker, memory, AllocatorState
  <2>2. CASE main' = "alloc" /\ UNCHANGED own_pipes
    BY <1>a, <1>b, <1>c, <1>5, <2>2 DEF MainReads, worker, memory, AllocatorState
  <2> QED
    BY <1>5, <2>1, <2>2 DEF MainReads
<1>6. CASE Serve
  <2>1. /\ thread = "seek" /\ own_pipes = <<>> /\ main = "alloc" /\ own_msg = "ALLOC"
        /\ Waiting /\ ~Answered
    BY <1>0, <1>a, <1>6 DEF Serve, Handshake, Waiting, Memory
  <2>2. /\ call \in Requests /\ frame = Built(call) /\ Exact(held, heap)
        /\ AllocatorState = "asked" /\ AllocatorRequest = call
        /\ AllocatorResult = NULL
    BY <1>0, <2>1
       DEF Memory, Waiting, AllocatorState, AllocatorRequest, AllocatorResult
  <2>3. UNCHANGED <<call, thread, phase, own_pipes>>
    BY <1>6 DEF Serve, worker, msgs
  <2>4. CASE main' = "crashed" /\ UNCHANGED <<frame, heap>>
    BY <1>c, <2>3, <2>4 DEF AllocatorState
  <2>5. ASSUME main' = "reply",
               NEW out \in IF frame.want > 0
                           THEN AltMemoryBlock(heap, frame.mb, frame.want)
                           ELSE {DelMemoryBlock(heap, frame.mb)},
               heap' = out.heap, frame' = [frame EXCEPT !.mb = out.mb]
        PROVE  A!Answer
    <3>1. /\ frame.want = call.nsize
          /\ frame.mb = [block |-> call.ptr, bytes |-> call.osize]
          /\ frame'.mb = out.mb
      BY <2>2, <2>5 DEF Built, TypeOK, Frame
    <3>2. /\ AllocatorState' = "answered" /\ AllocatorRequest' = call
          /\ AllocatorResult' = Verdict(call, out.mb)
      BY <1>b, <2>1, <2>3, <2>5, <3>1
         DEF AllocatorState, AllocatorRequest, AllocatorResult, Waiting, Verdict
    <3>3. call \in Call /\ MaxBytes \in Nat
      BY <2>2, RequestsType, BytesAssumption
    <3>4. CASE call.nsize = 0
      <4>1. /\ out.mb = [block |-> NULL, bytes |-> 0]
            /\ out.heap = Moved(heap, call.ptr, NULL, 0)
        BY <2>5, <3>1, <3>4 DEF DelMemoryBlock
      <4>2. AllocatorResult' = NULL
        BY <3>2, <3>4, <4>1 DEF Verdict
      <4>3. A!Free
        BY <2>2, <2>5, <3>4, <4>1, <4>2 DEF A!Free, A!Moved, Moved
      <4> QED
        BY <2>2, <3>2, <4>3 DEF A!Answer
    <3>5. CASE call.nsize > 0
      <4>1. out \in AltMemoryBlock(heap, frame.mb, call.nsize)
        BY <2>5, <3>1, <3>5
      <4>2. CASE out = [heap |-> heap, mb |-> frame.mb]
        <5>1. AllocatorResult' = IF call.osize >= call.nsize THEN call.ptr ELSE NULL
          BY <3>1, <3>2, <4>2 DEF Verdict
        <5>2. A!Refuse
          BY <2>2, <2>5, <3>5, <4>2, <5>1 DEF A!Refuse
        <5> QED
          BY <2>2, <3>2, <5>2 DEF A!Answer
      <4>3. ASSUME NEW a \in Room(heap, call.ptr),
                   out = [heap |-> Moved(heap, call.ptr, a, call.nsize),
                          mb |-> [block |-> a, bytes |-> call.nsize]]
            PROVE  A!Answer
        <5>1. AllocatorResult' = a
          BY <3>2, <3>3, <4>3 DEF Verdict, Call
        <5>2. A!Allocate
          BY <2>2, <2>5, <3>5, <4>3, <5>1
             DEF A!Allocate, A!Room, Room, A!Moved, Moved
        <5> QED
          BY <2>2, <3>2, <5>2 DEF A!Answer
      <4> QED
        BY <3>1, <4>1, <4>2, <4>3 DEF AltMemoryBlock
    <3> QED
      BY <3>3, <3>4, <3>5 DEF Call
  <2> QED
    BY <1>6, <2>1, <2>4, <2>5 DEF Serve, A!Next
<1>7. CASE Reply
  BY <1>0, <1>a, <1>b, <1>c, <1>7
     DEF Reply, worker, memory, AllocatorState, Handshake, Lifetime
<1>8. CASE LoopEnds
  BY <1>a, <1>b, <1>c, <1>8 DEF LoopEnds, worker, msgs, memory, AllocatorState
<1>9. CASE DelWorkers
  <2>1. Answered' <=> Answered
    BY <1>0, <1>a, <1>b, <1>9 DEF DelWorkers, Handshake, worker
  <2> QED
    BY <1>c, <1>9, <2>1 DEF DelWorkers, worker, memory, AllocatorState
<1>10. CASE Cancel
  <2>1. /\ UNCHANGED <<call, frame, heap, thread, phase>>
        /\ main = "cancel" /\ main' = "join" /\ (Answered' <=> Answered)
    BY <1>a, <1>b, <1>10 DEF Cancel, msgs, memory
  <2> QED
    BY <1>c, <2>1 DEF AllocatorState
<1>11. CASE Join
  BY <1>c, <1>11 DEF Join, worker, memory, AllocatorState
<1>12. CASE ShutPipes
  BY <1>c, <1>12 DEF ShutPipes, worker, memory, AllocatorState
<1>13. CASE WritePanic
  BY <1>c, <1>13 DEF WritePanic, worker, memory, AllocatorState
<1>14. ASSUME NEW c \in Call, Ask(c) PROVE A!Ask
  <2>1. /\ thread = "run" /\ thread' = "send" /\ c \in Requests /\ call' = c
        /\ main \notin Over
        /\ UNCHANGED <<main, phase, own_pipes, heap>>
    BY <1>14 DEF Ask
  <2>2. phase # "die" /\ own_pipes \in {<<>>, <<"raw">>} /\ main # "reply"
    BY <1>0, <2>1, RequestFacts DEF Handshake
  <2>3. ~Answered'
    BY <1>b, <2>1, <2>2
  <2>4. /\ AllocatorState = "idle" /\ AllocatorState' = "asked"
        /\ AllocatorRequest' = c
        /\ AllocatorResult = NULL /\ AllocatorResult' = NULL
    BY <2>1, <2>2, <2>3 DEF AllocatorState, AllocatorRequest, AllocatorResult
  <2>5. /\ c.ptr = NULL => c.nsize > 0
        /\ c.ptr # NULL => c.ptr \in Live(held) /\ c.osize <= held[c.ptr]
    BY <1>0, <2>1, RequestFacts
  <2>6. Exact(held, heap) /\ held \in Heap /\ heap \in Heap /\ MaxBytes \in Nat
    BY <1>0, <2>1, BytesAssumption DEF Memory, TypeOK
  <2>7. c.ptr # NULL => c.ptr \in Live(heap) /\ c.osize <= heap[c.ptr]
    BY <2>5, <2>6 DEF Exact, Live, Heap, Call
  <2>8. c \in A!Request
    BY DEF Call, A!Request, A!Pointer, Pointer
  <2> QED
    BY <2>1, <2>4, <2>5, <2>7, <2>8 DEF A!Ask, A!Valid, A!Live, Live
<1>15. CASE SayDied
  BY <1>c, <1>15 DEF SayDied, memory, AllocatorState
<1>16. CASE Send
  <2>1. UNCHANGED <<main, phase, own_pipes, call, frame, heap>>
        /\ thread = "send"
        /\ thread' = IF phase = "die" THEN "leaving" ELSE "seek"
    BY <1>16 DEF Send, memory
  <2> QED
    BY <1>a, <1>b, <1>c, <2>1 DEF AllocatorState
<1>17. CASE SendFails
  <2>1. UNCHANGED <<heap, call, own_pipes>> /\ thread = "send" /\ main \notin Over
    BY <1>17 DEF SendFails, msgs
  <2>2. CASE /\ phase = "die" /\ thread' = "run"
             /\ UNCHANGED <<main, frame, held, path, phase>>
    BY <1>c, <2>1, <2>2 DEF AllocatorState
  <2>3. CASE phase # "die" /\ call.nsize > 0 /\ Accept(call, NULL) /\ UNCHANGED main
    <3>1. ~Answered
      BY <1>0, <1>a, <2>1 DEF Handshake
    <3>2. AllocatorState = "asked" /\ AllocatorRequest = call /\ AllocatorResult = NULL
      BY <2>1, <2>3, <3>1 DEF AllocatorState, AllocatorRequest, AllocatorResult
    <3>3. thread' = "run"
      BY <2>3 DEF Accept
    <3>4. AllocatorState' = "idle"
      BY <2>1, <2>3, <3>3 DEF AllocatorState
    <3>5. AllocatorRequest' = NoCall /\ AllocatorResult' = NULL
      BY <3>4 DEF AllocatorRequest, AllocatorResult, NoCall
    <3>6. A!Decline
      BY <2>1, <2>3, <3>2, <3>4, <3>5 DEF A!Decline, A!NoRequest, NoCall
    <3> QED
      BY <3>6 DEF A!Next
  <2>4. CASE main' = "exit" /\ UNCHANGED <<frame, held, path, phase, thread>>
    BY <1>c, <2>1, <2>4 DEF AllocatorState
  <2> QED
    BY <1>17, <2>2, <2>3, <2>4 DEF SendFails
<1>18. CASE WorkerReads
  <2>1. UNCHANGED <<phase, call, frame, heap>> /\ thread = "seek" /\ main \notin Over
    BY <1>18 DEF WorkerReads, memory
  <2>2. CASE main' = "crashed" /\ UNCHANGED thread
    BY <1>c, <2>1, <2>2 DEF AllocatorState
  <2>3. CASE Head(own_pipes) = "tmp_msg" /\ thread' = "got" /\ UNCHANGED main
    <3>1. Answered /\ phase # "die"
      BY <1>0, <1>a, <1>18, <2>1, <2>3 DEF WorkerReads, Handshake, Memory
    <3> QED
      BY <1>b, <1>c, <2>1, <2>3, <3>1 DEF AllocatorState
  <2> QED
    BY <1>18, <2>2, <2>3 DEF WorkerReads
<1>19. CASE SeekTest
  <2>1. /\ thread = "got" /\ thread' = "run" /\ Answered /\ phase # "die"
        /\ UNCHANGED <<main, heap>> /\ main \notin Over
    BY <1>0, <1>a, <1>19 DEF SeekTest, Accept, Handshake, Memory
  <2>2. AllocatorState = "answered" /\ AllocatorState' = "idle"
    BY <2>1 DEF AllocatorState
  <2>3. AllocatorRequest' = NoCall /\ AllocatorResult' = NULL
    BY <2>2 DEF AllocatorRequest, AllocatorResult, NoCall
  <2>4. A!Take
    BY <2>1, <2>2, <2>3 DEF A!Take, A!NoRequest, NoCall
  <2> QED
    BY <2>4 DEF A!Next
<1>20. CASE SeekFails
  BY <1>0, <1>20 DEF SeekFails, Handshake
<1>21. CASE Advance
  BY <1>c, <1>21 DEF Advance, memory, AllocatorState
<1>22. CASE ThreadReturns
  BY <1>c, <1>22 DEF ThreadReturns, memory, AllocatorState
<1>23. CASE Cancelled
  BY <1>c, <1>23 DEF Cancelled, memory, AllocatorState
<1>24. CASE Finished
  BY <1>c, <1>24 DEF Finished, vars, AllocatorState
<1> QED
  BY <1>1, <1>2, <1>3, <1>4, <1>5, <1>6, <1>7, <1>8, <1>9, <1>10, <1>11,
     <1>12, <1>13, <1>14, <1>15, <1>16, <1>17, <1>18, <1>19, <1>20, <1>21,
     <1>22, <1>23, <1>24 DEF Next, MainStep, WorkerStep, A!Next

\* lua_memory with the two threads, pipes and cells behind it is an atomic
\* allocator: the heap changes only as the contract of Allocator allows.
THEOREM Refinement ==
  ASSUME SeekErrors = 0
  PROVE  Spec => ImplementsAllocator
<1>1. Init => A!Init
  BY RefinementInit
<1>2. TypeOK /\ IInv /\ (TypeOK /\ IInv)' /\ [Next]_vars => [A!Next]_(A!vars)
  <2> SUFFICES ASSUME TypeOK, IInv, TypeOK', IInv', [Next]_vars
               PROVE  [A!Next]_(A!vars)
    OBVIOUS
  <2>1. CASE UNCHANGED vars
    <3>1. UNCHANGED <<call, frame, heap>> /\ AllocatorState' = AllocatorState
      BY <2>1 DEF vars, AllocatorState, Answered
    <3> QED
      BY <3>1, StutterOrQuit
  <2>2. CASE Next
    BY <2>2, RefinementStep
  <2> QED
    BY <2>1, <2>2
<1> QED
  BY <1>1, <1>2, Invariance, PTL DEF Spec, ImplementsAllocator, A!Spec

-----------------------------------------------------------------------------
(***************************************************************************)
(* The pipes, however many waits are broken off.  Every pointer on its way *)
(* and every request at work belongs to a wait, to one that was broken     *)
(* off, or to the last word of the worker; after it comes at most the last *)
(* word of main, which stays in the pipe.                                  *)
(***************************************************************************)
One(b) == IF b THEN 1 ELSE 0

Waits ==
  (SeekErrors - seekErrors) + One(thread \in {"seek", "got", "leaving", "ended"})

Sent == Len(pipes)
Replied == Len(own_pipes)

\* What the waits are about, at main and on the whole way.
AtMain == Sent + One(main \in {"alloc", "reply"})
InFlight == AtMain + Replied + One(thread = "got")

FlightBounded ==
  /\ AtMain <= Waits
  /\ InFlight <= Waits + One(main \in {"cancel", "join"} \cup Over)
  /\ main \in {"open", "group", "create"} => thread = "none"

LastWord ==
  main \in {"cancel", "join"} =>
    own_pipes # <<>> /\ own_pipes[Len(own_pipes)] = "raw"

\* The last word of main stays the last.
LEMMA LastWordStep ==
  ASSUME TypeOK, LastWord, [Next]_vars
  PROVE  LastWord'
<1> SUFFICES ASSUME main' \in {"cancel", "join"}
             PROVE  own_pipes' # <<>> /\ own_pipes'[Len(own_pipes')] = "raw"
  BY DEF LastWord
<1>1. own_pipes \in Seq({"tmp_msg", "raw"})
  BY DEF TypeOK
<1>2. CASE DelWorkers
  BY <1>1, <1>2 DEF DelWorkers
<1>3. CASE main \in {"cancel", "join"} /\ UNCHANGED own_pipes
  BY <1>3 DEF LastWord
<1>4. CASE WorkerReads
  <2>1. main \in {"cancel", "join"} /\ Head(own_pipes) = "tmp_msg"
    BY <1>4 DEF WorkerReads
  <2>2. own_pipes' = Tail(own_pipes) /\ own_pipes # <<>>
        /\ Head(own_pipes) = own_pipes[1]
    BY <1>1, <1>4 DEF WorkerReads
  <2>3. Len(own_pipes) > 1
    BY <1>1, <2>1, <2>2 DEF LastWord
  <2> QED
    BY <1>1, <2>1, <2>2, <2>3 DEF LastWord
<1>5. ASSUME Next, ~DelWorkers, ~WorkerReads
      PROVE  main \in {"cancel", "join"} /\ UNCHANGED own_pipes
  BY <1>5
     DEF Next, MainStep, WorkerStep, Finished, OpenPipes, IncGroup, NewWorker,
         Register, MainReads, WorkerDied, Serve, Reply, LoopEnds, Cancel, Join,
         ShutPipes, WritePanic, Ask, SayDied, Send, SendFails, SeekTest,
         SeekFails, Advance, ThreadReturns, Cancelled, Over, msgs, vars
<1>6. UNCHANGED vars => main \in {"cancel", "join"} /\ UNCHANGED own_pipes
  BY DEF vars
<1> QED
  BY <1>2, <1>3, <1>4, <1>5, <1>6

\* No step puts more on its way than there are waits.
LEMMA FlightStep ==
  ASSUME TypeOK, LastWord, FlightBounded, [Next]_vars
  PROVE  FlightBounded'
<1> USE FaultAssumption DEF FlightBounded, InFlight, AtMain, Waits, One, Over
<1>1. /\ pipes \in Seq({"own_msg"}) /\ own_pipes \in Seq({"tmp_msg", "raw"})
      /\ Sent \in Nat /\ Replied \in Nat
      /\ seekErrors \in 0..SeekErrors
      /\ (main \in {"cancel", "join"} => Replied > 0)
  BY DEF TypeOK, LastWord, Sent, Replied
<1>2. CASE OpenPipes \/ IncGroup \/ Register
  <2>1. UNCHANGED <<thread, Sent, Replied, seekErrors>>
    BY <1>2 DEF OpenPipes, IncGroup, Register, worker, msgs, faults, Sent, Replied
  <2>2. \/ /\ main \in {"open", "group"}
           /\ main' \in {"group", "return", "create", "cleanup"}
        \/ main = "register" /\ main' = "poll"
    BY <1>2 DEF OpenPipes, IncGroup, Register
  <2> QED
    BY <1>1, <2>1, <2>2
<1>3. CASE NewWorker
  <2>1. UNCHANGED <<Sent, Replied, seekErrors>> /\ main = "create"
    BY <1>3 DEF NewWorker, msgs, faults, Sent, Replied
  <2>2. \/ main' = "register" /\ thread' = "run"
        \/ main' = "cleanup" /\ UNCHANGED thread
    BY <1>3 DEF NewWorker
  <2>3. thread = "none"
    BY <2>1
  <2> QED
    BY <1>1, <2>1, <2>2, <2>3
<1>4. CASE MainReads
  <2>1. Sent' = Sent - 1
    BY <1>1, <1>4 DEF MainReads, Sent
  <2>2. UNCHANGED <<thread, seekErrors>> /\ main = "poll"
    BY <1>4 DEF MainReads, worker, faults
  <2>3. \/ main' = "alloc" /\ Replied' = Replied
        \/ UNCHANGED main /\ Replied' = 0
    BY <1>4 DEF MainReads, WorkerDied, Replied
  <2> QED
    BY <1>1, <2>1, <2>2, <2>3
<1>5. CASE Serve
  <2>1. UNCHANGED <<thread, Sent, Replied, seekErrors>> /\ main = "alloc"
        /\ main' \in {"poll", "crashed", "reply"}
    BY <1>5 DEF Serve, worker, msgs, faults, Sent, Replied
  <2> QED
    BY <1>1, <2>1
<1>6. CASE Reply
  <2>1. Replied' = Replied \/ Replied' = Replied + 1
    BY <1>1, <1>6 DEF Reply, Replied
  <2>2. UNCHANGED <<thread, Sent, seekErrors>> /\ main = "reply" /\ main' = "poll"
    BY <1>6 DEF Reply, worker, faults, Sent
  <2>3. AtMain' = AtMain - 1 /\ AtMain \in Nat /\ Waits' = Waits /\ Waits \in Nat
    BY <1>1, <2>2
  <2>4. InFlight' <= InFlight
    BY <1>1, <2>1, <2>2
  <2> QED
    BY <1>1, <2>1, <2>2, <2>3, <2>4
<1>7. CASE LoopEnds
  <2>1. UNCHANGED <<thread, Sent, Replied, seekErrors>>
    BY <1>7 DEF LoopEnds, worker, msgs, Sent, Replied
  <2>2. main = "poll" /\ main' = "cleanup"
    BY <1>7 DEF LoopEnds
  <2> QED
    BY <1>1, <2>1, <2>2
<1>8. CASE DelWorkers
  <2>1. UNCHANGED <<thread, Sent, seekErrors>> /\ main = "cleanup"
    BY <1>8 DEF DelWorkers, worker, faults, Sent
  <2>2. \/ main' = "shut" /\ Replied' = Replied
        \/ main' = "cancel" /\ Replied' = Replied + 1
    BY <1>1, <1>8 DEF DelWorkers, Replied
  <2> QED
    BY <1>1, <2>1, <2>2
<1>9. CASE Cancel \/ ShutPipes
  <2>1. UNCHANGED <<thread, Sent, Replied, seekErrors>>
    BY <1>9 DEF Cancel, ShutPipes, worker, msgs, faults, Sent, Replied
  <2>2. \/ main = "cancel" /\ main' = "join"
        \/ main = "shut" /\ main' = "return"
    BY <1>9 DEF Cancel, ShutPipes
  <2> QED
    BY <1>1, <2>1, <2>2
<1>10. CASE Join
  <2>1. UNCHANGED <<thread, Sent, seekErrors>> /\ main = "join" /\ main' = "shut"
        /\ Replied' = 0
    BY <1>1, <1>10 DEF Join, worker, faults, Sent, Replied
  <2> QED
    BY <1>1, <2>1
<1>11. CASE WritePanic
  <2>1. UNCHANGED <<thread, Sent, Replied, seekErrors>> /\ main' = "exit"
        /\ main \in {"reply", "cleanup"}
    BY <1>11 DEF WritePanic, worker, Sent, Replied
  <2> QED
    BY <1>1, <2>1
<1>12. CASE \E c \in Call : Ask(c)
  BY <1>1, <1>12 DEF Ask, faults, Sent, Replied
<1>13. CASE SayDied
  BY <1>1, <1>13 DEF SayDied, faults, Sent, Replied
<1>14. CASE Send
  <2>1. Sent' = Sent + 1
    BY <1>1, <1>14 DEF Send, Sent
  <2>2. UNCHANGED <<main, Replied, seekErrors>> /\ thread = "send"
        /\ thread' \in {"leaving", "seek"}
    BY <1>14 DEF Send, faults, Replied
  <2> QED
    BY <1>1, <2>1, <2>2
<1>15. CASE SendFails
  <2>1. UNCHANGED <<Sent, Replied, seekErrors>> /\ thread = "send"
        /\ main \notin Over
    BY <1>15 DEF SendFails, msgs, Running, Sent, Replied
  <2>2. \/ thread' = "run" /\ UNCHANGED main
        \/ main' = "exit" /\ UNCHANGED thread
    BY <1>15 DEF SendFails, Accept
  <2> QED
    BY <1>1, <2>1, <2>2
<1>16. CASE WorkerReads
  <2>1. Replied' = Replied - 1
    BY <1>1, <1>16 DEF WorkerReads, Replied
  <2>2. UNCHANGED <<Sent, seekErrors>> /\ thread = "seek" /\ main \notin Over
    BY <1>16 DEF WorkerReads, Running, faults, Sent
  <2>3. CASE main' = "crashed" /\ UNCHANGED thread
    BY <1>1, <2>1, <2>2, <2>3
  <2>4. CASE Head(own_pipes) = "tmp_msg" /\ thread' = "got" /\ UNCHANGED main
    BY <1>1, <2>1, <2>2, <2>4
  <2> QED
    BY <1>16, <2>3, <2>4 DEF WorkerReads
<1>17. CASE SeekTest
  <2>1. UNCHANGED <<main, Sent, Replied, seekErrors>> /\ thread = "got"
        /\ thread' \in {"run", "seek"} /\ main \notin Over
    BY <1>17 DEF SeekTest, Accept, msgs, faults, Running, Sent, Replied
  <2> QED
    BY <1>1, <2>1
<1>18. CASE SeekFails
  <2>1. UNCHANGED <<main, Sent, Replied>> /\ thread = "seek"
        /\ thread' = "run" /\ seekErrors' = seekErrors - 1
    BY <1>18 DEF SeekFails, Accept, msgs, Sent, Replied
  <2> QED
    BY <1>1, <2>1
<1>19. CASE Advance
  BY <1>1, <1>19 DEF Advance, msgs, faults, Sent, Replied
<1>20. CASE ThreadReturns
  BY <1>1, <1>20 DEF ThreadReturns, msgs, faults, Sent, Replied
<1>21. CASE Cancelled
  <2>1. UNCHANGED <<main, Sent, Replied, seekErrors>>
        /\ thread \in {"run", "send", "seek"} /\ thread' = "ended"
    BY <1>21 DEF Cancelled, msgs, faults, Sent, Replied
  <2> QED
    BY <1>1, <2>1
<1>22. CASE UNCHANGED vars
  <2>1. UNCHANGED <<main, thread, Sent, Replied, seekErrors>>
    BY <1>22 DEF vars, Sent, Replied
  <2> QED
    BY <1>1, <2>1
<1> QED
  BY <1>2, <1>3, <1>4, <1>5, <1>6, <1>7, <1>8, <1>9, <1>10, <1>11, <1>12,
     <1>13, <1>14, <1>15, <1>16, <1>17, <1>18, <1>19, <1>20, <1>21, <1>22
     DEF Next, MainStep, WorkerStep, Finished

\* Whatever fails, and however often a wait is broken off, the two pipes hold no
\* more than a pointer for each broken wait and the last words of the two sides.
THEOREM PipesStayShort == Spec => []PipesBounded
<1>1. Init => LastWord /\ FlightBounded
  <2> SUFFICES ASSUME Init PROVE LastWord /\ FlightBounded
    OBVIOUS
  <2>1. Sent = 0 /\ Replied = 0
    BY DEF Init, Sent, Replied
  <2> QED
    BY <2>1, FaultAssumption
       DEF Init, LastWord, FlightBounded, InFlight, AtMain, Waits, One, Over
<1>2. TypeOK /\ LastWord /\ FlightBounded /\ [Next]_vars
      => LastWord' /\ FlightBounded'
  BY LastWordStep, FlightStep
<1>3. TypeOK /\ FlightBounded => PipesBounded
  <2> SUFFICES ASSUME TypeOK, FlightBounded PROVE PipesBounded
    OBVIOUS
  <2>1. /\ Sent \in Nat /\ Replied \in Nat
        /\ seekErrors \in 0..SeekErrors
    BY DEF TypeOK, Sent, Replied
  <2>2. Sent <= 1 + SeekErrors /\ Replied <= 2 + SeekErrors
    BY <2>1, FaultAssumption DEF FlightBounded, InFlight, AtMain, Waits, One
  <2> QED
    BY <2>2 DEF PipesBounded, Sent, Replied
<1> QED
  BY <1>1, <1>2, <1>3, TypeCorrect, PTL DEF Spec
-----------------------------------------------------------------------------
(***************************************************************************)
(* The two threads never wait for each other, however many waits are       *)
(* broken off.  A word of the worker that main still has to read is in the *)
(* pipe, or it is with main, or its answer is in the other pipe; and what  *)
(* the two cells hold fits that.                                           *)
(***************************************************************************)
Counted == main \in Serving /\ (main = "register" \/ count = 1)

Unborn ==
  main \in {"open", "group", "create"} =>
    thread = "none" /\ ~cancel /\ pipes = <<>> /\ own_pipes = <<>>

Letters ==
  /\ ~cancel /\ thread # "none"
  /\ thread \in {"seek", "got"} => phase # "die"
  /\ thread = "seek" =>
       pipes # <<>> \/ main \in {"alloc", "reply"} \/ own_pipes # <<>>
  /\ thread \in {"leaving", "ended"} => own_msg = "DIED" /\ pipes # <<>>
  /\ thread = "send" => own_msg = IF phase = "die" THEN "DIED" ELSE "ALLOC"
  /\ phase # "die" /\ (pipes # <<>> \/ main = "alloc") => own_msg = "ALLOC"
  /\ phase # "die" /\ main \in {"register", "poll"} /\
       (own_pipes # <<>> \/ thread = "got") => tmp_msg = "CONT"

Posted == Unborn /\ (Counted => Letters)

\* Main polls, no word is on its way to it, and none will come: the worker waits
\* for an answer that is not on its way either, or is gone.
Standstill ==
  /\ main = "poll" /\ count = 1 /\ pipes = <<>>
  /\ \/ thread = "seek" /\ own_pipes = <<>>
     \/ thread \in {"leaving", "ended"}

\* No step of main loses a letter.
LEMMA PostedMain ==
  ASSUME TypeOK, Posted, MainStep
  PROVE  Posted'
<1> USE DEF Posted, Unborn, Counted, Serving
<1>1. count \in 0..1 /\ pipes \in Seq({"own_msg"})
      /\ own_pipes \in Seq({"tmp_msg", "raw"})
  BY DEF TypeOK
<1>2. CASE OpenPipes \/ IncGroup
  BY <1>2 DEF OpenPipes, IncGroup, worker, msgs
<1>3. CASE NewWorker
  BY <1>3 DEF NewWorker, Letters, msgs
<1>4. CASE Register
  BY <1>4 DEF Register, Letters, worker, msgs
<1>5. CASE MainReads
  <2>1. main = "poll" /\ count = 1 /\ pipes # <<>> /\ Letters
    BY <1>1, <1>5 DEF MainReads
  <2>2. CASE own_msg = "DIED" /\ WorkerDied
    BY <2>1, <2>2 DEF WorkerDied
  <2>3. CASE /\ own_msg # "DIED"
             /\ main' = "alloc" /\ UNCHANGED <<own_msg, own_pipes, count>>
    <3>1. UNCHANGED <<thread, cancel, phase>>
      BY <1>5 DEF MainReads, worker
    <3> QED
      BY <2>1, <2>3, <3>1 DEF Letters
  <2> QED
    BY <1>5, <2>2, <2>3 DEF MainReads
<1>6. CASE Serve
  BY <1>6 DEF Serve, Letters, setup, worker, msgs
<1>7. CASE Reply
  <2>1. main = "reply" /\ main' = "poll" /\ tmp_msg' = "CONT"
        /\ UNCHANGED <<count, thread, cancel, phase, own_msg, pipes>>
    BY <1>7 DEF Reply, setup, worker
  <2>2. count = 1 => own_pipes' # <<>>
    BY <1>1, <1>7 DEF Reply
  <2> QED
    BY <2>1, <2>2 DEF Letters
<1>8. CASE LoopEnds \/ DelWorkers \/ Cancel \/ Join \/ ShutPipes \/ WritePanic
  BY <1>8 DEF LoopEnds, DelWorkers, Cancel, Join, ShutPipes, WritePanic
<1> QED
  BY <1>2, <1>3, <1>4, <1>5, <1>6, <1>7, <1>8 DEF MainStep

\* What a call leaves behind when it returns: a worker that runs.
LEMMA PostedAccept ==
  ASSUME Posted, Accept(call, NULL) \/ Accept(call, Verdict(call, frame.mb)),
         thread # "none", Counted => phase # "die",
         UNCHANGED <<main, count, cancel, own_msg, tmp_msg, pipes, own_pipes>>
  PROVE  Posted'
<1>1. thread' = "run"
  BY DEF Accept
<1> QED
  BY <1>1 DEF Posted, Unborn, Counted, Letters, Serving

\* No step of the worker loses a letter.
LEMMA PostedWorker ==
  ASSUME TypeOK, Posted, WorkerStep
  PROVE  Posted'
<1> USE DEF Posted, Unborn, Counted, Serving
<1>1. pipes \in Seq({"own_msg"}) /\ own_pipes \in Seq({"tmp_msg", "raw"})
  BY DEF TypeOK
<1>2. ASSUME NEW c \in Call, Ask(c) PROVE Posted'
  <2>1. phase # "die"
    BY <1>2 DEF Ask, Requests
  <2>2. own_msg' = "ALLOC" /\ thread = "run" /\ thread' = "send"
        /\ UNCHANGED <<main, count, cancel, phase, tmp_msg, pipes, own_pipes>>
    BY <1>2 DEF Ask, setup
  <2> QED
    BY <2>1, <2>2 DEF Letters
<1>3. CASE SayDied
  BY <1>3 DEF SayDied, Letters, setup
<1>4. CASE Send
  <2>1. pipes' # <<>>
    BY <1>1, <1>4 DEF Send
  <2> QED
    BY <1>4, <2>1 DEF Send, Letters, setup
<1>5. CASE SendFails
  <2>1. UNCHANGED <<count, cancel, own_msg, tmp_msg, pipes, own_pipes>>
        /\ thread = "send"
    BY <1>5 DEF SendFails, setup, msgs
  <2>2. CASE phase = "die" /\ thread' = "run" /\ UNCHANGED <<main, phase>>
    BY <2>1, <2>2, <1>5 DEF SendFails, Letters
  <2>3. CASE phase # "die" /\ Accept(call, NULL) /\ UNCHANGED main
    BY <2>1, <2>3, PostedAccept
  <2>4. CASE main' = "exit"
    BY <2>4
  <2> QED
    BY <1>5, <2>2, <2>3, <2>4 DEF SendFails
<1>6. CASE WorkerReads
  <2>1. CASE main' = "crashed"
    BY <2>1
  <2>2. CASE thread' = "got" /\ UNCHANGED main
    BY <1>6, <2>2 DEF WorkerReads, Letters, setup
  <2> QED
    BY <1>6, <2>1, <2>2 DEF WorkerReads
<1>7. CASE SeekTest
  <2>1. UNCHANGED <<main, count, cancel, own_msg, tmp_msg, pipes, own_pipes>>
        /\ thread = "got"
    BY <1>7 DEF SeekTest, setup, msgs
  <2>2. CASE Accept(call, Verdict(call, frame.mb))
    BY <2>1, <2>2, PostedAccept DEF Letters
  <2>3. CASE tmp_msg # "CONT" /\ thread' = "seek" /\ UNCHANGED phase
    BY <2>1, <2>3 DEF Letters
  <2> QED
    BY <1>7, <2>2, <2>3 DEF SeekTest
<1>8. CASE SeekFails
  <2>1. UNCHANGED <<main, count, cancel, own_msg, tmp_msg, pipes, own_pipes>>
        /\ thread = "seek" /\ Accept(call, Verdict(call, frame.mb))
    BY <1>8 DEF SeekFails, setup, msgs
  <2> QED
    BY <2>1, PostedAccept DEF Letters
<1>9. CASE Advance
  BY <1>9 DEF Advance, Letters, setup, msgs
<1>10. CASE ThreadReturns
  BY <1>10 DEF ThreadReturns, Letters, setup, msgs
<1>11. CASE Cancelled
  BY <1>11 DEF Cancelled, Letters, setup, msgs
<1> QED
  BY <1>2, <1>3, <1>4, <1>5, <1>6, <1>7, <1>8, <1>9, <1>10, <1>11 DEF WorkerStep

\* Whatever fails, and however often a wait is broken off, main never polls for
\* a word that no one will send: the worker does not wait for main while main
\* waits for the worker, and a worker that is gone has said so.
THEOREM NoStandstill == Spec => []~Standstill
<1>1. Init => Posted
  BY DEF Init, Posted, Unborn, Counted, Serving
<1>2. TypeOK /\ Posted /\ [Next]_vars => Posted'
  <2>1. CASE UNCHANGED vars
    BY <2>1 DEF vars, Posted, Unborn, Counted, Letters
  <2> QED
    BY <2>1, PostedMain, PostedWorker DEF Next, Finished
<1>3. Posted => ~Standstill
  BY DEF Posted, Counted, Serving, Letters, Standstill
<1> QED
  BY <1>1, <1>2, <1>3, TypeCorrect, PTL DEF Spec

=============================================================================
