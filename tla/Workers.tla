------------------------------ MODULE Workers ------------------------------
(***************************************************************************)
(* The main worker and the Lua worker of gasp: src/src/workers.c and the   *)
(* worker_lua / lua_memory pair of src/src/main.c.                         *)
(*                                                                         *)
(* Every allocation of the Lua worker is a message to the main thread and  *)
(* a wait for its reply.  Messages travel by address: what is written in a *)
(* pipe is a pointer to a struct worker_msg that stays with its sender, so *)
(* what a reader sees is whatever that cell holds when it looks.  The two  *)
(* cells are own_msg (in the worker object) and tmp_msg (on main's stack). *)
(*                                                                         *)
(* Left out: the worker field of worker_block, which no caller sets, and   *)
(* the branches of main_worker behind it; what the PATH block contains;    *)
(* the environment variables; a pipe being full (see README).              *)
(***************************************************************************)
EXTENDS MemoryBlock, Sequences

CONSTANTS PathBytes,  \* what get_cfg_path asks for
          NeedBytes,  \* what worker_lua grows it to
          SeekErrors, \* bound: failures of poll or read in the worker's wait
          PollErrors, \* bound: failures of poll in the main loop
          WriteErrors \* bound: failures of a write to a pipe

ASSUME PathAssumption ==
  /\ PathBytes \in 1..MaxBytes
  /\ NeedBytes \in PathBytes..MaxBytes
ASSUME FaultAssumption ==
  /\ SeekErrors \in Nat
  /\ PollErrors \in Nat
  /\ WriteErrors \in Nat

VARIABLES
  main,      \* what the main thread does next
  ret,       \* main_worker's ret: 0 or the name of an error
  count,     \* workers_group.count; slot 1 holds the worker while it is 1
  object,    \* the struct worker: "none", "live", "leaked" or "freed"
  thread,    \* the Lua worker's thread
  cancel,    \* pthread_cancel was called on it
  phase,     \* where worker_lua stands
  own_msg,   \* type of the message in the worker's cell
  tmp_msg,   \* type of the message in main's cell
  pipes,     \* the pipe worker -> main: the pointers written and not yet read
  own_pipes, \* the pipe main -> worker; "raw" is bytes that are no pointer
  frame,     \* worker_block and memory_block in lua_memory's stack frame
  call,      \* the arguments of the lua_memory call
  heap,      \* what malloc has handed out
  held,      \* what worker_lua and Lua believe they hold
  path,      \* worker_lua's PATH.block while it is held
  seekErrors, pollErrors, writeErrors \* failures still to come

vars == <<main, ret, count, object, thread, cancel, phase, own_msg, tmp_msg,
          pipes, own_pipes, frame, call, heap, held, path,
          seekErrors, pollErrors, writeErrors>>

faults == <<seekErrors, pollErrors, writeErrors>>
msgs == <<own_msg, tmp_msg, pipes, own_pipes>>
memory == <<frame, call, heap, held, path>>
setup == <<ret, count, object>>
worker == <<thread, cancel, phase>>

\* The process is gone, with everything in it.
Over == {"return", "exit", "crashed"}

\* Main is in the loop of poll_worker_msg or on its way there.
Serving == {"register", "poll", "alloc", "reply"}

Phase == {"cfg", "grow", "drop", "open", "unwind", "lua", "close", "free", "die"}

Call == [ptr : Pointer, osize : 0..MaxBytes, nsize : 0..MaxBytes]

NoCall == [ptr |-> NULL, osize |-> 0, nsize |-> 0]

Frame == [live : BOOLEAN, want : 0..MaxBytes, mb : Block]

TypeOK ==
  /\ main \in {"open", "group", "create", "cleanup", "cancel", "join", "shut"}
              \cup Serving \cup Over
  /\ ret \in {"0", "EPIPE", "ENOMEM"}
  /\ count \in 0..1
  /\ object \in {"none", "live", "leaked", "freed"}
  /\ thread \in {"none", "run", "send", "seek", "got", "leaving", "ended"}
  /\ cancel \in BOOLEAN
  /\ phase \in Phase
  /\ own_msg \in {"NONE", "ALLOC", "DIED", "CONT"}
  /\ tmp_msg \in {"NONE", "CONT", "DIED", "ALLOC"}
  /\ pipes \in Seq({"own_msg"})
  /\ own_pipes \in Seq({"tmp_msg", "raw"})
  /\ frame \in Frame
  /\ call \in Call
  /\ heap \in Heap
  /\ held \in Heap
  /\ path \in Pointer
  /\ seekErrors \in 0..SeekErrors
  /\ pollErrors \in 0..PollErrors
  /\ writeErrors \in 0..WriteErrors

Init ==
  /\ main = "open" /\ ret = "0" /\ count = 0 /\ object = "none"
  /\ thread = "none" /\ cancel = FALSE /\ phase = "cfg"
  /\ own_msg = "NONE" /\ tmp_msg = "NONE" /\ pipes = <<>> /\ own_pipes = <<>>
  /\ frame = [live |-> FALSE, want |-> 0, mb |-> [block |-> NULL, bytes |-> 0]]
  /\ call = NoCall
  /\ heap = EmptyHeap /\ held = EmptyHeap /\ path = NULL
  /\ seekErrors = SeekErrors
  /\ pollErrors = PollErrors
  /\ writeErrors = WriteErrors

-----------------------------------------------------------------------------
\* The main thread: main_worker.

OpenPipes ==
  /\ main = "open"
  /\ \/ main' = "group" /\ UNCHANGED ret
     \/ main' = "return" /\ ret' = "EPIPE"
  /\ UNCHANGED <<count, object, worker, msgs, memory, faults>>

IncGroup ==
  /\ main = "group"
  /\ \/ main' = "create" /\ UNCHANGED ret
     \/ main' = "cleanup" /\ ret' = "ENOMEM"
  /\ UNCHANGED <<count, object, worker, msgs, memory, faults>>

\* _new_worker.  The thread runs from here on, before main has registered it.
\* A failure after the malloc leaves the object behind, and none touches ret.
NewWorker ==
  /\ main = "create"
  /\ \/ main' = "register" /\ object' = "live" /\ thread' = "run"
     \/ main' = "cleanup" /\ object' \in {"none", "leaked"} /\ UNCHANGED thread
  /\ UNCHANGED <<ret, count, cancel, phase, msgs, memory, faults>>

\* Mutant: the worker is counted by _new_worker too.
RegisterTwice ==
  /\ main = "register"
  /\ main' = "poll"
  /\ count' = 2
  /\ UNCHANGED <<ret, object, worker, msgs, memory, faults>>

Register ==
  /\ main = "register"
  /\ main' = "poll"
  /\ count' = 1
  /\ UNCHANGED <<ret, object, worker, msgs, memory, faults>>

\* Mutant: the slot is cleared and the count is not.
WorkerDiedUncounted ==
  /\ own_msg' = "CONT"
  /\ object' = "freed"
  /\ own_pipes' = <<>>
  /\ UNCHANGED <<main, count, tmp_msg>>

\* worker_died: the thread is neither cancelled nor joined; its pipes are shut
\* and its object is freed.
WorkerDied ==
  /\ own_msg' = "CONT"
  /\ count' = count - 1
  /\ object' = "freed"
  /\ own_pipes' = <<>>
  /\ UNCHANGED <<main, tmp_msg>>

\* One turn of poll_worker_msg that finds a pointer.  Any message but DIED is
\* returned to main_worker, which copies it to tmp_msg.
MainReads ==
  /\ main = "poll" /\ count > 0 /\ pipes # <<>>
  /\ pipes' = Tail(pipes)
  /\ \/ own_msg = "DIED" /\ WorkerDied
     \/ /\ own_msg # "DIED"
        /\ main' = "alloc" /\ tmp_msg' = own_msg
        /\ UNCHANGED <<own_msg, own_pipes, count, object>>
  /\ UNCHANGED <<ret, worker, memory, faults>>

\* The type is read again from the cell.  A request whose block is no block
\* of the heap makes realloc or free abort the process.
Serve ==
  /\ main = "alloc"
  /\ \/ own_msg # "ALLOC" /\ main' = "poll" /\ UNCHANGED <<frame, heap>>
     \/ /\ own_msg = "ALLOC" /\ ~Valid(heap, frame.mb.block)
        /\ main' = "crashed" /\ UNCHANGED <<frame, heap>>
     \/ /\ own_msg = "ALLOC" /\ Valid(heap, frame.mb.block)
        /\ main' = "reply"
        /\ \E out \in IF frame.want > 0
                      THEN AltMemoryBlock(heap, frame.mb, frame.want)
                      ELSE {DelMemoryBlock(heap, frame.mb)} :
             /\ heap' = out.heap
             /\ frame' = [frame EXCEPT !.mb = out.mb]
  /\ UNCHANGED <<setup, worker, msgs, call, held, path, faults>>

\* Mutant: the type of the copy is left as it was.
ReplyAsRead ==
  /\ main = "reply"
  /\ own_pipes' = IF count = 1 THEN Append(own_pipes, "tmp_msg") ELSE own_pipes
  /\ main' = "poll"
  /\ UNCHANGED <<setup, worker, own_msg, tmp_msg, pipes, memory, faults>>

Reply ==
  /\ main = "reply"
  /\ tmp_msg' = "CONT"
  /\ own_pipes' = IF count = 1 THEN Append(own_pipes, "tmp_msg") ELSE own_pipes
  /\ main' = "poll"
  /\ UNCHANGED <<setup, worker, own_msg, pipes, memory, faults>>

\* poll_worker_msg returns NULL: no worker is left, or poll failed.
LoopEnds ==
  /\ main = "poll"
  /\ \/ count = 0 /\ UNCHANGED pollErrors
     \/ count > 0 /\ pollErrors > 0 /\ pollErrors' = pollErrors - 1
  /\ main' = "cleanup"
  /\ UNCHANGED <<setup, worker, msgs, memory, seekErrors, writeErrors>>

\* del_workers_group and _del_worker.  The TERM message is written as it is,
\* not by address: the pipe receives its first bytes, which are no pointer.
DelWorkers ==
  /\ main = "cleanup"
  /\ \/ count = 0 /\ main' = "shut" /\ UNCHANGED own_pipes
     \/ /\ count = 1 /\ main' = "cancel"
        /\ own_pipes' = Append(own_pipes, "raw")
  /\ UNCHANGED <<setup, worker, own_msg, tmp_msg, pipes, memory, faults>>

Cancel ==
  /\ main = "cancel"
  /\ main' = "join"
  /\ cancel' = TRUE
  /\ UNCHANGED <<setup, thread, phase, msgs, memory, faults>>

\* Mutant: no pthread_join.
JoinAtOnce ==
  /\ main = "join"
  /\ main' = "shut"
  /\ object' = "freed"
  /\ own_pipes' = <<>>
  /\ UNCHANGED <<ret, count, worker, own_msg, tmp_msg, pipes, memory, faults>>

Join ==
  /\ main = "join" /\ thread = "ended"
  /\ main' = "shut"
  /\ object' = "freed"
  /\ own_pipes' = <<>>
  /\ UNCHANGED <<ret, count, worker, own_msg, tmp_msg, pipes, memory, faults>>

ShutPipes ==
  /\ main = "shut"
  /\ main' = "return"
  /\ UNCHANGED <<setup, worker, msgs, memory, faults>>

\* Any write of main that fails ends the process: wrpipe_panic, _del_worker.
WritePanic ==
  /\ writeErrors > 0 /\ writeErrors' = writeErrors - 1
  /\ count = 1
  /\ \/ main = "reply" /\ tmp_msg' = "CONT"
     \/ main = "cleanup" /\ UNCHANGED tmp_msg
  /\ main' = "exit"
  /\ UNCHANGED <<setup, worker, own_msg, pipes, own_pipes, memory, seekErrors,
                 pollErrors>>

-----------------------------------------------------------------------------
\* The worker thread: lua_memory and what surrounds it.

Running == main \notin Over

LuaBlocks == Live(held) \ {path}

\* The calls of lua_memory that worker_lua, or Lua for it, makes in a phase.
\* For a new block Lua passes a type tag as osize, whatever the block's size.
New == [ptr : {NULL}, osize : {0, MaxBytes}, nsize : 1..MaxBytes]

Resize == {c \in [ptr : LuaBlocks, osize : 1..MaxBytes, nsize : 0..MaxBytes] :
             c.osize = held[c.ptr] /\ c.nsize # c.osize}

Release(blocks) ==
  {[ptr |-> a, osize |-> held[a], nsize |-> 0] : a \in blocks}

Requests ==
  CASE phase = "cfg" -> {[ptr |-> NULL, osize |-> 0, nsize |-> PathBytes]}
    [] phase = "grow" -> {[ptr |-> path, osize |-> 0, nsize |-> NeedBytes]}
    [] phase \in {"drop", "free"} -> Release({path} \ {NULL})
    [] phase = "open" -> New
    [] phase = "lua" -> New \cup Resize
    [] phase \in {"unwind", "close"} -> Release(LuaBlocks)
    [] OTHER -> {}

Built(c) == [live |-> TRUE, want |-> c.nsize,
             mb |-> [block |-> c.ptr, bytes |-> c.osize]]

\* lua_memory and send_worker_msg up to the write: the frame is built and its
\* address put in the cell.
Ask(c) ==
  /\ thread = "run" /\ Running
  /\ c \in Requests
  /\ call' = c
  /\ frame' = Built(c)
  /\ own_msg' = "ALLOC"
  /\ thread' = "send"
  /\ UNCHANGED <<main, setup, cancel, phase, tmp_msg, pipes, own_pipes, heap,
                 held, path, faults>>

\* say_worker_died up to the write.
SayDied ==
  /\ thread = "run" /\ Running /\ phase = "die"
  /\ own_msg' = "DIED"
  /\ thread' = "send"
  /\ UNCHANGED <<main, setup, cancel, phase, tmp_msg, pipes, own_pipes, memory,
                 faults>>

\* The address of the cell is written to the pipe.
Send ==
  /\ thread = "send" /\ Running
  /\ pipes' = Append(pipes, "own_msg")
  /\ thread' = IF phase = "die" THEN "leaving" ELSE "seek"
  /\ UNCHANGED <<main, setup, cancel, phase, own_msg, tmp_msg, own_pipes,
                 memory, faults>>

\* What the caller of lua_memory(c) holds once it has returned r.
After(c, r) ==
  IF c.nsize = 0 THEN Moved(held, c.ptr, NULL, 0)
  ELSE IF r = NULL THEN held ELSE Moved(held, c.ptr, r, c.nsize)

\* What the caller of lua_memory(c) does with the r it returns.
Accept(c, r) ==
  /\ held' = After(c, r)
  /\ path' = CASE phase = "cfg" -> r
               [] phase = "grow" /\ r # NULL -> r
               [] phase \in {"drop", "free"} -> NULL
               [] OTHER -> path
  /\ phase' = CASE phase = "cfg" -> "grow"
                [] phase = "grow" -> IF r = NULL THEN "drop" ELSE "open"
                [] phase = "open" /\ r = NULL -> "unwind"
                [] phase \in {"drop", "free"} -> "die"
                [] OTHER -> phase
  /\ thread' = "run"
  /\ frame' = [frame EXCEPT !.live = FALSE]

\* Mutants: the size is not looked at, or has to be met exactly.
VerdictUnchecked(c, mb) == mb.block
VerdictExact(c, mb) == IF mb.bytes = c.nsize THEN mb.block ELSE NULL

\* lua_memory's verdict on what the frame holds when the wait is over.
Verdict(c, mb) == IF mb.bytes >= c.nsize THEN mb.block ELSE NULL

\* The write failed.  say_worker_died tries again; lua_memory has no block to
\* return, or no way to give one back.
SendFails ==
  /\ thread = "send" /\ Running
  /\ writeErrors > 0 /\ writeErrors' = writeErrors - 1
  /\ \/ /\ phase = "die" /\ thread' = "run"
        /\ UNCHANGED <<main, frame, held, path, phase>>
     \/ /\ phase # "die" /\ call.nsize > 0
        /\ Accept(call, NULL) /\ UNCHANGED main
     \/ /\ phase # "die" /\ call.nsize = 0 /\ main' = "exit"
        /\ UNCHANGED <<frame, held, path, phase, thread>>
  /\ UNCHANGED <<setup, cancel, msgs, call, heap, seekErrors, pollErrors>>

\* seek_worker_msg takes a pointer from its pipe and follows it.
WorkerReads ==
  /\ thread = "seek" /\ Running /\ own_pipes # <<>>
  /\ own_pipes' = Tail(own_pipes)
  /\ \/ Head(own_pipes) = "raw" /\ main' = "crashed" /\ UNCHANGED thread
     \/ Head(own_pipes) = "tmp_msg" /\ thread' = "got" /\ UNCHANGED main
  /\ UNCHANGED <<setup, cancel, phase, own_msg, tmp_msg, pipes, memory, faults>>

\* The message is the one waited for and lua_memory returns, or it is dropped.
SeekTest ==
  /\ thread = "got" /\ Running
  /\ \/ tmp_msg = "CONT" /\ Accept(call, Verdict(call, frame.mb))
     \/ tmp_msg # "CONT" /\ thread' = "seek" /\ UNCHANGED <<phase, frame, held, path>>
  /\ UNCHANGED <<main, setup, cancel, msgs, call, heap, faults>>

\* Mutant: a poll that finds nothing in time ends the wait too.
SeekTimesOut ==
  /\ thread = "seek" /\ Running
  /\ Accept(call, Verdict(call, frame.mb))
  /\ UNCHANGED <<main, setup, cancel, msgs, call, heap, faults>>

\* poll or read failed in the wait, which ends it; lua_memory does not look.
SeekFails ==
  /\ thread = "seek" /\ Running
  /\ seekErrors > 0 /\ seekErrors' = seekErrors - 1
  /\ Accept(call, Verdict(call, frame.mb))
  /\ UNCHANGED <<main, setup, cancel, msgs, call, heap, pollErrors, writeErrors>>

\* Mutant: lua_close is forgotten.
AdvanceUnclosed ==
  /\ thread = "run" /\ Running
  /\ \/ phase = "drop" /\ path = NULL /\ phase' = "die"
     \/ phase = "open" /\ LuaBlocks # {} /\ phase' = "lua"
     \/ phase = "unwind" /\ LuaBlocks = {} /\ phase' = "die"
     \/ phase = "lua" /\ phase' = "free"
  /\ UNCHANGED <<main, setup, thread, cancel, msgs, memory, faults>>

\* The steps of worker_lua that allocate nothing.
Advance ==
  /\ thread = "run" /\ Running
  /\ \/ phase = "drop" /\ path = NULL /\ phase' = "die"
     \/ phase = "open" /\ LuaBlocks # {} /\ phase' = "lua"
     \/ phase = "unwind" /\ LuaBlocks = {} /\ phase' = "die"
     \/ phase = "lua" /\ phase' = "close"
     \/ phase = "close" /\ LuaBlocks = {} /\ phase' = "free"
  /\ UNCHANGED <<main, setup, thread, cancel, msgs, memory, faults>>

\* The thread's function returns.
ThreadReturns ==
  /\ thread = "leaving" /\ Running
  /\ thread' = "ended"
  /\ UNCHANGED <<main, setup, cancel, phase, msgs, memory, faults>>

\* A cancelled thread ends at a cancellation point: poll, read, write, ...
Cancelled ==
  /\ cancel /\ thread \in {"run", "send", "seek"} /\ Running
  /\ thread' = "ended"
  /\ UNCHANGED <<main, setup, cancel, phase, msgs, memory, faults>>

-----------------------------------------------------------------------------
\* The process is gone.
Finished == main \in Over /\ UNCHANGED vars

MainStep ==
  \/ OpenPipes \/ IncGroup \/ NewWorker \/ Register \/ MainReads \/ Serve
  \/ Reply \/ LoopEnds \/ DelWorkers \/ Cancel \/ Join \/ ShutPipes
  \/ WritePanic

WorkerStep ==
  \/ \E c \in Call : Ask(c)
  \/ SayDied \/ Send \/ SendFails \/ WorkerReads \/ SeekTest \/ SeekFails
  \/ Advance \/ ThreadReturns \/ Cancelled

Next == MainStep \/ WorkerStep \/ Finished

Spec == Init /\ [][Next]_vars

(***************************************************************************)
(* What the code guarantees to happen: a thread that can run does, and a   *)
(* poll that finds nothing is tried again.  No failure has to happen, a    *)
(* script (phase "lua") may run for ever or allocate nothing, and a        *)
(* cancelled thread is only sure to end in its wait, where it polls.       *)
(***************************************************************************)
MainGoesOn ==
  \/ OpenPipes \/ IncGroup \/ NewWorker \/ Register \/ MainReads \/ Serve
  \/ Reply \/ (count = 0 /\ LoopEnds) \/ DelWorkers \/ Cancel \/ Join
  \/ ShutPipes

WorkerGoesOn ==
  \/ SayDied \/ Send \/ WorkerReads \/ SeekTest \/ ThreadReturns
  \/ phase # "lua" /\ (Advance \/ \E c \in Call : Ask(c))

FairSpec ==
  /\ Spec
  /\ WF_vars(MainGoesOn)
  /\ WF_vars(WorkerGoesOn)
  /\ WF_vars(thread = "seek" /\ Cancelled)

-----------------------------------------------------------------------------
\* Whenever the worker runs, what it believes it holds is what exists: every
\* block it holds is there, at least as long as it believes, and nothing else
\* is.  lua_memory returns a block by address from a frame that main writes.
Exact(believed, actual) ==
  \A a \in Addr : /\ believed[a] <= actual[a]
                  /\ believed[a] = 0 => actual[a] = 0

OwnershipExact == thread \in {"run", "send"} => Exact(held, heap)

\* While the worker runs no request of it is on its way, being served or being
\* answered: the next reply it waits for is the reply to its next request.
OneRequest ==
  thread \in {"run", "send"} =>
    /\ pipes = <<>>
    /\ main \notin {"alloc", "reply"}
    /\ \A i \in 1..Len(own_pipes) : own_pipes[i] # "tmp_msg"

\* Main works on the frame of a call that has not returned.
LiveFrame == main \in {"alloc", "reply"} => frame.live /\ thread = "seek"

\* No dead block is freed or resized, and no pointer that is not one followed,
\* unless main's poll failed: the TERM message it sends then is none.
NoCrash == main = "crashed" => pollErrors < PollErrors

\* A call of lua_memory that is to make a block smaller returns NULL.
ShrinkRefused ==
  /\ call.ptr # NULL /\ call.nsize \in 1..call.osize
  /\ frame.live /\ ~frame'.live /\ held' = held

\* Lua relies on it that a block can always be made smaller.  A failing realloc
\* does not get in the way, nor does any other failure but that to send the
\* request.
ShrinkSucceeds == [][ShrinkRefused => SendFails]_vars

\* A worker that says it died has given back all it had, but for the PATH
\* block where lua_newstate failed.
NothingLeftBehind ==
  thread \in {"leaving", "ended"} /\ phase = "die" =>
    Live(heap) = Live(held) /\ Live(heap) \subseteq {path}

\* The struct worker is not freed under a thread that still uses it.
ObjectAlive == object = "freed" => thread \in {"leaving", "ended"}

\* main_worker shuts its pipes and returns when no thread uses them any more: there
\* is none, it has ended, or it has sent its last message and is about to.
ShutUnused ==
  main \in {"shut", "return"} => thread \in {"none", "leaving", "ended"}

\* However often a wait is broken off, what piles up in the two pipes is a
\* pointer per broken wait, far from what a pipe holds.
PipesBounded ==
  /\ Len(pipes) <= 1 + SeekErrors
  /\ Len(own_pipes) <= 2 + SeekErrors

\* A wait of lua_memory ends.
EveryCallReturns == thread = "seek" ~> thread # "seek" \/ main \in Over

\* Once the script has ended everything is given back and gasp ends.
ScriptEndEndsGasp == phase = "close" ~> main \in Over

-----------------------------------------------------------------------------
\* lua_memory with its two threads is an atomic allocator.
Answered ==
  \/ main = "reply" \/ thread = "got"
  \/ \E i \in 1..Len(own_pipes) : own_pipes[i] = "tmp_msg"

AllocatorState ==
  IF main \in Over \/ thread \in {"leaving", "ended"} THEN "over"
  ELSE IF thread \in {"none", "run"} \/ phase = "die" THEN "idle"
  ELSE IF Answered THEN "answered" ELSE "asked"

AllocatorRequest ==
  IF AllocatorState \in {"asked", "answered"} THEN call ELSE NoCall

AllocatorResult ==
  IF AllocatorState = "answered" THEN Verdict(call, frame.mb) ELSE NULL

A == INSTANCE Allocator WITH
       state <- AllocatorState,
       request <- AllocatorRequest,
       result <- AllocatorResult

\* The heap changes by whole requests of the worker and as the contract says,
\* whatever the two threads do in between.
ImplementsAllocator == A!Spec
=============================================================================
