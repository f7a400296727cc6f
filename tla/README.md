# gasp, specified

gasp is a memory editor for games: a C program that starts a Lua interpreter in
a thread of its own and lets scripts find, read and change the memory of another
process. This directory holds TLA+ models of the parts of it whose correctness
depends on the order of events, the TLC configurations that check them, and
proofs checked by TLAPS. `PROJECT.json` lists the runs, the theorems, and for
each definition the lines it was translated from.

The repository is in the middle of a rewrite. `src/src/main.mak` builds
`main`, `pipes`, `workers`, `memory`, `worker_msg` and `lua_common`;
`src/src/proc.c`, the process and scan code, is still written against types the
rewrite removed (`text_t`, `nodes_t`, `tscan_t`) and is not part of the build.
`memory.h` has already moved to functions with a user-data argument while
`workers.c` and `memory.c` still use the two-argument form: `MemoryBlock` and
`Workers` follow `memory.c`, which is the form `workers.c` calls, `MemoryGroup`
follows `memory.h`.

## Inventory

| Part | State | Operations | What is hard |
| --- | --- | --- | --- |
| Worker protocol (`workers.c`, `main.c`) | worker object, group of workers, one pipe each way, a message cell on each side, the stack frame of a call | start, request, serve, reply, died, terminate | two threads, messages passed by address, failing pipes, teardown |
| Memory blocks and groups (`memory.h`, `memory.c`) | address and size, total/count/focus | new, alt, inc, dec, del | failing allocation, rounding, bounds of counts |
| Pipes (`pipes.c`) | two descriptors | open, shut, poll, read and write of one pointer | partial reads, EINTR, end of file |
| Shared block registry (`workers.c` 304-419) | slots with holders | claim, release, grow | counting, reuse of slots |
| Process handle (`proc.c` 2-58, 157-167, 2173-2409, 2505-2604) | path, pid, names, hooked, paused, exited, a watching thread's flag | info, term, stop, cont, grab, free, glance, change | the target and the watching thread run by themselves; ptrace and signals |
| Access to process memory (568-922) | none | five ways to read, five to write | each may fail; which one is tried next |
| Mappings (295-530) | list of ranges | list, next, by address | a list that is stale when used |
| Dump files (995-1422) | three descriptors, offsets, two half-windows of data | open, shut, read, write, reset | offsets of three files in step |
| Scan thread (1429-2055) | two pipes, progress and result fields | dump, scan, stop, continue, kill | handshake with the main thread; results in a shared object; reads that wait for their target |
| Process search (2057-2171, 2411-2503) | list of pids, one process object | init, next, find | processes that vanish during the search |
| Lua bindings (`lua_common.c`) | one flag | wrappers | nothing |
| Boot loop (`OTG/init.lua`, end of `OTG/gui/init.lua`) | forced_reboot, asked4_reboot | boot, reboot, quit | two loops sharing two flags |
| Hook and views (`OTG/gui/init.lua`, `gui/main.lua`, `cfg/*.lua`) | noticed, handle, donothook, which, previous, cheat | hook, unhook, select, load | what one frame sets and the next undoes |
| Scan panel (`OTG/gui/scan.lua`) | done, list, scan | dump, scan, clear, page | progress of a thread, paged results |
| Cheat tables, back ends, fonts, makefiles | | | drawing, third-party code |

### How the parts interact

`main()` calls `main_worker`, which opens a pipe, creates one worker thread and
serves its messages until no worker is left. The thread runs `worker_lua`: it
asks the main thread for memory through `lua_memory`, creates the Lua state with
`lua_memory` as its allocator, and runs `OTG/init.lua`, the boot loop, which runs
the GUI. So every allocation Lua makes is a message to the main thread and a
reply. The GUI works on process handles and scans through bindings that the
rewrite has yet to bring back; `proc.c` is the code they will call. A handle
starts a thread that watches for the target's exit; a scan runs in a thread that
takes signals from the main thread over a pair of pipes.

### What makes each part correct

* Worker protocol: what Lua believes it owns is what is allocated, at any
  moment it can look; requests and replies pair up; a wait ends; what ended is
  released; teardown never frees what a thread still uses.
* Memory groups: `count` and `focus` stay inside `total`, the entries counted
  exist, a failed call loses nothing, and a block that is answered is alive and
  has the room that was asked for.
* Dump files: a field and the table of descriptors agree, also after an open
  that failed half way; marks and data stay in step.
* Pipes: a reader gets exactly the pointers that were written.
* Shared blocks: a block lives while someone holds it, and no longer.
* Process handle: gasp never leaves a target stopped or traced; `exited` means
  that the target of the handle is gone; a thread never works on a handle that
  has been released.
* Scan thread: a stopped scan touches nothing, a killed scan ends, a finished
  scan is noticed; every match in range is found and nothing else.
* Process search: what is found belongs under the ancestor, and a search that
  says it got to the end has missed nothing that was there all the time.
* Boot loop: a GUI that closes without asking for a reboot ends the program.
* Hook: unhooked stays unhooked.

## Plan

1. `MemoryBlock`, `Allocator`, `Workers`, `WorkersProofs`: the protocol under
   every allocation. Done.
2. `ProcessWatch`, `ProcessWatchProofs`: one handle and its watching threads.
   Done.
3. `ProcessFind`, `ProcessFindProofs`: the search for a target. Done.
4. `ProcessHandle`, `ProcessHandleProofs`: stop, continue, grab and free of a
   target with ptrace and signals. Done.
5. `ScanThread`, `ScanThreadProofs`: the handshake of a scan and the loop of a
   dump. Done.
6. `ScanTarget`, `ScanTargetProofs`: the scan composed with the handle its reads
   are made on. Done.
7. `MemoryGroup`, `MemoryGroupProofs`: vectors of entries and every call on them.
   Done.
8. `DumpFiles`, `DumpFilesProofs`: opening, shutting and the offsets of the files
   of a dump. Done.

What is left is listed under "Not modelled".

## Modules

### MemoryBlock

The heap as a function from addresses to sizes (0: no block), `struct
memory_block`, and `alt_memory_block` and `del_memory_block` as sets of
outcomes: `realloc` may fail, keep the block in place or put it at any free
address. What a block contains is left out.

### Allocator

The abstract specification: what `lua_memory` promises Lua. One request at a
time; a request is answered by one atomic change of the heap; a refused request
changes nothing; a request to shrink is not refused. `Decline` is the exception
the code makes: where the request could not be sent the answer is NULL, even for
a smaller size, which Lua's manual rules out.

### Workers

Both threads. `main` and `thread` say what each does next, `phase` where
`worker_lua` stands. A message is modelled as the code sends it: the sender
writes the cell (`Ask`, `SayDied`), then its address goes through the pipe
(`Send`), and a reader that takes the address sees whatever the cell holds by
then (`MainReads`, `Serve`, `WorkerReads`, `SeekTest`). `frame` is the stack frame
of `lua_memory` that main writes through a pointer; `heap` is what is allocated,
`held` what the worker and Lua believe they hold, which are separate variables
because the code keeps them separate.

| Code | Action |
| --- | --- |
| `main_worker` up to its loop | `OpenPipes`, `IncGroup`, `NewWorker`, `Register` |
| `poll_worker_msg`, `worker_died` | `MainReads` with `WorkerDied`, `LoopEnds` |
| the loop of `main_worker` | `Serve`, `Reply`, `WritePanic` |
| `del_workers_group`, `_del_worker` | `DelWorkers`, `Cancel`, `Join`, `ShutPipes` |
| `lua_memory`, `send_worker_msg` | `Ask`, `Send`, `SendFails`, `Verdict`, `Accept` |
| `seek_worker_msg` | `WorkerReads`, `SeekTest`, `SeekFails` |
| `worker_lua` | `Requests` and `Advance`, by `phase` |
| `say_worker_died` | `SayDied`, `Send`, `SendFails` |

The Lua state is external: it may ask for a block of any size, resize or release
any block it holds, in any order, and releases all of them when it is closed or
when its creation fails.

Left out: the branch of `main_worker` for a worker that is named in the request
(no caller names one), environment variables, the text in the PATH block, and a
full pipe: a pipe holds thousands of pointers and `PipesBounded` shows that a
handful is the most these two ever hold.

### ProcessWatch

One `process_t`. `owner` is the thread that calls `process_info` and
`process_term` on it, `watcher` the threads of `process__wait4exit` that were
created for it: more than one can run, because nobody joins them and the flag
`thread.active` that should keep a second one away is raised by the thread
itself. `path`, `active` and `exited` are the members they share; each access is
a step of its own. The owner fills the members in the order of the code
(`InfoReset`, `InfoFill`, `InfoPath`), reads the files of the target
(`InfoRead`), which fails once the target is gone, and creates the watcher
(`InfoCreate`). `clean` and `died` are history: the code promises nothing for a
handle that is refilled while an old watcher runs, so the properties speak of
handles filled while none did.

Left out: the text members, which only the owner uses; `hooked` and `paused`,
which belong to `ProcessHandle`.

### ProcessFind

`pglance_init` reads `/proc` entry by entry (`Readdir`), `process_next` takes a
pid (`NextPid`), climbs from parent to parent (`Climb`, one `process_info` each)
and reads the process again for its name (`Again`); `process_find` records it
(`Add`). Between any two steps a process may exit, its children moving to pid 1,
or start (`Exit`, `Fork`). `process_info` fails for a process that is gone, and may
fail for one that is there, which ends the search; or it comes short, which it
does where `/proc/<pid>/cmdline` gives less than its size was a moment before: it
answers 0 and leaves no parent, which reads as the end of a line (`NoParent`). The name is a set of pids that match. `steady`, `seen`
and `reused` are history, to say which processes a search should find, which it
may find, and when a pid stood for two processes.

### ProcessHandle

One `process_t` and the kernel on its other side. The kernel is a few sets of
processes: those `alive`, those `traced`, in a ptrace stop (`trap`) or stopped by
a signal (`halted`), the signals `pending` for each, and those of which `waitpid`
has something to say (`news`). A traced process is trapped by the first signal
it gets, whichever it is (`Deliver`); a process may die, and another may get its
pid, at any moment (`Die`, `Start`). `known`, `hooked` and `paused` are
members of the handle; `process_test` is `Test`.

| Code | Action |
| --- | --- |
| `process_info` as far as it sets `pid`, `hooked`, `paused` | `Info` |
| `process_grab` | `Grab`, `GrabWait` |
| `process_stop` | `Stop`, `StopWait` |
| `process_free`, `process_cont` | `Free`, `Cont` |
| `pglance_data`, `pchange_data` | `Stop`, `StopWait`, `Access`, `Free`, `Cont` |
| `process_term` | `Free`, `Cont`, `TermInit` |

A call that waits is two actions, so that the target and others act in between.
`Access` stands for what happens between the stop and the release. Left out:
handles of gasp's own process, the ways to the memory, what is read and written.

### ScanThread

The thread of a scan from `process_dumper` on, and its owner at the other end of
the two pipes, which is external: no file of the repository sends the signals.
`pc` names what the thread does next; `Obey` is the loop of
`gasp_thread_should_die`, called between two buffers of the dump (`DumpCheck`)
and of the scan (`ScanCheck`), with `Held` for a thread that was stopped. The
dump is counted in half buffers: `maps` is the list of mappings, `focus` and
`bytes` where the dump stands, `dataFile` which part of which mapping each half
buffer of the file holds, `usedFile` how many marks the other file has. A read
gives some of what was asked for, nothing, or an error (`Glance`).

A poll or a read of the signals that fails between two buffers is taken for no
signal (`Check`); a poll that fails while the thread is held ends it (`Held`). A
read that fails there is left out: `poll` has just reported a signal, and the
owner keeps its end of the pipe open. The answer to a STOP may be lost (`Answer`):
`gasp_tpollo` says 1 where there is no pipe, where its poll fails and where its
write does, so the thread waits for the next signal as if it had answered, and its
owner for the answer (`Stranded`).

The scan proper is what the code leaves of it: `dump_files_reset_offsets` erases
the list of mappings (`Reset`), so that `dump_files_glance_stored` finds only
mappings without a size, and ends or fails at its first turn (`Stored`). Left
out for that reason: the windows over the files and the comparison. Also left
out: addresses, values, and a second dump of the same `tscan_t`. A write that
fails is taken to write nothing.

### ScanTarget

`ScanThread` and `ProcessHandle` side by side, `ProcessHandle` extended and
`ScanThread` instantiated with the same flags, pipes and lists. What is a choice
in `ScanThread`, how a read ends, is here the outcome of the calls that
`pglance_data` makes on the handle:

| Step of `pglance_data` | Action |
| --- | --- |
| `pmemory_test` refuses a handle that is not hooked | `ReadRefused` |
| `process_stop` sends STOP and waits for a report | `ReadStops`, `ReadWaits` |
| `process_grab` finds it hooked, `pglance__self` answers | `ReadAnswers` |
| `process_free`: the detachment is refused | `ReadFrees` |
| `process_cont` | `ReadEnds` |

Two facts decide what happens. A process is traced by a thread, and the thread of
the scan is not the one that attached; so the detachment fails and the handle
stays hooked. And the wait for a stop of a process that is traced by another
thread, or stopped already, ends only with its death. So a dump never stores
anything: a read is refused where the target is not held, waits while a held
target lives, and gives nothing once it is dead.

Before and after a scan the owner uses the handle as it likes (`UsesHandle`);
while one runs it does not, because nothing guards the handle. Its pipes it uses
at any time (`SignalsScan`).

### MemoryGroup

`struct memory_group` of `memory.h` with every function on it, over a heap as in
`MemoryBlock`. `Memory` is `default_alloc`: a request for nothing is a release
and answers NULL, as a refusal does. `Request` is what `new_` and
`alt_memory_block` and the first halves of `inc_` and `dec_memory_block` share,
`NoRequest` the other half. `Sums` is the addition of two ints: past `INT_MAX` it
is undefined, so either the wrapped value, which the code then replaces, or, where
the compiler counts on it not wrapping, the sum. `want`, `emptied` and `cut` are
history: the entries the last call was to make room for (none for
`dec_memory_group_total` and `del_memory_group_block`), that a request for nothing has
released the block (which the structure still names), and that the total has
been lowered (which leaves `count` and `focus` where they were).

Left out: a group whose entries have no size yet (the calls divide by it),
`new_memory_group_block` for a group that has a block (it would leak it), and
whatever follows a call with a block that was released: no caller does these.

### DumpFiles

The descriptors of two or more dumps and the table they come from, which other
threads of the process use, too (`OtherOpens`, `OtherCloses`).
`dump_files_open` goes file by file, `pc` saying which is next (`OpenFile`); it
may fail at each (`OpenFails`), and then closes what it opened (`ShutOpened`). A
descriptor of 0 stands for a file that is not open, as -1 does: both are `NONE`.
`off` and `len` are the offsets and lengths of the files of marks and of data, in
units of one byte of data and its mark. `ResetOffsets`, `Read` and `Write` work
on one file, then on the other, and may fail between the two; `clean` and `torn`
are history.

Left out: directories, names (a dump is opened for the same scan each time), the
header of the info file, buffers and contents. Nothing in the repository calls
`dump_files_open`; that a dump is written only after its offsets were reset is
taken from `process_dump`.

## Runs

| Run | Bounds | Shows |
| --- | --- | --- |
| memory | 3 addresses, sizes to 3, one failing write, one failing poll in main | ownership, pairing of requests, no bad free, release at the end, teardown in order; `Workers` implements `Allocator` |
| faults | 2 addresses, one failure of each kind | bounded pipes, every call returns, an ended script ends gasp |
| seek_error | one failing poll in the worker | a call answered before it was served (finding) |
| watch | 2 processes, 3 watchers at a time | no false exit, the watcher is kept, an exit is noticed, watchers of a cleared handle end |
| find | pids 1 to 4 under 2, one exit, one start, one failing `add_node`, one `process_info` that fails or comes short | sound, no repetition, complete where the list was gone through without a failure, the search ends |
| handle | 2 pids, two signals of others | nothing stays traced, what is held stands still, nothing is left stopped until others send signals, an attachment ends |
| handle_race | 1 pid, one signal of others | a target stopped for good (finding) |
| handle_glance | 1 pid | a read that never returns (finding) |
| scan | lists of at most two mappings, of 1 to 3 half buffers, one failure of each kind | stopped is stopped, answers are true, short reads lose nothing, only a failed scan or a lost answer leaves a STOP unanswered, scans end unless a lost answer strands both sides |
| target | 2 pids, one signal of others, lists of one or two mappings, one failing poll, one lost answer, one failing set-up | nobody is left stopped by a read; a scan that cannot read, or that was killed and lost its target, ends, unless a lost answer strands it |
| group | 2 addresses, blocks to 6 bytes, entries of 1 or 2, numbers from -1 to 3 and `MaxInt` | entries exist, what is answered is alive and long enough, indices stay inside |
| files | 2 dumps, 4 descriptors, files of 2 units | fields and descriptors agree, marks and data in step |

Three addresses are the PATH block and two blocks of Lua, enough for a block
that moves while another stays; sizes to 3 give a block that is shrunk to more
than nothing. The addresses are only compared, so the memory run uses their
symmetry. One failure of each kind at any moment is enough to meet each error
path in each state; two would only repeat them. `MaxBytes` bounds a request and
the three fault counters bound the failures; nothing else is bounded.

Two processes are the target of a handle and the next target, which may be the
same pid again; three watchers are one that is wanted and two from the past,
which can disagree with it and with each other; nothing else is bounded.

Four pids give a chain from the ancestor over two parents, or a process beside
it; every tree of them in which a child is younger than its
parent is an initial state. One exit and one start are enough to give a pid out
again in the middle of a climb.

Two pids are the target of a handle and another process, and each pid can be
given out again; two signals of others can come before and after gasp's own.
`LeftRunning` is `Undisturbed` up to the first signal of others: after one,
handle_race finds it violated.

A mapping of three half buffers takes more than one buffer, one of a single half
buffer less than one; `Lists`, and the counters for failing polls, lost answers,
set-ups, writes, reads and reads of nothing, are the bounds of the scan run. How
often the owner stops and continues a scan is not bounded, and the pipes need no
bound, since the owner waits for the answer to a STOP.

In the target run nothing is ever written to the files, so failing writes are
left to the scan run; two pids and deaths at any time give a target that dies in
each step of a read and a stranger that gets its pid in the middle of one.

Four descriptors are enough for one dump that is open beside a file of another
thread, and too few for two: each dump meets a full table at each of its three
files, and gets numbers the other has just given up. Two units let a read or a
write come short and leave a file with something in it. `MaxBytes` stands in for
what the allocator can give; `MaxInt` is small so that totals meet it.

The invariants of the memory run are stated for `SeekErrors = 0`: the seek_error
run shows that the code does not have them otherwise.

### Fairness

`FairSpec` asks that main goes on when it can, that the worker goes on outside
the script (phase `lua`), and that a cancelled thread that waits in `poll`, a
cancellation point, ends. Both loops poll with a timeout of a millisecond and
try again, so a message in a pipe is read in the end. In `ProcessWatch` each
watcher goes on, its loop being one that never waits; nothing is asked of the
owner. In `ProcessFind` the search goes on, since it never waits, and
processes may exit and start or not. In `ProcessHandle` a call that is under way
goes on when it can, and a signal is delivered in the end to a process that can
take it. In `ScanThread` the thread goes on when it can, and the owner takes the
answer it waits for and does not leave a scan stopped for ever: it continues or
kills it, which no code of the repository shows but without which a stopped scan
has nothing to end it. Nothing asks a poll of the thread to fail, so that a thread
and an owner stranded by a lost answer may stay so for ever: `ScanEnds` and
`GetsOut` make that one exception, and `StrandedForGood` shows that the thread
gets out of it by a failing poll only. `FairTargetSpec` asks the same of the scan and its owner
in `ScanTarget`; the owner of the handle and the kernel are asked nothing, so
that a target may live for ever and a read wait for ever, and `GetsOut` speaks
only of targets that are dead or not held. No failure, allocation or
end of the script is assumed to happen.

## Proofs

`WorkersProofs` proves, for every set of addresses, every size and every number
of failing writes and of failing polls in main:

* with no assumption on failures: `TypeCorrect`, `PipesStayShort` and
  `NoStandstill`, that main never polls for a word nobody will send;
* with `SeekErrors = 0`: `Ownership`, `OneAtATime`, `FrameOutlivesRequest`,
  `Shrinking`, `DeathReleases`, `ObjectOutlivesThread`, `ShutAfterUse`, and
  `Refinement`, that the two threads implement `Allocator`, and `CrashFree`,
  that main's failed poll is the only way to a crash.

`LiveFrame`, `ShrinkSucceeds` and `ShutUnused` are proved and not
checked by a run: `OneRequest`, `ImplementsAllocator` and `ObjectAlive` come with
the same mutants and say nearly as much. `ShrinkSucceeds` has an exception, the
request that could not be sent (`main.c` 33-36), and `ShutUnused` another: a worker
that said it died may still be on its way out, because `worker_died` joins
nobody, but it uses nothing of main's any more.

None of these is inductive. The invariant `IInv` has three parts. `Handshake`
ties the worker's state to main's and to both pipes: exactly one token, the
pointer to the worker's cell, the request being served, or the pointer to main's
cell, exists while the worker waits, and none otherwise. `Lifetime` ties `object`,
`count`, `cancel` and `thread`. `Memory` says how `held`, `heap` and `frame`
differ at each point of a call: equal up to belief before it is served, and
equal after the change described by the frame once it has been. Each action
preserves each part (`LifetimeStep`, `HandshakeStep`, `MemoryStep`); the
theorems follow. The refinement maps "asked" to the time before main has served
the request and "answered" to the time after; each step is a step of `Allocator`
or leaves its variables alone.

`PipesStayShort` and `NoStandstill` cannot use `IInv`, which a failed wait of the
worker breaks. The first rests on an account: a word on its way to main, one
that main works on, an answer on its way back and a worker that waits for one
go over into each other, and only a broken wait leaves one behind
(`FlightBounded`, with `LastWord` for the two last messages of a life). The
second rests on `Letters`, what the cells must hold for a worker that waits to be
answered and for one that left to be counted out. A standstill is not a
deadlock to TLC, since main's loop goes on polling.

`ProcessWatchProofs` proves, for any number of processes and watchers,
`TypeCorrect`, `ExitedIsTrue`, `WatchIsKept`, `WatchersWindDown` and
`ExitComesNearer`. The invariant adds where a
single watcher of a handle filled without others can stand: if it has left its
loop's test for "gone", the target was gone at some time, and between filling
and creation no watcher runs at all. The last two are what is safe of
`TermEndsWatching` and `ExitIsNoticed`. Watchers of a cleared handle may raise the
flag that keeps all of them going, but each only once, at its start; all other
steps leave one of them less to do (`Left`) and none more. The watcher of a clean
handle is alone with it and cannot find the flag lowered before it has reported.

`ProcessFindProofs` proves, for any number of processes, exits, starts, failed
allocations and failing or short calls of `process_info`, `TypeCorrect`, `NothingTwice`, `ResultIsSound`, `ResultIsComplete` and
`SearchGetsOn`. `FoundOnce` is not inductive: the
invariant adds that the list ascends, that every match comes before what is
still to be looked at, and what the place in the list is at each step.

Soundness and completeness are about lines of ancestors. `Line` is the smallest
set of pids that holds a process and the parent of each of its members but 0,
so what an exit or a start does to a line follows from sets that are closed, not
from an induction: `ExitLine`, `ForkLine`. That a line ends (`LineEnds`), though a
pid given out again may be younger than its child, is `Tree`: every living
process is under the kernel and all of its line is alive. `SoundInv` adds what a climb knows: as long as no pid was
given out again and both are alive, either the pid it started from was seen
under the ancestor, or the parent it stands at is in that pid's line, or that
parent is not under the ancestor, so that nothing is found from there. `CompleteInv` says
where a process that has been under the ancestor all the time can be: still to be
listed, in the list, before the place looked at, found, or at that place, with the
climb on its line and the ancestor further up; an exit elsewhere leaves such a
line as it is (`ExitElsewhere`). `SearchGetsOn` is what is safe of `Ends`: each step of a search goes on in the list, to
the next stage of the same pid, or up a line, which loses a member by it and
never comes back to it (`NoCircle`).

`ProcessHandleProofs` proves, for any number of processes, deaths and signals,
`TypeCorrect`, `NothingLeaks`, `TargetIsHeld`, `HeldIsNeverAccessed` and
`NothingStaysStopped`. The invariant `TraceInv` adds
the kernel's view (who is trapped is traced, and there is only news of processes
that are traced) and the owner's (while a target is being attached it is traced
and the handle not hooked). For `NothingStaysStopped`, until others send a signal,
`StopView` says where every stop comes from, the target being attached or a
`process_stop` that `process_cont` or the target's death will settle. That
needs the fact that a living, traced target never gets past `StopWait`, which is
`HeldIsNeverAccessed`: the block that handle_glance shows is not a matter of
timing or of the number of signals.

`ScanThreadProofs` proves, for any list of mappings and any failures,
`TypeCorrect`, `StoppedIsStopped`, `ToldIsOver`, `SignalsAreHeard`, `StrandedForGood`,
`DumpIsWhole` and `ScanGetsOn`. The invariant `Handshake`
lists what is in the two pipes for each state of the owner while the thread
works and while it is held, answered or with its answer lost; `TypeCorrect` needs `Inside`, that a buffer fits what
is left of its mapping from the time it is asked for until it is counted.
For `DumpIsWhole` the invariant `Progress` counts the entries of the file for each
mapping: all of it for those before the mapping in focus, what was counted of
that one, with the buffer that is written but not yet counted, and none after.
`ScanGetsOn` is what is safe of `ScanEnds`: a turn of the dump's loop moves on in
the list or in the mapping or uses up a read of nothing, and outside of the loop
every step leaves fewer to go; a thread that was held is not held again there
(`HeldOnce`).

`ScanTargetProofs` proves, for any lists, targets, signals and failures,
`ImplementsHandle`, that the composition implements `ProcessHandle`: each step of
a read is a step of the handle, and all others leave it alone. Hence the
invariants of the handle hold under any scan (`ScanLeaksNothing`). For
`NobodyLeftStopped` these are strengthened by what is known between the steps of
a read: a handle that is being released is hooked, and a living, traced target
is never past the wait of `process_stop`. `StoppedScanIsAtRest` joins both sides:
`Handshake` holds of the composition, too (`SignalsStep` takes it from
`ScanThreadProofs`, of which `ScanTargetProofs` has an instance, and adds the
reads, which send and take no signals), a read is under way only where the dump
stands at one (`Reading`), and so the answer to a STOP is true of the target.

`MemoryGroupProofs` proves, for any heap, sizes and numbers, `TypeCorrect`,
`EntriesAreThere`, `RoomIsThere` and `IndicesStayInside`. The invariant `Filled`
ties the block of the structure to the heap and the total to the quotient of
its length, unless a request for nothing has released it; `Answered` says what
the last call answered. `RoomIsThere` is about the block that was answered, not
only about `total`: that it is alive and long enough.

`DumpFilesProofs` proves, for any number of dumps and descriptors and any length
of files, `TypeCorrect`, `FieldsAreExact`, `StaysInStep` and, of every step,
`OthersAreLeftAlone`: a call on one dump neither closes nor takes over what another
has open, since it closes by its own fields and these are exact. `FieldsExact` is
inductive only with `TypeOK`, which says which fields are filled at each place in
`dump_files_open`; that no two fields share a number follows from the table
(`CloseAllExact`).

Every invariant of a passing run is the subject of a theorem. Only model-checked
are the liveness properties, for which the prover has no rules here:
`EveryCallReturns`, `ScriptEndEndsGasp`, `ExitIsNoticed`, `TermEndsWatching`, `Ends`,
`GrabReturns`, `StopIsAnswered`, `ScanEnds` and `GetsOut`.

## What the models found

* A failed `poll` or `read` in the worker's wait is not noticed by `lua_memory`
  (run seek_error): Lua may use a block it does not have.
* A read or write of a hooked target blocks until the target dies (run
  handle_glance).
* A signal that comes before the attachment's own leaves the target stopped (run
  handle_race).
* Where the answer to a STOP is lost (`proc.c` 1449, 1457, 1463), `gasp_tpollo`
  returns 1 (1475), so that the test for it (1487) never fires: the thread waits
  without a timeout for a signal (1489), its owner for the answer. In the runs scan
  and target this is the state `Stranded`, the one exception to `StopIsAnswered`,
  `ScanEnds` and `GetsOut`; each of them is violated without it.

Seen while reading, in the models where they cover the code, but not a property
of a run: TERM is written by value, not by address, so that a worker that reads
it crashes gasp (`SeekTest`; `NoCrash` allows for it); a worker that could not be
created is reported as success (`workers.c` 285); the exit of any process, or a
failing `process_info`, ends a search early, and the caller is not told if
anything was found (`NoParent`; `Complete` speaks of searches that got to the end
of their list); a `process_info` that reads too little returns 0 without a parent
(2303), and a process is passed over; a watcher left over from an earlier target
may report that target's exit for the new one (`SayExited`; `NoFalseExit` is about
handles filled while no watcher ran);
`pglance__self` and `pchange__self` answer for every process, so that nothing is
read or written and the ways after them are not tried; a scan erases the list of
mappings it is about to go through (`Reset`). `set_env_pair` never restores a
variable, because it compares addresses of copies; the PATH block is not
released where `lua_newstate` fails; a DIED message whose cell is read through
an older pointer after a broken wait frees the object before the thread is done. In
`process_find` the entries of the result get a name and a command line but no
pid, and the glance is not released where a search that found something ends
with an error. `process_grab` returns the wait status, which
is not 0, where it succeeds; `process_info` on a hooked handle returns 0 and does
nothing; a traced target that died stays a zombie if nobody waits for it before
the handle is cleared; where `flags` lacks the write bit every way to write is
refused except `pchange__seek`, which does not look. Each read lets the target
go and unhooks the handle, so that the thread that traces it could read only once;
any other thread could not let it go (`ReadFrees`), and a dump stores nothing at
all. `process_term` only lowers the flag of a watcher (2190) and releases the
handle at once, though the comment above says "Ensure thread closes before we
release the handle it's using" (`TermInit`). A scan that was killed or failed
jumps past the line that clears `threadmade` (2047), and `OTG/gui/scan.lua` (119)
starts the next only if the thread is not active (`Failed`; `StopIsAnswered` counts
on it). Every buffer of a dump is read from `src->head`, the start of its
mapping (1619), while what is counted moves on (`WriteData`). A read of the signals is not checked (1438): where it fails, or
the other end is closed, the last signal counts once more. `dump_files_change_info` returns 0 whatever happened, and so
hides the error of a failed write; `tscan->ret` is stored after the end was
announced, and only on success; `locations.count` is not reset between scans. In
`memory.h`, `dec_memory_group_total` adds (320), so that it never makes a block
shorter (`DecTotal`; no property is against it), a full group counts nothing
(`SetCount`), a total that is lowered leaves count and focus where they were
(`Members`; `IndicesInside` exempts it), and a request for nothing releases the block
and leaves the structure as it is, which the comments promise for failures only
(`Request`): the next call that finds nothing to do answers the block that was freed
(`NoRequest`; `EntriesExist` and `RoomIsMade` exempt it);
`del_memory_group_block` clears the size of the entries, by which the next call
divides; `new_memory_block` hands the allocator the bytes of a structure that
need not be initialised. Files that are opened again are not cut to length
(`OpenFile`), and `dump_files__write_file` stores EIO in errno where it should
return it.

## Not modelled

* The branch of `main_worker` for messages that name a worker, and the shared
  blocks behind it: no caller builds such a message, and the code does not say
  when one may come.
* The loops of `rdpipe` and `wrpipe` over parts of a message: every message is an
  address of 8 bytes, which a pipe takes and gives as a whole.
* The ways to the memory of a process after the first (568-704, 738-922): the
  first answers for every process.
* The windows over the dump files, the comparison and the marking of results
  (1785-1898): the list of mappings is erased before, and a list that was not
  would lead to a null pointer at its first mapping (1806).
* The list of mappings (295-530): a parser, which fails at the first mapping
  without a file; its other calls have no caller.
* The scripts: the boot loop is sequential and two flags wide; the hook and the
  scan panel are views that are commented out (`OTG/gui/init.lua` 337-341) over a
  Lua API that this tree does not contain; cheat tables are layout.
* The Lua bindings (wrappers without state), message texts, OpenGL and nuklear
  back ends, makefiles.
