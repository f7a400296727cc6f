----------------------------- MODULE ScanTarget -----------------------------
(***************************************************************************)
(* A scan and its target: ScanThread, whose reads are the calls of         *)
(* pglance_data that ProcessHandle describes, made by the thread of the    *)
(* scan on the handle that another thread has hooked.                      *)
(*                                                                         *)
(* Nobody else uses the handle while the scan runs, since nothing guards   *)
(* it.  A process is traced by the thread that attached to it, which is    *)
(* never the thread of the scan.  What the two modules leave out is left   *)
(* out here.                                                               *)
(***************************************************************************)
EXTENDS ProcessHandle, Sequences

CONSTANTS Lists, PollErrors, AnswerErrors, Failures, WriteErrors \* of ScanThread

ASSUME ListsAssumption == Lists \subseteq Seq(Nat \ {0})
ASSUME BoundAssumption ==
  /\ PollErrors \in Nat /\ AnswerErrors \in Nat
  /\ Failures \in Nat /\ WriteErrors \in Nat

\* Those of ScanThread; scan is its pc, and signaller its owner.
VARIABLES
  signaller, scanPipe, mainPipe, scan, maps, focus, bytes, got, dataFile,
  usedFile, threadmade, dumping, scanning, pollErrors, answerErrors, failures,
  writeErrors

scanVars == <<signaller, scanPipe, mainPipe, scan, maps, focus, bytes, got,
              dataFile, usedFile, threadmade, dumping, scanning, pollErrors,
              answerErrors, failures, writeErrors>>

\* How a read ends is the business of the handle.
S == INSTANCE ScanThread WITH
       owner <- signaller, pc <- scan,
       ReadErrors <- 0, EmptyReads <- 0, readErrors <- 0, emptyReads <- 0

TargetInit == Init /\ S!Init

-----------------------------------------------------------------------------
\* The scan is under way.
Running == scan \notin {"begin", "ended"}

\* The owner of the handle, before and after a scan.
UsesHandle == ~Running /\ Owner /\ UNCHANGED scanVars

\* process_dumper starts between two calls on the handle.
StartScan == pc = "idle" /\ S!Begin /\ UNCHANGED vars

SignalsScan == S!Owner /\ UNCHANGED vars

-----------------------------------------------------------------------------
\* pglance_data, called by process_dump.

\* pmemory_test refuses a handle that is not hooked, which ends the mapping.
ReadRefused ==
  /\ scan = "glance" /\ Test # "0"
  /\ scan' = "dump" /\ focus' = focus + 1 /\ bytes' = 0
  /\ UNCHANGED <<signaller, scanPipe, mainPipe, maps, got, dataFile, usedFile,
                 threadmade, dumping, scanning, pollErrors, answerErrors, failures,
                 writeErrors, vars>>

\* process_stop, which waits for a report of the target.
ReadStops ==
  /\ scan = "glance" /\ pc = "idle" /\ Stop /\ call' = "glance"
  /\ UNCHANGED scanVars

\* Mutant: the wait is repeated where there is no process to wait for.
ReadRetries == scan = "glance" /\ pid \in news /\ StopWait /\ UNCHANGED scanVars

ReadWaits == scan = "glance" /\ StopWait /\ UNCHANGED scanVars

\* process_grab finds the handle hooked, and pglance__self, the first way to the
\* memory, answers for every target; it reads only from gasp itself.
ReadAnswers == scan = "glance" /\ Access /\ UNCHANGED scanVars

\* process_free: PTRACE_DETACH is refused to a thread that is not the tracer.
ReadFrees ==
  /\ scan = "glance" /\ pc = "free" /\ pc' = "cont"
  /\ UNCHANGED <<scanVars, alive, traced, trap, halted, pending, news, others,
                 pid, known, hooked, paused, call>>

\* process_cont, whose result is the result of the read: the handle is still
\* hooked, so the read has succeeded, with nothing.
ReadEnds ==
  /\ scan = "glance" /\ pc = "cont" /\ Cont
  /\ got' = 0 /\ scan' = "data"
  /\ UNCHANGED <<signaller, scanPipe, mainPipe, maps, focus, bytes, dataFile,
                 usedFile, threadmade, dumping, scanning, pollErrors, answerErrors,
                 failures, writeErrors>>

Read == ReadRefused \/ ReadStops \/ ReadWaits \/ ReadAnswers \/ ReadFrees \/ ReadEnds

-----------------------------------------------------------------------------
\* process_aobscan tests the handle, too, before it resets the files.
ScanRefused ==
  /\ scan = "reset" /\ Test # "0"
  /\ scan' = "failed" /\ dumping' = FALSE /\ scanning' = FALSE
  /\ UNCHANGED <<signaller, scanPipe, mainPipe, maps, focus, bytes, got, dataFile,
                 usedFile, threadmade, pollErrors, answerErrors, failures,
                 writeErrors, vars>>

\* The scan between its reads.
Works ==
  /\ \/ S!Setup \/ S!DumpNext \/ S!DumpCheck \/ S!WriteData \/ S!WriteUsed \/ S!Info
     \/ Test = "0" /\ S!Reset
     \/ S!ScanCheck \/ S!Stored \/ S!Held \/ S!Cancel
     \/ S!Finish \/ S!Clear \/ S!Failed
  /\ UNCHANGED vars

TargetVars == <<vars, scanVars>>

TargetNext ==
  \/ UsesHandle \/ StartScan \/ SignalsScan \/ Read \/ ScanRefused \/ Works
  \/ Kernel /\ UNCHANGED scanVars

TargetSpec == TargetInit /\ [][TargetNext]_TargetVars

\* The scan goes on when it can, its reads too, without a poll that has to fail
\* where it waits; its owner takes the answer it waits for and does not leave it
\* stopped for ever.
FairTargetSpec ==
  /\ TargetSpec
  /\ WF_TargetVars((Read \/ ScanRefused \/ Works) /\ pollErrors' = pollErrors)
  /\ WF_TargetVars(SignalsScan /\ S!OwnerIsTold)
  /\ WF_TargetVars(SignalsScan /\ signaller = "paused")

-----------------------------------------------------------------------------
\* A scan of a target that is not held ends, refused read by refused read; and
\* one that is killed ends once its target is gone, though its reads block as
\* long as the target lives and go on with nothing once it is dead.  Only a lost
\* answer to a STOP leaves the scan and its owner waiting for each other for ever.
GetsOut ==
  (Running /\ (~hooked \/ (signaller = "killing" /\ pid \notin alive)))
    ~> (scan = "ended" \/ []S!Stranded)

\* Each read stops its target and lets it go on, also through a handle whose
\* target died, when it may reach a stranger that got the pid: between two reads
\* and after the scan nobody is stopped, unless others send signals, too.
NobodyStopped ==
  others = Others /\ pc = "idle" /\ (~paused \/ ~hooked) =>
    halted = {} /\ \A p \in Pid : "STOP" \notin pending[p]
=============================================================================
