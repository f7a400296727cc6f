-------------------------- MODULE ScanTargetProofs --------------------------
(***************************************************************************)
(* For the handle a scan is one more caller: ScanTarget implements         *)
(* ProcessHandle, although the thread of the scan cannot detach anything.  *)
(***************************************************************************)
EXTENDS ScanTarget, ProcessHandleProofs

\* A read that gets as far as process_free has no living target to detach, so it
\* makes no difference which thread calls it.
LEMMA ReadFreesNothing == TraceInv /\ ReadFrees => Free
<1> SUFFICES ASSUME TraceInv, ReadFrees PROVE Free
  OBVIOUS
<1>1. pid \notin trap
  BY DEF ReadFrees, TraceInv, OwnerView, KernelView
<1> QED  BY <1>1 DEF ReadFrees, Free

\* Every step of the two is a step of the handle or none of its business.
LEMMA StepRefines == TraceInv /\ [TargetNext]_TargetVars => [Next]_vars
<1> SUFFICES ASSUME TraceInv, [TargetNext]_TargetVars PROVE [Next]_vars
  OBVIOUS
<1>1. CASE UNCHANGED vars
  BY <1>1
<1>2. CASE Owner
  BY <1>2 DEF Next
<1>3. CASE Kernel
  BY <1>3 DEF Next
<1>4. CASE ReadFrees
  BY <1>4, ReadFreesNothing DEF Next, Owner
<1> QED
  BY <1>1, <1>2, <1>3, <1>4
     DEF TargetNext, UsesHandle, StartScan, SignalsScan, Read, ReadRefused,
         ReadStops, ReadWaits, ReadAnswers, ReadEnds, ScanRefused, Works, Owner,
         TargetVars

\* What is true of a handle whoever calls it stays true where a scan does.
THEOREM ImplementsHandle == TargetSpec => Spec
<1>1. TargetInit => Init
  BY DEF TargetInit
<1>2. TraceInv /\ [TargetNext]_TargetVars => [Next]_vars
  BY StepRefines
<1> QED  BY <1>1, <1>2, TraceInit, TraceStep, PTL DEF TargetSpec, Spec

\* Between two reads and after the scan nobody is stopped, unless others send
\* signals or process_stop was called by the owner of the handle.
THEOREM NobodyLeftStopped == TargetSpec => []NobodyStopped
<1>1. StopInv => NobodyStopped
  <2> SUFFICES ASSUME StopInv, others = Others, pc = "idle", ~paused \/ ~hooked
               PROVE  halted = {} /\ \A p \in Pid : "STOP" \notin pending[p]
    BY DEF NobodyStopped
  <2>1. \A p \in Pid : ~Disturbed(p)
    BY DEF StopInv, StopView
  <2>2. halted \subseteq Pid
    BY DEF StopInv, TraceInv, TypeOK
  <2> QED  BY <2>1, <2>2 DEF Disturbed
<1> QED  BY <1>1, StopInit, StopStep, ImplementsHandle, PTL DEF Spec

\* The scan reads only while the target is held: no process that it has left
\* behind stays traced.
THEOREM ScanLeaksNothing == TargetSpec => []NoLeakedTrace
BY ImplementsHandle, NothingLeaks, PTL
-----------------------------------------------------------------------------
(***************************************************************************)
(* The signals of a scan whose reads wait for their target.  T says of     *)
(* signaller and scan what ScanThreadProofs says of a scan by itself.      *)
(***************************************************************************)
T == INSTANCE ScanThreadProofs WITH
       owner <- signaller, pc <- scan,
       ReadErrors <- 0, EmptyReads <- 0, readErrors <- 0, emptyReads <- 0

\* T speaks of the same scan as ScanTarget.
LEMMA SameScan == [S!Next]_(S!vars) => [T!Next]_(T!vars)
BY
  DEF S!Next, T!Next, S!Owner, T!Owner, S!OwnerStops, T!OwnerStops,
      S!OwnerIsTold, T!OwnerIsTold, S!OwnerContinues,
      T!OwnerContinues, S!OwnerKills, T!OwnerKills, S!OwnerSeesEnd,
      T!OwnerSeesEnd, S!Tell, T!Tell, S!Told, T!Told, S!Thread,
      T!Thread, S!Begin, T!Begin, S!Setup, T!Setup, S!Fail, T!Fail,
      S!DumpNext, T!DumpNext, S!DumpCheck, T!DumpCheck, S!Check,
      T!Check, S!Obey, T!Obey, S!Take, T!Take, S!Answer, T!Answer,
      S!NoAnswer, T!NoAnswer,
      S!Glance, T!Glance, S!Want, T!Want, S!Buffer, T!Buffer,
      S!WriteData, T!WriteData, S!WriteFails, T!WriteFails,
      S!WriteUsed, T!WriteUsed, S!Info, T!Info, S!Reset, T!Reset,
      S!ScanCheck, T!ScanCheck, S!Stored, T!Stored, S!Held, T!Held,
      S!Cancel, T!Cancel, S!Finish, T!Finish, S!Clear, T!Clear,
      S!Failed, T!Failed, S!vars, T!vars, S!pipes, T!pipes, S!files,
      T!files, S!flags, T!flags, S!place, T!place, S!bounds, T!bounds

\* Neither a refused read nor one that ends has anything to do with signals.
LEMMA SignalsStep == T!Handshake /\ [TargetNext]_TargetVars => T!Handshake'
<1> SUFFICES ASSUME T!Handshake, [TargetNext]_TargetVars PROVE T!Handshake'
  OBVIOUS
<1>1. T!Handshake /\ [S!Next]_(S!vars) => T!Handshake'
  <2>1. /\ PollErrors \in Nat /\ AnswerErrors \in Nat
        /\ Failures \in Nat /\ WriteErrors \in Nat
        /\ 0 \in Nat /\ 0 \in Nat
    BY BoundAssumption
  <2>2. Lists \subseteq Seq(Nat \ {0})
    BY ListsAssumption
  <2>3. T!Handshake /\ [T!Next]_(T!vars) => T!Handshake'
    BY <2>1, <2>2, T!HandshakeStep
  <2> QED  BY <2>3, SameScan
<1>2. CASE StartScan \/ SignalsScan \/ Works
  BY <1>1, <1>2 DEF StartScan, SignalsScan, Works, S!Next, S!Thread
<1>3. CASE /\ scan \in T!AtWork /\ scan' \in T!AtWork \cup {"failed"}
           /\ UNCHANGED <<signaller, scanPipe, mainPipe, answerErrors>>
  BY <1>3 DEF T!Handshake, T!AtWork, T!Over
<1>4. CASE UNCHANGED <<signaller, scanPipe, mainPipe, answerErrors, scan>>
  BY <1>4 DEF T!Handshake, T!AtWork, T!Over, T!Lost
<1>5. CASE Read \/ ScanRefused
  BY <1>3, <1>4, <1>5
     DEF Read, ReadRefused, ReadStops, ReadWaits, ReadAnswers, ReadFrees, ReadEnds,
         ScanRefused, scanVars, T!AtWork
<1>6. CASE UsesHandle \/ (Kernel /\ UNCHANGED scanVars) \/ UNCHANGED TargetVars
  BY <1>4, <1>6 DEF UsesHandle, scanVars, TargetVars
<1> QED  BY <1>2, <1>5, <1>6 DEF TargetNext

LEMMA SignalsHold == TargetSpec => []T!Handshake
<1>1. S!Init => T!Handshake
  BY BoundAssumption DEF S!Init, T!Handshake, T!Over, T!AtWork
<1> QED  BY <1>1, SignalsStep, PTL DEF TargetSpec, TargetInit

\* A read is under way only where the dump stands at one, on a handle that is
\* hooked until the read is over.
Reading ==
  Running /\ pc # "idle" =>
    scan = "glance" /\ call = "glance" /\ known /\ hooked
    /\ pc \in {"stop", "access", "free", "cont"}

LEMMA ReadingStep == Reading /\ [TargetNext]_TargetVars => Reading'
<1> SUFFICES ASSUME Reading, [TargetNext]_TargetVars PROVE Reading'
  OBVIOUS
<1> USE DEF Reading, Running
<1>1. CASE UsesHandle
  BY <1>1 DEF UsesHandle, scanVars, Running
<1>2. CASE StartScan
  BY <1>2 DEF StartScan, vars, owner
<1>3. CASE SignalsScan
  BY <1>3 DEF SignalsScan, S!Owner, vars, owner, handle
<1>4. CASE ReadRefused
  BY <1>4 DEF ReadRefused, Test, vars, owner
<1>5. CASE ReadStops
  BY <1>5 DEF ReadStops, Stop, Test, scanVars, handle
<1>6. CASE ReadWaits \/ ReadAnswers
  BY <1>6 DEF ReadWaits, StopWait, ReadAnswers, Access, scanVars, handle
<1>7. CASE ReadFrees
  BY <1>7 DEF ReadFrees, scanVars
<1>8. CASE ReadEnds
  BY <1>8 DEF ReadEnds, Cont
<1>9. CASE ScanRefused
  BY <1>9 DEF ScanRefused, vars, owner
<1>10. CASE Works
  <2>1. scan # "glance" /\ scan \notin {"begin", "ended"} /\ UNCHANGED pc
    BY <1>10
       DEF Works, S!Setup, S!DumpNext, S!DumpCheck, S!WriteData, S!WriteUsed,
           S!Info, S!Reset, S!ScanCheck, S!Stored, S!Held, S!Cancel, S!Finish,
           S!Clear, S!Failed, vars, owner
  <2> QED  BY <2>1
<1>11. CASE Kernel /\ UNCHANGED scanVars
  <2>1. UNCHANGED <<pc, call, known, hooked>>
    BY <1>11 DEF Kernel, Start, Die, SendOther, Deliver, handle, owner
  <2> QED  BY <1>11, <2>1 DEF scanVars
<1>12. CASE UNCHANGED TargetVars
  BY <1>12 DEF TargetVars, vars, scanVars, owner, handle
<1> QED
  BY <1>1, <1>2, <1>3, <1>4, <1>5, <1>6, <1>7, <1>8, <1>9, <1>10, <1>11, <1>12
     DEF TargetNext, Read

\* What the owner of a scan that answered its STOP finds.
AtRest ==
  signaller = "paused" =>
    /\ scan \notin T!AtWork
    /\ Running => pc = "idle"
    /\ Running /\ others = Others /\ (~paused \/ ~hooked) =>
         halted = {} /\ \A p \in Pid : "STOP" \notin pending[p]

\* The answer to a STOP is true of the target, too: it never comes in the middle
\* of a read, between process_stop and process_cont, although the one thread
\* waits for the target there and the other for the scan; so gasp has nobody
\* stopped for it, unless the owner did so itself or others send signals.
THEOREM StoppedScanIsAtRest == TargetSpec => []AtRest
<1>1. TargetInit => Reading
  BY DEF TargetInit, S!Init, Reading, Running
<1>2. T!Handshake /\ Reading /\ NobodyStopped => AtRest
  BY DEF T!Handshake, Reading, NobodyStopped, AtRest, T!AtWork, T!Over
<1> QED
  BY <1>1, <1>2, ReadingStep, SignalsHold, NobodyLeftStopped, PTL DEF TargetSpec
=============================================================================
