------------------------ MODULE ProcessHandleProofs ------------------------
(***************************************************************************)
(* What a handle leaves behind, for any number of processes: no process    *)
(* that is traced and, as long as only gasp sends signals, none that is    *)
(* stopped.                                                                *)
(***************************************************************************)
EXTENDS ProcessHandle, TLAPS

USE NoneAssumption, OthersAssumption

\* The kernel's view: who is trapped is traced, and waitpid has only that to
\* tell of processes that are there.
KernelView ==
  /\ news \subseteq traced
  /\ trap \subseteq traced \cap alive
  /\ news \cap alive \subseteq trap

\* The owner's view: while it attaches the target is traced, and once hooked
\* there is no more news of it until it dies; so who gets past the wait of
\* process_stop has no living target.
OwnerView ==
  /\ pc = "grab" => pid \in traced /\ ~hooked
  /\ hooked => pid \notin news \cap alive
  /\ pc = "stop" => hooked
  /\ pc \in {"access", "free", "cont", "init"} => pid \notin traced \cap alive

TraceInv == TypeOK /\ KernelView /\ OwnerView /\ NoLeakedTrace /\ HeldStill

\* Before the first call nothing is traced.
LEMMA TraceInit == Init => TraceInv
<1> SUFFICES ASSUME Init PROVE TraceInv
  OBVIOUS
<1>1. TypeOK
  <2>1. pending \in [Pid -> SUBSET Signal] /\ others \in 0..Others
    BY DEF Init
  <2>2. /\ alive \subseteq Pid /\ traced = {} /\ trap = {} /\ halted = {}
        /\ news = {} /\ pid = NONE /\ call = "none" /\ pc = "idle"
    BY DEF Init
  <2>3. known = FALSE /\ hooked = FALSE /\ paused = FALSE
    BY DEF Init
  <2> QED  BY <2>1, <2>2, <2>3 DEF TypeOK
<1>2. traced = {} /\ trap = {} /\ news = {} /\ pc = "idle"
  BY DEF Init
<1>3. KernelView /\ OwnerView /\ NoLeakedTrace /\ HeldStill
  BY <1>2 DEF KernelView, OwnerView, NoLeakedTrace, HeldStill
<1> QED  BY <1>1, <1>3 DEF TraceInv

\* Every step keeps the types.
LEMMA TypeStep == TypeOK /\ [Next]_vars => TypeOK'
<1> SUFFICES ASSUME TypeOK, [Next]_vars PROVE TypeOK'
  OBVIOUS
<1> USE DEF TypeOK, Signal, kernel, handle, owner
<1>1. ASSUME NEW p \in Pid, Start(p) PROVE TypeOK'
  BY <1>1 DEF Start
<1>2. ASSUME NEW p \in Pid, Die(p) PROVE TypeOK'
  BY <1>2 DEF Die
<1>3. ASSUME NEW p \in Pid, SendOther(p) PROVE TypeOK'
  <2>1. pending' \in [Pid -> SUBSET Signal]
    BY <1>3 DEF SendOther
  <2>2. others' \in 0..Others
    BY <1>3 DEF SendOther
  <2> QED  BY <1>3, <2>1, <2>2 DEF SendOther
<1>4. ASSUME NEW p \in Pid, NEW s \in Signal, Deliver(p, s) PROVE TypeOK'
  <2>1. pending' \in [Pid -> SUBSET Signal]
    BY <1>4 DEF Deliver
  <2> QED  BY <1>4, <2>1 DEF Deliver
<1>5. ASSUME NEW p \in Pid, Info(p) PROVE TypeOK'
  BY <1>5 DEF Info, Test
<1>6. CASE Grab
  BY <1>6 DEF Grab, Test, SendStop
<1>7. CASE GrabWait
  BY <1>7 DEF GrabWait, Wait
<1>8. CASE Stop
  BY <1>8 DEF Stop, Test, SendStop
<1>9. CASE StopWait
  BY <1>9 DEF StopWait, Wait
<1>10. CASE Access
  BY <1>10 DEF Access
<1>11. CASE Free
  BY <1>11 DEF Free, Test
<1>12. CASE Cont
  BY <1>12 DEF Cont, Test, SendCont
<1>13. CASE TermInit
  BY <1>13 DEF TermInit
<1>14. CASE UNCHANGED vars
  BY <1>14 DEF vars
<1> QED
  BY <1>1, <1>2, <1>3, <1>4, <1>5, <1>6, <1>7, <1>8, <1>9, <1>10, <1>11,
     <1>12, <1>13, <1>14 DEF Next, Kernel, Owner

\* Every step keeps the two views together.
LEMMA TraceStep == TraceInv /\ [Next]_vars => TraceInv'
<1> SUFFICES ASSUME TraceInv, [Next]_vars PROVE TraceInv'
  OBVIOUS
<1>1. TypeOK'
  BY TypeStep DEF TraceInv
<1> SUFFICES (KernelView /\ OwnerView /\ NoLeakedTrace /\ HeldStill)'
  BY <1>1 DEF TraceInv
<1> USE DEF TraceInv, TypeOK, KernelView, OwnerView, NoLeakedTrace, HeldStill,
            kernel, handle, owner
<1>2. ASSUME NEW p \in Pid, Start(p)
      PROVE  (KernelView /\ OwnerView /\ NoLeakedTrace /\ HeldStill)'
  BY <1>2 DEF Start
<1>3. ASSUME NEW p \in Pid, Die(p)
      PROVE  (KernelView /\ OwnerView /\ NoLeakedTrace /\ HeldStill)'
  BY <1>3 DEF Die
<1>4. ASSUME NEW p \in Pid, SendOther(p)
      PROVE  (KernelView /\ OwnerView /\ NoLeakedTrace /\ HeldStill)'
  BY <1>4 DEF SendOther
<1>5. ASSUME NEW p \in Pid, NEW s \in Signal, Deliver(p, s)
      PROVE  (KernelView /\ OwnerView /\ NoLeakedTrace /\ HeldStill)'
  BY <1>5 DEF Deliver
<1>6. ASSUME NEW p \in Pid, Info(p)
      PROVE  (KernelView /\ OwnerView /\ NoLeakedTrace /\ HeldStill)'
  BY <1>6 DEF Info, Test
<1>7. CASE Grab
  BY <1>7 DEF Grab, Test
<1>8. CASE GrabWait
  BY <1>8 DEF GrabWait, Wait
<1>9. CASE Stop
  BY <1>9 DEF Stop, Test
<1>10. CASE StopWait
  BY <1>10 DEF StopWait, Wait
<1>11. CASE Access
  BY <1>11 DEF Access
<1>12. CASE Free
  BY <1>12 DEF Free, Test
<1>13. CASE Cont
  BY <1>13 DEF Cont, Test
<1>14. CASE TermInit
  BY <1>14 DEF TermInit
<1>15. CASE UNCHANGED vars
  BY <1>15 DEF vars
<1> QED
  BY <1>2, <1>3, <1>4, <1>5, <1>6, <1>7, <1>8, <1>9, <1>10, <1>11, <1>12,
     <1>13, <1>14, <1>15 DEF Next, Kernel, Owner

\* The views hold in every reachable state.
LEMMA Traces == Spec => []TraceInv
BY TraceInit, TraceStep, PTL DEF Spec

\* Every variable keeps to its type, and only a filled handle is ever hooked.
THEOREM TypeCorrect == Spec => []TypeOK
<1>1. TraceInv => TypeOK
  BY DEF TraceInv
<1> QED  BY <1>1, Traces, PTL

\* process_info, process_grab, process_free and process_term, in any order and
\* with targets that die at any moment, never leave a process traced that the
\* handle does not say it holds.
THEOREM NothingLeaks == Spec => []NoLeakedTrace
<1>1. TraceInv => NoLeakedTrace
  BY DEF TraceInv
<1> QED  BY <1>1, Traces, PTL

\* The target of a hooked handle stands still until it is let go.
THEOREM TargetIsHeld == Spec => []HeldStill
<1>1. TraceInv => HeldStill
  BY DEF TraceInv
<1> QED  BY <1>1, Traces, PTL

\* The memory is not accessed while the target of the handle lives.
NoAccessAlive == pc = "access" => pid \notin traced \cap alive

\* No access gets as far as a target that is held and alive: process_stop waits
\* for a report, and a target that is trapped has none to give before it dies,
\* whatever signals are sent to it.  What is read or written is a process that
\* is gone or a stranger that got its pid.
THEOREM HeldIsNeverAccessed == Spec => []NoAccessAlive
<1>1. TraceInv => NoAccessAlive
  BY DEF TraceInv, OwnerView, NoAccessAlive
<1> QED  BY <1>1, Traces, PTL
-----------------------------------------------------------------------------
\* p is stopped, or is about to be.
Disturbed(p) == p \in halted \/ "STOP" \in pending[p]

\* Where every stop comes from: the process of the handle only, while it is
\* being attached, or since process_stop was called for it; and a target that
\* is still traced can have been stopped only by a call that is not over.
StopView ==
  /\ \A p \in Pid : pending[p] \subseteq {"STOP"}
  /\ \A p \in Pid : Disturbed(p) =>
       /\ p = pid /\ p \in alive
       /\ \/ pc = "grab" /\ p \notin trap
          \/ hooked /\ (paused \/ pc = "stop")
  /\ pc = "grab" => halted = {}
  /\ paused => hooked /\ pid \notin traced \cap alive
  /\ pc \in {"access", "free"} => paused
  /\ pc = "stop" => hooked
  /\ pc = "init" => \A p \in Pid : ~Disturbed(p)

StopInv == TraceInv /\ (others = Others => StopView)

\* Before the first call nothing is stopped.
LEMMA StopInit == Init => StopInv
<1> SUFFICES ASSUME Init PROVE StopInv
  OBVIOUS
<1>1. halted = {} /\ pc = "idle" /\ paused = FALSE /\ hooked = FALSE
      /\ \A p \in Pid : pending[p] = {}
  BY DEF Init
<1>2. StopView
  BY <1>1 DEF StopView, Disturbed
<1> QED  BY <1>2, TraceInit DEF StopInv

\* Every step keeps account of the stops.
LEMMA StopStep == StopInv /\ [Next]_vars => StopInv'
<1> SUFFICES ASSUME StopInv, [Next]_vars PROVE StopInv'
  OBVIOUS
<1>1. TraceInv /\ TraceInv'
  BY TraceStep DEF StopInv
<1> SUFFICES ASSUME others' = Others PROVE StopView'
  BY <1>1 DEF StopInv
<1>2. others = Others /\ others \in 0..Others
  <2>1. others' = others \/ others' = others - 1
    BY DEF Next, Kernel, Owner, Start, Die, SendOther, Deliver, Info, Grab,
           GrabWait, Stop, StopWait, Access, Free, Cont, TermInit, kernel, vars
  <2> QED  BY <1>1, <2>1 DEF TraceInv, TypeOK
<1>b. StopView
  BY <1>2 DEF StopInv
<1> USE <1>1, <1>2, <1>b
        DEF TraceInv, TypeOK, KernelView, OwnerView, NoLeakedTrace, HeldStill,
            StopView, Disturbed, Signal, kernel, handle, owner
<1>3. ASSUME NEW p \in Pid, Start(p) PROVE StopView'
  BY <1>3 DEF Start
<1>4. ASSUME NEW p \in Pid, Die(p) PROVE StopView'
  BY <1>4 DEF Die
<1>5. ASSUME NEW p \in Pid, SendOther(p) PROVE StopView'
  BY <1>5 DEF SendOther
<1>6. ASSUME NEW p \in Pid, NEW s \in Signal, Deliver(p, s) PROVE StopView'
  BY <1>6 DEF Deliver
<1>7. ASSUME NEW p \in Pid, Info(p) PROVE StopView'
  BY <1>7 DEF Info, Test
<1>8. CASE Grab
  BY <1>8 DEF Grab, Test, SendStop
<1>9. CASE GrabWait
  BY <1>9 DEF GrabWait, Wait
<1>10. CASE Stop
  BY <1>10 DEF Stop, Test, SendStop
<1>11. CASE StopWait
  BY <1>11 DEF StopWait, Wait
<1>12. CASE Access
  BY <1>12 DEF Access
<1>13. CASE Free
  BY <1>13 DEF Free, Test
<1>14. CASE Cont
  BY <1>14 DEF Cont, Test, SendCont
<1>15. CASE TermInit
  BY <1>15 DEF TermInit
<1>16. CASE UNCHANGED vars
  BY <1>16 DEF vars
<1> QED
  BY <1>3, <1>4, <1>5, <1>6, <1>7, <1>8, <1>9, <1>10, <1>11, <1>12, <1>13,
     <1>14, <1>15, <1>16 DEF Next, Kernel, Owner

\* As long as nobody but gasp sends signals to a process, a handle that is not
\* hooked leaves none stopped, nor about to stop, whichever process has the pid
\* by then.
THEOREM NothingStaysStopped == Spec => []LeftRunning
<1>1. StopInv => LeftRunning
  <2> SUFFICES ASSUME StopInv, others = Others, pc = "idle", ~hooked
               PROVE  halted = {} /\ \A p \in Pid : "STOP" \notin pending[p]
    BY DEF LeftRunning, Undisturbed
  <2>1. \A p \in Pid : ~Disturbed(p)
    BY DEF StopInv, StopView
  <2>2. halted \subseteq Pid
    BY DEF StopInv, TraceInv, TypeOK
  <2> QED  BY <2>1, <2>2 DEF Disturbed
<1> QED  BY <1>1, StopInit, StopStep, PTL DEF Spec
=============================================================================
