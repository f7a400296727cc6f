------------------------- MODULE ProcessWatchProofs -------------------------
(***************************************************************************)
(* What a handle says of its target, for any number of processes and of    *)
(* watchers.                                                               *)
(***************************************************************************)
EXTENDS ProcessWatch, TLAPS

\* The owner has filled a clean handle and nobody else works on it yet.
FreshHandle ==
  clean /\ owner \in {"path", "read", "create"} =>
    ~exited /\ \A w \in Watcher : ~Running(w)

\* A clean handle has one watcher at most.
OneWatcher ==
  clean => \A v, w \in Watcher : Running(v) /\ Running(w) => v = w

DeathSeen == path # NONE /\ ~alive[path] => died

\* A watcher that is about to say so has seen the target of this handle gone.
GoneIsDied ==
  \A w \in Watcher : clean /\ path # NONE /\ watcher[w] = "gone" => died

\* The flag goes down after exited went up.
ClearAfterExit ==
  \A w \in Watcher :
    clean /\ owner = "idle" /\ path # NONE /\ watcher[w] = "clear" => exited

IInv ==
  /\ TypeOK
  /\ FreshHandle
  /\ OneWatcher
  /\ DeathSeen
  /\ GoneIsDied
  /\ ClearAfterExit
  /\ NoFalseExit
  /\ WatchKept

LEMMA InitIInv == Init => IInv
  BY DEF Init, IInv, TypeOK, Filling, FreshHandle, OneWatcher, DeathSeen,
         GoneIsDied, ClearAfterExit, NoFalseExit, WatchKept, Running

\* One step of one process leaves the invariant true.
LEMMA SystemStep ==
  ASSUME IInv, NEW p \in Pid, Exit(p) \/ Fork(p)
  PROVE  IInv'
<1>1. CASE Exit(p)
  BY <1>1, NoneAssumption
  DEF Exit, IInv, TypeOK, Filling, handle, FreshHandle, OneWatcher, DeathSeen,
      GoneIsDied, ClearAfterExit, NoFalseExit, WatchKept, Running
<1>2. CASE Fork(p)
  BY <1>2, NoneAssumption
  DEF Fork, IInv, TypeOK, Filling, handle, history, FreshHandle, OneWatcher,
      DeathSeen, GoneIsDied, ClearAfterExit, NoFalseExit, WatchKept, Running
<1> QED BY <1>1, <1>2

\* One step of process_info or process_term leaves the invariant true.
LEMMA OwnerStep == IInv /\ Owner => IInv'
<1> SUFFICES ASSUME IInv, Owner PROVE IInv'
  OBVIOUS
<1> USE NoneAssumption DEF IInv, TypeOK, Filling, handle, history, FreshHandle,
      OneWatcher, DeathSeen, GoneIsDied, ClearAfterExit, NoFalseExit, WatchKept,
      Running
<1>1. CASE \E p \in Pid : InfoCall(p)
  BY <1>1 DEF InfoCall
<1>2. CASE InfoReset
  BY <1>2 DEF InfoReset
<1>3. CASE InfoFill
  BY <1>3 DEF InfoFill
<1>4. CASE InfoPath
  BY <1>4 DEF InfoPath
<1>5. CASE InfoRead
  BY <1>5 DEF InfoRead
<1>6. CASE InfoCreate
  <2>1. CASE UNCHANGED watcher
    BY <1>6, <2>1 DEF InfoCreate
  <2>2. CASE \E w \in Watcher : /\ ~Running(w)
                                /\ watcher' = [watcher EXCEPT ![w] = "start"]
    BY <1>6, <2>2 DEF InfoCreate
  <2> QED BY <1>6, <2>1, <2>2 DEF InfoCreate
<1>7. CASE TermFlag
  BY <1>7 DEF TermFlag
<1>8. CASE TermInit
  BY <1>8 DEF TermInit
<1> QED BY <1>1, <1>2, <1>3, <1>4, <1>5, <1>6, <1>7, <1>8 DEF Owner

\* One step of a watcher leaves the invariant true.
LEMMA WatchStep ==
  ASSUME IInv, NEW u \in Watcher, Watch(u)
  PROVE  IInv'
<1> USE NoneAssumption DEF IInv, TypeOK, Filling, handle, history, FreshHandle,
      OneWatcher, DeathSeen, GoneIsDied, ClearAfterExit, NoFalseExit, WatchKept,
      Running
<1>1. CASE Start(u)
  BY <1>1 DEF Start
<1>2. CASE Test(u)
  BY <1>2 DEF Test
<1>3. CASE Look(u)
  BY <1>3 DEF Look
<1>4. CASE SayExited(u)
  BY <1>4 DEF SayExited
<1>5. CASE ClearActive(u)
  BY <1>5 DEF ClearActive
<1> QED BY <1>1, <1>2, <1>3, <1>4, <1>5 DEF Watch

LEMMA Invariance == Spec => []IInv
<1>1. IInv /\ UNCHANGED vars => IInv'
  BY DEF vars, IInv, TypeOK, Filling, FreshHandle, OneWatcher, DeathSeen,
         GoneIsDied, ClearAfterExit, NoFalseExit, WatchKept, Running
<1>2. IInv /\ [Next]_vars => IInv'
  BY <1>1, SystemStep, OwnerStep, WatchStep DEF Next, System
<1> QED BY InitIInv, <1>2, PTL DEF Spec

\* process_t keeps its types, whatever runs at the same time.
THEOREM TypeCorrect == Spec => []TypeOK
<1>1. IInv => TypeOK
  BY DEF IInv
<1> QED BY <1>1, Invariance, PTL

\* However many watchers and processes there are, exited is true only of a
\* target that is gone, for a handle that was filled while no watcher ran.
THEOREM ExitedIsTrue == Spec => []NoFalseExit
<1>1. IInv => NoFalseExit
  BY DEF IInv
<1> QED BY <1>1, Invariance, PTL

\* Such a handle is watched until its target is gone or the owner clears it.
THEOREM WatchIsKept == Spec => []WatchKept
<1>1. IInv => WatchKept
  BY DEF IInv
<1> QED BY <1>1, Invariance, PTL
-----------------------------------------------------------------------------
(***************************************************************************)
(* The watchers get on.  How many steps one of them has before it, and     *)
(* which ones may still raise the flag and so keep the others going.       *)
(***************************************************************************)
Starting == {w \in Watcher : watcher[w] = "start"}

Left(w) ==
  CASE watcher[w] = "start" -> 6
    [] watcher[w] = "test" -> IF active THEN 5 ELSE 1
    [] watcher[w] = "look" -> 4
    [] watcher[w] = "gone" -> 3
    [] watcher[w] = "clear" -> 2
    [] OTHER -> 0

\* One watcher less can raise the flag, or w has less before it and no other
\* watcher more.
WindsDown(w) ==
  \/ w \in Starting /\ Starting' = Starting \ {w}
  \/ /\ Starting' = Starting
     /\ Left(w)' < Left(w)
     /\ \A v \in Watcher : Left(v)' <= Left(v)

\* A clean handle that is left alone has yet to learn that its target is gone.
Unnoticed ==
  clean /\ owner = "idle" /\ path \in Pid /\ ~alive[path] /\ ~exited

\* The handle says so, or its only watcher is a step nearer to it and runs on.
ComesToKnow(w) ==
  /\ \A v \in Watcher \ {w} : ~Running(v)
  /\ exited' \/ (Left(w)' < Left(w) /\ Running(w)')

\* The watchers of a handle that was cleared come to an end, however many there
\* are and in whatever order they go on: that one lowers the flag a second time,
\* or reports an exit again, keeps no other from ending.
THEOREM WatchersWindDown ==
  Spec => [][\A w \in Watcher : path = NONE /\ Watch(w) => WindsDown(w)]_vars
<1>1. ASSUME TypeOK, NEW w \in Watcher, path = NONE, Watch(w)
      PROVE  WindsDown(w)
  <2> USE DEF TypeOK, WindsDown, Starting, Left
  <2>1. CASE Start(w)
    BY <1>1, <2>1 DEF Start
  <2>2. CASE Test(w)
    BY <1>1, <2>2 DEF Test, handle
  <2>3. CASE Look(w)
    BY <1>1, <2>3, NoneAssumption DEF Look, handle
  <2>4. CASE SayExited(w)
    BY <1>1, <2>4 DEF SayExited
  <2>5. CASE ClearActive(w)
    BY <1>1, <2>5 DEF ClearActive
  <2> QED  BY <1>1, <2>1, <2>2, <2>3, <2>4, <2>5 DEF Watch
<1>2. TypeOK /\ [Next]_vars
      => [\A w \in Watcher : path = NONE /\ Watch(w) => WindsDown(w)]_vars
  BY <1>1
<1> QED  BY <1>2, TypeCorrect, PTL DEF Spec

\* The exit of the target of a clean handle is on its way to the owner: the
\* watcher has the handle for itself, does not end before it has reported, and
\* gets nearer to that by each of its steps.
THEOREM ExitComesNearer ==
  Spec => [][\A w \in Watcher : Unnoticed /\ Watch(w) => ComesToKnow(w)]_vars
<1>1. ASSUME IInv, NEW w \in Watcher, Unnoticed, Watch(w)
      PROVE  ComesToKnow(w)
  <2> USE DEF Unnoticed, ComesToKnow, Running, Left
  <2>1. watcher \in [Watcher -> {"start", "test", "look", "gone", "clear", "ended"}]
        /\ active \in BOOLEAN
    BY <1>1 DEF IInv, TypeOK
  <2>2. Running(w) /\ \A v \in Watcher \ {w} : ~Running(v)
    BY <1>1 DEF IInv, OneWatcher, Watch, Start, Test, Look, SayExited, ClearActive
  <2>3. path # NONE
    BY <1>1, NoneAssumption
  <2>4. (watcher[w] # "start" => active) /\ watcher[w] # "clear"
    BY <1>1, <2>2, <2>3 DEF IInv, WatchKept, ClearAfterExit
  <2>5. CASE Start(w)
    BY <2>1, <2>2, <2>5 DEF Start
  <2>6. CASE Test(w)
    BY <2>1, <2>2, <2>4, <2>6 DEF Test, handle
  <2>7. CASE Look(w)
    BY <1>1, <2>1, <2>2, <2>7 DEF Look, handle
  <2>8. CASE SayExited(w)
    BY <2>2, <2>8 DEF SayExited
  <2>9. CASE ClearActive(w)
    BY <2>4, <2>9 DEF ClearActive
  <2> QED  BY <1>1, <2>5, <2>6, <2>7, <2>8, <2>9 DEF Watch
<1>2. IInv /\ [Next]_vars
      => [\A w \in Watcher : Unnoticed /\ Watch(w) => ComesToKnow(w)]_vars
  BY <1>1
<1> QED  BY <1>2, Invariance, PTL DEF Spec
=============================================================================
