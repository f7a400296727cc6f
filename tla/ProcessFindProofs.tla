------------------------- MODULE ProcessFindProofs -------------------------
(***************************************************************************)
(* Proofs about ProcessFind: its type invariant, that the result holds no  *)
(* process twice, that it is sound, and that it is complete.  The search   *)
(* keeps the order of /proc: the pids it has listed ascend, and every      *)
(* match is older than all that is still to be looked at.                  *)
(***************************************************************************)
EXTENDS ProcessFind, FiniteSetTheorems, TLAPS

\* The list ascends, as far as it has been read.
ListAscends ==
  /\ \A i, j \in 1..Len(pids) : i < j => pids[i] < pids[j]
  /\ pc = "readdir" => \A i \in 1..Len(pids) : pids[i] < cursor

\* The place in the list fits what the search is about to do.
PlaceFits ==
  /\ pc = "readdir" => found = <<>>
  /\ pc = "climb" => focus <= Len(pids)
  /\ pc \in {"again", "add"} => focus > 1

\* The matches come before what is still to be looked at.
FoundBefore ==
  /\ \A i \in 1..Len(found), j \in focus..Len(pids) : found[i] < pids[j]
  /\ pc \in {"again", "add"} =>
       \A i \in 1..Len(found) : found[i] < pids[focus - 1]

IInv == TypeOK /\ ListAscends /\ PlaceFits /\ FoundBefore /\ FoundOnce

USE LastAssumption, UnderAssumption, BoundAssumption DEF Pid

LEMMA UnderIsAlive ==
  \* Under picks from the live processes.
  ASSUME NEW live, NEW pp PROVE Under(live, pp) \subseteq live
BY DEF Under

\* The search starts in order.
LEMMA InitHolds == Init => IInv
<1> SUFFICES ASSUME Init PROVE IInv
  OBVIOUS
<1>1. SystemTypeOK
  <2>1. alive \subseteq Pid /\ named \subseteq Pid /\ ppid \in [Pid -> 0..Last]
    BY DEF Init
  <2>2. steady \subseteq seen /\ seen \subseteq Pid
    BY <2>1, UnderIsAlive DEF Init
  <2>3. exits \in 0..Exits /\ forks \in 0..Forks
    BY DEF Init
  <2>4. gone = {} /\ reused = FALSE
    BY DEF Init
  <2> QED  BY <2>1, <2>2, <2>3, <2>4 DEF SystemTypeOK
<1>2. pids = <<>> /\ found = <<>> /\ pc = "readdir"
  BY DEF Init
<1>3. SearchTypeOK
  BY <1>2 DEF Init, SearchTypeOK
<1>4. ListAscends /\ PlaceFits /\ FoundBefore /\ FoundOnce
  BY <1>2 DEF ListAscends, PlaceFits, FoundBefore, FoundOnce
<1> QED  BY <1>1, <1>3, <1>4 DEF IInv, TypeOK

\* What the system does touches nothing of the search.
LEMMA SystemKeeps == IInv /\ System => IInv'
<1> SUFFICES ASSUME IInv, System PROVE IInv'
  OBVIOUS
<1>1. SystemTypeOK'
  <2> SUFFICES ASSUME SystemTypeOK PROVE SystemTypeOK'
    BY DEF IInv, TypeOK
  <2>1. ASSUME NEW x \in Pid, Exit(x) PROVE SystemTypeOK'
    <3>1. ppid' \in [Pid -> 0..Last]
      BY <2>1 DEF Exit, SystemTypeOK
    <3>2. alive' \subseteq Pid /\ gone' \subseteq Pid
      BY <2>1 DEF Exit, SystemTypeOK
    <3>3. steady' \subseteq seen' /\ seen' \subseteq Pid
      BY <2>1, <3>2, UnderIsAlive DEF Exit, SystemTypeOK
    <3>4. exits' \in 0..Exits
      BY <2>1 DEF Exit, SystemTypeOK
    <3> QED  BY <2>1, <3>1, <3>2, <3>3, <3>4 DEF Exit, SystemTypeOK
  <2>2. ASSUME NEW p \in Pid, NEW q \in Pid, Fork(p, q) PROVE SystemTypeOK'
    <3>1. ppid' \in [Pid -> 0..Last]
      BY <2>2 DEF Fork, SystemTypeOK
    <3>2. alive' \subseteq Pid /\ named' \subseteq Pid
      BY <2>2 DEF Fork, SystemTypeOK
    <3>3. steady' \subseteq seen' /\ seen' \subseteq Pid
      BY <2>2, <3>2, UnderIsAlive DEF Fork, SystemTypeOK
    <3>4. forks' \in 0..Forks /\ reused' \in BOOLEAN
      BY <2>2 DEF Fork, SystemTypeOK
    <3> QED  BY <2>2, <3>1, <3>2, <3>3, <3>4 DEF Fork, SystemTypeOK
  <2> QED  BY <2>1, <2>2 DEF System
<1>2. UNCHANGED <<pc, pids, cursor, focus, parent, found, allocErrors, infoErrors>>
  BY DEF System
<1>3. SearchTypeOK'
  BY <1>2 DEF IInv, TypeOK, SearchTypeOK
<1>4. (ListAscends /\ PlaceFits /\ FoundBefore /\ FoundOnce)'
  BY <1>2 DEF IInv, ListAscends, PlaceFits, FoundBefore, FoundOnce
<1> QED  BY <1>1, <1>3, <1>4 DEF IInv, TypeOK

\* A step of the search keeps the order.
LEMMA SearchKeeps == IInv /\ Search => IInv'
<1> SUFFICES ASSUME IInv, Search PROVE IInv'
  OBVIOUS
<1>1. SystemTypeOK /\ SystemTypeOK'
  BY DEF IInv, TypeOK, SystemTypeOK, Search, system,
         Readdir, ReaddirEnds, NextPid, Climb, Again, Add
<1>2. SearchTypeOK /\ ListAscends /\ PlaceFits /\ FoundBefore /\ FoundOnce
  BY DEF IInv, TypeOK
<1> DEFINE Order == SearchTypeOK /\ ListAscends /\ PlaceFits
                    /\ FoundBefore /\ FoundOnce
<1> SUFFICES Order'
  BY <1>1 DEF IInv, TypeOK
<1>3. CASE Readdir
  <2>1. UNCHANGED <<pc, focus, parent, found, allocErrors, infoErrors>> /\ pc = "readdir"
        /\ found = <<>> /\ cursor \in Nat /\ cursor' = cursor + 1
    BY <1>2, <1>3 DEF Readdir, PlaceFits, SearchTypeOK
  <2>2. CASE cursor \notin alive
    <3>1. pids' = pids
      BY <1>3, <2>2 DEF Readdir
    <3>2. SearchTypeOK'
      BY <1>2, <1>3, <2>1, <3>1 DEF Readdir, SearchTypeOK
    <3>3. ListAscends'
      <4>1. \A i \in 1..Len(pids) : pids[i] < cursor /\ pids[i] \in Nat
        BY <1>2, <2>1 DEF ListAscends, SearchTypeOK
      <4>2. \A i \in 1..Len(pids) : pids[i] < cursor'
        BY <4>1, <2>1
      <4> QED  BY <1>2, <2>1, <3>1, <4>2 DEF ListAscends
    <3> QED  BY <1>2, <2>1, <3>1, <3>2, <3>3 DEF PlaceFits, FoundBefore, FoundOnce
  <2>3. CASE cursor \in alive
    <3>1. cursor \in Pid /\ pids' = Append(pids, cursor) /\ pids \in Seq(Pid)
      BY <1>1, <1>2, <1>3, <2>3 DEF Readdir, SystemTypeOK, SearchTypeOK
    <3>2. /\ Len(pids') = Len(pids) + 1
          /\ Len(pids) \in Nat
          /\ pids' \in Seq(Pid)
          /\ \A i \in 1..Len(pids) : pids'[i] = pids[i]
          /\ pids'[Len(pids) + 1] = cursor
      BY <3>1
    <3>3. SearchTypeOK'
      BY <1>2, <1>3, <2>1, <3>2 DEF Readdir, SearchTypeOK
    <3>4. ListAscends'
      <4>1. \A i \in 1..Len(pids) : pids[i] < cursor /\ pids[i] \in Nat
        BY <1>2, <2>1 DEF ListAscends, SearchTypeOK
      <4>2. \A i \in 1..Len(pids') : pids'[i] < cursor'
        BY <2>1, <3>2, <4>1
      <4>3. ASSUME NEW i \in 1..Len(pids'), NEW j \in 1..Len(pids'), i < j
            PROVE  pids'[i] < pids'[j]
        <5>1. i \in 1..Len(pids) /\ pids'[i] = pids[i]
          BY <3>2, <4>3
        <5>2. CASE j = Len(pids) + 1
          BY <3>2, <4>1, <5>1, <5>2
        <5>3. CASE j \in 1..Len(pids)
          BY <1>2, <3>2, <4>3, <5>1, <5>3 DEF ListAscends
        <5> QED  BY <3>2, <5>2, <5>3
      <4> QED  BY <4>2, <4>3 DEF ListAscends
    <3> QED  BY <1>2, <2>1, <3>3, <3>4 DEF PlaceFits, FoundBefore, FoundOnce
  <2> QED  BY <2>2, <2>3
<1>4. CASE ReaddirEnds
  <2>1. UNCHANGED <<pids, cursor, focus, parent, found>>
        /\ pc' \in {"next", "done"} /\ found = <<>>
    BY <1>2, <1>4 DEF ReaddirEnds, PlaceFits
  <2>2. SearchTypeOK'
    BY <1>2, <1>4, <2>1 DEF ReaddirEnds, SearchTypeOK
  <2> QED  BY <1>2, <2>1, <2>2 DEF ListAscends, PlaceFits, FoundBefore, FoundOnce
<1>5. CASE NextPid
  <2>1. UNCHANGED <<pids, cursor, focus, found, allocErrors, infoErrors>>
        /\ pc' \in {"climb", "done"} /\ (pc' = "climb" => focus <= Len(pids))
    BY <1>5 DEF NextPid
  <2>2. SearchTypeOK'
    BY <1>2, <1>5, <2>1 DEF NextPid, SearchTypeOK
  <2> QED  BY <1>2, <2>1, <2>2 DEF ListAscends, PlaceFits, FoundBefore, FoundOnce
<1>6. CASE Climb
  <2>1. UNCHANGED <<pids, cursor, found, allocErrors>> /\ focus \in Nat \ {0}
        /\ Len(pids) \in Nat /\ focus <= Len(pids)
    BY <1>2, <1>6 DEF Climb, PlaceFits, SearchTypeOK
  <2>2. parent' \in 0..Last
    <3>1. parent' = 0 \/ \E p \in alive : parent' = ppid[p]
      BY <1>6 DEF Climb, NoParent, Parent
    <3>2. alive \subseteq Pid /\ ppid \in [Pid -> 0..Last]
      BY <1>1 DEF SystemTypeOK
    <3> QED  BY <3>1, <3>2
  <2>3. \/ pc' \in {"climb", "done"} /\ focus' = focus
        \/ pc' \in {"again", "next"} /\ focus' = focus + 1
    BY <1>6 DEF Climb, NoParent
  <2>4. SearchTypeOK'
    <3>1. infoErrors' \in 0..InfoErrors
      BY <1>2, <1>6 DEF Climb, NoParent, Parent, SearchTypeOK
    <3> QED  BY <1>2, <2>1, <2>2, <2>3, <3>1 DEF SearchTypeOK
  <2>5. PlaceFits'
    BY <2>1, <2>3 DEF PlaceFits
  <2>6. FoundBefore'
    <3>1. \A i \in 1..Len(found) : found[i] < pids[focus]
      BY <1>2, <2>1 DEF FoundBefore
    <3> QED  BY <1>2, <2>1, <2>3, <3>1 DEF FoundBefore
  <2> QED  BY <1>2, <2>1, <2>3, <2>4, <2>5, <2>6 DEF ListAscends, FoundOnce
<1>7. CASE Again
  <2>1. UNCHANGED <<pids, cursor, focus, found, allocErrors>>
        /\ pc = "again" /\ pc' \in {"add", "next", "done"}
    BY <1>7 DEF Again
  <2>2. parent' \in 0..Last
    <3>1. parent' = 0 \/ \E p \in alive : parent' = ppid[p]
      BY <1>7 DEF Again
    <3>2. alive \subseteq Pid /\ ppid \in [Pid -> 0..Last]
      BY <1>1 DEF SystemTypeOK
    <3> QED  BY <3>1, <3>2
  <2>3. SearchTypeOK'
    <3>1. infoErrors' \in 0..InfoErrors
      BY <1>2, <1>7 DEF Again, SearchTypeOK
    <3> QED  BY <1>2, <2>1, <2>2, <3>1 DEF SearchTypeOK
  <2> QED  BY <1>2, <2>1, <2>3 DEF ListAscends, PlaceFits, FoundBefore, FoundOnce
<1>8. CASE Add
  <2>1. UNCHANGED <<pids, cursor, focus, parent>> /\ pc = "add"
        /\ pc' \in {"next", "done"}
    BY <1>8 DEF Add
  <2>2. CASE found' = found
    <3>1. SearchTypeOK'
      BY <1>2, <1>8, <2>1, <2>2 DEF Add, SearchTypeOK
    <3> QED  BY <1>2, <2>1, <2>2, <3>1
                DEF ListAscends, PlaceFits, FoundBefore, FoundOnce
  <2>3. CASE found' = Append(found, pids[focus - 1])
    <3>1. focus \in Nat /\ focus - 1 \in 1..Len(pids) /\ Len(pids) \in Nat
          /\ pids \in [1..Len(pids) -> Pid]
      BY <1>2, <2>1 DEF PlaceFits, SearchTypeOK
    <3>2. pids[focus - 1] \in Pid /\ found \in Seq(Pid)
      BY <1>2, <3>1 DEF SearchTypeOK
    <3>3. /\ Len(found') = Len(found) + 1
          /\ Len(found) \in Nat
          /\ found' \in Seq(Pid)
          /\ \A i \in 1..Len(found) : found'[i] = found[i]
          /\ found'[Len(found) + 1] = pids[focus - 1]
      BY <2>3, <3>2
    <3>4. SearchTypeOK'
      BY <1>2, <1>8, <2>1, <3>3 DEF Add, SearchTypeOK
    <3>5. FoundOnce'
      <4>1. ASSUME NEW i \in 1..Len(found'), NEW j \in 1..Len(found'), i < j
            PROVE  found'[i] < found'[j]
        <5>1. i \in 1..Len(found) /\ found'[i] = found[i]
          BY <3>3, <4>1
        <5>2. CASE j = Len(found) + 1
          BY <1>2, <2>1, <3>3, <5>1, <5>2 DEF FoundBefore
        <5>3. CASE j \in 1..Len(found)
          BY <1>2, <3>3, <4>1, <5>1, <5>3 DEF FoundOnce
        <5> QED  BY <3>3, <5>2, <5>3
      <4> QED  BY <4>1 DEF FoundOnce
    <3>6. FoundBefore'
      <4>1. ASSUME NEW i \in 1..Len(found'), NEW j \in focus..Len(pids)
            PROVE  found'[i] < pids[j]
        <5>1. CASE i = Len(found) + 1
          <6>1. focus - 1 < j /\ j \in 1..Len(pids)
            BY <3>1
          <6> QED  BY <1>2, <3>1, <3>3, <5>1, <6>1 DEF ListAscends
        <5>2. CASE i \in 1..Len(found)
          BY <1>2, <3>3, <5>2 DEF FoundBefore
        <5> QED  BY <3>3, <5>1, <5>2
      <4> QED  BY <2>1, <4>1 DEF FoundBefore
    <3>7. ListAscends' /\ PlaceFits'
      BY <1>2, <2>1 DEF ListAscends, PlaceFits
    <3> QED  BY <3>4, <3>5, <3>6, <3>7
  <2> QED  BY <1>8, <2>2, <2>3 DEF Add
<1> QED  BY <1>3, <1>4, <1>5, <1>6, <1>7, <1>8 DEF Search

\* The order is kept by every step.
LEMMA Inductive == IInv /\ [Next]_vars => IInv'
<1> SUFFICES ASSUME IInv, [Next]_vars PROVE IInv'
  OBVIOUS
<1>1. CASE UNCHANGED vars
  BY <1>1 DEF vars, IInv, TypeOK, SystemTypeOK, SearchTypeOK, ListAscends,
              PlaceFits, FoundBefore, FoundOnce
<1> QED  BY <1>1, SystemKeeps, SearchKeeps DEF Next, Done

\* The order holds in every reachable state.
THEOREM InOrder == Spec => []IInv
BY InitHolds, Inductive, PTL DEF Spec

\* Every variable keeps to its type, in particular the place in the list of
\* pids, whatever starts and exits during the search.
THEOREM TypeCorrect == Spec => []TypeOK
<1>1. IInv => TypeOK
  BY DEF IInv
<1> QED  BY <1>1, InOrder, PTL

\* process_find never returns a process twice, for every number of processes,
\* however many start, exit and change parents while it searches.
THEOREM NothingTwice == Spec => []FoundOnce
<1>1. IInv => FoundOnce
  BY DEF IInv
<1> QED  BY <1>1, InOrder, PTL
-----------------------------------------------------------------------------
(***************************************************************************)
(* Lines of ancestors, and what an exit and a start do to them.            *)
(***************************************************************************)

\* A set of naturals has a least element: of the intervals 1..n there is one
\* that no other is a part of.
LEMMA Least ==
  ASSUME NEW T, T \subseteq Nat, T # {}
  PROVE  \E n \in T : \A m \in T : n <= m
<1> DEFINE I == {1..n : n \in T}
           R == StrictSubsetOrdering(Nat)
<1>1. IsWellFoundedOn(R, FiniteSubsetsOf(Nat))
  BY FS_StrictSubsetOrderingWellFounded
<1>2. I \subseteq FiniteSubsetsOf(Nat) /\ I # {}
  <2>1. ASSUME NEW n \in T PROVE 1..n \in FiniteSubsetsOf(Nat)
    <3>1. n \in Int /\ 1 \in Int /\ 1..n \in SUBSET Nat
      OBVIOUS
    <3>2. IsFiniteSet(1..n)
      BY <3>1, FS_Interval
    <3> QED  BY <3>1, <3>2 DEF FiniteSubsetsOf
  <2> QED  BY <2>1
<1>3. \E x \in I : \A y \in I : ~ (<<y, x>> \in R)
  <2> HIDE DEF I, R
  <2> QED  BY <1>1, <1>2, WFMin
<1>4. PICK n \in T : \A m \in T : <<1..m, 1..n>> \notin R
  BY <1>3
<1>5. \A m \in T : n <= m
  <2> SUFFICES ASSUME NEW m \in T, m < n PROVE FALSE
    OBVIOUS
  <2>1. (1..m) \subseteq (1..n) /\ n \in 1..n /\ n \notin 1..m
    OBVIOUS
  <2>2. <<1..m, 1..n>> \in R
    BY <2>1 DEF StrictSubsetOrdering
  <2> QED  BY <1>4, <2>2
<1> QED  BY <1>5

\* p has a process with the parent underId in its line.
Above(pp, p) == \E q \in Line(pp, p) \ {0} : pp[q] = underId

\* A line holds its process, and the parents of all it holds.
LEMMA LineClosed ==
  ASSUME NEW pp \in [Pid -> 0..Last], NEW p \in 0..Last
  PROVE  p \in Line(pp, p) /\ Closed(pp, Line(pp, p)) /\ Line(pp, p) \subseteq 0..Last
<1>1. ASSUME NEW q \in Line(pp, p) \ {0} PROVE pp[q] \in Line(pp, p)
  <2>1. pp[q] \in 0..Last
    BY DEF Line
  <2> QED  BY <2>1 DEF Line, Closed
<1> QED  BY <1>1 DEF Line, Closed

\* A closed set with p in it has the whole line of p in it.
LEMMA LineLeast ==
  ASSUME NEW pp, NEW p, NEW L, L \subseteq 0..Last, p \in L, Closed(pp, L)
  PROVE  Line(pp, p) \subseteq L
BY DEF Line

\* The lines of ancestors are parts of the line.
LEMMA LineOfLine ==
  ASSUME NEW pp \in [Pid -> 0..Last], NEW p \in 0..Last, NEW q \in Line(pp, p)
  PROVE  Line(pp, q) \subseteq Line(pp, p)
BY LineClosed, LineLeast

\* A line is its process and the line of the parent.
LEMMA LineStep ==
  ASSUME NEW pp \in [Pid -> 0..Last], NEW p \in Pid
  PROVE  Line(pp, p) \subseteq {p} \cup Line(pp, pp[p])
<1>1. pp[p] \in 0..Last
  OBVIOUS
<1>2. pp[p] \in Line(pp, pp[p]) /\ Closed(pp, Line(pp, pp[p]))
      /\ Line(pp, pp[p]) \subseteq 0..Last
  BY <1>1, LineClosed
<1>3. Closed(pp, {p} \cup Line(pp, pp[p]))
  BY <1>2 DEF Closed
<1> QED  BY <1>2, <1>3, LineLeast

\* Nothing is above the kernel.
LEMMA LineOfKernel ==
  ASSUME NEW pp PROVE Line(pp, 0) \subseteq {0}
<1>1. Closed(pp, {0})
  BY DEF Closed
<1> QED  BY <1>1, LineLeast

\* Where a line ends there is a process without a parent.
LEMMA LineEnds ==
  ASSUME NEW pp \in [Pid -> 0..Last], NEW p \in Pid, 0 \in Line(pp, p)
  PROVE  \E q \in Line(pp, p) \ {0} : pp[q] = 0
<1> SUFFICES ASSUME \A q \in Line(pp, p) \ {0} : pp[q] # 0 PROVE FALSE
  OBVIOUS
<1>1. p \in Line(pp, p) \ {0} /\ Line(pp, p) \subseteq 0..Last
  BY LineClosed
<1>2. Closed(pp, Line(pp, p) \ {0})
  BY LineClosed DEF Closed
<1> QED  BY <1>1, <1>2, LineLeast

\* What is true of the processes there are: the first is always there and has
\* no parent, a parent is there, and every line ends.
Tree ==
  /\ 1 \in alive /\ ppid[1] = 0
  /\ \A p \in Pid : ppid[p] \in alive \cup {0}
  /\ \A p \in alive : 0 \in Line(ppid, p)

\* All that is in the line of a process is there.
LEMMA LineAlive ==
  ASSUME SystemTypeOK, Tree, NEW p \in alive
  PROVE  Line(ppid, p) \subseteq alive \cup {0}
<1>1. Closed(ppid, alive \cup {0}) /\ alive \cup {0} \subseteq 0..Last
  BY DEF Closed, Tree, SystemTypeOK
<1> QED  BY <1>1, LineLeast

\* At first a process is younger than its parent, so that a line that did not
\* end would have no oldest process.
LEMMA TreeInit == Init => Tree
<1> SUFFICES ASSUME Init PROVE Tree
  OBVIOUS
<1>1. /\ alive \subseteq Pid /\ 1 \in alive /\ ppid \in [Pid -> 0..Last]
      /\ \A p \in Pid :
           IF p \in alive
           THEN ppid[p] < p /\ ppid[p] \in alive \cup {0}
           ELSE ppid[p] = 0
  BY DEF Init
<1>2. ppid[1] = 0
  BY <1>1
<1>3. ASSUME NEW p \in alive, 0 \notin Line(ppid, p) PROVE FALSE
  <2> DEFINE L == Line(ppid, p)
  <2>1. p \in L /\ Closed(ppid, L)
    BY <1>1, LineClosed
  <2>2. L \subseteq alive
    <3>1. Closed(ppid, alive \cup {0}) /\ alive \cup {0} \subseteq 0..Last
      BY <1>1 DEF Closed
    <3> QED  BY <1>3, <3>1, LineLeast
  <2>3. PICK n \in L : \A m \in L : n <= m
    <3>1. L \subseteq Nat /\ L # {}
      <4>1. alive \subseteq Nat
        BY <1>1
      <4> HIDE DEF L
      <4> QED  BY <2>1, <2>2, <4>1
    <3> HIDE DEF L
    <3> QED  BY ONLY <3>1, Least
  <2>4. ppid[n] \in L /\ ppid[n] < n /\ ppid[n] \in Nat /\ n \in Nat
    <3>1. n \in alive /\ n \in Pid /\ n \in L \ {0}
      <4>1. \A m \in alive : m \in Pid /\ m # 0
        BY <1>1
      <4> HIDE DEF L
      <4> QED  BY <2>2, <2>3, <4>1
    <3>2. ppid[n] \in L
      BY <2>1, <3>1 DEF Closed
    <3> QED  BY <1>1, <3>1, <3>2
  <2> QED  BY <2>3, <2>4
<1> QED  BY <1>1, <1>2, <1>3 DEF Tree

\* What an exit does to the parents.
LEMMA ExitParents ==
  ASSUME SystemTypeOK, Tree, NEW x \in Pid, Exit(x)
  PROVE  /\ ppid' \in [Pid -> 0..Last]
         /\ x # 1 /\ x \in alive /\ alive' = alive \ {x}
         /\ ppid'[x] = 0
         /\ \A p \in Pid \ {x} : ppid[p] = x => ppid'[p] = 1
         /\ \A p \in Pid \ {x} : ppid[p] # x => ppid'[p] = ppid[p]
BY DEF Exit, SystemTypeOK

\* An exit leaves a tree: the orphans have the first process for a parent.
LEMMA ExitTree ==
  ASSUME SystemTypeOK, Tree, NEW x \in Pid, Exit(x)
  PROVE  Tree'
<1>1. /\ ppid' \in [Pid -> 0..Last] /\ ppid \in [Pid -> 0..Last]
      /\ alive \subseteq Pid
      /\ x # 1 /\ x \in alive /\ alive' = alive \ {x} /\ ppid'[x] = 0
      /\ \A p \in Pid \ {x} : ppid[p] = x => ppid'[p] = 1
      /\ \A p \in Pid \ {x} : ppid[p] # x => ppid'[p] = ppid[p]
  BY ExitParents DEF SystemTypeOK
<1>2. 1 \in alive' /\ ppid'[1] = 0
  BY <1>1 DEF Tree
<1>3. \A p \in Pid : ppid'[p] \in alive' \cup {0}
  BY <1>1 DEF Tree
<1>4. ASSUME NEW p \in alive', 0 \notin Line(ppid', p) PROVE FALSE
  <2> DEFINE L == Line(ppid', p)
  <2>1. p \in L /\ Closed(ppid', L) /\ L \subseteq 0..Last
    <3>1. p \in 0..Last
      BY <1>1
    <3> QED  BY <1>1, <3>1, LineClosed
  <2>2. 1 \notin L
    BY <1>2, <1>4, <2>1 DEF Closed
  <2>3. Closed(ppid, L)
    <3>1. ASSUME NEW q \in L \ {0} PROVE ppid[q] \in L
      <4>1. q \in Pid /\ ppid'[q] \in L
        BY <2>1 DEF Closed
      <4>2. q # x /\ ppid[q] # x
        BY <1>1, <1>4, <2>2, <4>1
      <4> QED  BY <1>1, <4>1, <4>2
    <3> QED  BY <3>1 DEF Closed
  <2>4. 0 \in L
    BY <1>1, <2>1, <2>3, LineLeast DEF Tree
  <2> QED  BY <1>4, <2>4
<1> QED  BY <1>2, <1>3, <1>4 DEF Tree

\* What a start does to the parents.
LEMMA ForkParents ==
  ASSUME SystemTypeOK, Tree, NEW p \in Pid, NEW q \in Pid, Fork(p, q)
  PROVE  /\ ppid' \in [Pid -> 0..Last]
         /\ p \notin alive /\ q \in alive /\ alive' = alive \cup {p}
         /\ ppid'[p] = q
         /\ \A r \in Pid \ {p} : ppid'[r] = ppid[r]
BY DEF Fork, SystemTypeOK

\* A start leaves the line of every other process as it is.
LEMMA ForkLine ==
  ASSUME SystemTypeOK, Tree, NEW p \in Pid, NEW q \in Pid, Fork(p, q), NEW r \in alive
  PROVE  Line(ppid', r) = Line(ppid, r)
<1>1. /\ ppid' \in [Pid -> 0..Last] /\ ppid \in [Pid -> 0..Last]
      /\ alive \subseteq Pid /\ p \notin alive
      /\ \A s \in Pid \ {p} : ppid'[s] = ppid[s]
  BY ForkParents DEF SystemTypeOK
<1>2. r \in Line(ppid, r) /\ Closed(ppid, Line(ppid, r)) /\ Line(ppid, r) \subseteq 0..Last
  <2>1. r \in 0..Last /\ ppid \in [Pid -> 0..Last]
    BY <1>1
  <2> QED  BY <2>1, LineClosed
<1>3. r \in Line(ppid', r) /\ Closed(ppid', Line(ppid', r))
      /\ Line(ppid', r) \subseteq 0..Last
  <2>1. r \in 0..Last /\ ppid' \in [Pid -> 0..Last]
    BY <1>1
  <2> QED  BY ONLY <2>1, LineClosed
<1>4. Line(ppid', r) \subseteq Line(ppid, r)
  <2>1. p \notin Line(ppid, r)
    BY <1>1, LineAlive
  <2>2. Closed(ppid', Line(ppid, r))
    <3>1. ASSUME NEW s \in Line(ppid, r) \ {0} PROVE ppid'[s] \in Line(ppid, r)
      <4>1. s \in Pid \ {p}
        BY <1>2, <2>1
      <4> QED  BY <1>1, <1>2, <4>1 DEF Closed
    <3> QED  BY <3>1 DEF Closed
  <2> QED  BY <1>2, <2>2, LineLeast
<1>5. Closed(ppid, Line(ppid', r))
  <2>1. p \notin Line(ppid', r)
    BY <1>1, <1>4, LineAlive
  <2>2. ASSUME NEW s \in Line(ppid', r) \ {0} PROVE ppid[s] \in Line(ppid', r)
    <3>1. s \in Pid \ {p}
      BY <1>3, <2>1
    <3> QED  BY <1>1, <1>3, <3>1 DEF Closed
  <2> QED  BY <2>2 DEF Closed
<1> QED  BY <1>3, <1>4, <1>5, LineLeast

\* A start leaves a tree.
LEMMA ForkTree ==
  ASSUME SystemTypeOK, Tree, NEW p \in Pid, NEW q \in Pid, Fork(p, q)
  PROVE  Tree'
<1>1. /\ ppid' \in [Pid -> 0..Last] /\ alive \subseteq Pid
      /\ p \notin alive /\ q \in alive /\ alive' = alive \cup {p}
      /\ ppid'[p] = q
      /\ \A s \in Pid \ {p} : ppid'[s] = ppid[s]
  BY ForkParents DEF SystemTypeOK
<1>2. 1 \in alive' /\ ppid'[1] = 0 /\ \A s \in Pid : ppid'[s] \in alive' \cup {0}
  BY <1>1 DEF Tree
<1>3. \A r \in alive : 0 \in Line(ppid', r)
  BY ForkLine DEF Tree
<1>4. 0 \in Line(ppid', p)
  <2>1. q \in Line(ppid', p)
    BY <1>1, LineClosed DEF Closed
  <2> QED  BY <1>1, <1>3, <2>1, LineOfLine
<1> QED  BY <1>1, <1>2, <1>3, <1>4 DEF Tree

\* An exit keeps the line of a process, or the process is under the first now.
LEMMA ExitLine ==
  ASSUME SystemTypeOK, Tree, NEW x \in Pid, Exit(x), NEW r \in alive'
  PROVE  \/ Line(ppid, r) \subseteq Line(ppid', r)
         \/ \E q \in Line(ppid', r) \ {0} : ppid'[q] = 1
<1>1. /\ ppid' \in [Pid -> 0..Last] /\ alive \subseteq Pid
      /\ alive' = alive \ {x}
      /\ \A p \in Pid \ {x} : ppid[p] = x => ppid'[p] = 1
      /\ \A p \in Pid \ {x} : ppid[p] # x => ppid'[p] = ppid[p]
  BY ExitParents DEF SystemTypeOK
<1>2. r \in Line(ppid', r) /\ Closed(ppid', Line(ppid', r))
      /\ Line(ppid', r) \subseteq 0..Last
  <2>1. r \in 0..Last
    BY <1>1
  <2> QED  BY <1>1, <2>1, LineClosed
<1>3. x \notin Line(ppid', r)
  <2>1. Tree'
    BY ExitTree
  <2>2. Closed(ppid', alive' \cup {0}) /\ alive' \cup {0} \subseteq 0..Last
    BY <1>1, <2>1 DEF Closed, Tree
  <2>3. Line(ppid', r) \subseteq alive' \cup {0}
    BY <2>2, LineLeast
  <2> QED  BY <1>1, <2>3
<1>4. CASE \A q \in Line(ppid', r) \ {0} : ppid'[q] # 1
  <2>1. Closed(ppid, Line(ppid', r))
    BY <1>1, <1>2, <1>3, <1>4 DEF Closed
  <2> QED  BY <1>2, <2>1, LineLeast
<1> QED  BY <1>4

\* Unless it is the first process, an exit puts nothing under underId.
LEMMA ExitAbove ==
  ASSUME SystemTypeOK, Tree, NEW x \in Pid, Exit(x), NEW r \in alive',
         underId # 1, Above(ppid', r)
  PROVE  Above(ppid, r)
<1>1. /\ ppid' \in [Pid -> 0..Last] /\ ppid \in [Pid -> 0..Last]
      /\ alive \subseteq Pid /\ alive' = alive \ {x} /\ x # 1 /\ ppid'[x] = 0
      /\ \A p \in Pid \ {x} : ppid[p] = x => ppid'[p] = 1
      /\ \A p \in Pid \ {x} : ppid[p] # x => ppid'[p] = ppid[p]
  BY ExitParents DEF SystemTypeOK
<1>2. ppid[1] = 0 /\ ppid'[1] = 0
  BY ExitTree DEF Tree
<1>3. r \in Line(ppid, r) /\ Closed(ppid, Line(ppid, r)) /\ Line(ppid, r) \subseteq 0..Last
  <2>1. r \in 0..Last
    BY <1>1
  <2> QED  BY <1>1, <2>1, LineClosed
<1>4. CASE underId = 0
  <2>1. r \in Pid /\ 0 \in Line(ppid, r)
    BY <1>1 DEF Tree
  <2>2. \E q \in Line(ppid, r) \ {0} : ppid[q] = 0
    BY <1>1, <2>1, LineEnds
  <2> QED  BY <1>4, <2>2 DEF Above
<1>5. CASE underId # 0
  <2>1. Line(ppid', r) \subseteq Line(ppid, r) \cup {0, 1}
    <3>1. Closed(ppid', Line(ppid, r) \cup {0, 1})
      <4>1. ASSUME NEW q \in Line(ppid, r) \ {0}
            PROVE  ppid'[q] \in Line(ppid, r) \cup {0, 1}
        <5>1. q \in Pid /\ ppid[q] \in Line(ppid, r)
          BY <1>3 DEF Closed
        <5> QED  BY <1>1, <5>1
      <4> QED  BY <1>2, <4>1 DEF Closed
    <3>2. r \in Line(ppid, r) \cup {0, 1} /\ Line(ppid, r) \cup {0, 1} \subseteq 0..Last
      BY <1>1, <1>3
    <3> QED  BY <3>1, <3>2, LineLeast
  <2>2. PICK q \in Line(ppid', r) \ {0} : ppid'[q] = underId
    BY DEF Above
  <2>3. q # 1 /\ q # x
    BY <1>1, <1>2, <1>5, <2>2
  <2>4. q \in Line(ppid, r) \ {0} /\ q \in Pid
    BY <1>3, <2>1, <2>2, <2>3
  <2>5. ppid[q] = underId
    BY <1>1, <2>2, <2>3, <2>4
  <2> QED  BY <2>4, <2>5 DEF Above
<1> QED  BY <1>4, <1>5

\* A start puts no process that was there under underId, and takes none away.
LEMMA ForkAbove ==
  ASSUME SystemTypeOK, Tree, NEW p \in Pid, NEW q \in Pid, Fork(p, q), NEW r \in alive
  PROVE  Above(ppid', r) <=> Above(ppid, r)
<1>1. Line(ppid', r) = Line(ppid, r)
  BY ForkLine
<1>2. p \notin alive /\ \A s \in Pid \ {p} : ppid'[s] = ppid[s]
  BY ForkParents
<1>3. Line(ppid, r) \subseteq alive \cup {0} /\ alive \subseteq Pid
  BY LineAlive DEF SystemTypeOK
<1>4. \A s \in Line(ppid, r) \ {0} : ppid'[s] = ppid[s]
  <2>1. \A s \in Line(ppid, r) \ {0} : s \in Pid \ {p}
    BY <1>2, <1>3
  <2> QED  BY <1>2, <2>1
<1> QED  BY <1>1, <1>4 DEF Above

\* The processes under underId have it above them.
LEMMA UnderAbove ==
  ASSUME NEW live, NEW pp
  PROVE  Under(live, pp) = {p \in live : Above(pp, p)}
BY DEF Under, Above

\* What is above the parent is above the process.
LEMMA AboveParent ==
  ASSUME NEW pp \in [Pid -> 0..Last], NEW p \in 0..Last, NEW q \in Line(pp, p),
         Above(pp, q)
  PROVE  Above(pp, p)
<1>1. Line(pp, q) \subseteq Line(pp, p)
  BY LineOfLine
<1> QED  BY <1>1 DEF Above

-----------------------------------------------------------------------------
(***************************************************************************)
(* The result is sound.  The climb is about a process that is in focus:    *)
(* where it stands is in the line of that process, or the process has been *)
(* under underId, or where it stands is not.                               *)
(***************************************************************************)
SeenCovers == Under(alive, ppid) \subseteq seen

Known ==
  /\ \A i \in 1..Len(pids) : pids[i] \in alive \cup gone
  /\ pc = "climb" => parent \in alive \cup gone

Climbing ==
  pc = "climb" /\ ~reused /\ parent \in alive /\ pids[focus] \in alive =>
    \/ pids[focus] \in seen
    \/ parent \in Line(ppid, pids[focus])
    \/ underId # 1 /\ ~Above(ppid, parent)

Matched ==
  ~reused =>
    /\ pc = "again" /\ pids[focus - 1] \in alive => pids[focus - 1] \in seen
    /\ pc = "add" => pids[focus - 1] \in seen

World == Tree /\ SeenCovers /\ Known

SoundInv == World /\ Climbing /\ Matched /\ Sound

\* What the system does adds to the histories.
LEMMA HistoryGrows ==
  ASSUME SystemTypeOK, System
  PROVE  /\ seen \subseteq seen' /\ SeenCovers'
         /\ alive \cup gone \subseteq alive' \cup gone'
         /\ ~reused' => ~reused /\ \A p \in alive' : p \in alive \/ p \notin gone
<1>1. ASSUME NEW x \in Pid, Exit(x)
      PROVE  /\ seen \subseteq seen' /\ SeenCovers'
             /\ alive \cup gone \subseteq alive' \cup gone'
             /\ ~reused' => ~reused /\ \A p \in alive' : p \in alive \/ p \notin gone
  BY <1>1 DEF Exit, SeenCovers
<1>2. ASSUME NEW p \in Pid, NEW q \in Pid, Fork(p, q)
      PROVE  /\ seen \subseteq seen' /\ SeenCovers'
             /\ alive \cup gone \subseteq alive' \cup gone'
             /\ ~reused' => ~reused /\ \A r \in alive' : r \in alive \/ r \notin gone
  BY <1>2 DEF Fork, SeenCovers
<1> QED  BY <1>1, <1>2 DEF System

\* There is a tree, whatever the system does.
LEMMA SystemTree ==
  ASSUME SystemTypeOK, Tree, System
  PROVE  Tree'
BY ExitTree, ForkTree DEF System

\* The system does not mislead a climb.
LEMMA SystemClimbing ==
  ASSUME SystemTypeOK, SearchTypeOK, PlaceFits, World, Climbing, System
  PROVE  Climbing'
<1> DEFINE f == pids[focus]
           c == parent
<1> SUFFICES ASSUME pc = "climb", ~reused', c \in alive', f \in alive'
             PROVE  \/ f \in seen'
                    \/ c \in Line(ppid', f)
                    \/ underId # 1 /\ ~Above(ppid', c)
  BY DEF Climbing, System
<1>1. /\ seen \subseteq seen' /\ Under(alive', ppid') \subseteq seen' /\ ~reused
      /\ \A p \in alive' : p \in alive \/ p \notin gone
  BY HistoryGrows DEF SeenCovers
<1>2. f \in alive /\ c \in alive
  <2>1. f \in alive \cup gone /\ c \in alive \cup gone
    BY DEF World, Known, PlaceFits, SearchTypeOK
  <2> QED  BY <1>1, <2>1
<1>3. \/ f \in seen
      \/ c \in Line(ppid, f)
      \/ underId # 1 /\ ~Above(ppid, c)
  BY <1>1, <1>2 DEF Climbing
<1>4. ppid \in [Pid -> 0..Last] /\ f \in 0..Last /\ c \in 0..Last
  <2>1. alive \subseteq 0..Last /\ ppid \in [Pid -> 0..Last]
    BY DEF SystemTypeOK
  <2> HIDE DEF f, c
  <2> QED  BY <1>2, <2>1
<1>5. CASE f \in seen
  BY <1>1, <1>5
<1>6. ASSUME NEW x \in Pid, Exit(x), c \in Line(ppid, f), f \notin seen'
      PROVE  c \in Line(ppid', f) \/ (underId # 1 /\ ~Above(ppid', c))
  <2>1. ~Above(ppid', f)
    BY <1>1, <1>6, UnderAbove
  <2>2. \/ Line(ppid, f) \subseteq Line(ppid', f)
        \/ \E q \in Line(ppid', f) \ {0} : ppid'[q] = 1
    BY <1>6, ExitLine DEF World
  <2>3. CASE Above(ppid, f)
    <3>1. f \in Under(alive, ppid)
      BY <1>2, <2>3, UnderAbove
    <3> QED  BY <1>1, <1>6, <3>1 DEF World, SeenCovers
  <2>4. CASE ~Above(ppid, f)
    <3>1. ~Above(ppid, c)
      BY <1>4, <1>6, <2>4, AboveParent
    <3>2. underId # 1 => ~Above(ppid', c)
      BY <1>6, <3>1, ExitAbove DEF World
    <3>3. underId = 1 => c \in Line(ppid', f)
      BY <1>6, <2>1, <2>2 DEF Above
    <3> QED  BY <3>2, <3>3
  <2> QED  BY <2>3, <2>4
<1>7. ASSUME NEW x \in Pid, Exit(x), underId # 1, ~Above(ppid, c)
      PROVE  ~Above(ppid', c)
  BY <1>7, ExitAbove DEF World
<1>8. ASSUME NEW p \in Pid, NEW q \in Pid, Fork(p, q)
      PROVE  Line(ppid', f) = Line(ppid, f) /\ (Above(ppid', c) <=> Above(ppid, c))
  BY <1>2, <1>8, ForkLine, ForkAbove DEF World
<1> QED  BY <1>3, <1>5, <1>6, <1>7, <1>8 DEF System

\* What the system does leaves a sound result.
LEMMA SystemSound ==
  ASSUME SystemTypeOK, SearchTypeOK, PlaceFits, SoundInv, System
  PROVE  SoundInv'
<1>1. UNCHANGED <<pc, pids, focus, parent, found>>
  BY DEF System
<1>2. /\ seen \subseteq seen' /\ SeenCovers'
      /\ alive \cup gone \subseteq alive' \cup gone'
      /\ ~reused' => ~reused /\ \A p \in alive' : p \in alive \/ p \notin gone
  BY HistoryGrows
<1>3. Tree' /\ Climbing'
  BY SystemTree, SystemClimbing DEF SoundInv, World
<1>4. Known'
  BY <1>1, <1>2 DEF SoundInv, World, Known
<1>5. Matched'
  <2>1. ASSUME ~reused', pc = "again", pids[focus - 1] \in alive'
        PROVE  pids[focus - 1] \in seen'
    <3>1. pids[focus - 1] \in alive \cup gone
      <4>1. focus - 1 \in 1..Len(pids)
        BY <2>1 DEF PlaceFits, SearchTypeOK
      <4> QED  BY <4>1 DEF SoundInv, World, Known
    <3>2. pids[focus - 1] \in alive /\ ~reused
      BY <1>2, <2>1, <3>1
    <3> QED  BY <1>2, <2>1, <3>2 DEF SoundInv, Matched
  <2> QED  BY <1>1, <1>2, <2>1 DEF SoundInv, Matched
<1>6. Sound'
  BY <1>1, <1>2 DEF SoundInv, Sound, Found
<1> QED  BY <1>2, <1>3, <1>4, <1>5, <1>6 DEF SoundInv, World

\* A step of the search leaves a sound result.
LEMMA SearchSound ==
  ASSUME SystemTypeOK, SearchTypeOK, PlaceFits, SoundInv, Search
  PROVE  SoundInv'
<1>1. UNCHANGED system
  BY DEF Search, Readdir, ReaddirEnds, NextPid, Climb, Again, Add
<1>2. UNCHANGED <<alive, ppid, seen, gone, reused>>
  BY <1>1 DEF system
<1>3. Tree' /\ SeenCovers'
  BY <1>2 DEF SoundInv, World, Tree, SeenCovers
<1>4. ppid \in [Pid -> 0..Last] /\ alive \subseteq 0..Last
  BY DEF SystemTypeOK
<1> SUFFICES Known' /\ Climbing' /\ Matched' /\ Sound'
  BY <1>3 DEF SoundInv, World
<1>5. Known /\ Climbing /\ Matched /\ Sound
  BY DEF SoundInv, World
<1>6. CASE Readdir
  <2>1. pc = "readdir" /\ UNCHANGED <<pc, focus, parent, found>>
    BY <1>6 DEF Readdir
  <2>2. \A i \in 1..Len(pids') : pids'[i] \in alive \cup gone
    <3>1. CASE pids' = pids
      BY <1>5, <3>1 DEF Known
    <3>2. CASE pids' = Append(pids, cursor) /\ cursor \in alive
      <4>1. pids \in Seq(Pid) /\ cursor \in Pid
        BY <3>2 DEF SearchTypeOK, SystemTypeOK
      <4>2. Len(pids') = Len(pids) + 1 /\ Len(pids) \in Nat
            /\ pids'[Len(pids) + 1] = cursor
            /\ \A i \in 1..Len(pids) : pids'[i] = pids[i]
        BY <3>2, <4>1
      <4> QED  BY <1>5, <3>2, <4>2 DEF Known
    <3> QED  BY <1>6, <3>1, <3>2 DEF Readdir
  <2>3. Sound'
    BY <1>2, <1>5, <2>1 DEF Sound, Found
  <2> QED  BY <1>2, <2>1, <2>2, <2>3 DEF Known, Climbing, Matched
<1>7. CASE ReaddirEnds
  BY <1>2, <1>5, <1>7 DEF ReaddirEnds, Known, Climbing, Matched, Sound, Found
<1>8. CASE NextPid
  <2>1. UNCHANGED <<pids, focus, found>>
    BY <1>8 DEF NextPid
  <2>2. CASE pc' = "done"
    BY <1>2, <1>5, <2>1, <2>2 DEF Known, Climbing, Matched, Sound, Found
  <2>3. CASE pc' = "climb" /\ parent' = pids[focus] /\ focus <= Len(pids)
    <3>1. pids[focus] \in alive \cup gone
      <4>1. focus \in 1..Len(pids)
        BY <2>3 DEF SearchTypeOK
      <4> QED  BY <1>5, <4>1 DEF Known
    <3>2. pids[focus] \in alive => pids[focus] \in Line(ppid, pids[focus])
      BY <1>4, LineClosed
    <3> QED  BY <1>2, <1>5, <2>1, <2>3, <3>1, <3>2
                DEF Known, Climbing, Matched, Sound, Found
  <2> QED  BY <1>8, <2>2, <2>3 DEF NextPid
<1>9. CASE Climb
  <2> DEFINE f == pids[focus]
  <2>1. pc = "climb" /\ UNCHANGED <<pids, found>>
    BY <1>9 DEF Climb
  <2>2. CASE pc' \in {"done", "next"}
    BY <1>2, <1>5, <2>1, <2>2 DEF Known, Climbing, Matched, Sound, Found
  <2>3. ASSUME parent \in alive, f \in alive
        PROVE  /\ ppid[parent] \in Line(ppid, parent)
               /\ parent \in Line(ppid, f) => ppid[parent] \in Line(ppid, f)
               /\ parent \in Line(ppid, parent) \ {0}
    <3>1. f \in 0..Last /\ parent \in 0..Last /\ parent # 0
      <4>1. \A p \in alive : p # 0 /\ p \in 0..Last
        BY DEF SystemTypeOK
      <4> HIDE DEF f
      <4> QED  BY <2>3, <4>1
    <3>2. Closed(ppid, Line(ppid, f)) /\ Closed(ppid, Line(ppid, parent))
          /\ parent \in Line(ppid, parent)
      BY <1>4, <3>1, LineClosed
    <3> QED  BY <3>1, <3>2 DEF Closed
  <2>4. CASE /\ parent \in alive /\ parent' = ppid[parent] /\ parent' = underId
             /\ pc' = "again" /\ focus' = focus + 1
    <3>1. f \in alive /\ ~reused => f \in seen
      <4> SUFFICES ASSUME f \in alive, ~reused, f \notin seen PROVE FALSE
        OBVIOUS
      <4>1. Above(ppid, parent)
        BY <2>3, <2>4 DEF Above
      <4>2. parent \in Line(ppid, f)
        BY <1>5, <2>1, <2>4, <4>1 DEF Climbing
      <4>3. Above(ppid, f)
        BY <1>4, <4>1, <4>2, AboveParent
      <4> QED  BY <4>3, UnderAbove DEF SoundInv, World, SeenCovers
    <3>2. pids'[focus' - 1] = f
      BY <2>1, <2>4 DEF SearchTypeOK
    <3> QED  BY <1>2, <1>5, <2>1, <2>4, <3>1, <3>2
                DEF Known, Climbing, Matched, Sound, Found
  <2>5. CASE /\ parent \in alive /\ parent' = ppid[parent] /\ parent' > 0
             /\ UNCHANGED <<pc, focus>>
    <3>1. parent' \in alive
      <4>1. ppid[parent] \in alive \cup {0} /\ parent' # 0
        BY <2>5 DEF SoundInv, World, Tree, SystemTypeOK
      <4> QED  BY <2>5, <4>1
    <3>2. ASSUME f \in alive, ~reused
          PROVE  \/ f \in seen
                 \/ parent' \in Line(ppid, f)
                 \/ underId # 1 /\ ~Above(ppid, parent')
      <4>1. \/ f \in seen
            \/ parent \in Line(ppid, f)
            \/ underId # 1 /\ ~Above(ppid, parent)
        BY <1>5, <2>1, <2>5, <3>2 DEF Climbing
      <4>2. parent' \in Line(ppid, parent)
            /\ (parent \in Line(ppid, f) => parent' \in Line(ppid, f))
        BY <2>3, <2>5, <3>2
      <4>3. Above(ppid, parent') => Above(ppid, parent)
        BY <1>4, <2>5, <4>2, AboveParent
      <4> QED  BY <4>1, <4>2, <4>3
    <3> QED  BY <1>2, <1>5, <2>1, <2>5, <3>1, <3>2
                DEF Known, Climbing, Matched, Sound, Found
  <2> QED  BY <1>9, <2>2, <2>4, <2>5 DEF Climb, NoParent, Parent
<1>10. CASE Again
  <2>1. pc = "again" /\ UNCHANGED <<pids, focus, found>>
        /\ pc' \in {"add", "next", "done"}
        /\ (pc' = "add" => pids[focus - 1] \in alive)
    BY <1>10 DEF Again
  <2> QED  BY <1>2, <1>5, <2>1 DEF Known, Climbing, Matched, Sound, Found
<1>11. CASE Add
  <2>1. pc = "add" /\ UNCHANGED <<pids, focus>> /\ pc' \in {"next", "done"}
    BY <1>11 DEF Add
  <2>2. ASSUME ~reused PROVE Found' \subseteq seen
    <3>1. pids[focus - 1] \in seen /\ Found \subseteq seen
      BY <1>5, <2>1, <2>2 DEF Matched, Sound
    <3>2. CASE found' = found
      BY <3>1, <3>2 DEF Found
    <3>3. CASE found' = Append(found, pids[focus - 1])
      <4>1. found \in Seq(Pid) /\ pids[focus - 1] \in Pid
        BY <3>1 DEF SearchTypeOK, SystemTypeOK
      <4>2. Len(found') = Len(found) + 1 /\ Len(found) \in Nat
            /\ found'[Len(found) + 1] = pids[focus - 1]
            /\ \A i \in 1..Len(found) : found'[i] = found[i]
        BY <3>3, <4>1
      <4> QED  BY <3>1, <4>2 DEF Found
    <3> QED  BY <1>11, <3>2, <3>3 DEF Add
  <2> QED  BY <1>2, <1>5, <2>1, <2>2 DEF Known, Climbing, Matched, Sound
<1> QED  BY <1>6, <1>7, <1>8, <1>9, <1>10, <1>11 DEF Search

\* The search starts with nothing found.
LEMMA SoundInit == Init => SoundInv
<1> SUFFICES ASSUME Init PROVE SoundInv
  OBVIOUS
<1>1. pids = <<>> /\ found = <<>> /\ pc = "readdir"
  BY DEF Init
<1>2. Tree
  BY TreeInit
<1>3. SeenCovers
  BY DEF Init, SeenCovers
<1> QED  BY <1>1, <1>2, <1>3 DEF SoundInv, World, Known, Climbing, Matched, Sound, Found

\* A climb is about the line of its process in every reachable state.
LEMMA SoundAlways == Spec => []SoundInv
<1>1. IInv /\ SoundInv /\ [Next]_vars => SoundInv'
  <2> SUFFICES ASSUME IInv, SoundInv, [Next]_vars PROVE SoundInv'
    OBVIOUS
  <2>1. SystemTypeOK /\ SearchTypeOK /\ PlaceFits
    BY DEF IInv, TypeOK
  <2>2. CASE UNCHANGED vars
    BY <2>2 DEF vars, SoundInv, World, Tree, SeenCovers, Known, Climbing, Matched,
                Sound, Found
  <2> QED  BY <2>1, <2>2, SystemSound, SearchSound DEF Next, Done
<1> QED  BY <1>1, SoundInit, InOrder, PTL DEF Spec

\* process_find returns no process that was not under underId at some time of
\* the search, for every number of processes and whatever starts, exits and is
\* given to another parent between two steps of a climb, as long as no pid is
\* used again.
THEOREM ResultIsSound == Spec => []Sound
<1>1. SoundInv => Sound
  BY DEF SoundInv
<1> QED  BY <1>1, SoundAlways, PTL

-----------------------------------------------------------------------------
(***************************************************************************)
(* The result is complete.  While there is memory and every process_info   *)
(* answers, a match that nothing has happened to is still to come in /proc *)
(* or in the list, is in focus, or was found; and a climb from it is on    *)
(* its line, with underId still above it.                                  *)
(***************************************************************************)
Quiet == allocErrors = AllocErrors /\ infoErrors = InfoErrors

Ahead == {pids[i] : i \in focus..Len(pids)}

Listed == pc = "readdir" => focus = 1 /\ \A p \in steady : p >= cursor \/ p \in Ahead

Pending ==
  /\ pc \in {"next", "climb"} => steady \cap named \subseteq Ahead \cup Found
  /\ pc \in {"again", "add"} =>
       steady \cap named \subseteq Ahead \cup Found \cup {pids[focus - 1]}
  /\ pc = "done" /\ focus > Len(pids) => steady \cap named \subseteq Found

OnTheWay ==
  pc = "climb" /\ pids[focus] \in steady =>
    parent \in Line(ppid, pids[focus]) /\ Above(ppid, parent)

CompleteInv ==
  Quiet => steady \subseteq Under(alive, ppid) /\ Listed /\ Pending /\ OnTheWay

\* An exit that is not in the line of a process leaves the line as it is.
LEMMA ExitElsewhere ==
  ASSUME SystemTypeOK, Tree, NEW x \in Pid, Exit(x), NEW r \in alive, x \notin Line(ppid, r)
  PROVE  /\ Line(ppid', r) = Line(ppid, r)
         /\ \A q \in Line(ppid, r) \ {0} : ppid'[q] = ppid[q]
<1>1. /\ ppid' \in [Pid -> 0..Last] /\ ppid \in [Pid -> 0..Last]
      /\ alive \subseteq Pid
      /\ \A p \in Pid \ {x} : ppid[p] # x => ppid'[p] = ppid[p]
  BY ExitParents DEF SystemTypeOK
<1>2. r \in 0..Last
  BY <1>1
<1>3. r \in Line(ppid, r) /\ Closed(ppid, Line(ppid, r)) /\ Line(ppid, r) \subseteq 0..Last
  BY <1>1, <1>2, LineClosed
<1>4. r \in Line(ppid', r) /\ Closed(ppid', Line(ppid', r))
      /\ Line(ppid', r) \subseteq 0..Last
  BY ONLY <1>1, <1>2, LineClosed
<1>5. ASSUME NEW q \in Line(ppid, r) \ {0}
      PROVE  ppid[q] \in Line(ppid, r) /\ ppid'[q] = ppid[q]
  <2>1. q \in Pid \ {x} /\ ppid[q] \in Line(ppid, r)
    BY <1>3 DEF Closed
  <2> QED  BY <1>1, <2>1
<1>6. Line(ppid', r) \subseteq Line(ppid, r)
  <2>1. Closed(ppid', Line(ppid, r))
    BY <1>5 DEF Closed
  <2> QED  BY <1>3, <2>1, LineLeast
<1>7. Line(ppid, r) \subseteq Line(ppid', r)
  <2>1. Closed(ppid, Line(ppid', r))
    BY <1>4, <1>5, <1>6 DEF Closed
  <2> QED  BY <1>4, <2>1, LineLeast
<1> QED  BY <1>5, <1>6, <1>7

\* An exit is no loss to a process that it is not in the line of.
LEMMA ExitComplete ==
  ASSUME SystemTypeOK, SearchTypeOK, PlaceFits, Tree, CompleteInv, Quiet,
         NEW x \in Pid, Exit(x),
         UNCHANGED <<pc, pids, cursor, focus, parent, found>>
  PROVE  (steady \subseteq Under(alive, ppid) /\ Listed /\ Pending /\ OnTheWay)'
<1>1. /\ steady \subseteq alive /\ Listed /\ Pending /\ OnTheWay
      /\ \A p \in steady : Above(ppid, p)
  BY UnderAbove DEF CompleteInv
<1>2. /\ alive' = alive \ {x} /\ named' = named
      /\ steady' = {p \in steady : x \notin Line(ppid, p)}
      /\ alive \subseteq Pid /\ ppid \in [Pid -> 0..Last]
  BY DEF Exit, SystemTypeOK
<1>3. ASSUME NEW r \in alive, x \notin Line(ppid, r), Above(ppid, r)
      PROVE  Above(ppid', r)
  BY <1>3, ExitElsewhere DEF Above
<1>4. steady' \subseteq Under(alive', ppid')
  <2>1. ASSUME NEW p \in steady' PROVE p \in alive' /\ Above(ppid', p)
    <3>1. p \in alive /\ x \notin Line(ppid, p) /\ Above(ppid, p)
      BY <1>1, <1>2
    <3>2. p \in Line(ppid, p)
      BY <1>2, <3>1, LineClosed
    <3> QED  BY <1>2, <1>3, <3>1, <3>2
  <2> QED  BY <2>1, UnderAbove
<1>5. Listed' /\ Pending'
  BY <1>1, <1>2 DEF Listed, Pending, Ahead, Found
<1>6. OnTheWay'
  <2> SUFFICES ASSUME pc = "climb", pids[focus] \in steady'
               PROVE  parent \in Line(ppid', pids[focus]) /\ Above(ppid', parent)
    BY DEF OnTheWay
  <2>1. /\ pids[focus] \in alive /\ x \notin Line(ppid, pids[focus])
        /\ parent \in Line(ppid, pids[focus]) /\ Above(ppid, parent)
    BY <1>1, <1>2 DEF OnTheWay
  <2>2. Line(ppid, parent) \subseteq Line(ppid, pids[focus])
    <3>1. pids[focus] \in 0..Last
      <4>1. \A p \in alive : p \in 0..Last
        BY <1>2
      <4> QED  BY <2>1, <4>1
    <3> QED  BY <1>2, <2>1, <3>1, LineOfLine
  <2>3. parent \in alive
    BY <2>1, LineAlive, LineOfKernel DEF Above
  <2> QED  BY <1>3, <2>1, <2>2, <2>3, ExitElsewhere
<1> QED  BY <1>4, <1>5, <1>6

\* A process that starts is no match that the search has to find.
LEMMA ForkComplete ==
  ASSUME SystemTypeOK, SearchTypeOK, PlaceFits, Tree, CompleteInv, Quiet,
         NEW p \in Pid, NEW q \in Pid, Fork(p, q),
         UNCHANGED <<pc, pids, cursor, focus, parent, found>>
  PROVE  (steady \subseteq Under(alive, ppid) /\ Listed /\ Pending /\ OnTheWay)'
<1>1. /\ alive \subseteq alive' /\ p \notin alive /\ steady' = steady
      /\ named' \in {named \ {p}, named \cup {p}}
      /\ alive \subseteq Pid /\ ppid \in [Pid -> 0..Last]
  BY DEF Fork, SystemTypeOK
<1>2. steady \subseteq alive /\ steady' \subseteq Under(alive', ppid')
  <2>1. steady \subseteq Under(alive, ppid)
    BY DEF CompleteInv
  <2> QED  BY <1>1, <2>1, ForkAbove, UnderAbove
<1>3. steady' \cap named' = steady \cap named
  BY <1>1, <1>2
<1>4. Listed' /\ Pending'
  BY <1>1, <1>3 DEF CompleteInv, Listed, Pending, Ahead, Found
<1>5. OnTheWay'
  <2> SUFFICES ASSUME pc = "climb", pids[focus] \in steady
               PROVE  parent \in Line(ppid', pids[focus]) /\ Above(ppid', parent)
    BY <1>1 DEF OnTheWay
  <2>1. /\ pids[focus] \in alive
        /\ parent \in Line(ppid, pids[focus]) /\ Above(ppid, parent)
    BY <1>2 DEF CompleteInv, OnTheWay
  <2>2. parent \in alive
    BY <2>1, LineAlive, LineOfKernel DEF Above
  <2> QED  BY <2>1, <2>2, ForkAbove, ForkLine
<1> QED  BY <1>2, <1>4, <1>5

\* What the system does hides no match.
LEMMA SystemComplete ==
  ASSUME SystemTypeOK, SearchTypeOK, PlaceFits, Tree, CompleteInv, System
  PROVE  CompleteInv'
<1> SUFFICES ASSUME Quiet'
             PROVE  (steady \subseteq Under(alive, ppid) /\ Listed /\ Pending /\ OnTheWay)'
  BY DEF CompleteInv
<1>1. UNCHANGED <<pc, pids, cursor, focus, parent, found, allocErrors, infoErrors>>
  BY DEF System
<1>2. Quiet
  BY <1>1 DEF Quiet
<1> QED  BY <1>1, <1>2, ExitComplete, ForkComplete DEF System

\* A step of the search misses nothing.
LEMMA SearchComplete ==
  ASSUME SystemTypeOK, SearchTypeOK, PlaceFits, Tree, CompleteInv, Search
  PROVE  CompleteInv'
<1>1. UNCHANGED <<alive, ppid, named, steady>>
  BY DEF Search, Readdir, ReaddirEnds, NextPid, Climb, Again, Add, system
<1> SUFFICES ASSUME Quiet' PROVE (Listed /\ Pending /\ OnTheWay)' /\ Quiet
  BY <1>1 DEF CompleteInv
<1>2. UNCHANGED <<allocErrors, infoErrors>>
  BY DEF Search, Readdir, ReaddirEnds, NextPid, Climb, NoParent, Parent, Again, Add,
         Quiet, SearchTypeOK
<1>3. Quiet
  BY <1>1, <1>2 DEF Quiet
<1>4. steady \subseteq alive /\ Listed /\ Pending /\ OnTheWay
      /\ \A p \in steady : Above(ppid, p)
  BY <1>3, UnderAbove DEF CompleteInv
<1>5. /\ Len(pids) \in Nat /\ pids \in Seq(Pid) /\ focus \in Nat \ {0}
      /\ focus <= Len(pids) + 1 /\ alive \subseteq Pid /\ ppid \in [Pid -> 0..Last]
      /\ cursor \in Nat /\ found \in Seq(Pid)
  BY DEF SearchTypeOK, SystemTypeOK
<1> SUFFICES (Listed /\ Pending /\ OnTheWay)'
  BY <1>3
<1>6. CASE Readdir
  <2>1. pc = "readdir" /\ pc' = "readdir" /\ focus = 1 /\ focus' = 1
        /\ cursor' = cursor + 1
    BY <1>4, <1>6 DEF Readdir, Listed
  <2>2. CASE cursor \notin alive
    <3>1. pids' = pids
      BY <1>6, <2>2 DEF Readdir
    <3>2. \A p \in steady : p >= cursor' \/ p \in Ahead'
      <4>1. \A p \in steady : p \in Nat /\ p # cursor /\ (p >= cursor \/ p \in Ahead)
        BY <1>4, <1>5, <2>1, <2>2 DEF Listed
      <4>2. Ahead' = Ahead
        BY <2>1, <3>1 DEF Ahead
      <4> HIDE DEF Ahead
      <4> QED  BY <1>5, <2>1, <4>1, <4>2
    <3> QED  BY <1>1, <1>4, <2>1, <3>1, <3>2 DEF Listed, Pending, OnTheWay
  <2>3. CASE cursor \in alive
    <3>1. pids' = Append(pids, cursor) /\ cursor \in Pid
      BY <1>5, <1>6, <2>3 DEF Readdir
    <3>2. Len(pids') = Len(pids) + 1 /\ pids'[Len(pids) + 1] = cursor
          /\ \A i \in 1..Len(pids) : pids'[i] = pids[i]
      BY <1>5, <3>1
    <3>3. Ahead \subseteq Ahead' /\ cursor \in Ahead'
      <4>1. /\ \A i \in focus..Len(pids) : i \in 1..Len(pids) /\ i \in focus'..Len(pids')
            /\ Len(pids) + 1 \in focus'..Len(pids')
        BY <1>5, <2>1, <3>2
      <4> QED  BY <3>2, <4>1 DEF Ahead
    <3>4. \A p \in steady : p >= cursor' \/ p \in Ahead'
      <4>1. \A p \in steady : p \in Nat /\ (p >= cursor \/ p \in Ahead)
        BY <1>4, <1>5, <2>1 DEF Listed
      <4> HIDE DEF Ahead
      <4> QED  BY <1>5, <2>1, <3>3, <4>1
    <3> QED  BY <1>1, <2>1, <3>4 DEF Listed, Pending, OnTheWay
  <2> QED  BY <2>2, <2>3
<1>7. CASE ReaddirEnds
  <2>1. pc = "readdir" /\ UNCHANGED <<pids, focus, found>> /\ cursor > Last
        /\ pc' = IF pids = <<>> THEN "done" ELSE "next"
    BY <1>2, <1>7 DEF ReaddirEnds, SearchTypeOK
  <2>2. steady \subseteq Ahead
    BY <1>4, <1>5, <2>1 DEF Listed
  <2>3. pids = <<>> => Ahead = {}
    BY <1>5, <2>1 DEF Ahead
  <2> QED  BY <1>1, <1>4, <2>1, <2>2, <2>3 DEF Listed, Pending, OnTheWay, Ahead
<1>8. CASE NextPid
  <2>1. pc = "next" /\ UNCHANGED <<pids, focus, found>>
    BY <1>8 DEF NextPid
  <2>2. CASE pc' = "climb" /\ parent' = pids[focus] /\ focus <= Len(pids)
    <3>1. pids[focus] \in steady =>
            pids[focus] \in Line(ppid, pids[focus]) /\ Above(ppid, pids[focus])
      <4>1. \A p \in steady : p \in 0..Last
        BY <1>4, <1>5
      <4> QED  BY <1>4, <1>5, <4>1, LineClosed
    <3> QED  BY <1>1, <1>4, <2>1, <2>2, <3>1
                DEF Listed, Pending, OnTheWay, Ahead, Found
  <2>3. CASE pc' = "done" /\ focus > Len(pids)
    <3>1. Ahead = {}
      BY <1>5, <2>3 DEF Ahead
    <3> QED  BY <1>1, <1>4, <2>1, <2>3, <3>1 DEF Listed, Pending, OnTheWay, Found
  <2> QED  BY <1>5, <1>8, <2>2, <2>3 DEF NextPid
<1>9. CASE Climb
  <2> DEFINE f == pids[focus]
  <2>1. pc = "climb" /\ UNCHANGED <<pids, found, infoErrors>> /\ focus <= Len(pids)
        /\ (f \in steady => parent \in Line(ppid, f) /\ Above(ppid, parent))
    BY <1>2, <1>4, <1>9 DEF Climb, OnTheWay, PlaceFits
  <2>2. f \in steady => parent \in alive /\ Line(ppid, f) \subseteq alive \cup {0}
    BY <1>4, <2>1, LineAlive, LineOfKernel DEF Above
  <2>3. ASSUME f \in steady, parent' = ppid[parent]
        PROVE  /\ parent' \in Line(ppid, f)
               /\ parent' # underId => Above(ppid, parent') /\ parent' # 0
    <3>1. Closed(ppid, Line(ppid, f)) /\ parent \in Pid
      <4>1. \A p \in alive : p \in 0..Last /\ p \in Pid
        BY <1>5
      <4>2. f \in 0..Last /\ parent \in Pid
        <5> HIDE DEF f
        <5> QED  BY <1>4, <2>2, <2>3, <4>1
      <4> HIDE DEF f
      <4> QED  BY <1>5, <4>2, LineClosed
    <3>2. parent' \in Line(ppid, f)
      BY <2>1, <2>3, <3>1 DEF Closed
    <3>3. ASSUME parent' # underId PROVE Above(ppid, parent') /\ parent' # 0
      <4>1. PICK q \in Line(ppid, parent) \ {0} : ppid[q] = underId
        BY <2>1, <2>3 DEF Above
      <4>2. q \in {parent} \cup Line(ppid, parent')
        BY <1>5, <2>3, <3>1, <4>1, LineStep
      <4>3. q \in Line(ppid, parent') \ {0}
        BY <2>3, <3>3, <4>1, <4>2
      <4>4. Above(ppid, parent')
        BY <4>1, <4>3 DEF Above
      <4> QED  BY <4>3, <4>4, LineOfKernel
    <3> QED  BY <3>2, <3>3
  <2>4. CASE pc' = "again" /\ focus' = focus + 1
    <3>1. pids'[focus' - 1] = f /\ Ahead \subseteq Ahead' \cup {f}
      <4>1. focus' - 1 = focus
            /\ \A i \in focus..Len(pids) : i = focus \/ i \in focus'..Len(pids')
        BY <1>5, <2>1, <2>4
      <4> QED  BY <2>1, <4>1 DEF Ahead
    <3> QED  BY <1>1, <1>4, <2>1, <2>4, <3>1 DEF Listed, Pending, OnTheWay, Found
  <2>5. CASE /\ parent' = ppid[parent] /\ parent' # underId /\ parent' = 0
             /\ pc' = "next" /\ focus' = focus + 1
    <3>1. f \notin steady /\ Ahead \subseteq Ahead' \cup {f}
      BY <1>5, <2>1, <2>3, <2>5 DEF Ahead
    <3> QED  BY <1>1, <1>4, <2>1, <2>5, <3>1 DEF Listed, Pending, OnTheWay, Found
  <2>6. CASE /\ parent' = ppid[parent] /\ parent' # underId
             /\ UNCHANGED <<pc, focus>>
    <3>1. Ahead' = Ahead
      BY <2>1, <2>6 DEF Ahead
    <3> QED  BY <1>1, <1>4, <2>1, <2>3, <2>6, <3>1
                DEF Listed, Pending, OnTheWay, Found
  <2>7. CASE pc' = "done" /\ UNCHANGED focus
    BY <1>1, <1>4, <1>5, <2>1, <2>7 DEF Listed, Pending, OnTheWay
  <2>8. infoErrors \in Nat
    BY DEF SearchTypeOK
  <2> QED  BY <1>9, <2>1, <2>4, <2>5, <2>6, <2>7, <2>8 DEF Climb, NoParent, Parent
<1>10. CASE Again
  <2>1. pc = "again" /\ UNCHANGED <<pids, focus, found, infoErrors>>
    BY <1>2, <1>10 DEF Again
  <2>2. infoErrors \in Nat
    BY DEF SearchTypeOK
  <2>3. CASE /\ pids[focus - 1] \in alive
             /\ pc' = IF pids[focus - 1] \in named THEN "add" ELSE "next"
    BY <1>1, <1>4, <2>1, <2>3 DEF Listed, Pending, OnTheWay, Ahead, Found
  <2>4. CASE pids[focus - 1] \notin alive /\ pc' = "done"
    <3>1. focus > Len(pids) => Ahead = {}
      BY <1>5 DEF Ahead
    <3> QED  BY <1>1, <1>4, <2>1, <2>4, <3>1 DEF Listed, Pending, OnTheWay, Found
  <2> QED  BY <1>10, <2>1, <2>2, <2>3, <2>4 DEF Again
<1>11. CASE Add
  <2>1. pc = "add" /\ UNCHANGED <<pids, focus>> /\ pc' = "next"
        /\ found' = Append(found, pids[focus - 1])
    BY <1>2, <1>11 DEF Add, SearchTypeOK
  <2>2. Found \cup {pids[focus - 1]} \subseteq Found'
    <3>1. focus - 1 \in 1..Len(pids)
      BY <1>5, <2>1 DEF PlaceFits
    <3>2. pids[focus - 1] \in Pid
      BY <1>5, <3>1
    <3>3. Len(found') = Len(found) + 1 /\ Len(found) \in Nat
          /\ found'[Len(found) + 1] = pids[focus - 1]
          /\ \A i \in 1..Len(found) : found'[i] = found[i]
      BY <1>5, <2>1, <3>2
    <3> QED  BY <3>3 DEF Found
  <2> QED  BY <1>1, <1>4, <2>1, <2>2 DEF Listed, Pending, OnTheWay, Ahead
<1> QED  BY <1>6, <1>7, <1>8, <1>9, <1>10, <1>11 DEF Search

\* While the search is still to begin, all is still to come.
LEMMA CompleteInit == Init => CompleteInv
<1> SUFFICES ASSUME Init PROVE CompleteInv
  OBVIOUS
<1>1. /\ steady = Under(alive, ppid) /\ pc = "readdir" /\ pids = <<>>
      /\ focus = 1 /\ cursor = 1 /\ alive \subseteq Pid
  BY DEF Init
<1>2. \A p \in steady : p >= cursor
  <2>1. \A p \in alive : p >= 1
    BY <1>1
  <2> QED  BY <1>1, <2>1, UnderIsAlive
<1> QED  BY <1>1, <1>2 DEF CompleteInv, Listed, Pending, OnTheWay

\* process_find, where it gets to the end of its list with memory enough and
\* every process_info answered, misses no match that was under underId all the
\* time, for every number of processes and whatever else starts and exits.
THEOREM ResultIsComplete == Spec => []Complete
<1>1. IInv /\ SoundInv /\ CompleteInv /\ [Next]_vars => CompleteInv'
  <2> SUFFICES ASSUME IInv, SoundInv, CompleteInv, [Next]_vars PROVE CompleteInv'
    OBVIOUS
  <2>1. SystemTypeOK /\ SearchTypeOK /\ PlaceFits /\ Tree
    BY DEF IInv, TypeOK, SoundInv, World
  <2>2. CASE UNCHANGED vars
    BY <2>2 DEF vars, CompleteInv, Quiet, Listed, Pending, OnTheWay, Ahead, Found
  <2> QED  BY <2>1, <2>2, SystemComplete, SearchComplete DEF Next, Done
<1>2. CompleteInv => Complete
  BY DEF CompleteInv, Quiet, Pending, Complete
<1> QED  BY <1>1, <1>2, CompleteInit, SoundAlways, InOrder, PTL DEF Spec

-----------------------------------------------------------------------------
(***************************************************************************)
(* The search moves on.  Only a climb stays where it is in the list, and   *)
(* it gets nearer to the end of a line that does not run in a circle.      *)
(***************************************************************************)

\* In a tree nothing is its own ancestor: a process that is has no end to its
\* line.
LEMMA NoCircle ==
  ASSUME NEW pp \in [Pid -> 0..Last], NEW p \in Pid, 0 \in Line(pp, p)
  PROVE  p \notin Line(pp, pp[p])
<1> SUFFICES ASSUME p \in Line(pp, pp[p]) PROVE FALSE
  OBVIOUS
<1> DEFINE L == {q \in Pid : p \in Line(pp, q)}
<1>1. p \in L
  BY LineClosed
<1>2. ASSUME NEW q \in L PROVE pp[q] \in L
  <2>1. p \in Line(pp, pp[q])
    <3>1. CASE q = p
      BY <3>1
    <3>2. CASE q # p
      BY <3>2, LineStep
    <3> QED  BY <3>1, <3>2
  <2>2. pp[q] # 0
    BY <2>1, LineOfKernel
  <2> QED  BY <2>1, <2>2
<1>3. Closed(pp, L) /\ L \subseteq 0..Last
  BY <1>2 DEF Closed
<1> HIDE DEF L
<1>4. Line(pp, p) \subseteq L
  BY <1>1, <1>3, LineLeast
<1> QED  BY <1>4 DEF L

\* What is still to be done with the process in focus, or the one before it.
Stage ==
  IF pc = "again" THEN 4 ELSE IF pc = "add" THEN 3
  ELSE IF pc = "next" THEN 2 ELSE IF pc = "climb" THEN 1 ELSE 0

\* A step that gets the search nearer to its end.
MovesOn ==
  \/ pc = "readdir" /\ (pc' # "readdir" \/ cursor' = cursor + 1)
  \/ /\ pc # "readdir" /\ pc' # "readdir"
     /\ \/ focus' = focus + 1
        \/ focus' = focus /\ Stage' < Stage
        \/ /\ focus' = focus /\ Stage' = Stage
           /\ Line(ppid', parent') \subseteq Line(ppid, parent) \ {parent}
           /\ parent \in Line(ppid, parent)

\* Every step of process_find and process_next gets nearer to the end, and a
\* climb that is not over has fewer ancestors before it: it can only be kept
\* from its end by processes that exit and start.
THEOREM SearchGetsOn == Spec => [][Search => MovesOn]_vars
<1>1. IInv /\ SoundInv /\ [Next]_vars => [Search => MovesOn]_vars
  <2> SUFFICES ASSUME IInv, SoundInv, Search PROVE MovesOn
    OBVIOUS
  <2>1. SystemTypeOK /\ SearchTypeOK /\ PlaceFits /\ Tree
    BY DEF IInv, TypeOK, SoundInv, World
  <2>2. CASE Readdir \/ ReaddirEnds
    BY <2>2 DEF Readdir, ReaddirEnds, MovesOn
  <2>3. CASE NextPid \/ Again \/ Add
    BY <2>3 DEF NextPid, Again, Add, MovesOn, Stage
  <2>4. CASE Climb
    <3>1. CASE pc' \in {"done", "again", "next"}
      BY <2>4, <3>1 DEF Climb, NoParent, MovesOn, Stage
    <3>2. CASE /\ parent \in alive /\ parent' = ppid[parent]
               /\ UNCHANGED <<pc, focus>>
      <4>1. parent \in Pid /\ ppid \in [Pid -> 0..Last] /\ 0 \in Line(ppid, parent)
        BY <2>1, <3>2 DEF SystemTypeOK, Tree
      <4>2. parent \in Line(ppid, parent) /\ ppid[parent] \in Line(ppid, parent)
        BY <4>1, LineClosed DEF Closed
      <4>3. Line(ppid, ppid[parent]) \subseteq Line(ppid, parent)
        BY <4>1, <4>2, LineOfLine
      <4>4. parent \notin Line(ppid, ppid[parent])
        BY <4>1, NoCircle
      <4>5. ppid' = ppid /\ pc = "climb"
        BY <2>4 DEF Climb, system
      <4>6. Line(ppid', parent') \subseteq Line(ppid, parent) \ {parent}
        BY <3>2, <4>3, <4>4, <4>5
      <4> QED  BY <3>2, <4>2, <4>5, <4>6 DEF MovesOn, Stage
    <3> QED  BY <2>4, <3>1, <3>2 DEF Climb, NoParent, Parent
  <2> QED  BY <2>2, <2>3, <2>4 DEF Search
<1> QED  BY <1>1, InOrder, SoundAlways, PTL DEF Spec

=============================================================================
