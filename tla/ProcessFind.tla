---------------------------- MODULE ProcessFind ----------------------------
(***************************************************************************)
(* The search for processes by name under an ancestor: process_find,       *)
(* pglance_init and process_next of src/src/proc.c, while the processes    *)
(* of the system start, exit and change parents.                           *)
(*                                                                         *)
(* process_info is one step here: it reads the parent of a process that is *)
(* there and fails for one that is not.  It may also fail for one that is  *)
(* there, for want of memory, of a descriptor or by a failed read; and it  *)
(* may come short: it reads less of the command line than there was a      *)
(* moment ago, answers 0, for no error was set, and leaves neither name    *)
(* nor parent.  An exit in the middle of a call comes, for the model, just *)
(* after one that came short and just before one that fails.  Which names  *)
(* match is a set of pids; a process that takes over a pid may or may not  *)
(* match.                                                                  *)
(*                                                                         *)
(* Left out: the release of the glance, the text of the names, and names   *)
(* of kernel threads.                                                      *)
(***************************************************************************)
EXTENDS Naturals, Sequences

CONSTANTS Last,       \* bound: the last pid
          underId,    \* the ancestor, 0 for any
          Exits,      \* bound: processes that exit during the search
          Forks,      \* bound: processes that start during the search
          AllocErrors, \* bound: failures of add_node
          InfoErrors  \* bound: calls of process_info that fail or come short
                      \* although the process is there

ASSUME LastAssumption == Last \in Nat /\ Last > 0
ASSUME UnderAssumption == underId \in 0..Last
ASSUME BoundAssumption ==
  Exits \in Nat /\ Forks \in Nat /\ AllocErrors \in Nat /\ InfoErrors \in Nat

Pid == 1..Last

VARIABLES
  alive,  \* the processes there are
  ppid,   \* their parents; 0 is the kernel
  named,  \* the processes that match the name
  pc,     \* where the search stands
  pids,   \* glance->nodes: what was found in /proc
  cursor, \* the next entry of /proc
  focus,  \* glance->nodes.focus, from 1 here
  parent, \* glance->process.parent: the next process to read
  found,  \* the result
  exits, forks, allocErrors, infoErrors, \* events still to come
  steady, \* history: processes under underId that nothing has happened to, nor
          \* to their ancestors, since the search began
  seen,   \* history: processes that were under underId at some time
  gone,   \* history: the pids of processes that exited
  reused  \* history: some pid was given out again

vars == <<alive, ppid, named, pc, pids, cursor, focus, parent, found,
          exits, forks, allocErrors, infoErrors, steady, seen, gone, reused>>

system == <<alive, ppid, named, exits, forks, steady, seen, gone, reused>>

\* With a process, L has its parent.
Closed(pp, L) == \A q \in L \ {0} : pp[q] \in L

\* p and its ancestors, and 0 where the line ends: what is in every closed set
\* that p is in.
Line(pp, p) ==
  {q \in 0..Last : \A L \in SUBSET (0..Last) : p \in L /\ Closed(pp, L) => q \in L}

\* The processes of live that have underId for an ancestor.
Under(live, pp) ==
  {p \in live : \E q \in Line(pp, p) \ {0} : pp[q] = underId}

SystemTypeOK ==
  /\ alive \subseteq Pid
  /\ ppid \in [Pid -> 0..Last]
  /\ named \subseteq Pid
  /\ exits \in 0..Exits
  /\ forks \in 0..Forks
  /\ steady \subseteq seen
  /\ seen \subseteq Pid
  /\ gone \subseteq Pid
  /\ reused \in BOOLEAN

SearchTypeOK ==
  /\ pc \in {"readdir", "next", "climb", "again", "add", "done"}
  /\ pids \in Seq(Pid)
  /\ cursor \in 1..Last + 1
  /\ focus \in 1..Len(pids) + 1
  /\ parent \in 0..Last
  /\ found \in Seq(Pid)
  /\ allocErrors \in 0..AllocErrors
  /\ infoErrors \in 0..InfoErrors

TypeOK == SystemTypeOK /\ SearchTypeOK

\* pid 1 is always there, a process is younger than its parent, and pid 2
\* may be a second root, as the threads of the kernel have.
Init ==
  /\ alive \in {s \in SUBSET Pid : 1 \in s}
  /\ ppid \in {f \in [Pid -> 0..Last] :
       \A p \in Pid :
         IF p \in alive
         THEN f[p] < p /\ f[p] \in alive \cup {0} /\ (f[p] = 0 => p <= 2)
         ELSE f[p] = 0}
  /\ named \in SUBSET alive
  /\ pc = "readdir" /\ pids = <<>> /\ cursor = 1 /\ focus = 1
  /\ parent = 0 /\ found = <<>>
  /\ exits = Exits /\ forks = Forks
  /\ allocErrors = AllocErrors /\ infoErrors = InfoErrors
  /\ steady = Under(alive, ppid) /\ seen = steady
  /\ gone = {} /\ reused = FALSE

-----------------------------------------------------------------------------
\* The system.

\* The children of a process that exits become children of pid 1.
Exit(x) ==
  /\ exits > 0 /\ exits' = exits - 1
  /\ x \in alive \ {1}
  /\ alive' = alive \ {x}
  /\ ppid' = [p \in Pid |-> IF p = x THEN 0
                            ELSE IF ppid[p] = x THEN 1 ELSE ppid[p]]
  /\ steady' = {p \in steady : x \notin Line(ppid, p)}
  /\ seen' = seen \cup Under(alive', ppid')
  /\ gone' = gone \cup {x}
  /\ UNCHANGED <<named, forks, reused>>

Fork(p, q) ==
  /\ forks > 0 /\ forks' = forks - 1
  /\ p \in Pid \ alive /\ q \in alive
  /\ alive' = alive \cup {p}
  /\ ppid' = [ppid EXCEPT ![p] = q]
  /\ named' \in {named \ {p}, named \cup {p}}
  /\ seen' = seen \cup Under(alive', ppid')
  /\ reused' = (reused \/ p \in gone)
  /\ UNCHANGED <<exits, steady, gone>>

System ==
  /\ \E p \in Pid : Exit(p) \/ \E q \in Pid : Fork(p, q)
  /\ UNCHANGED <<pc, pids, cursor, focus, parent, found, allocErrors, infoErrors>>

-----------------------------------------------------------------------------
\* pglance_init: /proc is read entry by entry.
Readdir ==
  /\ pc = "readdir" /\ cursor <= Last
  /\ cursor' = cursor + 1
  /\ pids' = IF cursor \in alive THEN Append(pids, cursor) ELSE pids
  /\ UNCHANGED <<system, pc, focus, parent, found, allocErrors, infoErrors>>

\* The list is complete, or add_node failed and it is taken as it is; an empty
\* one is EPERM.
ReaddirEnds ==
  /\ pc = "readdir"
  /\ \/ cursor > Last /\ UNCHANGED allocErrors
     \/ /\ cursor \in alive
        /\ allocErrors > 0 /\ allocErrors' = allocErrors - 1
  /\ pc' = IF pids = <<>> THEN "done" ELSE "next"
  /\ UNCHANGED <<system, pids, cursor, focus, parent, found, infoErrors>>

\* Mutant: the place in the list is moved on as the pid is taken, too.
NextPidMoves ==
  /\ pc = "next"
  /\ IF focus <= Len(pids)
     THEN pc' = "climb" /\ parent' = pids[focus] /\ focus' = focus + 1
     ELSE pc' = "done" /\ UNCHANGED <<parent, focus>>
  /\ UNCHANGED <<system, pids, cursor, found, allocErrors, infoErrors>>

\* process_next: the next of the list, or ENODATA at its end.
NextPid ==
  /\ pc = "next"
  /\ IF focus <= Len(pids)
     THEN pc' = "climb" /\ parent' = pids[focus]
     ELSE pc' = "done" /\ UNCHANGED parent
  /\ UNCHANGED <<system, pids, cursor, focus, found, allocErrors, infoErrors>>

\* process_info answers no parent: it fails, which ends the search where it is,
\* or comes short, which is the end of the climb.
NoParent ==
  /\ parent' = 0
  /\ \/ parent \notin alive /\ pc' = "done" /\ UNCHANGED <<focus, infoErrors>>
     \/ /\ parent \in alive /\ infoErrors > 0 /\ infoErrors' = infoErrors - 1
        /\ \/ pc' = "done" /\ UNCHANGED focus
           \/ pc' = "next" /\ focus' = focus + 1

\* It answers the parent of the process.
Parent == parent \in alive /\ parent' = ppid[parent] /\ UNCHANGED infoErrors

\* Mutant: only the process itself is asked for its parent.
ClimbOnce ==
  /\ pc = "climb"
  /\ \/ NoParent
     \/ /\ Parent /\ pc' = IF parent' = underId THEN "again" ELSE "next"
        /\ focus' = focus + 1
  /\ UNCHANGED <<system, pids, cursor, found, allocErrors>>

\* Mutant: the climb that met no ancestor is taken for one that did.
ClimbAny ==
  /\ pc = "climb"
  /\ \/ NoParent
     \/ Parent /\ parent' \in {0, underId} /\ pc' = "again" /\ focus' = focus + 1
     \/ Parent /\ parent' \notin {0, underId} /\ UNCHANGED <<pc, focus>>
  /\ UNCHANGED <<system, pids, cursor, found, allocErrors>>

\* Mutant: neither a failure nor the end of the line is looked for.
ClimbOn ==
  /\ pc = "climb"
  /\ \/ Parent /\ parent' = underId /\ pc' = "again" /\ focus' = focus + 1
     \/ Parent /\ parent' # underId /\ UNCHANGED <<pc, focus>>
     \/ parent \notin alive /\ UNCHANGED <<pc, focus, parent, infoErrors>>
  /\ UNCHANGED <<system, pids, cursor, found, allocErrors>>

\* One process_info on the way up from the process in focus: the process is one
\* if its parent is underId, and it is not if there is no parent left.
Climb ==
  /\ pc = "climb"
  /\ \/ NoParent
     \/ Parent /\ parent' = underId /\ pc' = "again" /\ focus' = focus + 1
     \/ /\ Parent /\ parent' # underId /\ parent' = 0
        /\ pc' = "next" /\ focus' = focus + 1
     \/ Parent /\ parent' # underId /\ parent' > 0 /\ UNCHANGED <<pc, focus>>
  /\ UNCHANGED <<system, pids, cursor, found, allocErrors>>

\* The process itself is read again, for its name; where that comes short only
\* what there is of the command line can match.
Again ==
  /\ pc = "again"
  /\ LET pid == pids[focus - 1] IN
     \/ /\ pid \in alive /\ parent' = ppid[pid]
        /\ pc' = IF pid \in named THEN "add" ELSE "next"
        /\ UNCHANGED infoErrors
     \/ pid \notin alive /\ parent' = 0 /\ pc' = "done" /\ UNCHANGED infoErrors
     \/ /\ pid \in alive /\ infoErrors > 0 /\ infoErrors' = infoErrors - 1
        /\ parent' = 0 /\ pc' \in {"add", "next", "done"}
  /\ UNCHANGED <<system, pids, cursor, focus, found, allocErrors>>

\* Mutant: the last process of the climb is recorded.
AddParent ==
  /\ pc = "add"
  /\ \/ /\ found' = Append(found, IF parent = 0 THEN 1 ELSE parent)
        /\ pc' = "next" /\ UNCHANGED allocErrors
     \/ /\ allocErrors > 0 /\ allocErrors' = allocErrors - 1
        /\ pc' = "done" /\ UNCHANGED found
  /\ UNCHANGED <<system, pids, cursor, focus, parent, infoErrors>>

\* process_find records the match; where there is no memory it ends.
Add ==
  /\ pc = "add"
  /\ \/ /\ found' = Append(found, pids[focus - 1])
        /\ pc' = "next" /\ UNCHANGED allocErrors
     \/ /\ allocErrors > 0 /\ allocErrors' = allocErrors - 1
        /\ pc' = "done" /\ UNCHANGED found
  /\ UNCHANGED <<system, pids, cursor, focus, parent, infoErrors>>

-----------------------------------------------------------------------------
Search == Readdir \/ ReaddirEnds \/ NextPid \/ Climb \/ Again \/ Add

Done == pc = "done" /\ UNCHANGED vars

Next == System \/ Search \/ Done

Spec == Init /\ [][Next]_vars

\* The search is one thread that never waits.
FairSpec == Spec /\ WF_vars(Search)

-----------------------------------------------------------------------------
Found == {found[i] : i \in 1..Len(found)}

\* What is found was under underId at some time of the search, unless a pid
\* was given out again in the middle of the climb.
Sound == ~reused => Found \subseteq seen

\* Nothing is found twice, whatever starts and exits.
FoundOnce == \A i, j \in 1..Len(found) : i < j => found[i] < found[j]

\* A search that got to the end of its list, where memory did not run out and
\* no call of process_info failed or came short, has missed no match that it
\* should have found: none that was under underId all the time, whatever else
\* starts and exits.
Complete ==
  /\ pc = "done" /\ focus > Len(pids)
  /\ allocErrors = AllocErrors /\ infoErrors = InfoErrors
  => steady \cap named \subseteq Found

\* The search ends.
Ends == <>(pc = "done")
=============================================================================
