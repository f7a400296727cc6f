--------------------------- MODULE ProcessHandle ---------------------------
(***************************************************************************)
(* One process_t, the process it stands for, and the kernel between them:  *)
(* process_stop, process_cont, process_grab, process_free, process_info,   *)
(* process_term, pglance_data and pchange_data of src/src/proc.c.          *)
(*                                                                         *)
(* The kernel is external: ptrace, kill, waitpid and the delivery of       *)
(* signals, as far as these calls can tell.  A process that is traced is   *)
(* trapped by the first signal it gets and stays so until it is let go.    *)
(* A traced process that died keeps its pid until it has been waited for.  *)
(*                                                                         *)
(* Left out: the watcher (ProcessWatch), handles of gasp's own process,    *)
(* which ptrace refuses, and what is read or written.                      *)
(***************************************************************************)
EXTENDS Naturals

CONSTANTS Pid,   \* pids
          NONE,  \* no pid
          Others \* bound: signals sent to a process by someone else

ASSUME NoneAssumption == NONE \notin Pid
ASSUME OthersAssumption == Others \in Nat

VARIABLES
  \* the kernel
  alive,   \* the processes there are
  traced,  \* those that gasp traces, dead ones not yet waited for included
  trap,    \* those in a ptrace stop
  halted,  \* those stopped by SIGSTOP
  pending, \* the signals each has still to take
  news,    \* those of which waitpid has something to say
  others,  \* signals of someone else still to come
  \* the handle
  pid, known, hooked, paused,
  \* its owner
  call,    \* the call under way, "none" between two
  pc       \* where it stands

kernel == <<alive, traced, trap, halted, pending, news, others>>
handle == <<pid, known, hooked, paused>>
owner == <<call, pc>>
vars == <<kernel, handle, owner>>

Signal == {"STOP", "OTHER"}

TypeOK ==
  /\ alive \subseteq Pid /\ traced \subseteq Pid /\ news \subseteq Pid
  /\ trap \subseteq Pid /\ halted \subseteq Pid
  /\ pending \in [Pid -> SUBSET Signal]
  /\ others \in 0..Others
  /\ pid \in Pid \cup {NONE}
  /\ known \in BOOLEAN /\ hooked \in BOOLEAN
  /\ paused \in BOOLEAN
  /\ call \in {"none", "grab", "stop", "glance", "change", "term"}
  /\ pc \in {"idle", "grab", "stop", "access", "free", "cont", "init"}
  /\ known => pid \in Pid
  /\ hooked => known
  /\ pc \in {"grab", "stop", "access"} => known

Init ==
  /\ alive \in SUBSET Pid
  /\ traced = {} /\ trap = {} /\ halted = {} /\ news = {}
  /\ pending = [p \in Pid |-> {}]
  /\ others = Others
  /\ pid = NONE
  /\ known = FALSE /\ hooked = FALSE /\ paused = FALSE
  /\ call = "none" /\ pc = "idle"

-----------------------------------------------------------------------------
\* The kernel.

Start(p) ==
  /\ p \notin alive \cup traced
  /\ alive' = alive \cup {p}
  /\ UNCHANGED <<traced, trap, halted, pending, news, others, handle, owner>>

Die(p) ==
  /\ p \in alive
  /\ alive' = alive \ {p} /\ trap' = trap \ {p} /\ halted' = halted \ {p}
  /\ pending' = [pending EXCEPT ![p] = {}]
  /\ news' = IF p \in traced THEN news \cup {p} ELSE news
  /\ UNCHANGED <<traced, others, handle, owner>>

SendOther(p) ==
  /\ others > 0 /\ others' = others - 1
  /\ p \in alive
  /\ pending' = [pending EXCEPT ![p] = @ \cup {"OTHER"}]
  /\ UNCHANGED <<alive, traced, trap, halted, news, handle, owner>>

\* A signal reaches a process; its tracer, if it has one, sees it first.
Deliver(p, s) ==
  /\ p \in alive \ (trap \cup halted) /\ s \in pending[p]
  /\ pending' = [pending EXCEPT ![p] = @ \ {s}]
  /\ IF p \in traced
     THEN trap' = trap \cup {p} /\ news' = news \cup {p} /\ UNCHANGED halted
     ELSE /\ halted' = IF s = "STOP" THEN halted \cup {p} ELSE halted
          /\ UNCHANGED <<trap, news>>
  /\ UNCHANGED <<alive, traced, others, handle, owner>>

Kernel ==
  \E p \in Pid : \/ Start(p) \/ Die(p) \/ SendOther(p)
                 \/ \E s \in Signal : Deliver(p, s)

\* kill(pid, SIGSTOP)
SendStop ==
  pending' = IF pid \in alive THEN [pending EXCEPT ![pid] = @ \cup {"STOP"}]
                              ELSE pending

\* waitpid(pid): it takes the news, and has an error to say of a process that
\* is neither a child nor traced.
Wait ==
  \/ /\ pid \in news
     /\ news' = news \ {pid}
     /\ traced' = IF pid \in alive THEN traced ELSE traced \ {pid}
  \/ pid \notin traced /\ UNCHANGED <<news, traced>>

-----------------------------------------------------------------------------
\* process_test: 0 for a hooked handle, EINVAL for one that can be hooked.
Test == IF ~known THEN "incomplete" ELSE IF hooked THEN "0" ELSE "EINVAL"

\* Mutant: a handle that is hooked may be filled again.
InfoHooked(p) ==
  /\ pc = "idle"
  /\ pid' = p
  /\ hooked' = FALSE /\ paused' = FALSE
  /\ \/ p \in alive /\ known' = TRUE
     \/ UNCHANGED known
  /\ UNCHANGED <<kernel, owner>>

\* process_info leaves a handle that is hooked as it is.
Info(p) ==
  /\ pc = "idle" /\ Test # "0"
  /\ pid' = p
  /\ hooked' = FALSE /\ paused' = FALSE
  /\ \/ p \in alive /\ known' = TRUE
     \/ UNCHANGED known
  /\ UNCHANGED <<kernel, owner>>

\* process_grab: PTRACE_ATTACH sends SIGSTOP, and traps a stopped process.
Grab ==
  /\ pc = "idle" /\ Test = "EINVAL"
  /\ pid \in alive \ traced
  /\ traced' = traced \cup {pid}
  /\ SendStop
  /\ IF pid \in halted THEN trap' = trap \cup {pid} /\ news' = news \cup {pid}
                       ELSE UNCHANGED <<trap, news>>
  /\ call' = "grab" /\ pc' = "grab"
  /\ UNCHANGED <<alive, halted, others, handle>>

\* Mutant: the handle is hooked without waiting for the target to stop.
GrabAtOnce ==
  /\ pc = "grab"
  /\ hooked' = TRUE
  /\ call' = "none" /\ pc' = "idle"
  /\ UNCHANGED <<kernel, pid, known, paused>>

\* Mutant: only a stop by SIGSTOP is waited for, and the target may have died.
GrabStopped ==
  /\ pc = "grab" /\ Wait /\ pid \in alive
  /\ hooked' = TRUE
  /\ call' = "none" /\ pc' = "idle"
  /\ UNCHANGED <<alive, trap, halted, pending, others,
                 pid, known, paused>>

\* Whatever is the news of the target, it counts as the stop.
GrabWait ==
  /\ pc = "grab" /\ Wait
  /\ hooked' = TRUE
  /\ call' = "none" /\ pc' = "idle"
  /\ UNCHANGED <<alive, trap, halted, pending, others,
                 pid, known, paused>>

\* process_stop, called as it is or by pglance_data and pchange_data, all of
\* which want a handle that is hooked.
Stop ==
  /\ pc = "idle" /\ Test = "0"
  /\ SendStop
  /\ call' \in {"stop", "glance", "change"} /\ pc' = "stop"
  /\ UNCHANGED <<alive, traced, trap, halted, news, others, handle>>

StopWait ==
  /\ pc = "stop" /\ Wait
  /\ paused' = TRUE
  /\ IF call = "stop" THEN pc' = "idle" /\ call' = "none"
                      ELSE pc' = "access" /\ UNCHANGED call
  /\ UNCHANGED <<alive, trap, halted, pending, others,
                 pid, known, hooked>>

\* process_grab finds the handle hooked, and the ways to the memory are tried in
\* order until one answers; whatever that is, the target is let go.
Access ==
  /\ pc = "access" /\ pc' = "free"
  /\ UNCHANGED <<kernel, handle, call>>

\* process_free, called as it is, at the end of an access or by process_term.
\* PTRACE_DETACH fails for a process that is gone.
Free ==
  /\ \/ pc = "idle" /\ UNCHANGED <<call, pc>>
     \/ pc = "idle" /\ call' = "term" /\ pc' = "cont"
     \/ pc = "free" /\ UNCHANGED call /\ pc' = "cont"
  /\ IF Test = "0" /\ pid \in trap
     THEN traced' = traced \ {pid} /\ trap' = trap \ {pid} /\ hooked' = FALSE
     ELSE UNCHANGED <<traced, trap, hooked>>
  /\ UNCHANGED <<alive, halted, pending, news, others,
                 pid, known, paused>>

\* kill(pid, SIGCONT)
SendCont ==
  /\ halted' = halted \ {pid}
  /\ pending' = IF pid \in alive THEN [pending EXCEPT ![pid] = @ \ {"STOP"}]
                                 ELSE pending

\* Mutant: process_cont only lowers paused.
ContSilent ==
  /\ \/ pc = "idle" /\ UNCHANGED <<call, pc>>
     \/ pc = "cont" /\ call = "term" /\ pc' = "init" /\ UNCHANGED call
     \/ pc = "cont" /\ call # "term" /\ pc' = "idle" /\ call' = "none"
  /\ paused' = FALSE
  /\ UNCHANGED <<kernel, pid, known, hooked>>

\* process_cont, called as it is, or after process_free; only a handle that is
\* still hooked sends anything.
Cont ==
  /\ \/ pc = "idle" /\ UNCHANGED <<call, pc>>
     \/ pc = "cont" /\ call = "term" /\ pc' = "init" /\ UNCHANGED call
     \/ pc = "cont" /\ call # "term" /\ pc' = "idle" /\ call' = "none"
  /\ IF Test = "0" /\ paused THEN SendCont /\ paused' = FALSE
                            ELSE UNCHANGED <<halted, pending, paused>>
  /\ UNCHANGED <<alive, traced, trap, news, others,
                 pid, known, hooked>>

\* Mutant: hooked and paused are not cleared with the rest.
TermInitHalf ==
  /\ pc = "init"
  /\ pid' = NONE
  /\ known' = FALSE
  /\ call' = "none" /\ pc' = "idle"
  /\ UNCHANGED <<kernel, hooked, paused>>

\* The end of process_term.
TermInit ==
  /\ pc = "init"
  /\ pid' = NONE
  /\ known' = FALSE /\ hooked' = FALSE /\ paused' = FALSE
  /\ call' = "none" /\ pc' = "idle"
  /\ UNCHANGED <<kernel>>

-----------------------------------------------------------------------------
Owner ==
  \/ \E p \in Pid : Info(p)
  \/ Grab \/ GrabWait \/ Stop \/ StopWait \/ Access \/ Free \/ Cont \/ TermInit

Next == Kernel \/ Owner

Spec == Init /\ [][Next]_vars

\* A call goes on when it can, and a signal is delivered in the end.
FairSpec ==
  /\ Spec
  /\ WF_vars(pc # "idle" /\ Owner)
  /\ \A p \in Pid, s \in Signal : WF_vars(Deliver(p, s))

-----------------------------------------------------------------------------
\* No process is left traced, which would keep it stopped and refuse it to
\* every other tracer: what gasp traces is the process of the handle, and the
\* handle says so.
NoLeakedTrace == \A p \in traced \cap alive : p = pid /\ (hooked \/ pc = "grab")

\* The target of a hooked handle does not run.
HeldStill == hooked /\ pid \in traced \cap alive => pid \in trap

\* What gasp stopped is stopped no more, nor about to stop, once the handle is
\* not hooked: not the target, and not a process that got its pid.
Undisturbed ==
  pc = "idle" /\ ~hooked =>
    halted = {} /\ \A p \in Pid : "STOP" \notin pending[p]

\* So it is, as long as nobody but gasp sends signals to a process.
LeftRunning == others = Others => Undisturbed

\* process_grab returns: the target stops, or dies.
GrabReturns == pc = "grab" ~> pc = "idle"

\* A read or a write ends, and what was stopped for it goes on: "Detatch and
\* ensure continued activity".
GlanceReturns == call = "glance" ~> pc = "idle"
=============================================================================
