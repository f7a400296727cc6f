---------------------------- MODULE ProcessWatch ----------------------------
(***************************************************************************)
(* One process_t, the thread that fills and clears it, and the threads     *)
(* that watch for the exit of its target: process_info, process_term and   *)
(* process__wait4exit of src/src/proc.c.                                   *)
(*                                                                         *)
(* The threads share the structure without a lock and nobody joins a       *)
(* watcher, so every access to path, exited and thread.active is a step.   *)
(* process_info with hook set starts a watcher; the flag that says so is   *)
(* raised by the watcher itself, some time later.                          *)
(*                                                                         *)
(* Left out: hooked and paused, which stay 0 in every call sequence here,  *)
(* and the text fields, which only the filling thread uses.                *)
(***************************************************************************)
EXTENDS Naturals

CONSTANTS Pid,    \* processes that can be targets
          NONE,   \* the empty path
          Watcher \* bound: watchers that can run at a time

ASSUME NoneAssumption == NONE \notin Pid

VARIABLES
  alive,   \* the entries of /proc; a pid that is gone may be given out again
  owner,   \* what the thread that owns the handle does next
  target,  \* the pid given to the process_info under way
  path,    \* process->path, by the pid in it
  active,  \* process->thread.active
  exited,  \* process->exited
  watcher, \* where each process__wait4exit stands; "ended" if it does not run
  clean,   \* history: no watcher ran when the handle was last filled
  died     \* history: the target was gone at some time since

vars == <<alive, owner, target, path, active, exited, watcher, clean, died>>

handle == <<path, active, exited>>
history == <<clean, died>>

\* Between two calls the owner is "idle", in process_term it is at "release".
Filling == {"reset", "fill", "path", "read", "create"}

TypeOK ==
  /\ alive \in [Pid -> BOOLEAN]
  /\ owner \in {"idle", "release"} \cup Filling
  /\ target \in Pid \cup {NONE}
  /\ owner \in Filling => target \in Pid
  /\ path \in Pid \cup {NONE}
  /\ active \in BOOLEAN
  /\ exited \in BOOLEAN
  /\ watcher \in [Watcher -> {"start", "test", "look", "gone", "clear", "ended"}]
  /\ clean \in BOOLEAN
  /\ died \in BOOLEAN

Running(w) == watcher[w] # "ended"

\* process__init.
Init ==
  /\ alive \in [Pid -> BOOLEAN]
  /\ owner = "idle" /\ target = NONE
  /\ path = NONE /\ active = FALSE /\ exited = FALSE
  /\ watcher = [w \in Watcher |-> "ended"]
  /\ clean = TRUE /\ died = FALSE

-----------------------------------------------------------------------------
\* The processes of the system.

Exit(p) ==
  /\ alive[p]
  /\ alive' = [alive EXCEPT ![p] = FALSE]
  /\ died' = (died \/ p = path)
  /\ UNCHANGED <<owner, target, handle, watcher, clean>>

Fork(p) ==
  /\ ~alive[p]
  /\ alive' = [alive EXCEPT ![p] = TRUE]
  /\ UNCHANGED <<owner, target, handle, watcher, history>>

-----------------------------------------------------------------------------
\* process_info.

\* Mutant: the pid is not stored.
InfoCallUnset(p) ==
  /\ owner = "idle" /\ ~active
  /\ owner' = "reset"
  /\ UNCHANGED <<alive, target, handle, watcher, history>>

\* A handle whose watcher has raised its flag is refused with EBUSY.
InfoCall(p) ==
  /\ owner = "idle" /\ ~active
  /\ owner' = "reset"
  /\ target' = p
  /\ UNCHANGED <<alive, handle, watcher, history>>

\* The thread member is zeroed.
InfoReset ==
  /\ owner = "reset"
  /\ active' = FALSE
  /\ owner' = "fill"
  /\ UNCHANGED <<alive, target, path, exited, watcher, history>>

\* Mutant: exited is left as it was.
InfoKeepsExited ==
  /\ owner = "fill"
  /\ clean' = \A w \in Watcher : ~Running(w)
  /\ owner' = "path"
  /\ UNCHANGED <<alive, target, handle, watcher, died>>

InfoFill ==
  /\ owner = "fill"
  /\ exited' = FALSE
  /\ clean' = \A w \in Watcher : ~Running(w)
  /\ owner' = "path"
  /\ UNCHANGED <<alive, target, path, active, watcher, died>>

InfoPath ==
  /\ owner = "path"
  /\ path' = target
  /\ died' = ~alive[target]
  /\ owner' = "read"
  /\ UNCHANGED <<alive, target, active, exited, watcher, clean>>

\* The files of the target are read: never once it is gone, and not always
\* while it is there.  What was filled in stays.
InfoRead ==
  /\ owner = "read"
  /\ \/ owner' = "idle"
     \/ alive[target] /\ owner' = "create"
  /\ UNCHANGED <<alive, target, handle, watcher, history>>

\* With hook the watcher is created, which may fail; without, that is all.
InfoCreate ==
  /\ owner = "create"
  /\ owner' = "idle"
  /\ \/ UNCHANGED watcher
     \/ \E w \in Watcher : /\ ~Running(w)
                           /\ watcher' = [watcher EXCEPT ![w] = "start"]
  /\ UNCHANGED <<alive, target, handle, history>>

-----------------------------------------------------------------------------
\* process_term.

TermFlag ==
  /\ owner = "idle"
  /\ active' = FALSE
  /\ owner' = "release"
  /\ UNCHANGED <<alive, target, path, exited, watcher, history>>

\* Mutant: process__init is not called.
TermKeeps ==
  /\ owner = "release"
  /\ owner' = "idle"
  /\ UNCHANGED <<alive, target, handle, watcher, history>>

TermInit ==
  /\ owner = "release"
  /\ path' = NONE /\ active' = FALSE /\ exited' = FALSE
  /\ owner' = "idle"
  /\ UNCHANGED <<alive, target, watcher, history>>

-----------------------------------------------------------------------------
\* process__wait4exit.

\* Mutant: the flag is expected to be raised already.
StartUnraised(w) ==
  /\ watcher[w] = "start"
  /\ watcher' = [watcher EXCEPT ![w] = "test"]
  /\ UNCHANGED <<alive, owner, target, handle, history>>

Start(w) ==
  /\ watcher[w] = "start"
  /\ active' = TRUE
  /\ watcher' = [watcher EXCEPT ![w] = "test"]
  /\ UNCHANGED <<alive, owner, target, path, exited, history>>

Test(w) ==
  /\ watcher[w] = "test"
  /\ watcher' = [watcher EXCEPT ![w] = IF active THEN "look" ELSE "ended"]
  /\ UNCHANGED <<alive, owner, target, handle, history>>

\* Mutant: a handle without a path is taken for one whose target is there.
LookTrusts(w) ==
  /\ watcher[w] = "look"
  /\ watcher' = [watcher EXCEPT ![w] =
       IF path \in Pid => alive[path] THEN "test" ELSE "gone"]
  /\ UNCHANGED <<alive, owner, target, handle, history>>

\* access fails on an empty path as it does on one that is gone.
Look(w) ==
  /\ watcher[w] = "look"
  /\ watcher' = [watcher EXCEPT ![w] =
       IF path \in Pid /\ alive[path] THEN "test" ELSE "gone"]
  /\ UNCHANGED <<alive, owner, target, handle, history>>

SayExited(w) ==
  /\ watcher[w] = "gone"
  /\ exited' = TRUE
  /\ watcher' = [watcher EXCEPT ![w] = "clear"]
  /\ UNCHANGED <<alive, owner, target, path, active, history>>

ClearActive(w) ==
  /\ watcher[w] = "clear"
  /\ active' = FALSE
  /\ watcher' = [watcher EXCEPT ![w] = "test"]
  /\ UNCHANGED <<alive, owner, target, path, exited, history>>

-----------------------------------------------------------------------------
System == \E p \in Pid : Exit(p) \/ Fork(p)

Owner ==
  \/ \E p \in Pid : InfoCall(p)
  \/ InfoReset \/ InfoFill \/ InfoPath \/ InfoRead \/ InfoCreate
  \/ TermFlag \/ TermInit

Watch(w) == Start(w) \/ Test(w) \/ Look(w) \/ SayExited(w) \/ ClearActive(w)

Next == System \/ Owner \/ \E w \in Watcher : Watch(w)

Spec == Init /\ [][Next]_vars

\* A watcher never blocks, so it is only a matter of time until it goes on.
FairSpec == Spec /\ \A w \in Watcher : WF_vars(Watch(w))

-----------------------------------------------------------------------------
\* A handle that was filled while no watcher ran says that its target exited
\* only if it did: the flag is not left over from the target before, and no
\* other watcher raises it.
NoFalseExit == clean /\ exited /\ path # NONE => died

\* Nobody takes the flag down behind the back of the one watcher of such a
\* handle: it watches, or it has said that the target is gone.
WatchKept ==
  \A w \in Watcher :
    clean /\ owner = "idle" /\ path # NONE /\ Running(w) /\ watcher[w] # "start"
      => active \/ exited

\* The exit of the target of such a handle is noticed, unless the pid is given
\* out again between two looks or the owner calls.
ExitIsNoticed ==
  \A w \in Watcher :
    (clean /\ owner = "idle" /\ path \in Pid /\ ~alive[path] /\ Running(w))
      ~> (exited \/ owner # "idle" \/ \E p \in Pid : p = path /\ alive[p])

\* A handle that was cleared and is left alone has no watcher in the end, also
\* where one had been created and had not yet raised its flag.
TermEndsWatching ==
  \A w \in Watcher :
    (owner = "idle" /\ path = NONE) ~> (~Running(w) \/ owner # "idle")
=============================================================================
