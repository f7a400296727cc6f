----------------------------- MODULE ScanThread -----------------------------
(***************************************************************************)
(* A scan in its thread: process_dumper, process_dump, process_aobscan and *)
(* the signals it takes over a pair of pipes, gasp_thread_should_die of    *)
(* src/src/proc.c.                                                         *)
(*                                                                         *)
(* The owner of the scan is external: it stops a scan with STOP and waits  *)
(* to be told CONT, lets it go on with CONT, and ends it with KILL.        *)
(*                                                                         *)
(* Memory is counted in half buffers (DUMP_LOC_NODE_HALF).  pglance_data   *)
(* is taken to return: it reads some of what was asked, or nothing, or     *)
(* fails.  A signal that poll reports to a stopped thread is read, since   *)
(* the owner keeps its ends open and nobody else reads the pipe.           *)
(*                                                                         *)
(* Left out: the first dump of a tscan_t that has scans done already,      *)
(* whose list of mappings is an uninitialised pointer; addresses of        *)
(* mappings, for which their positions in the list stand; the values.      *)
(***************************************************************************)
EXTENDS Naturals, Sequences, FiniteSets

CONSTANTS Lists,       \* the lists of mappings in range, by their sizes
          PollErrors,  \* bound: failing polls for a signal
          AnswerErrors, \* bound: answers that do not get into the pipe
          Failures,    \* bound: failures to set up a dump or a scan
          WriteErrors, \* bound: failing writes to the dump files
          ReadErrors,  \* bound: failing reads of the target
          EmptyReads   \* bound: reads of nothing

ASSUME ListsAssumption == Lists \subseteq Seq(Nat \ {0})
ASSUME BoundAssumption ==
  /\ PollErrors \in Nat /\ AnswerErrors \in Nat
  /\ Failures \in Nat /\ WriteErrors \in Nat
  /\ ReadErrors \in Nat /\ EmptyReads \in Nat

VARIABLES
  owner,      \* what the owner does with the scan
  scanPipe,   \* signals on their way to the thread
  mainPipe,   \* signals on their way to the owner
  pc,         \* where the thread stands
  maps,       \* dump->nodes, the sizes of the mappings
  focus,      \* dump->nodes->focus, from 1 here
  bytes,      \* how much of the mapping in focus was dumped
  got,        \* what the last read of the target gave
  dataFile,   \* dump->data.fd: of each half buffer, mapping and place in it
  usedFile,   \* dump->used.fd: its length
  threadmade, dumping, scanning, \* of tscan_t
  pollErrors, answerErrors, failures, writeErrors, readErrors,
  emptyReads  \* still to come

pipes == <<scanPipe, mainPipe, answerErrors>>
files == <<dataFile, usedFile>>
flags == <<threadmade, dumping, scanning>>
place == <<maps, focus, bytes, got>>
bounds == <<failures, writeErrors, readErrors, emptyReads>>
vars == <<owner, pipes, pc, place, files, flags, pollErrors, bounds>>

Signal == {"STOP", "CONT", "KILL"}

\* Half buffers in a buffer (DUMP_LOC_NODE_SIZE).
Buffer == 2

AtWork == {"begin", "setup", "dump", "check", "glance", "data", "used", "info",
           "reset", "recheck", "stored"}

TypeOK ==
  /\ owner \in {"idle", "stopping", "paused", "killing", "told"}
  /\ scanPipe \in Seq(Signal) /\ mainPipe \in Seq({"CONT"})
  /\ pc \in AtWork \cup {"held", "cancel", "finish", "clear", "failed", "ended"}
  /\ maps \in Seq(Nat)
  /\ focus \in 1..Len(maps) + 1
  /\ focus <= Len(maps) => bytes \in 0..maps[focus]
  /\ got \in 0..Buffer
  /\ dataFile \in Seq((1..Len(maps)) \X Nat) /\ usedFile \in Nat
  /\ threadmade \in BOOLEAN /\ dumping \in BOOLEAN /\ scanning \in BOOLEAN
  /\ ~(dumping /\ scanning)
  /\ pollErrors \in 0..PollErrors /\ answerErrors \in 0..AnswerErrors
  /\ failures \in 0..Failures /\ writeErrors \in 0..WriteErrors
  /\ readErrors \in 0..ReadErrors /\ emptyReads \in 0..EmptyReads

Init ==
  /\ owner = "idle" /\ scanPipe = <<>> /\ mainPipe = <<>>
  /\ pc = "begin"
  /\ maps = <<>> /\ focus = 1 /\ bytes = 0 /\ got = 0
  /\ dataFile = <<>> /\ usedFile = 0
  /\ threadmade = FALSE /\ dumping = FALSE /\ scanning = FALSE
  /\ pollErrors = PollErrors /\ answerErrors = AnswerErrors
  /\ failures = Failures /\ writeErrors = WriteErrors
  /\ readErrors = ReadErrors /\ emptyReads = EmptyReads

-----------------------------------------------------------------------------
\* The owner.

Tell(s) ==
  scanPipe' = Append(scanPipe, s) /\ UNCHANGED <<mainPipe, answerErrors>>
Told ==
  /\ mainPipe # <<>> /\ mainPipe' = Tail(mainPipe)
  /\ UNCHANGED <<scanPipe, answerErrors>>

OwnerStops == owner = "idle" /\ Tell("STOP") /\ owner' = "stopping"
OwnerIsTold == owner = "stopping" /\ Told /\ owner' = "paused"
OwnerContinues == owner = "paused" /\ Tell("CONT") /\ owner' = "idle"
OwnerKills == owner \in {"idle", "paused"} /\ Tell("KILL") /\ owner' = "killing"
OwnerSeesEnd == owner = "idle" /\ Told /\ owner' = "told"

Owner ==
  /\ \/ OwnerStops \/ OwnerIsTold \/ OwnerContinues \/ OwnerKills \/ OwnerSeesEnd
  /\ UNCHANGED <<pc, place, files, flags, pollErrors, bounds>>

-----------------------------------------------------------------------------
\* gasp_thread_should_die.

Take == scanPipe' = Tail(scanPipe)

\* gasp_tpollo answers 1 also where there is no pipe, the poll fails or the write
\* does: the thread takes the answer for given.
Answer ==
  \/ mainPipe' = Append(mainPipe, "CONT") /\ UNCHANGED answerErrors
  \/ /\ answerErrors > 0 /\ answerErrors' = answerErrors - 1
     /\ UNCHANGED mainPipe

NoAnswer == UNCHANGED <<mainPipe, answerErrors>>

\* Mutant: CONT is answered, too.
ObeyEchoes(next) ==
  /\ scanPipe # <<>> /\ Take
  /\ \/ Head(scanPipe) = "KILL" /\ pc' = "cancel" /\ NoAnswer
     \/ Head(scanPipe) = "STOP" /\ pc' = "held" /\ Answer
     \/ Head(scanPipe) = "CONT" /\ pc' = next /\ Answer

\* Mutant: STOP is not answered.
ObeySilent(next) ==
  /\ scanPipe # <<>> /\ Take /\ NoAnswer
  /\ \/ Head(scanPipe) = "KILL" /\ pc' = "cancel"
     \/ Head(scanPipe) = "STOP" /\ pc' = "held"
     \/ Head(scanPipe) = "CONT" /\ pc' = next

\* A signal is obeyed; next is what the thread goes on with.
Obey(next) ==
  /\ scanPipe # <<>> /\ Take
  /\ \/ Head(scanPipe) = "KILL" /\ pc' = "cancel" /\ NoAnswer
     \/ Head(scanPipe) = "STOP" /\ pc' = "held" /\ Answer
     \/ Head(scanPipe) = "CONT" /\ pc' = next /\ NoAnswer

\* Mutant: a STOP is answered before it is obeyed.
CheckAnswers(next) ==
  /\ \/ Obey(next) /\ UNCHANGED pollErrors
     \/ /\ scanPipe # <<>> /\ Head(scanPipe) = "STOP"
        /\ Take /\ Answer /\ pc' = next /\ UNCHANGED pollErrors
     \/ scanPipe = <<>> /\ pc' = next /\ UNCHANGED <<pipes, pollErrors>>
  /\ UNCHANGED <<owner, place, files, flags, bounds>>

\* Between two buffers: no signal, and a poll or a read of the pipe that fails,
\* mean to go on.
Check(next) ==
  /\ \/ Obey(next) /\ UNCHANGED pollErrors
     \/ scanPipe = <<>> /\ pc' = next /\ UNCHANGED <<pipes, pollErrors>>
     \/ /\ pollErrors > 0 /\ pollErrors' = pollErrors - 1
        /\ pc' = next /\ UNCHANGED pipes
  /\ UNCHANGED <<owner, place, files, flags, bounds>>

DumpCheck == pc = "check" /\ Check("glance")

ScanCheck == pc = "recheck" /\ Check("stored")

\* Mutant: only CONT ends the wait of a stopped thread.
HeldDeaf ==
  /\ pc = "held"
  /\ scanPipe # <<>> /\ Take
  /\ pc' = IF Head(scanPipe) # "CONT" THEN "held"
           ELSE IF dumping THEN "glance" ELSE "stored"
  /\ UNCHANGED <<owner, mainPipe, answerErrors, place, files, flags, pollErrors,
                 bounds>>

\* A stopped thread waits for the next signal, answered or not; if the poll fails
\* it dies.
Held ==
  /\ pc = "held"
  /\ \/ Obey(IF dumping THEN "glance" ELSE "stored") /\ UNCHANGED pollErrors
     \/ /\ pollErrors > 0 /\ pollErrors' = pollErrors - 1
        /\ pc' = "cancel" /\ UNCHANGED pipes
  /\ UNCHANGED <<owner, place, files, flags, bounds>>

\* ECANCELED fails a dump; a scan it only ends.
Cancel ==
  /\ pc = "cancel"
  /\ pc' = IF dumping THEN "failed" ELSE "finish"
  /\ dumping' = FALSE /\ scanning' = FALSE
  /\ UNCHANGED <<owner, pipes, place, files, threadmade, pollErrors, bounds>>

-----------------------------------------------------------------------------
\* process_dump.

Begin ==
  /\ pc = "begin" /\ pc' = "setup"
  /\ threadmade' = TRUE /\ dumping' = TRUE
  /\ UNCHANGED <<owner, pipes, place, files, scanning, pollErrors, bounds>>

Fail ==
  /\ failures > 0 /\ failures' = failures - 1
  /\ pc' = "failed" /\ dumping' = FALSE /\ scanning' = FALSE

\* The offsets are reset and the mappings in range listed.
Setup ==
  /\ pc = "setup"
  /\ \/ /\ pc' = "dump" /\ maps' \in Lists
        /\ UNCHANGED <<dumping, scanning, failures>>
     \/ Fail /\ UNCHANGED maps
  /\ UNCHANGED <<owner, pipes, focus, bytes, got, files, threadmade, pollErrors,
                 writeErrors, readErrors, emptyReads>>

\* The loops over the mappings and over a mapping.
DumpNext ==
  /\ pc = "dump"
  /\ \/ focus > Len(maps) /\ pc' = "info" /\ UNCHANGED <<focus, bytes>>
     \/ /\ focus <= Len(maps) /\ bytes >= maps[focus]
        /\ focus' = focus + 1 /\ bytes' = 0 /\ UNCHANGED pc
     \/ /\ focus <= Len(maps) /\ bytes < maps[focus]
        /\ pc' = "check" /\ UNCHANGED <<focus, bytes>>
  /\ UNCHANGED <<owner, pipes, maps, got, files, flags, pollErrors, bounds>>

\* How much is asked for.
Want ==
  IF maps[focus] - bytes > Buffer THEN Buffer ELSE maps[focus] - bytes

\* A read that fails ends the mapping.
Glance ==
  /\ pc = "glance"
  /\ \/ /\ got' \in 1..Want
        /\ pc' = "data" /\ UNCHANGED <<focus, bytes, readErrors, emptyReads>>
     \/ /\ emptyReads > 0 /\ emptyReads' = emptyReads - 1
        /\ got' = 0 /\ pc' = "data" /\ UNCHANGED <<focus, bytes, readErrors>>
     \/ /\ readErrors > 0 /\ readErrors' = readErrors - 1
        /\ focus' = focus + 1 /\ bytes' = 0
        /\ pc' = "dump" /\ UNCHANGED <<got, emptyReads>>
  /\ UNCHANGED <<owner, pipes, maps, files, flags, pollErrors, failures, writeErrors>>

WriteFails ==
  /\ writeErrors > 0 /\ writeErrors' = writeErrors - 1
  /\ pc' = "info"

\* Every buffer is read from the start of the mapping.
WriteData ==
  /\ pc = "data"
  /\ \/ /\ dataFile' = dataFile \o [i \in 1..got |-> <<focus, i - 1>>]
        /\ pc' = "used" /\ UNCHANGED writeErrors
     \/ WriteFails /\ UNCHANGED dataFile
  /\ UNCHANGED <<owner, pipes, place, usedFile, flags, pollErrors, failures,
                 readErrors, emptyReads>>

\* Mutant: a buffer that was not read in full counts as one that was.
WriteUsedWhole ==
  /\ pc = "used"
  /\ \/ /\ usedFile' = usedFile + got /\ bytes' = bytes + Want
        /\ pc' = "dump" /\ UNCHANGED writeErrors
     \/ WriteFails /\ UNCHANGED <<usedFile, bytes>>
  /\ UNCHANGED <<owner, pipes, maps, focus, got, dataFile, flags, pollErrors,
                 failures, readErrors, emptyReads>>

WriteUsed ==
  /\ pc = "used"
  /\ \/ /\ usedFile' = usedFile + got /\ bytes' = bytes + got
        /\ pc' = "dump" /\ UNCHANGED writeErrors
     \/ WriteFails /\ UNCHANGED <<usedFile, bytes>>
  /\ UNCHANGED <<owner, pipes, maps, focus, got, dataFile, flags, pollErrors,
                 failures, readErrors, emptyReads>>

\* Mutant: dumping stays up.
InfoKeeps ==
  /\ pc = "info" /\ pc' = "reset"
  /\ scanning' = TRUE
  /\ UNCHANGED <<owner, pipes, place, files, threadmade, dumping, pollErrors, bounds>>

\* The end of a dump, also of one whose write failed; then the scan starts.
Info ==
  /\ pc = "info" /\ pc' = "reset"
  /\ dumping' = FALSE /\ scanning' = TRUE
  /\ UNCHANGED <<owner, pipes, place, files, threadmade, pollErrors, bounds>>

-----------------------------------------------------------------------------
\* process_aobscan.

\* dump_files_reset_offsets zeroes the buffer the mappings are listed in.
Reset ==
  /\ pc = "reset"
  /\ \/ /\ pc' = "recheck"
        /\ maps' = [i \in 1..Len(maps) |-> 0] /\ focus' = 1 /\ bytes' = 0
        /\ UNCHANGED <<dumping, scanning, failures>>
     \/ Fail /\ UNCHANGED <<maps, focus, bytes>>
  /\ UNCHANGED <<owner, pipes, got, files, threadmade, pollErrors, writeErrors,
                 readErrors, emptyReads>>

\* dump_files_glance_stored goes on to the next mapping, since nothing is left
\* of the one in focus.  After the last one the scan is done; reading nothing
\* is an error, as is a list without a mapping.  There may be more room in the
\* list than mappings.
Stored ==
  /\ pc = "stored"
  /\ \/ pc' = "failed"
     \/ Len(maps) <= 1 /\ pc' = "finish"
  /\ dumping' = FALSE /\ scanning' = FALSE
  /\ UNCHANGED <<owner, pipes, place, files, threadmade, pollErrors, bounds>>

-----------------------------------------------------------------------------
\* The end of process_dumper.

Finish ==
  /\ pc = "finish" /\ pc' = "clear" /\ Answer
  /\ UNCHANGED <<owner, scanPipe, place, files, flags, pollErrors, bounds>>

Clear ==
  /\ pc = "clear" /\ pc' = "ended"
  /\ threadmade' = FALSE
  /\ UNCHANGED <<owner, pipes, place, files, dumping, scanning, pollErrors, bounds>>

Failed ==
  /\ pc = "failed" /\ pc' = "ended"
  /\ UNCHANGED <<owner, pipes, place, files, flags, pollErrors, bounds>>

-----------------------------------------------------------------------------
Thread ==
  \/ Begin \/ Setup \/ DumpNext \/ DumpCheck \/ Glance \/ WriteData \/ WriteUsed
  \/ Info \/ Reset \/ ScanCheck \/ Stored \/ Held \/ Cancel
  \/ Finish \/ Clear \/ Failed

Next == Owner \/ Thread

Spec == Init /\ [][Next]_vars

\* The thread goes on when it can, which does not mean that a poll it waits in has
\* to fail.  The owner, once told, does not leave the scan stopped for ever.
FairSpec ==
  /\ Spec /\ WF_vars(Thread /\ pollErrors' = pollErrors)
  /\ WF_vars(Owner /\ OwnerIsTold) /\ WF_vars(Owner /\ owner = "paused")

-----------------------------------------------------------------------------
\* Once the owner has its answer to a STOP the scan does nothing more to the
\* target, to the files or to the list, until it is told to go on.
StandsStill == owner = "paused" => pc \notin AtWork

\* An answer that the owner did not ask for means that the scan is over.
AnswersAreTrue == owner = "told" => pc \in {"clear", "ended"}

\* The target could be read and the files written.
NoIOError == writeErrors = WriteErrors /\ readErrors = ReadErrors

\* Where a mapping is in the file.
Dumped(m) == {i \in 1..Len(dataFile) : dataFile[i][1] = m}

\* Whatever reads come short, a dump without an error holds as much of each
\* mapping as there is of it, and as many marks in all.
DumpComplete ==
  pc = "reset" /\ NoIOError =>
    /\ \A m \in 1..Len(maps) : Cardinality(Dumped(m)) = maps[m]
    /\ usedFile = Len(dataFile)

\* An answer did not get into the pipe.
Lost == answerErrors < AnswerErrors

\* The owner waits for an answer that was lost, and the thread that takes it for
\* given waits for the owner: neither sends anything more.
Stranded ==
  Lost /\ pc = "held" /\ owner = "stopping" /\ scanPipe = <<>> /\ mainPipe = <<>>

\* A STOP that comes before the thread's last word is answered, if not by the
\* thread that obeys it then by that word.  A thread that failed leaves it
\* unanswered, and that one still passes for active; so does one whose answer is
\* lost, that in the middle of the scan strands both or that at its end the owner.
StopIsAnswered ==
  (owner = "stopping" /\ pc \notin {"clear", "ended"})
    ~> (owner = "paused" \/ (pc = "ended" /\ (threadmade \/ Lost)) \/ Stranded)

\* A scan ends, by itself, or where it is killed, also while it is stopped; only a
\* lost answer to a STOP leaves thread and owner to wait for each other for ever.
ScanEnds == <>(pc = "ended") \/ <>[]Stranded
=============================================================================
