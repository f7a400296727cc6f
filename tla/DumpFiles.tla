----------------------------- MODULE DumpFiles -----------------------------
(***************************************************************************)
(* The three files of a dump: opening, shutting, and the offsets of the    *)
(* two that have to agree, dump_files_* of src/src/proc.c.                 *)
(*                                                                         *)
(* The table of descriptors is shared with the rest of the process, whose  *)
(* threads open and close files at any time; open fails where it is full   *)
(* and may fail anywhere else.  Descriptor 0 is taken, and stands, as -1   *)
(* does, for a file that is not open.                                      *)
(*                                                                         *)
(* A mark and a byte of data are one unit, and a dump is opened for the    *)
(* same scan each time.  Left out: the directories, the buffers, the       *)
(* header in the info file, and what the files contain.                    *)
(***************************************************************************)
EXTENDS Naturals

CONSTANTS Dump,   \* the dump_t objects
          Fd,     \* the descriptors but 0
          NONE,   \* a field that holds no descriptor
          FREE,   \* a descriptor that is not open
          TAKEN,  \* one that is open to no file of a dump
          MaxLen  \* bound: units in a file

ASSUME LenAssumption == MaxLen \in Nat

VARIABLES
  table,   \* of each descriptor, what it is open to
  fd,      \* dump->info.fd, dump->used.fd and dump->data.fd
  pc,      \* how far dump_files_open is
  off,     \* the offsets of the used and of the data file
  len,     \* their lengths
  clean,   \* no read or seek has failed since the offsets were set
  torn     \* a write has failed

vars == <<table, fd, pc, off, len, clean, torn>>

File == {"info", "used", "data"}
Slot == Dump \X File
Twin == {"used", "data"}

ASSUME NoneAssumption == NONE \notin Fd
ASSUME UseAssumption == FREE # TAKEN /\ FREE \notin Slot /\ TAKEN \notin Slot

\* The fields that hold descriptors while d is at a place in dump_files_open.
Opened(p) == {x \in File : (x = "info" /\ p \in {"used", "data"}) \/ (x = "used" /\ p = "data")}

TypeOK ==
  /\ table \in [Fd -> Slot \cup {FREE, TAKEN}]
  /\ fd \in [Slot -> Fd \cup {NONE}]
  /\ pc \in [Dump -> {"idle", "dir", "info", "used", "data", "fail"}]
  /\ off \in [Dump -> [Twin -> 0..MaxLen]] /\ len \in [Dump -> [Twin -> 0..MaxLen]]
  /\ clean \in [Dump -> BOOLEAN] /\ torn \in [Dump -> BOOLEAN]
  /\ \A d \in Dump : pc[d] \notin {"idle", "fail"} =>
       \A x \in File : fd[<<d, x>>] # NONE <=> x \in Opened(pc[d])

Zero == [x \in Twin |-> 0]

Init ==
  /\ table \in [Fd -> {FREE, TAKEN}]
  /\ fd = [s \in Slot |-> NONE]
  /\ pc = [d \in Dump |-> "idle"]
  /\ off = [d \in Dump |-> Zero] /\ len = [d \in Dump |-> Zero]
  /\ clean = [d \in Dump |-> TRUE] /\ torn = [d \in Dump |-> FALSE]

-----------------------------------------------------------------------------
\* The rest of the process.
OtherOpens(f) ==
  /\ table[f] = FREE /\ table' = [table EXCEPT ![f] = TAKEN]
  /\ UNCHANGED <<fd, pc, off, len, clean, torn>>

OtherCloses(f) ==
  /\ table[f] = TAKEN /\ table' = [table EXCEPT ![f] = FREE]
  /\ UNCHANGED <<fd, pc, off, len, clean, torn>>

-----------------------------------------------------------------------------
\* dump_files_test: whether all three files are open.
Test(d) == \A x \in File : fd[<<d, x>>] # NONE

\* Mutant: dump_files__shut_file leaves the number of the descriptor behind.
CloseAllKeeping(d) ==
  /\ table' = [f \in Fd |-> IF \E x \in File : fd[<<d, x>>] = f THEN FREE ELSE table[f]]
  /\ UNCHANGED fd

\* dump_files__shut_file on each of the three: what a field says is open is
\* closed, and the field cleared.
CloseAll(d) ==
  /\ table' = [f \in Fd |-> IF \E x \in File : fd[<<d, x>>] = f THEN FREE ELSE table[f]]
  /\ fd' = [s \in Slot |-> IF s[1] = d THEN NONE ELSE fd[s]]

Shut(d) ==
  /\ pc[d] = "idle" /\ CloseAll(d)
  /\ UNCHANGED <<pc, off, len, clean, torn>>

\* dump_files_open shuts a dump that is open as a whole; any other it only
\* clears.
Open(d) ==
  /\ pc[d] = "idle" /\ pc' = [pc EXCEPT ![d] = "dir"]
  /\ IF Test(d) THEN CloseAll(d)
     ELSE /\ fd' = [s \in Slot |-> IF s[1] = d THEN NONE ELSE fd[s]]
          /\ UNCHANGED table
  /\ UNCHANGED <<off, len, clean, torn>>

\* The place in dump_files_open after a file.
After(p) == IF p = "info" THEN "used" ELSE IF p = "used" THEN "data" ELSE "idle"

MakeDirectories(d) ==
  /\ pc[d] = "dir" /\ pc' = [pc EXCEPT ![d] = "info"]
  /\ UNCHANGED <<table, fd, off, len, clean, torn>>

\* Mutant: a file that could not be opened does not end the call.
OpenFileOn(d) ==
  /\ pc[d] \in File
  /\ pc' = [pc EXCEPT ![d] = After(pc[d])]
  /\ \/ \E f \in Fd : /\ table[f] = FREE
                      /\ table' = [table EXCEPT ![f] = <<d, pc[d]>>]
                      /\ fd' = [fd EXCEPT ![<<d, pc[d]>>] = f]
     \/ UNCHANGED <<table, fd>>
  /\ IF pc[d] = "data"
     THEN off' = [off EXCEPT ![d] = Zero] /\ clean' = [clean EXCEPT ![d] = TRUE]
     ELSE UNCHANGED <<off, clean>>
  /\ UNCHANGED <<len, torn>>

\* dump_files__open_file.  What the file holds from another dump stays in it.
OpenFile(d) ==
  /\ pc[d] \in File
  /\ pc' = [pc EXCEPT ![d] = After(pc[d])]
  /\ \E f \in Fd : /\ table[f] = FREE
                   /\ table' = [table EXCEPT ![f] = <<d, pc[d]>>]
                   /\ fd' = [fd EXCEPT ![<<d, pc[d]>>] = f]
  /\ IF pc[d] = "data"
     THEN off' = [off EXCEPT ![d] = Zero] /\ clean' = [clean EXCEPT ![d] = TRUE]
     ELSE UNCHANGED <<off, clean>>
  /\ UNCHANGED <<len, torn>>

\* A directory or a file could not be made or opened.
OpenFails(d) ==
  /\ pc[d] \in File \cup {"dir"} /\ pc' = [pc EXCEPT ![d] = "fail"]
  /\ UNCHANGED <<table, fd, off, len, clean, torn>>

\* The failure path of dump_files_open shuts what was opened so far.
ShutOpened(d) ==
  /\ pc[d] = "fail" /\ pc' = [pc EXCEPT ![d] = "idle"]
  /\ CloseAll(d)
  /\ UNCHANGED <<off, len, clean, torn>>

-----------------------------------------------------------------------------
\* Mutant: the offset of the data file is left where it is.
ResetUsed(d) ==
  /\ pc[d] = "idle" /\ Test(d)
  /\ off' = [off EXCEPT ![d]["used"] = 0] /\ clean' = [clean EXCEPT ![d] = TRUE]
  /\ UNCHANGED <<table, fd, pc, len, torn>>

\* dump_files_reset_offsets seeks in the used file, then in the data file.
ResetOffsets(d) ==
  /\ pc[d] = "idle" /\ Test(d)
  /\ \/ off' = [off EXCEPT ![d] = Zero] /\ clean' = [clean EXCEPT ![d] = TRUE]
     \/ /\ off' = [off EXCEPT ![d]["used"] = 0] \/ UNCHANGED off
        /\ clean' = [clean EXCEPT ![d] = FALSE]
  /\ UNCHANGED <<table, fd, pc, len, torn>>

\* n units are read from the used file, then from the data file, with
\* dump_files__read_file; at the end of a file there are fewer.
Read(d, n) ==
  LET Units(x) == IF off[d][x] + n <= len[d][x] THEN n
                  ELSE IF off[d][x] <= len[d][x] THEN len[d][x] - off[d][x] ELSE 0
      Moved(xs) == [off EXCEPT ![d] = [x \in Twin |->
                     IF x \in xs THEN off[d][x] + Units(x) ELSE off[d][x]]]
  IN  /\ pc[d] = "idle" /\ Test(d)
      /\ \/ off' = Moved(Twin) /\ UNCHANGED clean
         \/ off' \in {Moved({}), Moved({"used"})}
            /\ clean' = [clean EXCEPT ![d] = FALSE]
      /\ UNCHANGED <<table, fd, pc, len, torn>>

\* n units are written to the data file, then to the used file; the first of
\* the two that takes less than it was given ends it.  process_dump writes only
\* once the offsets are reset.
Write(d, n) ==
  LET Put(k) == /\ off' = [off EXCEPT ![d] = [x \in Twin |-> off[d][x] + k[x]]]
                /\ len' = [len EXCEPT ![d] = [x \in Twin |->
                     IF off[d][x] + k[x] > len[d][x] THEN off[d][x] + k[x]
                                                     ELSE len[d][x]]]
  IN  /\ pc[d] = "idle" /\ Test(d) /\ clean[d]
      /\ \A x \in Twin : off[d][x] + n <= MaxLen
      /\ \/ Put([x \in Twin |-> n]) /\ UNCHANGED torn
         \/ /\ torn' = [torn EXCEPT ![d] = TRUE]
            /\ \E k \in 0..n - 1 : \/ Put([x \in Twin |-> IF x = "data" THEN k ELSE 0])
                                   \/ Put([x \in Twin |-> IF x = "data" THEN n ELSE k])
      /\ UNCHANGED <<table, fd, pc, clean>>

-----------------------------------------------------------------------------
Next ==
  \/ \E f \in Fd : OtherOpens(f) \/ OtherCloses(f)
  \/ \E d \in Dump :
       \/ Open(d) \/ MakeDirectories(d) \/ OpenFile(d) \/ OpenFails(d)
       \/ ShutOpened(d) \/ Shut(d) \/ ResetOffsets(d)
       \/ \E n \in 1..MaxLen : Read(d, n) \/ Write(d, n)

Spec == Init /\ [][Next]_vars

-----------------------------------------------------------------------------
\* The fields and the table of descriptors agree: what a dump would read, write
\* or close is a file of its own, whatever numbers others got meanwhile, and no
\* file stays open that no field knows of.  A dump that does not pass for open
\* holds no file at all, since the next dump_files_open would forget it.
FieldsExact ==
  /\ \A s \in Slot : fd[s] # NONE => table[fd[s]] = s
  /\ \A f \in Fd : table[f] \in Slot => fd[table[f]] = f
  /\ \A d \in Dump : pc[d] = "idle" /\ ~Test(d) => \A x \in File : fd[<<d, x>>] = NONE

\* Marks and data stay in step over dumps, scans and reopened files, as long as
\* no write failed: a failed read or seek is made good by the next reset.
InStep ==
  \A d \in Dump : ~torn[d] =>
    /\ len[d]["used"] = len[d]["data"]
    /\ clean[d] => off[d]["used"] = off[d]["data"]
=============================================================================
