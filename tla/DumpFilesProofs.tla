-------------------------- MODULE DumpFilesProofs --------------------------
(***************************************************************************)
(* DumpFiles for any number of dumps, descriptors and units in a file.     *)
(***************************************************************************)
EXTENDS DumpFiles, TLAPS

USE NoneAssumption, UseAssumption, LenAssumption

-----------------------------------------------------------------------------
\* What shutting the files of a dump does to the fields and the table.
LEMMA CloseAllExact ==
  ASSUME NEW d \in Dump, TypeOK, FieldsExact, CloseAll(d)
  PROVE  /\ table' \in [Fd -> Slot \cup {FREE, TAKEN}]
         /\ fd' \in [Slot -> Fd \cup {NONE}]
         /\ \A s \in Slot : fd'[s] # NONE => table'[fd'[s]] = s
         /\ \A f \in Fd : table'[f] \in Slot => fd'[table'[f]] = f
         /\ \A x \in File : fd'[<<d, x>>] = NONE
         /\ \A e \in Dump \ {d} : \A x \in File : fd'[<<e, x>>] = fd[<<e, x>>]
<1>1. /\ table \in [Fd -> Slot \cup {FREE, TAKEN}]
      /\ fd \in [Slot -> Fd \cup {NONE}]
  BY DEF TypeOK
<1>2. /\ \A s \in Slot : fd[s] # NONE => table[fd[s]] = s
      /\ \A f \in Fd : table[f] \in Slot => fd[table[f]] = f
  BY DEF FieldsExact
<1>3. /\ table' = [f \in Fd |-> IF \E x \in File : fd[<<d, x>>] = f THEN FREE ELSE table[f]]
      /\ fd' = [s \in Slot |-> IF s[1] = d THEN NONE ELSE fd[s]]
  BY DEF CloseAll
<1>4. /\ table' \in [Fd -> Slot \cup {FREE, TAKEN}]
      /\ fd' \in [Slot -> Fd \cup {NONE}]
  BY <1>1, <1>3
<1>5. ASSUME NEW s \in Slot, fd'[s] # NONE
      PROVE  table'[fd'[s]] = s
  <2>1. s[1] # d /\ fd'[s] = fd[s] /\ fd[s] \in Fd
    BY <1>1, <1>3, <1>5
  <2>2. \A x \in File : fd[<<d, x>>] # fd[s]
    BY <2>1, <1>2 DEF Slot
  <2> QED
    BY <1>2, <1>3, <2>1, <2>2
<1>6. ASSUME NEW f \in Fd, table'[f] \in Slot
      PROVE  fd'[table'[f]] = f
  <2>1. table'[f] = table[f] /\ \A x \in File : fd[<<d, x>>] # f
    BY <1>3, <1>6
  <2>2. fd[table[f]] = f
    BY <1>2, <1>6, <2>1
  <2>3. table[f][1] # d
    BY <1>6, <2>1, <2>2 DEF Slot
  <2> QED
    BY <1>3, <1>6, <2>1, <2>2, <2>3
<1>7. /\ \A x \in File : fd'[<<d, x>>] = NONE
      /\ \A e \in Dump \ {d} : \A x \in File : fd'[<<e, x>>] = fd[<<e, x>>]
  BY <1>3 DEF Slot
<1> QED
  BY <1>4, <1>5, <1>6, <1>7

-----------------------------------------------------------------------------
\* The part of TypeOK and FieldsExact that is about descriptors.
FieldTypes ==
  /\ table \in [Fd -> Slot \cup {FREE, TAKEN}]
  /\ fd \in [Slot -> Fd \cup {NONE}]
  /\ pc \in [Dump -> {"idle", "dir", "info", "used", "data", "fail"}]
  /\ \A d \in Dump : pc[d] \notin {"idle", "fail"} =>
       \A x \in File : fd[<<d, x>>] # NONE <=> x \in Opened(pc[d])

Lengths ==
  /\ off \in [Dump -> [Twin -> 0..MaxLen]] /\ len \in [Dump -> [Twin -> 0..MaxLen]]
  /\ clean \in [Dump -> BOOLEAN] /\ torn \in [Dump -> BOOLEAN]

LEMMA TypeParts == TypeOK <=> FieldTypes /\ Lengths
  BY DEF TypeOK, FieldTypes, Lengths

\* Every step keeps the fields and the table in agreement.
LEMMA FieldsStep ==
  ASSUME TypeOK, FieldsExact, [Next]_vars
  PROVE  FieldTypes' /\ FieldsExact'
<1>1. FieldTypes
  BY TypeParts
<1>2. ASSUME UNCHANGED <<table, fd, pc>> PROVE FieldTypes' /\ FieldsExact'
  BY <1>1, <1>2 DEF FieldTypes, FieldsExact, Test
<1>3. ASSUME NEW f \in Fd, OtherOpens(f) \/ OtherCloses(f)
      PROVE  FieldTypes' /\ FieldsExact'
  <2>1. /\ UNCHANGED <<fd, pc>> /\ table[f] \notin Slot /\ table'[f] \notin Slot
        /\ table' \in [Fd -> Slot \cup {FREE, TAKEN}]
        /\ \A g \in Fd \ {f} : table'[g] = table[g]
    BY <1>1, <1>3 DEF FieldTypes, OtherOpens, OtherCloses
  <2>2. FieldTypes'
    BY <1>1, <2>1 DEF FieldTypes
  <2>3. \A s \in Slot : fd[s] # NONE => fd[s] \in Fd \ {f}
    BY <1>1, <2>1 DEF FieldTypes, FieldsExact
  <2> QED
    BY <1>1, <2>1, <2>2, <2>3 DEF FieldsExact, Test
<1>4. ASSUME NEW d \in Dump, pc[d] \in {"idle", "fail"}, CloseAll(d),
             pc' \in {pc, [pc EXCEPT ![d] = "dir"], [pc EXCEPT ![d] = "idle"]}
      PROVE  FieldTypes' /\ FieldsExact'
  <2>1. /\ pc' \in [Dump -> {"idle", "dir", "info", "used", "data", "fail"}]
        /\ pc'[d] \in {"idle", "dir", "fail"}
        /\ \A e \in Dump \ {d} : pc'[e] = pc[e]
    BY <1>1, <1>4 DEF FieldTypes
  <2>2. FieldTypes'
    BY <1>1, <1>4, <2>1, CloseAllExact DEF FieldTypes, Opened
  <2>3. \A e \in Dump : pc'[e] = "idle" /\ ~Test(e)' => \A x \in File : fd'[<<e, x>>] = NONE
    BY <1>4, <2>1, CloseAllExact DEF FieldsExact, Test
  <2> QED
    BY <1>4, <2>2, <2>3, CloseAllExact DEF FieldsExact
<1>5. ASSUME NEW d \in Dump, Open(d) PROVE FieldTypes' /\ FieldsExact'
  <2>1. CASE Test(d)
    BY <1>4, <1>5, <2>1 DEF Open
  <2>2. CASE ~Test(d)
    <3>1. /\ pc[d] = "idle" /\ pc' = [pc EXCEPT ![d] = "dir"] /\ table' = table
          /\ fd' = [s \in Slot |-> IF s[1] = d THEN NONE ELSE fd[s]]
      BY <1>5, <2>2 DEF Open
    <3>2. \A x \in File : fd[<<d, x>>] = NONE
      BY <2>2, <3>1 DEF FieldsExact
    <3>3. fd' = fd
      BY <1>1, <3>1, <3>2 DEF FieldTypes, Slot
    <3>4. FieldTypes'
      BY <1>1, <3>1, <3>2, <3>3 DEF FieldTypes, Opened
    <3> QED
      BY <1>1, <3>1, <3>2, <3>3, <3>4 DEF FieldsExact, FieldTypes, Test
  <2> QED
    BY <2>1, <2>2
<1>6. ASSUME NEW d \in Dump, MakeDirectories(d) \/ OpenFails(d)
      PROVE  FieldTypes' /\ FieldsExact'
  <2>1. /\ UNCHANGED <<table, fd>> /\ \A e \in Dump \ {d} : pc'[e] = pc[e]
        /\ pc' \in [Dump -> {"idle", "dir", "info", "used", "data", "fail"}]
        /\ pc'[d] = "fail" \/ (pc[d] = "dir" /\ pc'[d] = "info")
    BY <1>1, <1>6 DEF FieldTypes, File, MakeDirectories, OpenFails
  <2> QED
    BY <1>1, <2>1 DEF FieldTypes, FieldsExact, Test, Opened
<1>7. ASSUME NEW d \in Dump, OpenFile(d) PROVE FieldTypes' /\ FieldsExact'
  <2>1. PICK f \in Fd : /\ table[f] = FREE
                        /\ table' = [table EXCEPT ![f] = <<d, pc[d]>>]
                        /\ fd' = [fd EXCEPT ![<<d, pc[d]>>] = f]
    BY <1>7 DEF OpenFile
  <2>2. /\ pc[d] \in File /\ pc' = [pc EXCEPT ![d] = After(pc[d])]
    BY <1>7 DEF OpenFile
  <2> DEFINE p == <<d, pc[d]>>
  <2>3. p \in Slot
    BY <2>2 DEF Slot
  <2>4. /\ table' \in [Fd -> Slot \cup {FREE, TAKEN}] /\ table'[f] = p
        /\ fd' \in [Slot -> Fd \cup {NONE}] /\ fd'[p] = f
        /\ \A g \in Fd \ {f} : table'[g] = table[g]
        /\ \A s \in Slot \ {p} : fd'[s] = fd[s]
    BY <1>1, <2>1, <2>3 DEF FieldTypes
  <2>5. /\ pc' \in [Dump -> {"idle", "dir", "info", "used", "data", "fail"}]
        /\ pc'[d] = After(pc[d]) /\ \A e \in Dump \ {d} : pc'[e] = pc[e]
    BY <1>1, <2>2 DEF FieldTypes, After, File
  <2>6. \A x \in File : fd[<<d, x>>] # NONE <=> x \in Opened(pc[d])
    BY <1>1, <2>2 DEF FieldTypes, File
  <2>7. \A e \in Dump \ {d} : \A x \in File : fd'[<<e, x>>] = fd[<<e, x>>]
    BY <2>4 DEF Slot
  <2>8. \A x \in File : fd'[<<d, x>>] # NONE <=> (x = pc[d] \/ x \in Opened(pc[d]))
    BY <2>3, <2>4, <2>6 DEF Slot
  <2>9. pc'[d] = "idle" => Test(d)'
    BY <2>2, <2>5, <2>8 DEF Test, File, After, Opened
  <2>10. FieldTypes'
    <3>1. \A x \in File : pc'[d] # "idle" => (fd'[<<d, x>>] # NONE <=> x \in Opened(pc'[d]))
      BY <2>2, <2>5, <2>8 DEF File, After, Opened
    <3> QED
      BY <1>1, <2>4, <2>5, <2>7, <3>1 DEF FieldTypes
  <2>11. \A s \in Slot : fd'[s] # NONE => table'[fd'[s]] = s
    BY <1>1, <2>1, <2>3, <2>4 DEF FieldTypes, FieldsExact
  <2>12. \A g \in Fd : table'[g] \in Slot => fd'[table'[g]] = g
    <3> SUFFICES ASSUME NEW g \in Fd \ {f}, table[g] \in Slot PROVE fd'[table[g]] = g
      BY <2>4
    <3>1. fd[table[g]] = g
      BY DEF FieldsExact
    <3>2. table[g] # p
      BY <2>6, <2>2, <2>3, <3>1 DEF Opened, File
    <3> QED
      BY <2>4, <3>1, <3>2
  <2>13. \A e \in Dump : pc'[e] = "idle" /\ ~Test(e)' => \A x \in File : fd'[<<e, x>>] = NONE
    BY <2>5, <2>7, <2>9 DEF FieldsExact, Test
  <2> QED
    BY <2>10, <2>11, <2>12, <2>13 DEF FieldsExact
<1>8. ASSUME NEW d \in Dump, Shut(d) \/ ShutOpened(d) PROVE FieldTypes' /\ FieldsExact'
  BY <1>4, <1>8 DEF Shut, ShutOpened
<1>9. ASSUME NEW d \in Dump, ResetOffsets(d) \/ \E n \in 1..MaxLen : Read(d, n) \/ Write(d, n)
      PROVE  UNCHANGED <<table, fd, pc>>
  BY <1>9 DEF ResetOffsets, Read, Write
<1> QED
  BY <1>2, <1>3, <1>5, <1>6, <1>7, <1>8, <1>9 DEF Next, vars

-----------------------------------------------------------------------------
\* A read moves each offset inside its file, and both by as much where the
\* files are in step; a write keeps them in bounds.
LEMMA OffsetsStep ==
  ASSUME Lengths, InStep, [Next]_vars
  PROVE  Lengths' /\ InStep'
<1>1. ASSUME UNCHANGED <<off, len, clean, torn>> PROVE Lengths' /\ InStep'
  BY <1>1 DEF Lengths, InStep
<1>2. Zero \in [Twin -> 0..MaxLen] /\ Zero["used"] = 0 /\ Zero["data"] = 0
  BY DEF Zero, Twin
<1>3. ASSUME NEW d \in Dump, UNCHANGED <<len, torn>>,
             off' = [off EXCEPT ![d] = Zero], clean' = [clean EXCEPT ![d] = TRUE]
      PROVE  Lengths' /\ InStep'
  BY <1>2, <1>3 DEF Lengths, InStep
<1>4. ASSUME NEW d \in Dump, UNCHANGED <<len, torn>>, NEW o \in [Twin -> 0..MaxLen],
             off' = [off EXCEPT ![d] = o], clean' = [clean EXCEPT ![d] = FALSE]
      PROVE  Lengths' /\ InStep'
  BY <1>4 DEF Lengths, InStep
<1>5. ASSUME NEW d \in Dump, OpenFile(d) PROVE Lengths' /\ InStep'
  <2>1. CASE pc[d] = "data"
    BY <1>3, <1>5, <2>1 DEF OpenFile
  <2>2. CASE pc[d] # "data"
    BY <1>1, <1>5, <2>2 DEF OpenFile
  <2> QED
    BY <2>1, <2>2
<1>6. ASSUME NEW d \in Dump, ResetOffsets(d) PROVE Lengths' /\ InStep'
  <2>1. CASE off' = [off EXCEPT ![d] = Zero] /\ clean' = [clean EXCEPT ![d] = TRUE]
    BY <1>3, <1>6, <2>1 DEF ResetOffsets
  <2>2. CASE /\ off' = [off EXCEPT ![d]["used"] = 0] \/ UNCHANGED off
             /\ clean' = [clean EXCEPT ![d] = FALSE]
    <3>1. PICK o \in [Twin -> 0..MaxLen] : off' = [off EXCEPT ![d] = o]
      <4>1. CASE off' = [off EXCEPT ![d]["used"] = 0]
        <5>1. [off[d] EXCEPT !["used"] = 0] \in [Twin -> 0..MaxLen]
          BY DEF Lengths, Twin
        <5> QED
          BY <4>1, <5>1
      <4>2. CASE UNCHANGED off
        <5>1. off[d] \in [Twin -> 0..MaxLen] /\ off' = [off EXCEPT ![d] = off[d]]
          BY <4>2 DEF Lengths
        <5> QED
          BY <5>1
      <4> QED
        BY <2>2, <4>1, <4>2
    <3> QED
      BY <1>4, <1>6, <2>2, <3>1 DEF ResetOffsets
  <2> QED
    BY <1>6, <2>1, <2>2 DEF ResetOffsets
<1>7. ASSUME NEW d \in Dump, NEW n \in 1..MaxLen, Read(d, n) PROVE Lengths' /\ InStep'
  <2> DEFINE Units(x) == IF off[d][x] + n <= len[d][x] THEN n
                         ELSE IF off[d][x] <= len[d][x] THEN len[d][x] - off[d][x] ELSE 0
             Next_(xs) == [x \in Twin |-> IF x \in xs THEN off[d][x] + Units(x) ELSE off[d][x]]
             Moved(xs) == [off EXCEPT ![d] = Next_(xs)]
  <2>1. ASSUME NEW xs PROVE Next_(xs) \in [Twin -> 0..MaxLen]
    BY DEF Lengths
  <2>2. /\ UNCHANGED <<len, torn>>
        /\ \/ off' = Moved(Twin) /\ UNCHANGED clean
           \/ off' \in {Moved({}), Moved({"used"})} /\ clean' = [clean EXCEPT ![d] = FALSE]
    BY <1>7 DEF Read
  <2>3. CASE off' = Moved(Twin) /\ UNCHANGED clean
    <3>1. Next_(Twin) \in [Twin -> 0..MaxLen]
      BY <2>1
    <3>2. Lengths'
      BY <2>2, <2>3, <3>1 DEF Lengths
    <3>3. ~torn[d] /\ clean[d] => Next_(Twin)["used"] = Next_(Twin)["data"]
      BY DEF InStep, Twin
    <3> HIDE DEF Next_
    <3>4. off' = [off EXCEPT ![d] = Next_(Twin)]
      BY <2>3
    <3> QED
      BY <2>2, <2>3, <3>2, <3>3, <3>4 DEF InStep, Lengths
  <2>4. CASE off' \in {Moved({}), Moved({"used"})} /\ clean' = [clean EXCEPT ![d] = FALSE]
    <3>1. PICK xs \in {{}, {"used"}} : off' = Moved(xs)
      BY <2>4
    <3>2. Next_(xs) \in [Twin -> 0..MaxLen]
      BY <2>1
    <3> HIDE DEF Next_
    <3> QED
      BY <1>4, <2>2, <2>4, <3>1, <3>2
  <2> QED
    BY <2>2, <2>3, <2>4
<1>8. ASSUME NEW d \in Dump, NEW n \in 1..MaxLen, Write(d, n) PROVE Lengths' /\ InStep'
  <2> DEFINE O(k) == [x \in Twin |-> off[d][x] + k[x]]
             L(k) == [x \in Twin |-> IF off[d][x] + k[x] > len[d][x] THEN off[d][x] + k[x]
                                                                     ELSE len[d][x]]
             Put(k) == off' = [off EXCEPT ![d] = O(k)] /\ len' = [len EXCEPT ![d] = L(k)]
             Whole == [x \in Twin |-> n]
  <2>1. /\ clean[d] /\ UNCHANGED clean /\ \A x \in Twin : off[d][x] + n <= MaxLen
        /\ \/ Put(Whole) /\ UNCHANGED torn
           \/ /\ torn' = [torn EXCEPT ![d] = TRUE]
              /\ \E k \in 0..n - 1 : \/ Put([x \in Twin |-> IF x = "data" THEN k ELSE 0])
                                     \/ Put([x \in Twin |-> IF x = "data" THEN n ELSE k])
    BY <1>8 DEF Write
  <2>2. ASSUME NEW k \in [Twin -> 0..n] PROVE O(k) \in [Twin -> 0..MaxLen] /\ L(k) \in [Twin -> 0..MaxLen]
    BY <2>1 DEF Lengths
  <2>3. CASE Put(Whole) /\ UNCHANGED torn
    <3>1. O(Whole) \in [Twin -> 0..MaxLen] /\ L(Whole) \in [Twin -> 0..MaxLen]
      <4>1. Whole \in [Twin -> 0..n]
        OBVIOUS
      <4> QED
        BY <2>2, <4>1
    <3>2. ~torn[d] => O(Whole)["used"] = O(Whole)["data"] /\ L(Whole)["used"] = L(Whole)["data"]
      BY <2>1 DEF InStep, Twin
    <3> HIDE DEF O, L, Whole
    <3> QED
      BY <2>1, <2>3, <3>1, <3>2 DEF Lengths, InStep
  <2>4. CASE /\ torn' = [torn EXCEPT ![d] = TRUE]
             /\ \E k \in 0..n - 1 : \/ Put([x \in Twin |-> IF x = "data" THEN k ELSE 0])
                                    \/ Put([x \in Twin |-> IF x = "data" THEN n ELSE k])
    <3>1. PICK k \in [Twin -> 0..n] : Put(k)
      <4>1. PICK j \in 0..n - 1 : \/ Put([x \in Twin |-> IF x = "data" THEN j ELSE 0])
                                  \/ Put([x \in Twin |-> IF x = "data" THEN n ELSE j])
        BY <2>4
      <4>2. /\ [x \in Twin |-> IF x = "data" THEN j ELSE 0] \in [Twin -> 0..n]
            /\ [x \in Twin |-> IF x = "data" THEN n ELSE j] \in [Twin -> 0..n]
        OBVIOUS
      <4> QED
        BY <4>1, <4>2
    <3>2. O(k) \in [Twin -> 0..MaxLen] /\ L(k) \in [Twin -> 0..MaxLen]
      BY <2>2
    <3> HIDE DEF O, L
    <3> QED
      BY <2>1, <2>4, <3>1, <3>2 DEF Lengths, InStep
  <2> QED
    BY <2>1, <2>3, <2>4
<1>9. ASSUME NEW d \in Dump,
             Open(d) \/ MakeDirectories(d) \/ OpenFails(d) \/ ShutOpened(d) \/ Shut(d)
      PROVE  UNCHANGED <<off, len, clean, torn>>
  BY <1>9 DEF Open, MakeDirectories, OpenFails, ShutOpened, Shut
<1>10. ASSUME NEW f \in Fd, OtherOpens(f) \/ OtherCloses(f)
       PROVE  UNCHANGED <<off, len, clean, torn>>
  BY <1>10 DEF OtherOpens, OtherCloses
<1> QED
  BY <1>1, <1>5, <1>6, <1>7, <1>8, <1>9, <1>10 DEF Next, vars

-----------------------------------------------------------------------------
\* The inductive invariant: FieldsExact is inductive only with the type
\* invariant, which says which fields are filled on the way through
\* dump_files_open.
FilesInv == TypeOK /\ FieldsExact /\ InStep

THEOREM FilesInvariant == Spec => []FilesInv
<1>1. Init => FilesInv
  <2> SUFFICES ASSUME Init PROVE FilesInv
    OBVIOUS
  <2>1. Zero \in [Twin -> 0..MaxLen] /\ Zero["used"] = Zero["data"]
    BY DEF Zero, Twin
  <2>2. TypeOK
    BY <2>1 DEF Init, TypeOK
  <2>3. FieldsExact
    BY DEF Init, FieldsExact, Slot
  <2>4. InStep
    BY <2>1 DEF Init, InStep
  <2> QED
    BY <2>2, <2>3, <2>4 DEF FilesInv
<1>2. FilesInv /\ [Next]_vars => FilesInv'
  <2> SUFFICES ASSUME FilesInv, [Next]_vars PROVE FilesInv'
    OBVIOUS
  <2>1. FieldTypes' /\ FieldsExact'
    BY FieldsStep DEF FilesInv
  <2>2. Lengths' /\ InStep'
    BY OffsetsStep, TypeParts DEF FilesInv
  <2> QED
    BY <2>1, <2>2 DEF FilesInv, TypeOK, FieldTypes, Lengths
<1> QED
  BY <1>1, <1>2, PTL DEF Spec

\* On the way through dump_files_open exactly the files opened so far have
\* their descriptors in the fields, and no offset leaves its file's bound.
THEOREM TypeCorrect == Spec => []TypeOK
  BY FilesInvariant, PTL DEF FilesInv

\* Whatever the other threads open and close, the descriptors in the fields are
\* the dump's own and the only ones; an open that fails half way leaves none.
THEOREM FieldsAreExact == Spec => []FieldsExact
  BY FilesInvariant, PTL DEF FilesInv

\* Without a failed write marks and data have the same length, and the same
\* offset from each reset to the next failure.
THEOREM StaysInStep == Spec => []InStep
  BY FilesInvariant, PTL DEF FilesInv
-----------------------------------------------------------------------------
(***************************************************************************)
(* What the calls on one dump leave to others.                             *)
(***************************************************************************)
Calls(d) ==
  \/ Open(d) \/ MakeDirectories(d) \/ OpenFile(d) \/ OpenFails(d) \/ ShutOpened(d)
  \/ Shut(d) \/ ResetOffsets(d)
  \/ \E n \in 1..MaxLen : Read(d, n) \/ Write(d, n)

Foreign(d, f) == table[f] = TAKEN \/ table[f] \in (Dump \ {d}) \X File

\* Open to what it was, and known to the field it was known to.
Untouched(d) ==
  /\ \A f \in Fd : Foreign(d, f) => table'[f] = table[f]
  /\ \A e \in Dump \ {d} : \A x \in File : fd'[<<e, x>>] = fd[<<e, x>>]

\* Shutting the files of a dump shuts no other file.
LEMMA CloseAllOwn ==
  ASSUME TypeOK, FieldsExact, NEW d \in Dump, CloseAll(d)
  PROVE  Untouched(d)
<1>1. \A e \in Dump \ {d} : \A x \in File : fd'[<<e, x>>] = fd[<<e, x>>]
  BY CloseAllExact
<1>2. ASSUME NEW f \in Fd, Foreign(d, f) PROVE table'[f] = table[f]
  <2>1. ASSUME NEW x \in File PROVE fd[<<d, x>>] # f
    <3>1. <<d, x>> \in Slot
      BY DEF Slot
    <3>2. fd[<<d, x>>] = f => table[f] = <<d, x>>
      BY <3>1 DEF FieldsExact
    <3>3. table[f] # <<d, x>>
      BY <1>2, <3>1 DEF Foreign
    <3> QED  BY <3>2, <3>3
  <2> QED  BY <2>1 DEF CloseAll
<1> QED  BY <1>1, <1>2 DEF Untouched

\* No call on a dump, whether it succeeds, fails half way or shuts what an
\* earlier one left, closes or takes over a file of another dump or of another
\* thread, though both get the numbers this dump gave up as soon as they are free.
THEOREM OthersAreLeftAlone ==
  Spec => [][\A d \in Dump : Calls(d) => Untouched(d)]_vars
<1>1. ASSUME TypeOK, FieldsExact, NEW d \in Dump, Calls(d)
      PROVE  Untouched(d)
  <2>1. fd \in [Slot -> Fd \cup {NONE}] /\ table \in [Fd -> Slot \cup {FREE, TAKEN}]
    BY <1>1 DEF TypeOK
  <2>2. CASE CloseAll(d)
    BY <1>1, <2>2, CloseAllOwn
  <2>3. CASE UNCHANGED <<table, fd>>
    BY <2>3 DEF Untouched
  <2>4. CASE Open(d)
    <3>1. CASE ~Test(d)
      <4>1. fd' = [s \in Slot |-> IF s[1] = d THEN NONE ELSE fd[s]] /\ table' = table
        BY <2>4, <3>1 DEF Open
      <4>2. \A e \in Dump \ {d} : \A x \in File :
              <<e, x>> \in Slot /\ <<e, x>>[1] # d
        BY DEF Slot
      <4> QED  BY <4>1, <4>2 DEF Untouched
    <3> QED  BY <2>2, <2>4, <3>1 DEF Open
  <2>5. CASE OpenFile(d)
    <3>1. PICK f \in Fd : /\ table[f] = FREE
                          /\ table' = [table EXCEPT ![f] = <<d, pc[d]>>]
                          /\ fd' = [fd EXCEPT ![<<d, pc[d]>>] = f]
      BY <2>5 DEF OpenFile
    <3>2. ~Foreign(d, f)
      BY <3>1 DEF Foreign, Slot
    <3>3. \A e \in Dump \ {d} : \A x \in File :
            <<e, x>> \in Slot /\ <<e, x>> # <<d, pc[d]>>
      BY DEF Slot
    <3> QED  BY <2>1, <3>1, <3>2, <3>3 DEF Untouched
  <2> QED
    BY <1>1, <2>2, <2>3, <2>4, <2>5
       DEF Calls, MakeDirectories, OpenFails, ShutOpened, Shut, ResetOffsets, Read, Write
<1>2. FilesInv /\ [Next]_vars => [\A d \in Dump : Calls(d) => Untouched(d)]_vars
  BY <1>1 DEF FilesInv
<1> QED  BY <1>2, FilesInvariant, PTL DEF Spec
=============================================================================
