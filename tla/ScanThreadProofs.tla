-------------------------- MODULE ScanThreadProofs --------------------------
(***************************************************************************)
(* The handshake of a scan with its owner, for any list of mappings and    *)
(* any number of failures.                                                 *)
(***************************************************************************)
EXTENDS ScanThread, SequenceTheorems, FiniteSetTheorems, TLAPS

USE ListsAssumption, BoundAssumption

Over == {"clear", "ended"}

\* What is in the pipes.  Until the thread is over it answers only to STOP.
\* While it works, nothing but the last signal of the owner is on its way; while
\* it is held its answer is on its way, or lost.
Handshake ==
  /\ owner \in {"idle", "stopping", "paused", "killing", "told"}
  /\ answerErrors \in 0..AnswerErrors
  /\ pc \notin Over =>
       /\ owner # "told"
       /\ owner \in {"idle", "paused"} => mainPipe = <<>>
       /\ owner = "stopping" => mainPipe \in {<<>>, <<"CONT">>}
  /\ pc \in AtWork =>
       \/ owner = "idle" /\ scanPipe = <<>>
       \/ owner = "stopping" /\ scanPipe = <<"STOP">> /\ mainPipe = <<>>
       \/ owner = "killing" /\ scanPipe = <<"KILL">>
  /\ pc = "held" =>
       \/ owner = "idle" /\ scanPipe = <<"CONT">>
       \/ /\ owner = "stopping" /\ scanPipe = <<>>
          /\ mainPipe = <<"CONT">> \/ (mainPipe = <<>> /\ Lost)
       \/ owner = "stopping" /\ scanPipe = <<"CONT", "STOP">> /\ mainPipe = <<>>
       \/ owner = "paused" /\ scanPipe = <<>>
       \/ owner = "killing" /\ scanPipe \in {<<"KILL">>, <<"CONT", "KILL">>}

\* An answer takes nothing from what may still go wrong but by being lost.
LEMMA AnswerStep ==
  ASSUME Handshake, Answer
  PROVE  /\ answerErrors' \in 0..AnswerErrors
         /\ mainPipe' = Append(mainPipe, "CONT") \/ (mainPipe' = mainPipe /\ Lost')
BY DEF Handshake, Answer, Lost

LEMMA HandshakeInit == Init => Handshake
BY DEF Init, Handshake, Over, AtWork

\* What the signals of the owner do to a pipe.
LEMMA Pipes ==
  ASSUME NEW s \in Signal, NEW t \in Signal
  PROVE  /\ Append(<<>>, s) = <<s>> /\ Tail(<<s>>) = <<>> /\ Head(<<s>>) = s
         /\ Append(<<s>>, t) = <<s, t>> /\ Tail(<<s, t>>) = <<t>>
         /\ Head(<<s, t>>) = s
         /\ <<s>> # <<>> /\ <<s, t>> # <<>> /\ <<s>> # <<s, t>>
<1>1. <<>> \in Seq(Signal) /\ <<s>> \in Seq(Signal) /\ <<s, t>> \in Seq(Signal)
  OBVIOUS
<1>2. Len(<<>>) = 0 /\ Len(<<s>>) = 1 /\ Len(<<s, t>>) = 2
  OBVIOUS
<1>3. <<s>>[1] = s /\ <<s, t>>[1] = s /\ <<s, t>>[2] = t
  OBVIOUS
<1>4. Append(<<>>, s) = <<s>>
  OBVIOUS
<1>5. Append(<<s>>, t) = <<s, t>>
  <2>1. Append(<<s>>, t) \in Seq(Signal) /\ Len(Append(<<s>>, t)) = 2
    BY <1>1, <1>2
  <2>2. Append(<<s>>, t)[1] = s /\ Append(<<s>>, t)[2] = t
    BY <1>1, <1>2, <1>3
  <2>3. \A i \in 1..2 : Append(<<s>>, t)[i] = <<s, t>>[i]
    BY <2>2, <1>3
  <2> QED  BY <1>1, <1>2, <2>1, <2>3, SeqEqual
<1>6. Tail(<<s>>) = <<>>
  OBVIOUS
<1>7. Tail(<<s, t>>) = <<t>>
  OBVIOUS
<1>8. Head(<<s>>) = s /\ Head(<<s, t>>) = s
  OBVIOUS
<1> QED  BY <1>1, <1>2, <1>3, <1>4, <1>5, <1>6, <1>7, <1>8

\* A signal is taken only where the thread works or is held.
LEMMA ObeyStep ==
  ASSUME NEW next \in AtWork, Handshake, pc \in AtWork \cup {"held"}, Obey(next),
         UNCHANGED owner
  PROVE  Handshake'
<1> USE DEF Obey, Take, NoAnswer, Handshake
<1>1. next \notin Over /\ next # "held"
      /\ {"cancel", "held"} \cap (Over \cup AtWork) = {} /\ AtWork \cap Over = {}
  BY DEF AtWork, Over
<1>2. pc \notin Over
  BY <1>1
<1>3. CASE Head(scanPipe) = "KILL" /\ pc' = "cancel" /\ NoAnswer
  BY <1>1, <1>2, <1>3
<1>4. CASE Head(scanPipe) = "STOP" /\ pc' = "held" /\ Answer
  <2>1. owner = "stopping" /\ scanPipe = <<"STOP">> /\ mainPipe = <<>>
    BY <1>1, <1>4, Pipes
  <2>2. /\ scanPipe' = <<>> /\ answerErrors' \in 0..AnswerErrors
        /\ mainPipe' = <<"CONT">> \/ (mainPipe' = <<>> /\ Lost')
    BY <1>4, <2>1, Pipes, AnswerStep
  <2> QED  BY <1>1, <1>4, <2>1, <2>2
<1>5. CASE Head(scanPipe) = "CONT" /\ pc' = next /\ NoAnswer
  <2>1. \/ owner = "idle" /\ scanPipe = <<"CONT">> /\ mainPipe = <<>>
        \/ owner = "stopping" /\ scanPipe = <<"CONT", "STOP">> /\ mainPipe = <<>>
        \/ owner = "killing" /\ scanPipe = <<"CONT", "KILL">>
    BY <1>1, <1>2, <1>5, Pipes
  <2>2. CASE owner = "idle" /\ scanPipe = <<"CONT">> /\ mainPipe = <<>>
    BY <1>1, <1>5, <2>2, Pipes
  <2>3. CASE owner = "stopping" /\ scanPipe = <<"CONT", "STOP">> /\ mainPipe = <<>>
    BY <1>1, <1>5, <2>3, Pipes
  <2>4. CASE owner = "killing" /\ scanPipe = <<"CONT", "KILL">>
    BY <1>1, <1>5, <2>4, Pipes
  <2> QED  BY <2>1, <2>2, <2>3, <2>4
<1> QED  BY <1>3, <1>4, <1>5

\* Every step keeps account of the signals.
LEMMA HandshakeStep == Handshake /\ [Next]_vars => Handshake'
<1> SUFFICES ASSUME Handshake, [Next]_vars PROVE Handshake'
  OBVIOUS
<1> USE DEF pipes, Lost
<1>0. "glance" \in AtWork /\ "stored" \in AtWork /\ AtWork \cap Over = {}
      /\ "held" \notin AtWork \cup Over
  BY DEF AtWork, Over
<1>1. CASE Owner
  <2>0. pc' = pc
    BY <1>1 DEF Owner
  <2>6. "STOP" \in Signal /\ "CONT" \in Signal /\ "KILL" \in Signal
    BY DEF Signal
  <2>7. \A s, t \in Signal :
          /\ Append(<<>>, s) = <<s>> /\ Append(<<s>>, t) = <<s, t>>
          /\ Tail(<<s>>) = <<>>
    BY Pipes
  <2>1. CASE OwnerStops
    BY <1>0, <2>0, <2>1, <2>6, <2>7 DEF OwnerStops, Tell, Handshake
  <2>2. CASE OwnerIsTold
    BY <1>0, <2>0, <2>2, <2>6, <2>7 DEF OwnerIsTold, Told, Handshake
  <2>3. CASE OwnerContinues
    BY <1>0, <2>0, <2>3, <2>6, <2>7 DEF OwnerContinues, Tell, Handshake
  <2>4. CASE OwnerKills
    BY <1>0, <2>0, <2>4, <2>6, <2>7 DEF OwnerKills, Tell, Handshake
  <2>5. CASE OwnerSeesEnd
    BY <1>0, <2>0, <2>5 DEF OwnerSeesEnd, Told, Handshake
  <2> QED  BY <1>1, <2>1, <2>2, <2>3, <2>4, <2>5 DEF Owner
<1>2. CASE DumpCheck
  <2>1. CASE Obey("glance")
    BY <1>0, <1>2, <2>1, ObeyStep DEF DumpCheck, Check, AtWork
  <2>2. CASE ~Obey("glance")
    BY <1>2, <2>2 DEF DumpCheck, Check, AtWork, Over, Handshake
  <2> QED  BY <2>1, <2>2
<1>3. CASE ScanCheck
  <2>1. CASE Obey("stored")
    BY <1>0, <1>3, <2>1, ObeyStep DEF ScanCheck, Check, AtWork
  <2>2. CASE ~Obey("stored")
    BY <1>3, <2>2 DEF ScanCheck, Check, AtWork, Over, Handshake
  <2> QED  BY <2>1, <2>2
<1>4. CASE Held
  <2>1. CASE Obey(IF dumping THEN "glance" ELSE "stored")
    BY <1>0, <1>4, <2>1, ObeyStep DEF Held
  <2>2. CASE pc' = "cancel" /\ UNCHANGED pipes /\ UNCHANGED owner
    BY <1>0, <1>4, <2>2 DEF Held, Handshake, AtWork, Over
  <2> QED  BY <1>4, <2>1, <2>2 DEF Held
<1> USE DEF Handshake, AtWork, Over
<1>5. CASE Begin \/ Setup \/ DumpNext \/ Glance \/ WriteData \/ WriteUsed \/ Info
  <2>1. pc \in AtWork /\ pc' \in AtWork \cup {"failed"} /\ UNCHANGED <<owner, pipes>>
    BY <1>5 DEF Begin, Setup, Fail, DumpNext, Glance, WriteData, WriteFails,
                WriteUsed, Info
  <2> QED  BY <2>1
<1>6. CASE Reset \/ Stored
  <2>1. /\ pc \in AtWork /\ pc' \in AtWork \cup {"failed", "finish"}
        /\ UNCHANGED <<owner, pipes>>
    BY <1>6 DEF Reset, Fail, Stored
  <2> QED  BY <2>1
<1>7. CASE Cancel \/ Clear \/ Failed
  BY <1>7 DEF Cancel, Clear, Failed
<1>8. CASE Finish
  BY <1>8, AnswerStep DEF Finish
<1>9. CASE UNCHANGED vars
  BY <1>9 DEF vars
<1> QED
  BY <1>1, <1>2, <1>3, <1>4, <1>5, <1>6, <1>7, <1>8, <1>9 DEF Next, Thread

LEMMA HandshakeHolds == Spec => []Handshake
BY HandshakeInit, HandshakeStep, PTL DEF Spec

\* However signals and failures fall, a scan whose owner has seen the answer to
\* its STOP does nothing until it is told to go on.
THEOREM StoppedIsStopped == Spec => []StandsStill
<1>1. Handshake => StandsStill
  BY DEF Handshake, StandsStill
<1> QED  BY <1>1, HandshakeHolds, PTL

\* An owner that waits for the end of the scan is not told before it.
THEOREM ToldIsOver == Spec => []AnswersAreTrue
<1>1. Handshake => AnswersAreTrue
  BY DEF Handshake, AnswersAreTrue, Over
<1> QED  BY <1>1, HandshakeHolds, PTL
\* A scan that works or is held gets to know what its owner wants.
SignalIsHeard ==
  pc \in AtWork \cup {"held"} =>
    /\ Len(scanPipe) <= 2
    /\ owner = "killing" =>
         scanPipe # <<>> /\ scanPipe[Len(scanPipe)] = "KILL"
    /\ owner = "stopping" =>
         \/ scanPipe # <<>> /\ scanPipe[Len(scanPipe)] = "STOP"
         \/ pc = "held" /\ (mainPipe # <<>> \/ Lost)
    /\ pc = "held" /\ scanPipe = <<>> =>
         owner = "paused" \/ mainPipe # <<>> \/ Stranded

\* However stops, goes and a kill follow one another and whichever polls fail, the
\* last signal is before the thread or answered, and a held thread without one has
\* an owner that is told, or will be, that it stopped, unless the answer was lost:
\* then, and only then, thread and owner wait for each other.
THEOREM SignalsAreHeard == Spec => []SignalIsHeard
<1>1. Handshake => SignalIsHeard
  <2> SUFFICES ASSUME Handshake, pc \in AtWork \cup {"held"} PROVE SignalIsHeard
    BY DEF SignalIsHeard
  <2>1. ASSUME NEW s \in Signal, NEW t \in Signal
        PROVE  /\ Len(<<s>>) = 1 /\ <<s>>[Len(<<s>>)] = s /\ <<s>> # <<>>
               /\ Len(<<s, t>>) = 2 /\ <<s, t>>[Len(<<s, t>>)] = t
               /\ <<s, t>> # <<>>
    <3>1. <<s>> # <<>> /\ <<s, t>> # <<>>
      BY Pipes
    <3>2. Len(<<s>>) = 1 /\ <<s>>[1] = s
      OBVIOUS
    <3>3. Len(<<s, t>>) = 2 /\ <<s, t>>[2] = t
      OBVIOUS
    <3>4. <<s>>[Len(<<s>>)] = s
      BY <3>2, Zenon
    <3>5. <<s, t>>[Len(<<s, t>>)] = t
      BY <3>3, Zenon
    <3> QED  BY <3>1, <3>2, <3>3, <3>4, <3>5, Zenon
  <2>2. \/ scanPipe = <<>>
        \/ scanPipe = <<"STOP">> \/ scanPipe = <<"KILL">> \/ scanPipe = <<"CONT">>
        \/ scanPipe = <<"CONT", "STOP">> \/ scanPipe = <<"CONT", "KILL">>
    BY DEF Handshake
  <2>3. Len(scanPipe) <= 2
    <3>1. CASE scanPipe = <<>>
      BY <3>1
    <3>2. CASE \E s \in Signal : scanPipe = <<s>>
      BY <2>1, <3>2
    <3>3. CASE \E s, t \in Signal : scanPipe = <<s, t>>
      BY <2>1, <3>3
    <3> QED  BY <2>2, <3>1, <3>2, <3>3 DEF Signal
  <2>4. owner = "killing" => scanPipe # <<>> /\ scanPipe[Len(scanPipe)] = "KILL"
    BY <2>1 DEF Handshake, Signal
  <2>5. owner = "stopping" =>
          \/ scanPipe # <<>> /\ scanPipe[Len(scanPipe)] = "STOP"
          \/ pc = "held" /\ (mainPipe # <<>> \/ Lost)
    BY <2>1 DEF Handshake, Signal
  <2>6. pc = "held" /\ scanPipe = <<>> =>
          owner = "paused" \/ mainPipe # <<>> \/ Stranded
    BY <2>1 DEF Handshake, Stranded, Signal
  <2> QED  BY <2>3, <2>4, <2>5, <2>6 DEF SignalIsHeard
<1> QED  BY <1>1, HandshakeHolds, PTL
-----------------------------------------------------------------------------
\* The signals, where the thread stands, and its flags.
SignalTypes ==
  /\ owner \in {"idle", "stopping", "paused", "killing", "told"}
  /\ scanPipe \in Seq(Signal) /\ mainPipe \in Seq({"CONT"})
  /\ pc \in AtWork \cup {"held", "cancel", "finish", "clear", "failed", "ended"}
  /\ threadmade \in BOOLEAN /\ dumping \in BOOLEAN /\ scanning \in BOOLEAN
  /\ ~(dumping /\ scanning)
  /\ pc = "begin" => ~scanning
  /\ pc \in {"recheck", "stored"} => ~dumping
  /\ pc = "reset" => ~dumping
  /\ pc \in {"setup", "dump", "check", "glance", "data", "used"} => dumping

Counters ==
  /\ pollErrors \in 0..PollErrors /\ failures \in 0..Failures
  /\ writeErrors \in 0..WriteErrors
  /\ readErrors \in 0..ReadErrors /\ emptyReads \in 0..EmptyReads

\* The list of mappings and the files, and where the dump stands in them.
PlaceTypes ==
  /\ maps \in Seq(Nat)
  /\ focus \in 1..Len(maps) + 1
  /\ focus <= Len(maps) => bytes \in 0..maps[focus]
  /\ got \in 0..Buffer
  /\ dataFile \in Seq((1..Len(maps)) \X Nat) /\ usedFile \in Nat

\* A buffer is asked for, and counted, inside the mapping in focus.
Inside ==
  /\ pc \in {"begin", "setup"} => focus = 1 /\ bytes = 0 /\ dataFile = <<>>
  /\ pc \in {"check", "glance"} \/ (pc = "held" /\ dumping) =>
       focus <= Len(maps) /\ bytes < maps[focus]
  /\ pc \in {"data", "used"} =>
       focus <= Len(maps) /\ bytes + got <= maps[focus]

TypeInv == SignalTypes /\ Counters /\ PlaceTypes /\ Inside

LEMMA TypeInit == Init => TypeInv
<1> SUFFICES ASSUME Init PROVE TypeInv
  OBVIOUS
<1>1. SignalTypes
  <2>1. scanPipe \in Seq(Signal) /\ mainPipe \in Seq({"CONT"})
    BY EmptySeq DEF Init
  <2> QED  BY <2>1 DEF Init, SignalTypes, AtWork
<1>2. Counters
  BY DEF Init, Counters
<1>3. PlaceTypes
  <2>1. maps = <<>> /\ focus = 1 /\ dataFile = <<>> /\ usedFile = 0 /\ got = 0
    BY DEF Init
  <2>2. Len(maps) = 0 /\ maps \in Seq(Nat)
        /\ dataFile \in Seq((1..Len(maps)) \X Nat)
    BY <2>1, EmptySeq
  <2> QED  BY <2>1, <2>2 DEF PlaceTypes, Buffer
<1>4. Inside
  BY DEF Init, Inside
<1> QED  BY <1>1, <1>2, <1>3, <1>4 DEF TypeInv

\* A signal taken or given keeps the types of the pipes.
LEMMA PipeTypes ==
  ASSUME SignalTypes
  PROVE  /\ scanPipe # <<>> => Head(scanPipe) \in Signal /\ Tail(scanPipe) \in Seq(Signal)
         /\ mainPipe # <<>> => Tail(mainPipe) \in Seq({"CONT"})
         /\ \A s \in Signal : Append(scanPipe, s) \in Seq(Signal)
         /\ Append(mainPipe, "CONT") \in Seq({"CONT"})
<1>1. scanPipe \in Seq(Signal) /\ mainPipe \in Seq({"CONT"})
  BY DEF SignalTypes
<1>2. scanPipe # <<>> => Head(scanPipe) \in Signal /\ Tail(scanPipe) \in Seq(Signal)
  BY <1>1, HeadTailProperties
<1>3. mainPipe # <<>> => Tail(mainPipe) \in Seq({"CONT"})
  BY <1>1, HeadTailProperties
<1> QED  BY <1>1, <1>2, <1>3

\* Every step keeps the signals and flags.
LEMMA SignalTypesStep == SignalTypes /\ [Next]_vars => SignalTypes'
<1> SUFFICES ASSUME SignalTypes, [Next]_vars PROVE SignalTypes'
  OBVIOUS
<1> USE PipeTypes DEF pipes, flags
<1>1. CASE Owner
  <2>1. scanPipe' \in Seq(Signal) /\ mainPipe' \in Seq({"CONT"})
    BY <1>1 DEF Owner, OwnerStops, OwnerIsTold, OwnerContinues, OwnerKills,
                OwnerSeesEnd, Tell, Told, SignalTypes, Signal
  <2>2. owner' \in {"idle", "stopping", "paused", "killing", "told"}
    BY <1>1 DEF Owner, OwnerStops, OwnerIsTold, OwnerContinues, OwnerKills,
                OwnerSeesEnd
  <2> QED  BY <1>1, <2>1, <2>2 DEF Owner, SignalTypes
<1>2. CASE DumpCheck \/ ScanCheck \/ Held
  <2>1. scanPipe' \in Seq(Signal) /\ mainPipe' \in Seq({"CONT"})
    BY <1>2 DEF DumpCheck, ScanCheck, Check, Held, Obey, Take, Answer, NoAnswer, SignalTypes
  <2>2. pc' \in {"glance", "stored", "held", "cancel"} /\ UNCHANGED <<owner, flags>>
    BY <1>2 DEF DumpCheck, ScanCheck, Check, Held, Obey
  <2>3. pc' = "stored" => ~dumping
    BY <1>2 DEF DumpCheck, ScanCheck, Check, Held, Obey, SignalTypes
  <2>4. pc' = "glance" => dumping
    BY <1>2 DEF DumpCheck, ScanCheck, Check, Held, Obey, SignalTypes
  <2> QED  BY <2>1, <2>2, <2>3, <2>4 DEF SignalTypes, AtWork
<1>3. CASE Begin
  BY <1>3 DEF Begin, SignalTypes, AtWork
<1>4. CASE Setup
  <2>1. UNCHANGED <<owner, pipes, threadmade>>
    BY <1>4 DEF Setup
  <2>2. CASE pc' = "dump" /\ UNCHANGED <<dumping, scanning>>
    BY <1>4, <2>1, <2>2 DEF Setup, SignalTypes, AtWork
  <2>3. CASE Fail
    BY <2>1, <2>3 DEF Fail, SignalTypes, AtWork
  <2> QED  BY <1>4, <2>2, <2>3 DEF Setup
<1>5. CASE DumpNext
  BY <1>5 DEF DumpNext, SignalTypes, AtWork
<1>6. CASE Glance
  BY <1>6 DEF Glance, SignalTypes, AtWork
<1>7. CASE WriteData
  BY <1>7 DEF WriteData, WriteFails, SignalTypes, AtWork
<1>8. CASE WriteUsed
  BY <1>8 DEF WriteUsed, WriteFails, SignalTypes, AtWork
<1>9. CASE Info
  BY <1>9 DEF Info, SignalTypes, AtWork
<1>10. CASE Reset
  <2>1. UNCHANGED <<owner, pipes, threadmade>>
    BY <1>10 DEF Reset
  <2>2. CASE pc' = "recheck" /\ UNCHANGED <<dumping, scanning>>
    BY <1>10, <2>1, <2>2 DEF Reset, SignalTypes, AtWork
  <2>3. CASE Fail
    BY <2>1, <2>3 DEF Fail, SignalTypes, AtWork
  <2> QED  BY <1>10, <2>2, <2>3 DEF Reset
<1>11. CASE Stored
  BY <1>11 DEF Stored, SignalTypes, AtWork
<1>12. CASE Cancel
  BY <1>12 DEF Cancel, SignalTypes, AtWork
<1>13. CASE Finish
  BY <1>13 DEF Finish, Answer, SignalTypes, AtWork
<1>14. CASE Clear
  BY <1>14 DEF Clear, SignalTypes, AtWork
<1>15. CASE Failed
  BY <1>15 DEF Failed, SignalTypes, AtWork
<1>16. CASE UNCHANGED vars
  BY <1>16 DEF vars, SignalTypes
<1> QED
  BY <1>1, <1>2, <1>3, <1>4, <1>5, <1>6, <1>7, <1>8, <1>9, <1>10, <1>11,
     <1>12, <1>13, <1>14, <1>15, <1>16 DEF Next, Thread

\* Every step keeps the counters.
LEMMA CountersStep == Counters /\ [Next]_vars => Counters'
<1> SUFFICES ASSUME Counters, [Next]_vars PROVE Counters'
  OBVIOUS
<1> USE DEF Counters, bounds
<1>1. CASE Owner
  BY <1>1 DEF Owner
<1>2. CASE DumpCheck \/ ScanCheck \/ Held
  BY <1>2 DEF DumpCheck, ScanCheck, Check, Held
<1>3. CASE Begin
  BY <1>3 DEF Begin
<1>4. CASE Setup
  BY <1>4 DEF Setup, Fail
<1>5. CASE DumpNext
  BY <1>5 DEF DumpNext
<1>6. CASE Glance
  BY <1>6 DEF Glance
<1>7. CASE WriteData
  BY <1>7 DEF WriteData, WriteFails
<1>8. CASE WriteUsed
  BY <1>8 DEF WriteUsed, WriteFails
<1>9. CASE Info
  BY <1>9 DEF Info
<1>10. CASE Reset
  BY <1>10 DEF Reset, Fail
<1>11. CASE Stored
  BY <1>11 DEF Stored
<1>12. CASE Cancel
  BY <1>12 DEF Cancel
<1>13. CASE Finish
  BY <1>13 DEF Finish
<1>14. CASE Clear
  BY <1>14 DEF Clear
<1>15. CASE Failed
  BY <1>15 DEF Failed
<1>16. CASE UNCHANGED vars
  BY <1>16 DEF vars
<1> QED
  BY <1>1, <1>2, <1>3, <1>4, <1>5, <1>6, <1>7, <1>8, <1>9, <1>10, <1>11,
     <1>12, <1>13, <1>14, <1>15, <1>16 DEF Next, Thread

\* Nothing is asked for that is not in the mapping, nor more than a buffer.
LEMMA WantBound ==
  ASSUME PlaceTypes, focus <= Len(maps), bytes < maps[focus]
  PROVE  Want \in 1..Buffer /\ bytes + Want <= maps[focus]
<1>1. Len(maps) \in Nat /\ focus \in 1..Len(maps)
  BY DEF PlaceTypes
<1>2. maps[focus] \in Nat /\ bytes \in 0..maps[focus]
  BY <1>1, ElementOfSeq DEF PlaceTypes
<1> QED  BY <1>2 DEF Want, Buffer

\* What a buffer adds to the file.
LEMMA DataType ==
  ASSUME NEW n \in Nat, NEW f \in 1..n, NEW g \in Nat,
         NEW d \in Seq((1..n) \X Nat)
  PROVE  d \o [i \in 1..g |-> <<f, i - 1>>] \in Seq((1..n) \X Nat)
<1>1. [i \in 1..g |-> <<f, i - 1>>] \in [1..g -> (1..n) \X Nat]
  OBVIOUS
<1>2. [i \in 1..g |-> <<f, i - 1>>] \in Seq((1..n) \X Nat)
  BY <1>1
<1> QED  BY <1>2, ConcatProperties

\* Every step keeps the dump inside its list, its mapping and its files.
LEMMA PlaceStep ==
  SignalTypes /\ PlaceTypes /\ Inside /\ [Next]_vars => PlaceTypes' /\ Inside'
<1> SUFFICES ASSUME SignalTypes, PlaceTypes, Inside, [Next]_vars
             PROVE  PlaceTypes' /\ Inside'
  OBVIOUS
<1>0. Len(maps) \in Nat /\ \A i \in 1..Len(maps) : maps[i] \in Nat
  BY LenProperties, ElementOfSeq DEF PlaceTypes
<1> USE DEF place, files
<1>1. CASE Owner
  BY <1>1 DEF Owner, PlaceTypes, Inside, flags
<1>2. CASE DumpCheck \/ ScanCheck \/ Held
  <2>1. UNCHANGED <<place, files, flags>>
    BY <1>2 DEF DumpCheck, ScanCheck, Check, Held
  <2>2. /\ pc' \in {"glance", "stored", "held", "cancel"}
        /\ pc' = "glance" \/ (pc' = "held" /\ dumping) =>
             pc = "check" \/ (pc = "held" /\ dumping)
    BY <1>2 DEF DumpCheck, ScanCheck, Check, Held, Obey, SignalTypes
  <2> QED  BY <2>1, <2>2 DEF PlaceTypes, Inside, flags
<1>3. CASE Begin
  BY <1>3 DEF Begin, PlaceTypes, Inside
<1>4. CASE Setup
  <2>1. focus = 1 /\ bytes = 0 /\ dataFile = <<>>
    BY <1>4 DEF Setup, Inside
  <2>2. CASE UNCHANGED maps
    BY <1>4, <2>2 DEF Setup, Fail, PlaceTypes, Inside
  <2>3. CASE maps' \in Lists /\ pc' = "dump"
    <3>1. /\ maps' \in Seq(Nat) /\ Len(maps') \in Nat
          /\ \A i \in 1..Len(maps') : maps'[i] \in Nat
      BY <2>3, LenProperties, ElementOfSeq, SeqMonotonic
    <3>2. dataFile' \in Seq((1..Len(maps')) \X Nat)
      BY <1>4, <2>1, EmptySeq DEF Setup
    <3> QED  BY <1>4, <2>1, <2>3, <3>1, <3>2 DEF Setup, PlaceTypes, Inside
  <2> QED  BY <1>4, <2>2, <2>3 DEF Setup
<1>5. CASE DumpNext
  <2>1. UNCHANGED <<maps, got, files>>
    BY <1>5 DEF DumpNext
  <2>2. CASE pc' = "info" /\ UNCHANGED <<focus, bytes>>
    BY <2>1, <2>2 DEF PlaceTypes, Inside
  <2>3. CASE focus <= Len(maps) /\ focus' = focus + 1 /\ bytes' = 0 /\ pc' = "dump"
    <3>1. focus' \in 1..Len(maps) + 1
      BY <1>0, <2>3 DEF PlaceTypes
    <3>2. focus' <= Len(maps) => bytes' \in 0..maps[focus']
      BY <1>0, <2>3, <3>1
    <3> QED  BY <2>1, <2>3, <3>1, <3>2 DEF PlaceTypes, Inside
  <2>4. CASE /\ focus <= Len(maps) /\ bytes < maps[focus]
             /\ pc' = "check" /\ UNCHANGED <<focus, bytes>>
    BY <2>1, <2>4 DEF PlaceTypes, Inside
  <2> QED  BY <1>5, <2>2, <2>3, <2>4 DEF DumpNext
<1>6. CASE Glance
  <2>1. UNCHANGED <<maps, files>> /\ focus <= Len(maps) /\ bytes < maps[focus]
    BY <1>6 DEF Glance, Inside
  <2>2. Want \in 1..Buffer /\ bytes + Want <= maps[focus]
    BY <2>1, WantBound
  <2>3. maps[focus] \in Nat /\ bytes \in 0..maps[focus] /\ focus \in 1..Len(maps)
    BY <1>0, <2>1 DEF PlaceTypes
  <2>4. CASE got' \in 0..Want /\ pc' = "data" /\ UNCHANGED <<focus, bytes>>
    <3>1. got' \in 0..Buffer /\ bytes + got' <= maps[focus]
      BY <2>2, <2>3, <2>4 DEF Buffer
    <3> QED  BY <2>1, <2>4, <3>1 DEF PlaceTypes, Inside
  <2>5. CASE focus' = focus + 1 /\ bytes' = 0 /\ pc' = "dump" /\ UNCHANGED got
    <3>1. focus' \in 1..Len(maps) + 1
      BY <1>0, <2>3, <2>5
    <3>2. focus' <= Len(maps) => bytes' \in 0..maps[focus']
      BY <1>0, <2>5, <3>1
    <3> QED  BY <2>1, <2>5, <3>1, <3>2 DEF PlaceTypes, Inside
  <2>6. got' \in 1..Want \/ got' = 0 => got' \in 0..Want
    BY <2>2 DEF Buffer
  <2> QED  BY <1>6, <2>4, <2>5, <2>6 DEF Glance
<1>7. CASE WriteData
  <2>1. UNCHANGED <<maps, focus, bytes, got, usedFile>>
        /\ focus <= Len(maps) /\ bytes + got <= maps[focus]
    BY <1>7 DEF WriteData, Inside
  <2>2. focus \in 1..Len(maps) /\ got \in Nat
    BY <1>0, <2>1 DEF PlaceTypes, Buffer
  <2>3. CASE dataFile' = dataFile \o [i \in 1..got |-> <<focus, i - 1>>] /\ pc' = "used"
    <3>1. dataFile' \in Seq((1..Len(maps)) \X Nat)
      BY <1>0, <2>2, <2>3, DataType DEF PlaceTypes
    <3> QED  BY <2>1, <2>3, <3>1 DEF PlaceTypes, Inside
  <2>4. CASE UNCHANGED dataFile /\ pc' = "info"
    BY <2>1, <2>4 DEF PlaceTypes, Inside
  <2> QED  BY <1>7, <2>3, <2>4 DEF WriteData, WriteFails
<1>8. CASE WriteUsed
  <2>1. UNCHANGED <<maps, focus, got, dataFile>>
        /\ focus <= Len(maps) /\ bytes + got <= maps[focus]
    BY <1>8 DEF WriteUsed, Inside
  <2>2. /\ maps[focus] \in Nat /\ bytes \in 0..maps[focus] /\ got \in Nat
        /\ usedFile \in Nat
    BY <1>0, <2>1 DEF PlaceTypes, Buffer
  <2>3. CASE usedFile' = usedFile + got /\ bytes' = bytes + got /\ pc' = "dump"
    BY <2>1, <2>2, <2>3 DEF PlaceTypes, Inside
  <2>4. CASE UNCHANGED <<usedFile, bytes>> /\ pc' = "info"
    BY <2>1, <2>4 DEF PlaceTypes, Inside
  <2> QED  BY <1>8, <2>3, <2>4 DEF WriteUsed, WriteFails
<1>9. CASE Info \/ Stored \/ Cancel \/ Finish \/ Clear \/ Failed
  <2>1. /\ UNCHANGED <<place, files>>
        /\ pc' \in {"reset", "finish", "failed", "clear", "ended"}
    BY <1>9 DEF Info, Stored, Cancel, Finish, Clear, Failed
  <2> QED  BY <2>1 DEF PlaceTypes, Inside
<1>10. CASE Reset
  <2>1. UNCHANGED <<got, dataFile, usedFile>> /\ pc' \in {"recheck", "failed"}
    BY <1>10 DEF Reset, Fail
  <2>2. CASE UNCHANGED <<maps, focus, bytes>>
    BY <2>1, <2>2 DEF PlaceTypes, Inside
  <2>3. CASE maps' = [i \in 1..Len(maps) |-> 0] /\ focus' = 1 /\ bytes' = 0
    <3>1. /\ maps' \in Seq(Nat) /\ Len(maps') = Len(maps)
          /\ \A i \in 1..Len(maps') : maps'[i] = 0
      BY <1>0, <2>3
    <3> QED  BY <1>0, <2>1, <2>3, <3>1 DEF PlaceTypes, Inside
  <2> QED  BY <1>10, <2>2, <2>3 DEF Reset
<1>11. CASE UNCHANGED vars
  BY <1>11 DEF vars, PlaceTypes, Inside, flags
<1> QED
  BY <1>1, <1>2, <1>3, <1>4, <1>5, <1>6, <1>7, <1>8, <1>9, <1>10, <1>11
     DEF Next, Thread

\* A dump never leaves its mapping or its list, however reads come short and
\* whatever fails, and a thread never dumps and scans at once.
THEOREM TypeCorrect == Spec => []TypeOK
<1>1. TypeInv /\ Handshake => TypeOK
  BY DEF TypeInv, TypeOK, Handshake, SignalTypes, Counters, PlaceTypes
<1>2. TypeInv /\ [Next]_vars => TypeInv'
  BY SignalTypesStep, CountersStep, PlaceStep DEF TypeInv
<1> QED  BY <1>1, <1>2, TypeInit, HandshakeHolds, PTL DEF Spec

\* Who waits for a lost answer waits for good: whatever the thread and its owner
\* may do, only a poll of the thread that fails ends it.
THEOREM StrandedForGood == Spec => [][Stranded => Stranded' \/ pollErrors' < pollErrors]_vars
<1>1. /\ TypeInv /\ [Next]_vars => TypeInv'
      /\ TypeInv /\ [Next]_vars => [Stranded => Stranded' \/ pollErrors' < pollErrors]_vars
  <2>1. TypeInv /\ [Next]_vars => TypeInv'
    BY SignalTypesStep, CountersStep, PlaceStep DEF TypeInv
  <2>2. ASSUME TypeInv, Next, Stranded
        PROVE  Stranded' \/ pollErrors' < pollErrors
    <3>1. pc = "held" /\ owner = "stopping" /\ scanPipe = <<>> /\ mainPipe = <<>> /\ Lost
      BY <2>2 DEF Stranded
    <3>2. ~Owner
      BY <3>1 DEF Owner, OwnerStops, OwnerIsTold, OwnerContinues, OwnerKills,
                  OwnerSeesEnd, Told
    <3>3. Held
      BY <2>2, <3>1, <3>2
         DEF Next, Thread, Begin, Setup, DumpNext, DumpCheck, Glance, WriteData,
             WriteUsed, Info, Reset, ScanCheck, Stored, Cancel, Finish, Clear, Failed
    <3>4. pollErrors' = pollErrors - 1 /\ pollErrors \in Nat
      BY <2>2, <3>1, <3>3 DEF Held, Obey, TypeInv, Counters
    <3> QED  BY <3>4
  <2> QED  BY <2>1, <2>2
<1> QED  BY <1>1, TypeInit, PTL DEF Spec
-----------------------------------------------------------------------------
(***************************************************************************)
(* The dump is complete.  Where it stands in its loop says how much of     *)
(* each mapping is in the file: all of those before the one in focus, of   *)
(* that as much as was counted, with what was written and is still to be   *)
(* counted, and nothing of those after it.                                 *)
(***************************************************************************)
InLoop ==
  \/ pc \in {"dump", "check", "glance", "data", "used"}
  \/ pc = "held" /\ dumping

Uncounted == IF pc = "used" THEN got ELSE 0

Share(m) ==
  IF m < focus THEN maps[m] ELSE IF m = focus THEN bytes + Uncounted ELSE 0

WholeDump ==
  /\ \A m \in 1..Len(maps) : Cardinality(Dumped(m)) = maps[m]
  /\ usedFile = Len(dataFile)

Progress ==
  /\ pc \in {"begin", "setup"} => usedFile = 0
  /\ InLoop /\ NoIOError =>
       /\ \A m \in 1..Len(maps) : Cardinality(Dumped(m)) = Share(m)
       /\ usedFile + Uncounted = Len(dataFile)
  /\ pc \in {"info", "reset"} /\ NoIOError => WholeDump

\* An error that happened has happened.
LEMMA ErrorsStay ==
  ASSUME Counters, Counters', [Next]_vars, NoIOError'
  PROVE  NoIOError /\ UNCHANGED <<writeErrors, readErrors>>
<1>1. /\ writeErrors' = writeErrors \/ writeErrors' = writeErrors - 1
      /\ readErrors' = readErrors \/ readErrors' = readErrors - 1
  BY DEF Next, Thread, Owner, DumpCheck, ScanCheck, Check, Held, Begin, Setup, Fail,
         DumpNext, Glance, WriteData, WriteUsed, WriteFails, Info, Reset, Stored,
         Cancel, Finish, Clear, Failed, vars, bounds
<1> QED  BY <1>1 DEF Counters, NoIOError

\* Where mapping m is in file d, as Dumped says it of dataFile.
Of(d, m) == {i \in 1..Len(d) : d[i][1] = m}

\* A mapping is in a file a natural number of times.
LEMMA DumpedIsFinite ==
  ASSUME NEW S, NEW m, NEW d \in Seq(S)
  PROVE  IsFiniteSet(Of(d, m)) /\ Cardinality(Of(d, m)) \in Nat
<1> DEFINE I == 1..Len(d)
<1>1. IsFiniteSet(I)
  <2>1. Len(d) \in Int
    OBVIOUS
  <2> QED  BY <2>1, FS_Interval
<1>2. Of(d, m) \subseteq I
  BY DEF Of
<1> HIDE DEF I
<1> QED  BY <1>1, <1>2, FS_Subset, FS_CardinalityType

\* What a buffer adds to a file stands after what was there.
LEMMA AfterTheFile ==
  ASSUME NEW S, NEW d \in Seq(S), NEW b \in Seq(S)
  PROVE  /\ Len(d) \in Nat /\ Len(b) \in Nat
         /\ Len(d \o b) = Len(d) + Len(b)
         /\ \A i \in 1..Len(d) : (d \o b)[i] = d[i]
         /\ \A i \in Len(d) + 1 .. Len(d) + Len(b) :
              /\ (d \o b)[i] = b[i - Len(d)]
              /\ i - Len(d) \in 1..Len(b)
<1> DEFINE l == Len(d)
           g == Len(b)
<1>1. l \in Nat /\ g \in Nat
  OBVIOUS
<1>2. /\ Len(d \o b) = l + g
      /\ \A i \in 1 .. l + g : (d \o b)[i] = IF i <= l THEN d[i] ELSE b[i - l]
  BY ConcatProperties
<1>3. \A i \in 1..l : i \in 1 .. l + g /\ i <= l
  <2> HIDE DEF l, g
  <2> QED  BY <1>1
<1>4. \A i \in l + 1 .. l + g : i \in 1 .. l + g /\ ~(i <= l) /\ i - l \in 1..g
  <2> HIDE DEF l, g
  <2> QED  BY <1>1
<1> QED  BY <1>1, <1>2, <1>3, <1>4

\* A buffer of other mappings leaves a mapping as often in the file as it was.
LEMMA OthersStay ==
  ASSUME NEW S, NEW m, NEW d \in Seq(S), NEW b \in Seq(S),
         \A i \in 1..Len(b) : b[i][1] # m
  PROVE  Cardinality(Of(d \o b, m)) = Cardinality(Of(d, m))
<1> DEFINE l == Len(d)
           g == Len(b)
<1>1. /\ l \in Nat /\ g \in Nat /\ Len(d \o b) = l + g
      /\ \A i \in 1..l : (d \o b)[i] = d[i]
      /\ \A i \in l + 1 .. l + g : (d \o b)[i][1] # m
  BY AfterTheFile
<1>2. 1 .. l + g = (1..l) \cup (l + 1 .. l + g)
  <2> HIDE DEF l, g
  <2> QED  BY <1>1
<1>3. Of(d \o b, m) = Of(d, m)
  BY <1>1, <1>2 DEF Of
<1> QED  BY <1>3

\* A buffer of one mapping makes it more often in the file, by its length.
LEMMA FocusGrows ==
  ASSUME NEW S, NEW f, NEW d \in Seq(S), NEW b \in Seq(S),
         \A i \in 1..Len(b) : b[i][1] = f
  PROVE  Cardinality(Of(d \o b, f)) = Cardinality(Of(d, f)) + Len(b)
<1> DEFINE l == Len(d)
           g == Len(b)
           added == l + 1 .. l + g
<1>1. /\ l \in Nat /\ g \in Nat /\ Len(d \o b) = l + g
      /\ \A i \in 1..l : (d \o b)[i] = d[i]
      /\ \A i \in added : (d \o b)[i][1] = f
  BY AfterTheFile
<1>2. 1 .. l + g = (1..l) \cup added
  <2> HIDE DEF l, g
  <2> QED  BY <1>1
<1>3. Of(d \o b, f) = Of(d, f) \cup added
  BY <1>1, <1>2 DEF Of
<1>4. Of(d, f) \cap added = {}
  <2>1. \A i \in 1..l : i \notin added
    <3> HIDE DEF l, g
    <3> QED  BY <1>1
  <2> QED  BY <2>1 DEF Of
<1>5. IsFiniteSet(added) /\ Cardinality(added) = g
  <2> HIDE DEF l, g
  <2>1. l + 1 \in Int /\ l + g \in Int /\ (l + 1 > l + g <=> g = 0)
        /\ (l + g) - (l + 1) + 1 = g
    BY <1>1
  <2> QED  BY <2>1, FS_Interval
<1>6. IsFiniteSet(Of(d, f)) /\ Cardinality(Of(d, f)) \in Nat
  BY DumpedIsFinite
<1>7. Cardinality(Of(d, f) \cap added) = 0
  BY <1>4, FS_EmptySet
<1> HIDE DEF added
<1>8. Cardinality(Of(d, f) \cup added) =
        Cardinality(Of(d, f)) + Cardinality(added) - Cardinality(Of(d, f) \cap added)
  BY <1>5, <1>6, FS_Union
<1> HIDE DEF g
<1>9. Cardinality(Of(d \o b, f)) = Cardinality(Of(d, f)) + g
  BY <1>1, <1>3, <1>5, <1>6, <1>7, <1>8
<1> QED  BY <1>9 DEF g

\* Every step keeps the file and the place of the dump together.
LEMMA ProgressStep ==
  ASSUME TypeInv, TypeInv', Progress, [Next]_vars
  PROVE  Progress'
<1>1. /\ Len(maps) \in Nat /\ \A i \in 1..Len(maps) : maps[i] \in Nat
      /\ focus \in Nat /\ got \in Nat /\ usedFile \in Nat
      /\ dataFile \in Seq((1..Len(maps)) \X Nat) /\ Len(dataFile) \in Nat
  BY LenProperties, ElementOfSeq DEF TypeInv, PlaceTypes, Buffer
<1>2. NoIOError' => NoIOError /\ UNCHANGED <<writeErrors, readErrors>>
  BY ErrorsStay DEF TypeInv
<1> USE DEF place, files
<1>3. ASSUME UNCHANGED <<maps, focus, bytes, got, dataFile, usedFile>>,
             InLoop' => InLoop /\ Uncounted' = Uncounted,
             pc' \in {"begin", "setup"} => pc \in {"begin", "setup"},
             pc' \in {"info", "reset"} => pc \in {"info", "reset"} \/ ~NoIOError'
      PROVE  Progress'
  <2>1. \A m : Dumped(m)' = Dumped(m)
    BY <1>3 DEF Dumped
  <2>2. InLoop' => \A m : Share(m)' = Share(m)
    BY <1>3 DEF Share
  <2>3. InLoop' /\ NoIOError' =>
          /\ \A m \in 1..Len(maps') : Cardinality(Dumped(m)') = Share(m)'
          /\ usedFile' + Uncounted' = Len(dataFile')
    BY <1>2, <1>3, <2>1, <2>2 DEF Progress
  <2>4. pc' \in {"info", "reset"} /\ NoIOError' => WholeDump'
    BY <1>2, <1>3, <2>1 DEF Progress, WholeDump
  <2>5. pc' \in {"begin", "setup"} => usedFile' = 0
    BY <1>3 DEF Progress
  <2> QED  BY <2>3, <2>4, <2>5 DEF Progress
<1>4. CASE Owner
  BY <1>3, <1>4 DEF Owner, flags, InLoop, Uncounted
<1>5. CASE DumpCheck \/ ScanCheck \/ Held
  <2>1. UNCHANGED <<place, files, flags>>
    BY <1>5 DEF DumpCheck, ScanCheck, Check, Held
  <2>2. pc' \in {"glance", "stored", "held", "cancel"}
    BY <1>5 DEF DumpCheck, ScanCheck, Check, Held, Obey
  <2>3. InLoop' => InLoop
    BY <1>5, <2>1
       DEF DumpCheck, ScanCheck, Check, Held, Obey, InLoop, TypeInv, SignalTypes, flags
  <2>4. pc # "used"
    BY <1>5 DEF DumpCheck, ScanCheck, Held
  <2> QED  BY <1>3, <2>1, <2>2, <2>3, <2>4 DEF Uncounted
<1>6. CASE Begin
  BY <1>3, <1>6 DEF Begin, InLoop
<1>7. CASE Setup
  <2>1. focus = 1 /\ bytes = 0 /\ dataFile = <<>> /\ usedFile = 0
        /\ UNCHANGED <<focus, bytes, dataFile, usedFile>>
    BY <1>7 DEF Setup, TypeInv, Inside, Progress
  <2>2. CASE pc' = "failed"
    BY <2>2 DEF Progress, InLoop
  <2>3. CASE pc' = "dump"
    <3>1. \A m \in 1..Len(maps') : Cardinality(Dumped(m)') = 0
      <4>1. \A m : Dumped(m)' = {}
        BY <2>1 DEF Dumped
      <4> QED  BY <4>1, FS_EmptySet
    <3>2. \A m \in 1..Len(maps') : Share(m)' = 0
      BY <2>1, <2>3 DEF Share, Uncounted
    <3>3. usedFile' + Uncounted' = Len(dataFile')
      BY <2>1, <2>3 DEF Uncounted
    <3> QED  BY <2>3, <3>1, <3>2, <3>3 DEF Progress
  <2> QED  BY <1>7, <2>2, <2>3 DEF Setup, Fail
<1>8. CASE DumpNext
  <2>1. UNCHANGED <<maps, got, dataFile, usedFile>> /\ InLoop /\ Uncounted = 0
        /\ \A m : Dumped(m)' = Dumped(m)
    BY <1>8 DEF DumpNext, InLoop, Uncounted, Dumped
  <2>2. CASE focus > Len(maps) /\ pc' = "info" /\ UNCHANGED <<focus, bytes>>
    <3>1. \A m \in 1..Len(maps) : Share(m) = maps[m]
      BY <1>1, <2>2 DEF Share
    <3>2. NoIOError' => WholeDump'
      BY <1>1, <1>2, <2>1, <3>1 DEF Progress, WholeDump
    <3> QED  BY <2>2, <3>2 DEF Progress, InLoop
  <2>3. CASE /\ focus <= Len(maps) /\ bytes >= maps[focus]
             /\ focus' = focus + 1 /\ bytes' = 0 /\ pc' = pc
    <3>1. bytes = maps[focus] /\ pc' = "dump" /\ Uncounted' = 0
      BY <1>1, <1>8, <2>3 DEF DumpNext, TypeInv, PlaceTypes, Uncounted
    <3>2. \A m \in 1..Len(maps) : Share(m)' = Share(m)
      BY <1>1, <2>1, <2>3, <3>1 DEF Share
    <3> QED  BY <1>2, <2>1, <3>1, <3>2 DEF Progress
  <2>4. CASE pc' = "check" /\ UNCHANGED <<focus, bytes>>
    BY <1>3, <2>1, <2>4 DEF Uncounted
  <2> QED  BY <1>8, <2>2, <2>3, <2>4 DEF DumpNext
<1>9. CASE Glance
  <2>1. UNCHANGED <<maps, dataFile, usedFile>> /\ InLoop /\ Uncounted = 0
        /\ \A m : Dumped(m)' = Dumped(m)
    BY <1>9 DEF Glance, InLoop, Uncounted, Dumped
  <2>2. CASE pc' = "data" /\ UNCHANGED <<focus, bytes>>
    <3>1. Uncounted' = 0 /\ \A m : Share(m)' = Share(m)
      BY <2>1, <2>2 DEF Share, Uncounted
    <3> QED  BY <1>2, <2>1, <2>2, <3>1 DEF Progress
  <2>3. CASE readErrors' = readErrors - 1 /\ pc' = "dump"
    <3>1. ~NoIOError'
      BY <1>2, <2>3 DEF TypeInv, Counters
    <3> QED  BY <2>3, <3>1 DEF Progress
  <2> QED  BY <1>9, <2>2, <2>3 DEF Glance
<1>10. CASE WriteData
  <2>1. UNCHANGED <<maps, focus, bytes, got, usedFile>> /\ InLoop /\ Uncounted = 0
        /\ focus \in 1..Len(maps)
    BY <1>1, <1>10 DEF WriteData, InLoop, Uncounted, TypeInv, Inside, PlaceTypes
  <2>2. CASE /\ dataFile' = dataFile \o [i \in 1..got |-> <<focus, i - 1>>]
             /\ pc' = "used"
    <3>1. Uncounted' = got
      BY <2>1, <2>2 DEF Uncounted
    <3> DEFINE b == [i \in 1..got |-> <<focus, i - 1>>]
               Entry == (1..Len(maps)) \X Nat
    <3>2. /\ dataFile \in Seq(Entry) /\ b \in Seq(Entry)
          /\ Len(b) = got /\ \A i \in 1..Len(b) : b[i][1] = focus
          /\ dataFile' = dataFile \o b
      BY <1>1, <2>1, <2>2
    <3>3. ASSUME NEW m \in 1..Len(maps)
          PROVE  /\ Cardinality(Dumped(m)) \in Nat
                 /\ Cardinality(Dumped(m)') =
                      Cardinality(Dumped(m)) + (IF m = focus THEN got ELSE 0)
      <4>1. Dumped(m) = Of(dataFile, m) /\ Dumped(m)' = Of(dataFile \o b, m)
        BY <2>1, <3>2 DEF Dumped, Of
      <4> HIDE DEF b, Entry
      <4>2. Cardinality(Of(dataFile, m)) \in Nat
        BY <3>2, DumpedIsFinite
      <4>3. ASSUME m # focus
            PROVE  Cardinality(Of(dataFile \o b, m)) = Cardinality(Of(dataFile, m))
        <5>1. \A i \in 1..Len(b) : b[i][1] # m
          BY <3>2, <4>3
        <5> QED  BY <3>2, <5>1, OthersStay
      <4>4. Cardinality(Of(dataFile \o b, focus)) =
              Cardinality(Of(dataFile, focus)) + Len(b)
        BY <3>2, FocusGrows
      <4> HIDE DEF Of
      <4>5. CASE m # focus
        BY <4>1, <4>2, <4>3, <4>5
      <4>6. CASE m = focus
        BY <4>1, <4>2, <4>4, <4>6, <3>2
      <4> QED  BY <4>5, <4>6
    <3>4. Len(dataFile') = Len(dataFile) + got
      <4> HIDE DEF b, Entry
      <4> QED  BY <3>2, AfterTheFile
    <3>5. \A m \in 1..Len(maps) : Share(m)' = Share(m) + (IF m = focus THEN got ELSE 0)
      <4>1. \A m \in 1..Len(maps) : m # focus => Share(m)' = Share(m) /\ Share(m) \in Nat
        BY <1>1, <2>1 DEF Share
      <4>2. Share(focus)' = bytes + got /\ Share(focus) = bytes /\ bytes \in Nat
        BY <1>1, <2>1, <3>1 DEF Share, TypeInv, PlaceTypes
      <4> QED  BY <2>1, <4>1, <4>2
    <3>6. NoIOError' =>
            \A m \in 1..Len(maps) : Cardinality(Dumped(m)') = Share(m)'
      BY <1>2, <2>1, <3>3, <3>5 DEF Progress
    <3>7. NoIOError' => usedFile' + Uncounted' = Len(dataFile')
      <4>1. NoIOError' => usedFile = Len(dataFile)
        BY <1>1, <1>2, <2>1 DEF Progress
      <4>2. usedFile' = usedFile
        BY <2>1
      <4> QED  BY <3>1, <3>4, <4>1, <4>2
    <3> QED  BY <2>1, <2>2, <3>6, <3>7 DEF Progress
  <2>3. CASE WriteFails
    <3>1. ~NoIOError'
      BY <1>2, <2>3 DEF WriteFails, TypeInv, Counters
    <3> QED  BY <2>3, <3>1 DEF WriteFails, Progress, InLoop
  <2> QED  BY <1>10, <2>2, <2>3 DEF WriteData
<1>11. CASE WriteUsed
  <2>1. UNCHANGED <<maps, focus, got, dataFile>> /\ InLoop /\ Uncounted = got
        /\ \A m : Dumped(m)' = Dumped(m)
    BY <1>11 DEF WriteUsed, InLoop, Uncounted, Dumped
  <2>2. CASE usedFile' = usedFile + got /\ bytes' = bytes + got /\ pc' = "dump"
    <3>1. Uncounted' = 0
      BY <2>2 DEF Uncounted
    <3>2. focus <= Len(maps) => bytes \in Nat
      BY <1>1 DEF TypeInv, PlaceTypes
    <3>3. \A m \in 1..Len(maps) : Share(m)' = Share(m)
      BY <1>1, <2>1, <2>2, <3>1, <3>2 DEF Share
    <3> QED  BY <1>1, <1>2, <2>1, <2>2, <3>1, <3>3 DEF Progress
  <2>3. CASE WriteFails
    <3>1. ~NoIOError'
      BY <1>2, <2>3 DEF WriteFails, TypeInv, Counters
    <3> QED  BY <2>3, <3>1 DEF WriteFails, Progress, InLoop
  <2> QED  BY <1>11, <2>2, <2>3 DEF WriteUsed
<1>12. CASE Info
  BY <1>3, <1>12 DEF Info, InLoop
<1>13. CASE Stored \/ Cancel \/ Finish \/ Clear \/ Failed
  <2>1. pc' \in {"finish", "failed", "clear", "ended"}
    BY <1>13 DEF Stored, Cancel, Finish, Clear, Failed
  <2> QED  BY <2>1 DEF Progress, InLoop
<1>14. CASE Reset
  <2>1. pc' \in {"recheck", "failed"}
    BY <1>14 DEF Reset, Fail
  <2> QED  BY <2>1 DEF Progress, InLoop
<1>15. CASE UNCHANGED vars
  BY <1>3, <1>15 DEF vars, flags, InLoop, Uncounted
<1> QED
  BY <1>4, <1>5, <1>6, <1>7, <1>8, <1>9, <1>10, <1>11, <1>12, <1>13, <1>14, <1>15
     DEF Next, Thread

\* Whatever the mappings and however short the reads come, a dump in which no
\* read and no write failed holds of each mapping as much as there is.
THEOREM DumpIsWhole == Spec => []DumpComplete
<1>1. Init => Progress
  BY DEF Init, Progress, InLoop
<1>2. TypeInv /\ TypeInv' /\ Progress /\ [Next]_vars => Progress'
  BY ProgressStep
<1>3. Progress => DumpComplete
  BY DEF Progress, WholeDump, DumpComplete
<1>4. TypeInv /\ [Next]_vars => TypeInv'
  BY SignalTypesStep, CountersStep, PlaceStep DEF TypeInv
<1> QED  BY <1>1, <1>2, <1>3, <1>4, TypeInit, PTL DEF Spec
-----------------------------------------------------------------------------
(***************************************************************************)
(* The scan gets on.  A turn of the dump's loop ends in a later mapping,   *)
(* further in the same one, or has used up a read of nothing; between two  *)
(* reads, and outside of the loop, each step is one less to go.            *)
(***************************************************************************)

\* What was read of the mapping in focus.
Taken == bytes + (IF pc \in {"data", "used"} THEN got ELSE 0)

\* The steps still to go, the way a turn of the loop and a scan take them.
ToGo ==
  CASE pc = "begin" -> 17
    [] pc = "setup" -> 16
    [] pc = "data" -> 15
    [] pc = "used" -> 14
    [] pc = "dump" -> 13
    [] pc = "check" -> 12
    [] pc = "held" /\ dumping -> 11
    [] pc = "glance" -> 10
    [] pc = "info" -> 9
    [] pc = "reset" -> 8
    [] pc = "recheck" -> 7
    [] pc = "held" /\ ~dumping -> 6
    [] pc = "stored" -> 5
    [] pc = "cancel" -> 4
    [] pc = "finish" -> 3
    [] pc = "failed" -> 2
    [] pc = "clear" -> 1
    [] OTHER -> 0

GetsOn ==
  IF InLoop /\ InLoop'
  THEN \/ focus' > focus
       \/ focus' = focus /\ Taken' > Taken
       \/ /\ focus' = focus /\ Taken' = Taken
          /\ \/ emptyReads' < emptyReads
             \/ emptyReads' = emptyReads /\ ToGo' < ToGo
  ELSE ToGo' < ToGo

\* A held thread is not stopped again: it goes on or is over.
LEMMA HeldOnce ==
  ASSUME Handshake, Held
  PROVE  pc' \in {"cancel", IF dumping THEN "glance" ELSE "stored"}
<1>1. pc = "held"
  BY DEF Held
<1>2. scanPipe \in {<<>>, <<"CONT">>, <<"CONT", "STOP">>, <<"KILL">>, <<"CONT", "KILL">>}
  BY <1>1 DEF Handshake
<1>3. scanPipe # <<>> => Head(scanPipe) # "STOP"
  BY <1>2, Pipes DEF Signal
<1> QED  BY <1>3 DEF Held, Obey

\* Every step of the thread brings the scan nearer to its end, so that without
\* reads of nothing no mapping is read for ever, in whatever portions it comes.
THEOREM ScanGetsOn == Spec => [][Thread => GetsOn]_vars
<1>1. Handshake /\ TypeInv /\ [Next]_vars => [Thread => GetsOn]_vars
  <2> SUFFICES ASSUME Handshake, TypeInv, Thread PROVE GetsOn
    OBVIOUS
  <2>1. CASE Begin \/ Setup \/ Info \/ Reset \/ Stored \/ Cancel \/ Finish \/ Clear \/ Failed
    BY <2>1 DEF Begin, Setup, Fail, Info, Reset, Stored, Cancel, Finish, Clear, Failed,
                GetsOn, InLoop, ToGo
  <2>2. CASE DumpCheck
    <3>1. pc = "check" /\ pc' \in {"glance", "held", "cancel"}
          /\ UNCHANGED <<focus, bytes, dumping, emptyReads>>
      BY <2>2 DEF DumpCheck, Check, Obey, place, flags, bounds
    <3>2. dumping
      BY <3>1 DEF TypeInv, SignalTypes
    <3> QED  BY <3>1, <3>2 DEF GetsOn, InLoop, ToGo, Taken
  <2>3. CASE ScanCheck
    <3>1. pc = "recheck" /\ pc' \in {"stored", "held", "cancel"} /\ UNCHANGED dumping
      BY <2>3 DEF ScanCheck, Check, Obey, flags
    <3>2. ~dumping
      BY <3>1 DEF TypeInv, SignalTypes
    <3> QED  BY <3>1, <3>2 DEF GetsOn, InLoop, ToGo
  <2>4. CASE Held
    <3>1. pc = "held" /\ UNCHANGED <<focus, bytes, dumping, emptyReads>>
      BY <2>4 DEF Held, place, flags, bounds
    <3>2. pc' \in {"cancel", IF dumping THEN "glance" ELSE "stored"}
      BY <2>4, HeldOnce
    <3> QED  BY <3>1, <3>2 DEF GetsOn, InLoop, ToGo, Taken
  <2>5. CASE DumpNext
    <3>1. focus \in Nat
      BY DEF TypeInv, PlaceTypes
    <3> QED  BY <2>5, <3>1 DEF DumpNext, bounds, GetsOn, InLoop, ToGo, Taken
  <2>6. CASE Glance
    <3>1. /\ focus \in Nat /\ focus <= Len(maps) /\ bytes \in Nat
          /\ emptyReads \in Nat
      BY <2>6 DEF Glance, TypeInv, PlaceTypes, Counters, Inside
    <3> QED  BY <2>6, <3>1 DEF Glance, GetsOn, InLoop, ToGo, Taken
  <2>7. CASE WriteData
    BY <2>7 DEF WriteData, WriteFails, place, GetsOn, InLoop, ToGo, Taken
  <2>8. CASE WriteUsed
    <3>1. bytes + got \in Nat
      BY <2>8 DEF WriteUsed, TypeInv, PlaceTypes, Inside, Buffer
    <3> QED  BY <2>8, <3>1 DEF WriteUsed, WriteFails, GetsOn, InLoop, ToGo, Taken
  <2> QED  BY <2>1, <2>2, <2>3, <2>4, <2>5, <2>6, <2>7, <2>8 DEF Thread
<1>2. Spec => []Handshake
  BY HandshakeInit, HandshakeStep, PTL DEF Spec
<1>3. Spec => []TypeInv
  <2>1. TypeInv /\ [Next]_vars => TypeInv'
    BY SignalTypesStep, CountersStep, PlaceStep DEF TypeInv
  <2> QED  BY <2>1, TypeInit, PTL DEF Spec
<1> QED  BY <1>1, <1>2, <1>3, PTL DEF Spec

=============================================================================
