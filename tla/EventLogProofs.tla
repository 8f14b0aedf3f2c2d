--------------------------- MODULE EventLogProofs ---------------------------
(***************************************************************************)
(* Proofs about the JSONL logger, for any set of writers and any number of *)
(* writes and failures: the safety invariants of EventLog, and that it     *)
(* implements AppendLog.                                                   *)
(*                                                                         *)
(* The inductive invariant says who may touch the file: only a process     *)
(* that is up has writers beyond "idle", a writer beyond "calling" holds   *)
(* the mutex, and the holder's stamp is larger than every number in the    *)
(* file.  A new process starts from the largest number it decodes, which   *)
(* is the last one because the numbers increase.                           *)
(***************************************************************************)
EXTENDS EventLog, TLAPS, SequenceTheorems

Inside == {"locked", "written", "failed"}

\* Writers run only in a process that is up.
WritersNeedProcess ==
  \A w \in Writers : pc[w] # "idle" => mode \in {"open", "shut"}

\* A writer between Lock and Return holds the mutex.
MutualExclusion ==
  \A w \in Writers : pc[w] \in Inside => mu = w

\* The counter of a process that has read the file is at least every number.
CounterAhead ==
  mode # "down" => \A i \in 1..Len(log) : log[i].seq <= sequence

\* The number a writer is about to write is the counter's, and larger than
\* every one in the file.
StampFresh ==
  \A w \in Writers :
    pc[w] = "locked" => /\ stamp[w] = sequence /\ stamp[w] > 0
                        /\ \A i \in 1..Len(log) : log[i].seq < stamp[w]

\* Once Emit has succeeded the record is in the file.
WrittenIsInLog ==
  \A w \in Writers :
    pc[w] = "written" => \E i \in 1..Len(log) : log[i].id = Id(w)

\* The partial tail has been cut when the newline is looked at.
RepairedBeforeOpen == mode = "terminate" => ~torn

FileInv ==
  /\ WritersNeedProcess /\ MutualExclusion
  /\ CounterAhead /\ StampFresh
  /\ SequencesIncrease
  /\ RepairedBeforeOpen /\ AppendsToWholeLine

AckInv == AckedSurvive /\ WrittenIsInLog

Entry   == [id: Ids, seq: Nat]
Numbers == {0} \cup {log[i].seq : i \in 1..Len(log)}

-----------------------------------------------------------------------------
\* What TypeOK says of the elements of the log.
LEMMA LogEntries ==
  ASSUME TypeOK
  PROVE  /\ log \in Seq(Entry) /\ Len(log) \in Nat
         /\ \A i \in 1..Len(log) : log[i] \in Entry /\ log[i].seq \in Nat
<1>1. log \in Seq(Entry)
  BY DEF TypeOK, Entry
<1>2. Len(log) \in Nat /\ \A i \in 1..Len(log) : log[i] \in Entry
  BY <1>1
<1>3. \A e \in Entry : e.seq \in Nat
  BY DEF Entry
<1> QED BY <1>1, <1>2, <1>3

\* The largest number in a log whose numbers increase is the last one.
LEMMA LargestIsLast ==
  ASSUME TypeOK, SequencesIncrease
  PROVE  /\ Max(Numbers) \in Nat
         /\ \A i \in 1..Len(log) : log[i].seq <= Max(Numbers)
<1>1. Len(log) \in Nat /\ \A i \in 1..Len(log) : log[i].seq \in Nat
  BY LogEntries
<1>2. \E m \in Numbers : m \in Nat /\ \A n \in Numbers : n <= m
  <2>1. CASE Len(log) = 0
    BY <1>1, <2>1 DEF Numbers
  <2>2. CASE Len(log) > 0
    <3>1. Len(log) \in 1..Len(log)
      BY <1>1, <2>2
    <3>2. \A i \in 1..Len(log) : log[i].seq <= log[Len(log)].seq
      <4> SUFFICES ASSUME NEW i \in 1..Len(log)
                   PROVE  log[i].seq <= log[Len(log)].seq
        OBVIOUS
      <4>1. CASE i = Len(log)
        BY <1>1, <4>1
      <4>2. CASE i < Len(log)
        <5>1. log[i].seq < log[Len(log)].seq
          BY <3>1, <4>2 DEF SequencesIncrease
        <5> QED BY <5>1, <1>1, <3>1
      <4> QED BY <1>1, <4>1, <4>2
    <3>3. log[Len(log)].seq \in Numbers
      BY <3>1 DEF Numbers
    <3>4. log[Len(log)].seq \in Nat
      BY <1>1, <3>1
    <3>5. \A n \in Numbers : n <= log[Len(log)].seq
      BY <3>2, <3>4 DEF Numbers
    <3> QED BY <3>3, <3>4, <3>5
  <2> QED BY <1>1, <2>1, <2>2
<1>3. PICK m \in Numbers : m \in Nat /\ \A n \in Numbers : n <= m
  BY <1>2
<1>4. Max(Numbers) \in Numbers /\ \A n \in Numbers : n <= Max(Numbers)
  BY <1>3 DEF Max
<1>5. Numbers \subseteq Nat /\ \A i \in 1..Len(log) : log[i].seq \in Numbers
  BY <1>1 DEF Numbers
<1> QED BY <1>4, <1>5

\* What a write that reaches a whole file does to the log.
LEMMA PutRecordAppends ==
  ASSUME TypeOK, ~torn, NEW w \in Writers, writes[w] \in 1..MaxWrites,
         NEW newline \in BOOLEAN, PutRecord(w, newline)
  PROVE  /\ log' \in Seq(Entry)
         /\ Len(log') = Len(log) + 1
         /\ \A i \in 1..Len(log) : log'[i] = log[i]
         /\ log'[Len(log) + 1] = Record(w)
         /\ terminated' = newline /\ torn' = torn
<1>1. log \in Seq(Entry) /\ Record(w) \in Entry
  BY DEF TypeOK, Entry, Record, Id, Ids
<1>2. log' = Append(log, Record(w))
  BY DEF PutRecord
<1> QED BY <1>1, <1>2, AppendProperties DEF PutRecord

-----------------------------------------------------------------------------
\* A write in progress has started, so its event has a name.
WritesStarted == \A w \in Writers : pc[w] # "idle" => writes[w] \in 1..MaxWrites

\* Type correctness.  WritesStarted is needed for the names of the records,
\* SequencesIncrease and CounterAhead for the number a new process starts from.
LEMMA TypeStep ==
  ASSUME TypeOK, WritesStarted, FileInv, [Next]_vars
  PROVE  TypeOK' /\ WritesStarted'
<1> USE EventLogAssumption
<1>0. CASE UNCHANGED vars
  BY <1>0 DEF vars, file, TypeOK, WritesStarted
<1>1. CASE Scan
  <2>1. sequence' \in Nat
    BY <1>1, LargestIsLast DEF Scan, FileInv, Numbers
  <2> QED BY <1>1, <2>1 DEF Scan, file, TypeOK, WritesStarted
<1>2. CASE Truncate
  BY <1>2 DEF Truncate, TypeOK, WritesStarted
<1>3. CASE Terminate
  BY <1>3 DEF Terminate, TypeOK, WritesStarted
<1>4. CASE Close
  BY <1>4 DEF Close, file, TypeOK, WritesStarted
<1>5. CASE Crash
  <2>1. log' \in Seq(Entry) /\ torn' \in BOOLEAN /\ terminated' \in BOOLEAN
    <3>1. CASE UNCHANGED file
      BY <3>1 DEF file, TypeOK, Entry
    <3>2. CASE \E w \in Writers : /\ pc[w] = "locked" /\ mode = "open" /\ ~broken
                                  /\ PutPart \/ \E b \in BOOLEAN : PutRecord(w, b)
      <4>1. PICK w \in Writers : /\ pc[w] = "locked" /\ mode = "open" /\ ~broken
                                 /\ PutPart \/ \E b \in BOOLEAN : PutRecord(w, b)
        BY <3>2
      <4>2. ~torn /\ writes[w] \in 1..MaxWrites
        BY <4>1 DEF FileInv, AppendsToWholeLine, WritesStarted
      <4>3. CASE PutPart
        BY <4>3 DEF PutPart, TypeOK, Entry
      <4>4. CASE \E b \in BOOLEAN : PutRecord(w, b)
        BY <4>2, <4>4, PutRecordAppends DEF TypeOK
      <4> QED BY <4>1, <4>3, <4>4
    <3> QED BY <1>5, <3>1, <3>2 DEF Crash
  <2> QED BY <1>5, <2>1 DEF Crash, TypeOK, WritesStarted, Entry
<1>6. ASSUME NEW w \in Writers, Write(w)
      PROVE  TypeOK' /\ WritesStarted'
  <2>1. CASE Call(w)
    BY <2>1 DEF Call, file, TypeOK, WritesStarted
  <2>2. CASE Lock(w)
    BY <2>2 DEF Lock, file, TypeOK, WritesStarted
  <2>3. CASE Emit(w)
    <3>1. ~torn /\ writes[w] \in 1..MaxWrites
      BY <2>3 DEF Emit, FileInv, AppendsToWholeLine, WritesStarted
    <3>2. log' \in Seq(Entry) /\ torn' \in BOOLEAN /\ terminated' \in BOOLEAN
      BY <2>3, <3>1, PutRecordAppends DEF Emit, TypeOK
    <3> QED BY <2>3, <3>2 DEF Emit, TypeOK, WritesStarted, Entry
  <2>4. CASE DiskFull(w)
    <3>1. ~torn /\ writes[w] \in 1..MaxWrites
      BY <2>4 DEF DiskFull, FileInv, AppendsToWholeLine, WritesStarted
    <3>2. log' \in Seq(Entry) /\ torn' \in BOOLEAN /\ terminated' \in BOOLEAN
      <4>1. CASE PutPart
        BY <4>1 DEF PutPart, TypeOK, Entry
      <4>2. CASE PutRecord(w, FALSE)
        BY <4>2, <3>1, PutRecordAppends DEF TypeOK
      <4>3. CASE UNCHANGED file
        BY <4>3 DEF file, TypeOK, Entry
      <4> QED BY <2>4, <4>1, <4>2, <4>3 DEF DiskFull
    <3> QED BY <2>4, <3>2 DEF DiskFull, TypeOK, WritesStarted, Entry
  <2>5. CASE Refuse(w)
    BY <2>5 DEF Refuse, file, TypeOK, WritesStarted
  <2>6. CASE Return(w)
    <3>1. Id(w) \in Ids
      BY <2>6 DEF Return, WritesStarted, Id, Ids
    <3>2. acked' \subseteq Ids
      BY <2>6, <3>1 DEF Return, TypeOK
    <3> QED BY <2>6, <3>2 DEF Return, file, TypeOK, WritesStarted
  <2> QED BY <1>6, <2>1, <2>2, <2>3, <2>4, <2>5, <2>6 DEF Write
<1> QED BY <1>0, <1>1, <1>2, <1>3, <1>4, <1>5, <1>6 DEF Next

-----------------------------------------------------------------------------
\* A record that follows the others keeps the numbers increasing if its own is
\* larger.
LEMMA AppendKeepsOrder ==
  ASSUME TypeOK, SequencesIncrease, log' \in Seq(Entry), Len(log') = Len(log) + 1,
         \A i \in 1..Len(log) : log'[i] = log[i] /\ log[i].seq < log'[Len(log) + 1].seq
  PROVE  SequencesIncrease'
<1>1. Len(log) \in Nat /\ Len(log') = Len(log) + 1
  BY LogEntries
<1> SUFFICES ASSUME NEW i \in 1..Len(log'), NEW j \in 1..Len(log'), i < j
             PROVE  log'[i].seq < log'[j].seq
  BY DEF SequencesIncrease
<1>2. i \in 1..Len(log)
  BY <1>1
<1>3. CASE j \in 1..Len(log)
  BY <1>2, <1>3 DEF SequencesIncrease
<1>4. CASE j = Len(log) + 1
  BY <1>2, <1>4
<1> QED BY <1>1, <1>3, <1>4

\* The file after the bytes of a locked writer have reached it.
LEMMA FileAfterWrite ==
  ASSUME TypeOK, WritesStarted, FileInv, mode = "open", ~broken,
         NEW w \in Writers, pc[w] = "locked",
         PutPart \/ \E b \in BOOLEAN : PutRecord(w, b)
  PROVE  /\ SequencesIncrease'
         /\ \A i \in 1..Len(log') : log'[i].seq <= sequence
         /\ \A i \in 1..Len(log) : i \in 1..Len(log') /\ log'[i] = log[i]
<1>1. Len(log) \in Nat /\ \A i \in 1..Len(log) : log[i].seq \in Nat
  BY LogEntries
<1>2. \A i \in 1..Len(log) : log[i].seq <= sequence /\ log[i].seq < stamp[w]
  BY DEF FileInv, CounterAhead, StampFresh
<1>3. CASE PutPart
  BY <1>1, <1>2, <1>3 DEF PutPart, FileInv, SequencesIncrease
<1>4. CASE \E b \in BOOLEAN : PutRecord(w, b)
  <2>1. ~torn /\ writes[w] \in 1..MaxWrites
    BY DEF FileInv, AppendsToWholeLine, WritesStarted
  <2>2. /\ log' \in Seq(Entry) /\ Len(log') = Len(log) + 1
        /\ \A i \in 1..Len(log) : log'[i] = log[i]
        /\ log'[Len(log) + 1] = Record(w)
    BY <1>4, <2>1, PutRecordAppends
  <2>3. log'[Len(log) + 1].seq = stamp[w] /\ stamp[w] = sequence /\ sequence \in Nat
    BY <2>2 DEF Record, TypeOK, FileInv, StampFresh
  <2>4. SequencesIncrease'
    BY <1>2, <2>2, <2>3, AppendKeepsOrder DEF FileInv
  <2>5. ASSUME NEW i \in 1..Len(log')
        PROVE  log'[i].seq <= sequence
    <3>1. CASE i \in 1..Len(log)
      BY <1>2, <2>2, <3>1
    <3>2. CASE i = Len(log) + 1
      BY <2>3, <3>2
    <3> QED BY <1>1, <2>2, <3>1, <3>2
  <2> QED BY <1>1, <2>2, <2>4, <2>5
<1> QED BY <1>3, <1>4

LEMMA FileStep ==
  ASSUME TypeOK, WritesStarted, FileInv, [Next]_vars
  PROVE  FileInv'
<1> USE EventLogAssumption
<1>t. /\ pc \in [Writers -> {"idle", "calling", "locked", "written", "failed"}]
      /\ stamp \in [Writers -> Nat] /\ sequence \in Nat
      /\ \A i \in 1..Len(log) : log[i].seq \in Nat
  BY LogEntries DEF TypeOK
<1>0. CASE UNCHANGED vars
  BY <1>0 DEF vars, file, FileInv, WritersNeedProcess, MutualExclusion,
     CounterAhead, StampFresh, SequencesIncrease, RepairedBeforeOpen,
     AppendsToWholeLine
<1>1. CASE Scan
  <2>1. sequence' = Max(Numbers) /\ UNCHANGED <<log, pc, mu, torn, terminated, stamp>>
    BY <1>1 DEF Scan, file, Numbers
  <2>2. CounterAhead'
    BY <2>1, LargestIsLast DEF FileInv, CounterAhead
  <2> QED
    BY <1>1, <2>1, <2>2 DEF Scan, FileInv, WritersNeedProcess, MutualExclusion,
       StampFresh, SequencesIncrease, RepairedBeforeOpen, AppendsToWholeLine
<1>2. CASE Truncate
  BY <1>2 DEF Truncate, FileInv, WritersNeedProcess, MutualExclusion,
     CounterAhead, StampFresh, SequencesIncrease, RepairedBeforeOpen,
     AppendsToWholeLine
<1>3. CASE Terminate
  BY <1>3 DEF Terminate, FileInv, WritersNeedProcess, MutualExclusion,
     CounterAhead, StampFresh, SequencesIncrease, RepairedBeforeOpen,
     AppendsToWholeLine
<1>4. CASE Close
  BY <1>4 DEF Close, file, FileInv, WritersNeedProcess, MutualExclusion,
     CounterAhead, StampFresh, SequencesIncrease, RepairedBeforeOpen,
     AppendsToWholeLine
<1>5. CASE Crash
  <2>1. SequencesIncrease'
    <3>1. CASE UNCHANGED file
      BY <3>1 DEF file, FileInv, SequencesIncrease
    <3>2. CASE \E w \in Writers : /\ pc[w] = "locked" /\ mode = "open" /\ ~broken
                                  /\ PutPart \/ \E b \in BOOLEAN : PutRecord(w, b)
      BY <3>2, FileAfterWrite
    <3> QED BY <1>5, <3>1, <3>2 DEF Crash
  <2> QED
    BY <1>5, <2>1 DEF Crash, FileInv, WritersNeedProcess, MutualExclusion,
       CounterAhead, StampFresh, RepairedBeforeOpen, AppendsToWholeLine, Inside
<1>6. ASSUME NEW w \in Writers, Write(w)
      PROVE  FileInv'
  <2>1. CASE Call(w)
    BY <1>t, <2>1 DEF Call, file, FileInv, WritersNeedProcess, MutualExclusion,
       CounterAhead, StampFresh, SequencesIncrease, RepairedBeforeOpen,
       AppendsToWholeLine, Inside
  <2>2. CASE Lock(w)
    <3>1. \A v \in Writers : pc[v] \notin Inside
      BY <2>2 DEF Lock, FileInv, MutualExclusion
    <3>2. mode \in {"open", "shut"}
      BY <2>2 DEF Lock, FileInv, WritersNeedProcess
    <3>3. \A i \in 1..Len(log) : log[i].seq < sequence + 1
      BY <1>t, <3>2 DEF FileInv, CounterAhead
    <3>4. WritersNeedProcess' /\ MutualExclusion'
      BY <1>t, <2>2, <3>1, <3>2 DEF Lock, FileInv, WritersNeedProcess, MutualExclusion, Inside
    <3>5. CounterAhead' /\ StampFresh'
      BY <1>t, <2>2, <3>1, <3>3 DEF Lock, file, CounterAhead, StampFresh, Inside
    <3> QED
      BY <2>2, <3>4, <3>5 DEF Lock, file, FileInv, SequencesIncrease,
         RepairedBeforeOpen, AppendsToWholeLine
  <2>3. CASE Emit(w)
    <3>1. PutRecord(w, TRUE) /\ mode = "open" /\ ~broken /\ pc[w] = "locked"
      BY <2>3 DEF Emit
    <3>2. /\ SequencesIncrease'
          /\ \A i \in 1..Len(log') : log'[i].seq <= sequence
      BY <3>1, FileAfterWrite
    <3>3. ~torn' /\ terminated'
      BY <3>1 DEF PutRecord, FileInv, AppendsToWholeLine
    <3>4. pc' = [pc EXCEPT ![w] = "written"] /\ UNCHANGED <<mode, sequence, mu, stamp>>
      BY <2>3 DEF Emit
    <3>5. \A v \in Writers : pc'[v] # "locked"
      BY <1>t, <3>1, <3>4 DEF FileInv, MutualExclusion, Inside
    <3>6. WritersNeedProcess' /\ MutualExclusion'
      BY <1>t, <3>1, <3>4 DEF FileInv, WritersNeedProcess, MutualExclusion, Inside
    <3> QED
      BY <3>1, <3>2, <3>3, <3>4, <3>5, <3>6 DEF FileInv, CounterAhead, StampFresh,
         RepairedBeforeOpen, AppendsToWholeLine
  <2>4. CASE DiskFull(w)
    <3>1. mode = "open" /\ ~broken /\ pc[w] = "locked" /\ broken'
      BY <2>4 DEF DiskFull
    <3>2. /\ SequencesIncrease'
          /\ \A i \in 1..Len(log') : log'[i].seq <= sequence
      <4>1. CASE UNCHANGED file
        BY <3>1, <4>1 DEF file, FileInv, SequencesIncrease, CounterAhead
      <4>2. CASE PutPart \/ PutRecord(w, FALSE)
        BY <3>1, <4>2, FileAfterWrite
      <4> QED BY <2>4, <4>1, <4>2 DEF DiskFull
    <3>4. pc' = [pc EXCEPT ![w] = "failed"] /\ UNCHANGED <<mode, sequence, mu, stamp>>
      BY <2>4 DEF DiskFull
    <3>5. \A v \in Writers : pc'[v] # "locked"
      BY <1>t, <3>1, <3>4 DEF FileInv, MutualExclusion, Inside
    <3>6. WritersNeedProcess' /\ MutualExclusion'
      BY <1>t, <3>1, <3>4 DEF FileInv, WritersNeedProcess, MutualExclusion, Inside
    <3> QED
      BY <3>1, <3>2, <3>4, <3>5, <3>6 DEF FileInv, CounterAhead, StampFresh,
         RepairedBeforeOpen, AppendsToWholeLine
  <2>5. CASE Refuse(w)
    BY <1>t, <2>5 DEF Refuse, file, FileInv, WritersNeedProcess, MutualExclusion,
       CounterAhead, StampFresh, SequencesIncrease, RepairedBeforeOpen,
       AppendsToWholeLine, Inside
  <2>6. CASE Return(w)
    BY <1>t, <2>6 DEF Return, file, FileInv, WritersNeedProcess, MutualExclusion,
       CounterAhead, StampFresh, SequencesIncrease, RepairedBeforeOpen,
       AppendsToWholeLine, Inside
  <2> QED BY <1>6, <2>1, <2>2, <2>3, <2>4, <2>5, <2>6 DEF Write
<1> QED BY <1>0, <1>1, <1>2, <1>3, <1>4, <1>5, <1>6 DEF Next

-----------------------------------------------------------------------------
\* Every step keeps the records there are, in their places.
LEMMA LogOnlyGrows ==
  ASSUME TypeOK, WritesStarted, FileInv, [Next]_vars
  PROVE  \A i \in 1..Len(log) : i \in 1..Len(log') /\ log'[i] = log[i]
<1>1. CASE UNCHANGED log
  BY <1>1
<1>2. ASSUME NEW w \in Writers, mode = "open", ~broken, pc[w] = "locked",
             PutPart \/ \E b \in BOOLEAN : PutRecord(w, b)
      PROVE  \A i \in 1..Len(log) : i \in 1..Len(log') /\ log'[i] = log[i]
  BY <1>2, FileAfterWrite
<1>3. CASE Crash
  BY <1>1, <1>2, <1>3 DEF Crash, file
<1>4. ASSUME NEW w \in Writers, Write(w)
      PROVE  \A i \in 1..Len(log) : i \in 1..Len(log') /\ log'[i] = log[i]
  <2>1. CASE Emit(w)
    BY <1>2, <2>1 DEF Emit
  <2>2. CASE DiskFull(w)
    BY <1>1, <1>2, <2>2 DEF DiskFull, file
  <2>3. CASE Call(w) \/ Lock(w) \/ Refuse(w) \/ Return(w)
    BY <1>1, <2>3 DEF Call, Lock, Refuse, Return, file
  <2> QED BY <1>4, <2>1, <2>2, <2>3 DEF Write
<1>5. CASE Scan \/ Truncate \/ Terminate \/ Close \/ UNCHANGED vars
  BY <1>1, <1>5 DEF Scan, Truncate, Terminate, Close, file, vars
<1> QED BY <1>3, <1>4, <1>5 DEF Next

\* Emit leaves the record of its writer in the file.
LEMMA EmitWrites ==
  ASSUME TypeOK, WritesStarted, FileInv, NEW w \in Writers, Emit(w)
  PROVE  /\ log' \in Seq(Entry)
         /\ Len(log') = Len(log) + 1
         /\ \A i \in 1..Len(log) : log'[i] = log[i]
         /\ log'[Len(log) + 1] = Record(w)
<1>1. ~torn /\ writes[w] \in 1..MaxWrites /\ PutRecord(w, TRUE)
  BY DEF Emit, FileInv, AppendsToWholeLine, WritesStarted
<1> QED BY <1>1, PutRecordAppends

LEMMA AckStep ==
  ASSUME TypeOK, WritesStarted, FileInv, AckInv, [Next]_vars
  PROVE  AckInv'
<1>t. pc \in [Writers -> {"idle", "calling", "locked", "written", "failed"}]
  BY DEF TypeOK
<1>1. \A i \in 1..Len(log) : i \in 1..Len(log') /\ log'[i] = log[i]
  BY LogOnlyGrows
<1>2. \A id : (\E i \in 1..Len(log) : log[i].id = id)
                => \E i \in 1..Len(log') : log'[i].id = id
  BY <1>1
<1>3. ASSUME acked' = acked,
             \A w \in Writers : pc'[w] = "written" => pc[w] = "written" /\ Id(w)' = Id(w)
      PROVE  AckInv'
  BY <1>2, <1>3 DEF AckInv, AckedSurvive, WrittenIsInLog
<1>4. CASE UNCHANGED vars
  BY <1>3, <1>4 DEF vars, Id
<1>5. CASE Scan \/ Truncate \/ Terminate \/ Close
  BY <1>3, <1>5 DEF Scan, Truncate, Terminate, Close, Id
<1>6. CASE Crash
  BY <1>3, <1>6 DEF Crash, Id
<1>7. ASSUME NEW w \in Writers, Write(w)
      PROVE  AckInv'
  <2>1. CASE Call(w)
    BY <1>t, <1>3, <2>1 DEF Call, Id, TypeOK
  <2>2. CASE Lock(w) \/ DiskFull(w) \/ Refuse(w)
    BY <1>t, <1>3, <2>2 DEF Lock, DiskFull, Refuse, Id
  <2>3. CASE Emit(w)
    <3>1. \E i \in 1..Len(log') : log'[i].id = Id(w)
      <4>1. Len(log) \in Nat
        BY LogEntries
      <4>2. Len(log') = Len(log) + 1 /\ log'[Len(log) + 1] = Record(w)
        BY <2>3, EmitWrites DEF AckInv
      <4>3. Record(w).id = Id(w)
        BY DEF Record
      <4>4. Len(log) + 1 \in 1..Len(log')
        BY <4>1, <4>2
      <4> QED BY <4>2, <4>3, <4>4
    <3>2. /\ pc' = [pc EXCEPT ![w] = "written"]
          /\ acked' = acked /\ \A v \in Writers : Id(v)' = Id(v)
      BY <2>3 DEF Emit, Id
    <3>3. \A v \in Writers : pc'[v] = "written"
                               => \E i \in 1..Len(log') : log'[i].id = Id(v)
      BY <1>t, <1>2, <3>1, <3>2 DEF AckInv, WrittenIsInLog
    <3> QED BY <1>2, <3>2, <3>3 DEF AckInv, AckedSurvive, WrittenIsInLog
  <2>4. CASE Return(w)
    <3>1. \A v \in Writers : pc'[v] = "written" => pc[v] = "written" /\ Id(v)' = Id(v)
      BY <1>t, <2>4 DEF Return, Id
    <3>2. \A id \in acked' : \E i \in 1..Len(log) : log[i].id = id
      BY <2>4 DEF Return, AckInv, AckedSurvive, WrittenIsInLog
    <3> QED BY <1>2, <3>1, <3>2 DEF AckInv, AckedSurvive, WrittenIsInLog
  <2> QED BY <1>7, <2>1, <2>2, <2>3, <2>4 DEF Write
<1> QED BY <1>4, <1>5, <1>6, <1>7 DEF Next

-----------------------------------------------------------------------------
LogInv == TypeOK /\ WritesStarted /\ FileInv /\ AckInv

LEMMA InitEstablishes == Init => LogInv
<1> SUFFICES ASSUME Init PROVE LogInv
  OBVIOUS
<1>1. TypeOK /\ WritesStarted
  <2>1. << >> \in Seq(Entry)
    OBVIOUS
  <2>2. log \in Seq([id: Ids, seq: Nat])
    BY <2>1 DEF Init, Entry
  <2>3. /\ pc \in [Writers -> {"idle", "calling", "locked", "written", "failed"}]
        /\ stamp \in [Writers -> Nat] /\ writes \in [Writers -> 0..MaxWrites]
        /\ failures \in 0..MaxFailures
    BY EventLogAssumption DEF Init
  <2>4. WritesStarted
    BY DEF Init, WritesStarted
  <2> QED BY <2>2, <2>3, <2>4 DEF Init, TypeOK
<1>2. FileInv
  BY DEF Init, FileInv, WritersNeedProcess, MutualExclusion, Inside, CounterAhead,
     StampFresh, SequencesIncrease, RepairedBeforeOpen, AppendsToWholeLine
<1>3. AckInv
  BY DEF Init, AckInv, AckedSurvive, WrittenIsInLog
<1> QED BY <1>1, <1>2, <1>3 DEF LogInv

\* The inductive invariant.
LEMMA LogInvariant == Spec => []LogInv
<1>1. LogInv /\ [Next]_vars => LogInv'
  BY TypeStep, FileStep, AckStep DEF LogInv
<1> QED BY InitEstablishes, <1>1, PTL DEF Spec

\* The logger's variables have their types; in particular the numbering that a
\* new process resumes from a repaired file is a number.
THEOREM TypeCorrect == Spec => []TypeOK
<1>1. LogInv => TypeOK
  BY DEF LogInv
<1> QED BY <1>1, LogInvariant, PTL

\* Sequence numbers increase along the file, with any number of handlers,
\* crashes, full disks and repairs.
THEOREM NumbersIncrease == Spec => []SequencesIncrease
<1>1. LogInv => SequencesIncrease
  BY DEF LogInv, FileInv
<1> QED BY <1>1, LogInvariant, PTL

\* No short write, crash or repair takes an acknowledged event away.
THEOREM AcknowledgedIsKept == Spec => []AckedSurvive
<1>1. LogInv => AckedSurvive
  BY DEF LogInv, AckInv
<1> QED BY <1>1, LogInvariant, PTL

\* A logger that accepts writes appends to a whole, terminated line.
THEOREM WholeLines == Spec => []AppendsToWholeLine
<1>1. LogInv => AppendsToWholeLine
  BY DEF LogInv, FileInv
<1> QED BY <1>1, LogInvariant, PTL

\* One step of the logger is a step of the append-only log, or a stutter: a
\* record reaches the file at Emit, at a full disk or in a crash, and Return
\* acknowledges it.
LEMMA StepRefines ==
  ASSUME LogInv, [Next]_vars
  PROVE  [Abstract!Next]_<<log, acked>>
<1>t. Len(log) \in Nat /\ \A i \in 1..Len(log) : log[i].seq \in Nat
  BY LogEntries DEF LogInv
<1>1. CASE UNCHANGED <<log, acked>>
  BY <1>1
<1>2. ASSUME NEW w \in Writers, mode = "open", ~broken, pc[w] = "locked",
             NEW b \in BOOLEAN, PutRecord(w, b), UNCHANGED acked
      PROVE  Abstract!Next
  <2>1. ~torn /\ writes[w] \in 1..MaxWrites
    BY <1>2 DEF LogInv, FileInv, AppendsToWholeLine, WritesStarted
  <2>2. /\ Len(log') = Len(log) + 1
        /\ \A i \in 1..Len(log) : log'[i] = log[i]
        /\ log'[Len(log) + 1] = Record(w)
    BY <1>2, <2>1, PutRecordAppends DEF LogInv
  <2>3. Record(w).id \in Ids /\ Record(w).seq = stamp[w]
    BY <2>1 DEF Record, Id, Ids
  <2>4. stamp[w] > Abstract!LastSeq
    <3>1. stamp[w] = sequence /\ stamp[w] \in Nat
      BY <1>2 DEF LogInv, FileInv, StampFresh, TypeOK
    <3>2. \A i \in 1..Len(log) : log[i].seq < stamp[w]
      BY <1>2 DEF LogInv, FileInv, StampFresh
    <3>3. stamp[w] > 0
      BY <1>2 DEF LogInv, FileInv, StampFresh
    <3>4. CASE log = << >>
      BY <3>1, <3>3, <3>4 DEF Abstract!LastSeq
    <3>5. CASE log # << >>
      <4>1. Len(log) \in 1..Len(log)
        BY <1>t, <3>5, LogEntries, EmptySeq DEF LogInv
      <4> QED BY <1>t, <3>1, <3>2, <3>5, <4>1 DEF Abstract!LastSeq
    <3> QED BY <3>4, <3>5
  <2>5. Abstract!Add
    BY <1>2, <2>2, <2>3, <2>4 DEF Abstract!Add
  <2> QED BY <2>5 DEF Abstract!Next
<1>3. ASSUME PutPart, UNCHANGED acked
      PROVE  UNCHANGED <<log, acked>>
  BY <1>3 DEF PutPart
<1>4. CASE Crash
  BY <1>1, <1>2, <1>3, <1>4 DEF Crash, file
<1>5. ASSUME NEW w \in Writers, Write(w)
      PROVE  [Abstract!Next]_<<log, acked>>
  <2>1. CASE Emit(w)
    BY <1>2, <2>1 DEF Emit
  <2>2. CASE DiskFull(w)
    <3>1. CASE PutRecord(w, FALSE)
      BY <1>2, <2>2, <3>1 DEF DiskFull
    <3>2. CASE PutPart \/ UNCHANGED file
      BY <1>1, <1>3, <2>2, <3>2 DEF DiskFull, file
    <3> QED BY <2>2, <3>1, <3>2 DEF DiskFull
  <2>3. CASE Return(w)
    <3>1. CASE pc[w] = "written"
      <4>1. Id(w) \in Ids
        BY <2>3 DEF Return, LogInv, WritesStarted, Id, Ids
      <4>2. \E i \in 1..Len(log) : log[i].id = Id(w)
        BY <3>1 DEF LogInv, AckInv, WrittenIsInLog
      <4>3. Abstract!Acknowledge(Id(w))
        BY <2>3, <3>1, <4>2 DEF Return, file, Abstract!Acknowledge
      <4> QED BY <4>1, <4>3 DEF Abstract!Next
    <3>2. CASE pc[w] # "written"
      BY <2>3, <3>2 DEF Return, file
    <3> QED BY <3>1, <3>2
  <2>4. CASE Call(w) \/ Lock(w) \/ Refuse(w)
    BY <2>4 DEF Call, Lock, Refuse, file
  <2> QED BY <1>5, <2>1, <2>2, <2>3, <2>4 DEF Write
<1>6. CASE Scan \/ Truncate \/ Terminate \/ Close \/ UNCHANGED vars
  BY <1>6 DEF Scan, Truncate, Terminate, Close, file, vars
<1> QED BY <1>4, <1>5, <1>6 DEF Next

\* The logger implements the append-only log that the reading commands rely on.
THEOREM ImplementsLog == Spec => ImplementsAppendLog
<1>1. Init => Abstract!Init
  BY DEF Init, Abstract!Init
<1>2. LogInv /\ [Next]_vars => [Abstract!Next]_<<log, acked>>
  BY StepRefines
<1> QED BY <1>1, <1>2, LogInvariant, PTL DEF Spec, ImplementsAppendLog, Abstract!Spec
=============================================================================
