------------------------- MODULE KafkaReplayProofs --------------------------
(***************************************************************************)
(* Proofs about the Kafka capture and replay, for any partitions,          *)
(* publications, session limits, ends of sessions and faults: what a       *)
(* session wrote of a partition has no gap, numbers increase over all      *)
(* sessions, and a log with a torn tail is left alone; a plan keeps the    *)
(* order of its windows and is counted right, the replay topic holds a     *)
(* prefix of it, and a partition is replayed in its order.                 *)
(*                                                                         *)
(* The records that a session polled and has not written continue, in      *)
(* each partition, what it wrote.  An entry of a plan comes from a place   *)
(* that is kept, in the order of the places; this is shown by induction    *)
(* over the places, as is that every log has a sorting.                    *)
(***************************************************************************)
EXTENDS KafkaReplay, TLAPS, SequenceTheorems, WellFoundedInduction, FiniteSetTheorems

Polled == [time : Nat, partition : Partitions, offset : Nat, session : Nat]
Record == [seq : Nat, time : Nat, partition : Partitions, offset : Nat, session : Nat]

CaptureTypes ==
  /\ source \in [Partitions -> Seq(Nat)]
  /\ log \in Seq(Record) /\ fetched \in Seq(Polled)
  /\ position \in [Partitions -> Nat]
  /\ session \in Nat /\ sequence \in Nat

\* What was polled is a run of offsets of one partition, up to the position.
FetchedInv ==
  /\ mode # "capture" => fetched = << >>
  /\ \A k \in 1..Len(fetched) :
       /\ fetched[k].partition = fetched[1].partition
       /\ fetched[k].offset = fetched[1].offset + k - 1
       /\ fetched[k].session = session
  /\ fetched # << >> => position[fetched[1].partition] = fetched[1].offset + Len(fetched)

\* The offset that is written next in a partition, if any is.
NextOffset(polled, at, p) ==
  IF polled # << >> /\ polled[1].partition = p THEN polled[1].offset ELSE at[p]

Holds(file, i, j, p, o) == \E k \in i..j : file[k].partition = p /\ file[k].offset = o

\* Up to the next offset nothing is missing behind a record of the session.
SessionInv ==
  /\ \A i \in 1..Len(log) : log[i].session <= session
  /\ mode = "capture" =>
       /\ \A i \in 1..Len(log) : log[i].seq <= sequence
       /\ \A i \in 1..Len(log) : log[i].session = session =>
            \A o \in log[i].offset..(NextOffset(fetched, position, log[i].partition) - 1) :
              Holds(log, i, Len(log), log[i].partition, o)

CaptureInv == CaptureTypes /\ FetchedInv /\ SessionInv /\ CaptureHasNoGaps

LEMMA CaptureInit == Init => CaptureInv
BY DEF Init, CaptureInv, CaptureTypes, FetchedInv, SessionInv, CaptureHasNoGaps

(* What is needed of a log that does not change. *)
LEMMA SameLog ==
  ASSUME CaptureInv, log' = log, session' >= session, session' \in Nat,
         CaptureTypes', FetchedInv',
         mode' = "capture" =>
           /\ mode = "capture" /\ session' = session /\ sequence' = sequence
           /\ \A p \in Partitions : NextOffset(fetched', position', p) = NextOffset(fetched, position, p)
  PROVE  CaptureInv'
<1>1. CaptureHasNoGaps'
  BY DEF CaptureInv, CaptureHasNoGaps
<1>2. Len(log) \in Nat /\ \A i \in 1..Len(log) : log[i] \in Record
  BY DEF CaptureInv, CaptureTypes
<1>3. \A i \in 1..Len(log) : log[i].partition \in Partitions /\ log[i].session \in Nat
  BY <1>2 DEF Record
<1>4. \A i \in 1..Len(log) : log'[i].session <= session'
  BY <1>2, <1>3 DEF CaptureInv, SessionInv, CaptureTypes
<1>5. SessionInv'
  BY <1>2, <1>3, <1>4 DEF CaptureInv, SessionInv, Holds
<1>6. QED
  BY <1>1, <1>5 DEF CaptureInv

(* The largest number of a log whose numbers increase is its last one. *)
LEMMA LargestNumber ==
  ASSUME CaptureInv
  PROVE  Max(Numbers) \in Nat /\ \A i \in 1..Len(log) : log[i].seq <= Max(Numbers)
<1>1. Len(log) \in Nat /\ DOMAIN log = 1..Len(log) /\ \A i \in 1..Len(log) : log[i] \in Record
  BY DEF CaptureInv, CaptureTypes
<1>2. \A i \in 1..Len(log) : log[i].seq \in Nat
  BY <1>1 DEF Record
<1>3. \E m \in Numbers : \A n \in Numbers : m >= n
  <2>1. CASE Len(log) = 0
    BY <1>1, <2>1 DEF Numbers
  <2>2. CASE Len(log) > 0
    <3>1. \A i \in 1..Len(log) : i < Len(log) => log[i].seq < log[Len(log)].seq
      BY <1>1, <2>2 DEF CaptureInv, CaptureHasNoGaps
    <3>2. Len(log) \in 1..Len(log)
      BY <1>1, <2>2
    <3>3. \A i \in 1..Len(log) : log[Len(log)].seq >= log[i].seq
      BY <1>1, <1>2, <3>1, <3>2
    <3>4. log[Len(log)].seq \in Numbers /\ log[Len(log)].seq >= 0
      BY <1>1, <1>2, <3>2 DEF Numbers
    <3>5. \A n \in Numbers : log[Len(log)].seq >= n
      BY <1>1, <3>3, <3>4 DEF Numbers
    <3>6. QED
      BY <3>4, <3>5
  <2>3. QED
    BY <1>1, <2>1, <2>2
<1>4. Max(Numbers) \in Numbers /\ \A n \in Numbers : Max(Numbers) >= n
  BY <1>3 DEF Max
<1>5. Numbers \subseteq Nat /\ \A i \in 1..Len(log) : log[i].seq \in Numbers
  BY <1>1, <1>2 DEF Numbers
<1>6. QED
  BY <1>4, <1>5

(* A new session has written nothing. *)
LEMMA OpenStep ==
  ASSUME CaptureInv, NEW b \in BOOLEAN, Open(b)
  PROVE  CaptureInv'
<1>1. /\ log' = log /\ source' = source /\ session' = session + 1
      /\ fetched' = << >> /\ sequence' = Max(Numbers)
      /\ position' = [p \in Partitions |-> IF b THEN 0 ELSE Len(source[p])]
  BY DEF Open
<1>2. CaptureTypes'
  <2>1. \A p \in Partitions : Len(source[p]) \in Nat
    BY DEF CaptureInv, CaptureTypes
  <2>2. position' \in [Partitions -> Nat]
    BY <1>1, <2>1
  <2>3. QED
    BY <1>1, <2>2, LargestNumber DEF CaptureInv, CaptureTypes
<1>3. FetchedInv'
  BY <1>1 DEF FetchedInv
<1>4. CaptureHasNoGaps'
  BY <1>1 DEF CaptureInv, CaptureHasNoGaps
<1>5. \A i \in 1..Len(log) : log[i].session <= session /\ log[i].session \in Nat
  <2>1. \A i \in 1..Len(log) : log[i] \in Record
    BY DEF CaptureInv, CaptureTypes
  <2>2. QED
    BY <2>1 DEF CaptureInv, SessionInv, Record
<1>6. \A i \in 1..Len(log') : log'[i].session <= session' /\ log'[i].session # session'
  BY <1>1, <1>5 DEF CaptureInv, CaptureTypes
<1>7. \A i \in 1..Len(log') : log'[i].seq <= sequence'
  BY <1>1, LargestNumber
<1>8. SessionInv'
  BY <1>6, <1>7 DEF SessionInv
<1>9. QED
  BY <1>2, <1>3, <1>4, <1>8 DEF CaptureInv

(* Polling continues a partition where it was. *)
LEMMA PollStep ==
  ASSUME CaptureInv, NEW p \in Partitions, Poll(p)
  PROVE  CaptureInv'
<1>1. /\ log' = log /\ source' = source /\ session' = session /\ sequence' = sequence
      /\ mode = "capture" /\ mode' = mode /\ fetched = << >>
  BY DEF Poll
<1>2. position[p] \in Nat /\ Len(source[p]) \in Nat /\ source[p] \in Seq(Nat) /\ session \in Nat
  BY DEF CaptureInv, CaptureTypes
<1>3. PICK n \in (position[p] + 1)..Len(source[p]) :
        /\ fetched' = [i \in 1..(n - position[p]) |->
                         [time |-> source[p][position[p] + i], partition |-> p,
                          offset |-> position[p] + i - 1, session |-> session]]
        /\ position' = [position EXCEPT ![p] = n]
  BY DEF Poll
<1> DEFINE size == n - position[p]
<1>4. size \in Nat /\ size >= 1
  BY <1>2
<1>5. \A i \in 1..size :
        /\ source[p][position[p] + i] \in Nat
        /\ position[p] + i - 1 \in Nat
  <2> SUFFICES ASSUME NEW i \in 1..size
               PROVE  source[p][position[p] + i] \in Nat /\ position[p] + i - 1 \in Nat
    OBVIOUS
  <2>1. \A a, l \in Nat : \A q \in (a + 1)..l : \A k \in 1..(q - a) :
          a + k \in 1..l /\ a + k - 1 \in Nat
    OBVIOUS
  <2>2. position[p] + i \in 1..Len(source[p]) /\ position[p] + i - 1 \in Nat
    BY <1>2, <2>1
  <2>3. QED
    BY <1>2, <2>2, ElementOfSeq
<1>6. fetched' \in Seq(Polled) /\ Len(fetched') = size
  <2>1. \A i \in 1..size :
          [time |-> source[p][position[p] + i], partition |-> p,
           offset |-> position[p] + i - 1, session |-> session] \in Polled
    BY <1>2, <1>5 DEF Polled
  <2>2. fetched' \in [1..size -> Polled]
    BY <1>3, <2>1
  <2>3. QED
    BY <1>4, <2>2, LenProperties, SeqDef
<1>7. position'[p] = n /\ n \in Nat /\ position' \in [Partitions -> Nat]
      /\ \A q \in Partitions : q # p => position'[q] = position[q]
  BY <1>2, <1>3 DEF CaptureInv, CaptureTypes
<1>8. \A i \in 1..size : /\ fetched'[i].partition = p
                         /\ fetched'[i].offset = position[p] + i - 1
                         /\ fetched'[i].session = session
  BY <1>3
<1>9. 1 \in 1..size
  BY <1>4
<1>10. CaptureTypes'
  BY <1>1, <1>6, <1>7 DEF CaptureInv, CaptureTypes
<1>11. FetchedInv'
  <2>1. fetched'[1].partition = p /\ fetched'[1].offset = position[p]
    BY <1>2, <1>8, <1>9
  <2>2. position'[fetched'[1].partition] = fetched'[1].offset + Len(fetched')
    BY <1>2, <1>6, <1>7, <2>1
  <2>3. \A k \in 1..Len(fetched') : /\ fetched'[k].partition = fetched'[1].partition
                                    /\ fetched'[k].offset = fetched'[1].offset + k - 1
                                    /\ fetched'[k].session = session'
    BY <1>1, <1>6, <1>8, <2>1
  <2>4. QED
    BY <1>1, <2>2, <2>3 DEF FetchedInv
<1>12. \A q \in Partitions : NextOffset(fetched', position', q) = NextOffset(fetched, position, q)
  <2>1. fetched' # << >> /\ fetched'[1].partition = p /\ fetched'[1].offset = position[p]
    BY <1>2, <1>4, <1>6, <1>8, <1>9
  <2>2. QED
    BY <1>1, <1>7, <2>1 DEF NextOffset
<1>13. QED
  BY <1>1, <1>2, <1>10, <1>11, <1>12, SameLog

(* A record is written at the next offset of its partition. *)
LEMMA WriteStep ==
  ASSUME CaptureInv, Write
  PROVE  CaptureInv'
<1> DEFINE r   == Head(fetched)
           new == Stamped(r)
<1>1. /\ mode = "capture" /\ fetched # << >> /\ log' = Append(log, new)
      /\ source' = source /\ session' = session
  BY DEF Write
<1>2. /\ fetched \in Seq(Polled) /\ Len(fetched) >= 1 /\ Len(fetched) \in Nat
      /\ r = fetched[1] /\ r \in Polled
  BY <1>1 DEF CaptureInv, CaptureTypes
<1>3. /\ new \in Record /\ new.seq = sequence + 1 /\ new.session = session
      /\ new.partition = r.partition /\ new.offset = r.offset
      /\ r.partition \in Partitions /\ r.offset \in Nat
  <2>1. r.session = session
    BY <1>2 DEF CaptureInv, FetchedInv
  <2>2. /\ r.time \in Nat /\ r.partition \in Partitions /\ r.offset \in Nat
        /\ session \in Nat /\ sequence + 1 \in Nat
    BY <1>2, SMTT(30) DEF Polled, CaptureInv, CaptureTypes
  <2>3. new = [seq |-> sequence + 1, time |-> r.time, partition |-> r.partition,
               offset |-> r.offset, session |-> r.session]
    BY DEF Stamped
  <2>4. QED
    BY <2>1, <2>2, <2>3 DEF Record
<1>4. NextOffset(fetched, position, r.partition) = r.offset
  BY <1>1, <1>2 DEF NextOffset
<1> HIDE DEF new, r
<1>5. /\ log' \in Seq(Record) /\ Len(log') = Len(log) + 1 /\ Len(log) \in Nat
      /\ log'[Len(log')] = new
      /\ \A i \in 1..Len(log) : log'[i] = log[i] /\ log[i] \in Record
  BY <1>1, <1>3 DEF CaptureInv, CaptureTypes
<1>6. \A i \in 1..Len(log) :
        /\ log[i].seq <= sequence /\ log[i].seq \in Nat
        /\ log[i].session <= session /\ log[i].offset \in Nat
        /\ log[i].session = session =>
             \A o \in log[i].offset..(NextOffset(fetched, position, log[i].partition) - 1) :
               Holds(log, i, Len(log), log[i].partition, o)
  BY <1>1, <1>5 DEF CaptureInv, SessionInv, Record
<1>7. \A i \in 1..Len(log), j \in 1..Len(log) : \A p, o :
        Holds(log, i, j, p, o) => Holds(log', i, j, p, o)
  BY <1>5 DEF Holds
<1>8. ASSUME NEW i \in 1..Len(log), log[i].session = session, log[i].partition = r.partition
      PROVE  \A o \in log[i].offset..r.offset : Holds(log', i, Len(log'), r.partition, o)
  <2> SUFFICES ASSUME NEW o \in log[i].offset..r.offset
               PROVE  Holds(log', i, Len(log'), r.partition, o)
    OBVIOUS
  <2>0. o \in Int /\ log[i].offset \in Nat
    BY <1>6
  <2>1. CASE o = r.offset
    <3>1. Len(log') \in i..Len(log')
      BY <1>5
    <3>2. QED
      BY <1>3, <1>5, <2>1, <3>1 DEF Holds
  <2>2. CASE o # r.offset
    <3>1. o \in log[i].offset..(NextOffset(fetched, position, r.partition) - 1)
      BY <1>3, <1>4, <2>0, <2>2
    <3>2. Holds(log, i, Len(log), r.partition, o)
      BY <1>6, <1>8, <3>1
    <3>3. PICK k \in i..Len(log) : log[k].partition = r.partition /\ log[k].offset = o
      BY <3>2 DEF Holds
    <3>4. k \in i..Len(log') /\ k \in 1..Len(log)
      BY <1>5
    <3>5. QED
      BY <1>5, <3>3, <3>4 DEF Holds
  <2>3. QED
    BY <2>1, <2>2
<1>9. CaptureHasNoGaps'
  <2> SUFFICES ASSUME NEW i \in 1..Len(log'), NEW j \in 1..Len(log'), i < j
               PROVE  /\ log'[i].seq < log'[j].seq
                      /\ log'[i].session = log'[j].session /\ log'[i].partition = log'[j].partition =>
                           \A o \in log'[i].offset..log'[j].offset :
                             \E k \in i..j : log'[k].partition = log'[i].partition /\ log'[k].offset = o
    BY <1>5, SMTT(30) DEF CaptureHasNoGaps
  <2>1. CASE j \in 1..Len(log)
    <3>1. i \in 1..Len(log) /\ log'[i] = log[i] /\ log'[j] = log[j]
          /\ \A k \in i..j : log'[k] = log[k]
      BY <1>5, <2>1
    <3>2. DOMAIN log = 1..Len(log)
      BY DEF CaptureInv, CaptureTypes
    <3>3. /\ log[i].seq < log[j].seq
          /\ log[i].session = log[j].session /\ log[i].partition = log[j].partition =>
               \A o \in log[i].offset..log[j].offset :
                 \E k \in i..j : log[k].partition = log[i].partition /\ log[k].offset = o
      BY <2>1, <3>1, <3>2 DEF CaptureInv, CaptureHasNoGaps
    <3>4. QED
      BY <3>1, <3>3
  <2>2. CASE j \notin 1..Len(log)
    <3>1. j = Len(log') /\ i \in 1..Len(log) /\ log'[j] = new /\ log'[i] = log[i]
      BY <1>5, <2>2
    <3>2. log'[i].seq < log'[j].seq
      BY <1>3, <1>6, <3>1 DEF CaptureInv, CaptureTypes
    <3>3. QED
      BY <1>3, <1>8, <3>1, <3>2 DEF Holds
  <2>3. QED
    BY <2>1, <2>2
<1>10. CASE MaxMessages > 0 /\ captured + 1 >= MaxMessages
  <2>1. Exit
    BY <1>10 DEF Write
  <2>2. /\ mode' = "idle" /\ fetched' = << >> /\ sequence' = 0
        /\ position' = [p \in Partitions |-> 0]
    BY <2>1 DEF Exit
  <2>3. CaptureTypes' /\ FetchedInv'
    BY <1>1, <1>5, <2>2 DEF CaptureInv, CaptureTypes, FetchedInv
  <2>4. SessionInv'
    BY <1>1, <1>3, <1>5, <1>6, <2>2 DEF SessionInv, CaptureInv, CaptureTypes
  <2>5. QED
    BY <1>9, <2>3, <2>4 DEF CaptureInv
<1>11. CASE ~(MaxMessages > 0 /\ captured + 1 >= MaxMessages)
  <2>1. /\ mode' = mode /\ fetched' = Tail(fetched) /\ sequence' = sequence + 1
        /\ position' = position
    BY <1>11 DEF Write
  <2>2. /\ fetched' \in Seq(Polled) /\ Len(fetched') = Len(fetched) - 1
        /\ \A k \in 1..Len(fetched') : fetched'[k] = fetched[k + 1]
    BY <1>1, <1>2, <2>1
  <2>3. CaptureTypes'
    BY <1>1, <1>5, <2>1, <2>2 DEF CaptureInv, CaptureTypes
  <2>4. /\ \A k \in 1..Len(fetched) : /\ fetched[k].partition = r.partition
                                      /\ fetched[k].offset = r.offset + k - 1
                                      /\ fetched[k].session = session
        /\ position[r.partition] = r.offset + Len(fetched)
    BY <1>1, <1>2 DEF CaptureInv, FetchedInv
  <2>5. \A k \in 1..Len(fetched') : /\ fetched'[k].partition = r.partition
                                    /\ fetched'[k].offset = r.offset + k
                                    /\ fetched'[k].session = session
    <3> SUFFICES ASSUME NEW k \in 1..Len(fetched')
                 PROVE  /\ fetched'[k].partition = r.partition
                        /\ fetched'[k].offset = r.offset + k
                        /\ fetched'[k].session = session
      OBVIOUS
    <3>1. k + 1 \in 1..Len(fetched) /\ r.offset + (k + 1) - 1 = r.offset + k
      BY <1>2, <1>3, <2>2
    <3>2. fetched'[k] = fetched[k + 1]
      BY <2>2
    <3>3. QED
      BY <2>4, <3>1, <3>2
  <2>6. fetched' # << >> => 1 \in 1..Len(fetched')
    BY <2>2
  <2>7. FetchedInv'
    <3>1. fetched' # << >> => position'[fetched'[1].partition] = fetched'[1].offset + Len(fetched')
      <4> SUFFICES ASSUME fetched' # << >>
                   PROVE  position'[fetched'[1].partition] = fetched'[1].offset + Len(fetched')
        OBVIOUS
      <4>1. fetched'[1].partition = r.partition /\ fetched'[1].offset = r.offset + 1
        BY <2>5, <2>6
      <4>2. \A a, b \in Nat : a + 1 + (b - 1) = a + b
        OBVIOUS
      <4>3. QED
        BY <1>2, <1>3, <2>1, <2>2, <2>4, <4>1, <4>2
    <3>2. \A k \in 1..Len(fetched') : fetched'[k].offset = fetched'[1].offset + k - 1
      <4> SUFFICES ASSUME NEW k \in 1..Len(fetched')
                   PROVE  fetched'[k].offset = fetched'[1].offset + k - 1
        OBVIOUS
      <4>1. 1 \in 1..Len(fetched')
        BY <1>2, <2>2
      <4>2. r.offset + k = r.offset + 1 + k - 1
        BY <1>3
      <4>3. QED
        BY <2>5, <4>1, <4>2
    <3>3. QED
      <4>1. \A k \in 1..Len(fetched') : fetched'[k].partition = fetched'[1].partition
        <5>1. Len(fetched') \in Nat
          BY <2>2
        <5>2. \A k \in 1..Len(fetched') : 1 \in 1..Len(fetched')
          BY <5>1
        <5>3. QED
          BY <2>5, <5>2
      <4>2. \A k \in 1..Len(fetched') : fetched'[k].session = session'
        BY <1>1, <2>5
      <4>3. mode' = "capture"
        BY <1>1, <2>1
      <4>4. QED
        BY <3>1, <3>2, <4>1, <4>2, <4>3 DEF FetchedInv
  <2>8. /\ NextOffset(fetched', position', r.partition) = r.offset + 1
        /\ \A q \in Partitions : q # r.partition => NextOffset(fetched', position', q) = NextOffset(fetched, position, q)
    <3>1. CASE fetched' = << >>
      <4>1. Len(fetched) = 1
        BY <1>2, <2>2, <3>1
      <4>2. QED
        BY <1>2, <2>1, <2>4, <3>1, <4>1 DEF NextOffset
    <3>2. CASE fetched' # << >>
      BY <1>2, <2>1, <2>5, <2>6, <3>2 DEF NextOffset
    <3>3. QED
      BY <3>1, <3>2
  <2>9. SessionInv'
    <3> SUFFICES ASSUME NEW i \in 1..Len(log')
                 PROVE  /\ log'[i].session <= session' /\ log'[i].seq <= sequence'
                        /\ log'[i].session = session' =>
                             \A o \in log'[i].offset..(NextOffset(fetched', position', log'[i].partition) - 1) :
                               Holds(log', i, Len(log'), log'[i].partition, o)
      BY <1>5 DEF SessionInv
    <3>1. CASE i = Len(log')
      <4>1. log'[i] = new /\ log'[i].session = session
        BY <1>3, <1>5, <3>1
      <4>2. Holds(log', i, Len(log'), r.partition, r.offset)
        BY <1>3, <1>5, <3>1 DEF Holds
      <4>3. \A o \in r.offset..((r.offset + 1) - 1) : o = r.offset
        BY <1>3
      <4>4. \A o \in log'[i].offset..(NextOffset(fetched', position', log'[i].partition) - 1) :
              Holds(log', i, Len(log'), log'[i].partition, o)
        BY <1>3, <2>8, <4>1, <4>2, <4>3
      <4>5. QED
        BY <1>1, <1>3, <2>1, <4>1, <4>4 DEF CaptureInv, CaptureTypes
    <3>2. CASE i # Len(log')
      <4>1. i \in 1..Len(log) /\ log'[i] = log[i]
        BY <1>5, <3>2
      <4>2. log[i].session <= session /\ log[i].seq <= sequence + 1
        BY <1>6, <4>1 DEF CaptureInv, CaptureTypes
      <4>3. CASE log[i].partition = r.partition
        <5>1. (r.offset + 1) - 1 = r.offset
          BY <1>3
        <5>2. QED
          <6>1. log'[i].partition = r.partition /\ log'[i].session = log[i].session
                /\ log'[i].offset = log[i].offset
            BY <4>1, <4>3
          <6>2. NextOffset(fetched', position', log'[i].partition) - 1 = r.offset
            BY <2>8, <5>1, <6>1
          <6>3. log[i].session = session =>
                  \A o \in log[i].offset..r.offset : Holds(log', i, Len(log'), r.partition, o)
            BY <1>8, <4>1, <4>3
          <6>4. log'[i].session <= session' /\ log'[i].seq <= sequence'
            BY <1>1, <2>1, <4>1, <4>2
          <6>5. log'[i].offset..(NextOffset(fetched', position', log'[i].partition) - 1)
                  = log[i].offset..r.offset
            BY <6>1, <6>2
          <6>6. QED
            BY <1>1, <6>1, <6>3, <6>4, <6>5
      <4>4. CASE log[i].partition # r.partition
        <5>1. NextOffset(fetched', position', log[i].partition) = NextOffset(fetched, position, log[i].partition)
          BY <1>5, <2>8, <4>1, <4>4 DEF Record
        <5>2. log[i].session = session =>
                \A o \in log[i].offset..(NextOffset(fetched, position, log[i].partition) - 1) :
                  Holds(log', i, Len(log'), log[i].partition, o)
          <6> SUFFICES ASSUME log[i].session = session,
                              NEW o \in log[i].offset..(NextOffset(fetched, position, log[i].partition) - 1)
                       PROVE  Holds(log', i, Len(log'), log[i].partition, o)
            OBVIOUS
          <6>1. PICK k \in i..Len(log) : log[k].partition = log[i].partition /\ log[k].offset = o
            BY <1>6, <4>1 DEF Holds
          <6>2. k \in i..Len(log') /\ k \in 1..Len(log)
            BY <1>5, <4>1
          <6>3. QED
            BY <1>5, <4>1, <6>1, <6>2 DEF Holds
        <5>3. QED
          BY <1>1, <2>1, <4>1, <4>2, <5>1, <5>2
      <4>5. QED
        BY <4>3, <4>4
    <3>3. QED
      BY <3>1, <3>2
  <2>10. QED
    BY <1>9, <2>3, <2>7, <2>9 DEF CaptureInv
<1>12. QED
  BY <1>10, <1>11

LEMMA CaptureStep == CaptureInv /\ [Next]_vars => CaptureInv'
<1> SUFFICES ASSUME CaptureInv, [Next]_vars
             PROVE  CaptureInv'
  OBVIOUS
<1>1. ASSUME NEW p \in Partitions, NEW time \in 1..MaxTime, Publish(p, time)
      PROVE  CaptureInv'
  <2>1. /\ log' = log /\ mode' = mode /\ UNCHANGED capture
        /\ source' = [source EXCEPT ![p] = Append(source[p], time)]
    BY <1>1 DEF Publish
  <2>2. time \in Nat /\ source[p] \in Seq(Nat)
    BY KafkaAssumption DEF CaptureInv, CaptureTypes
  <2>3. Append(source[p], time) \in Seq(Nat)
    BY <2>2
  <2>4. source' \in [Partitions -> Seq(Nat)]
    BY <2>1, <2>3 DEF CaptureInv, CaptureTypes
  <2>5. CaptureTypes' /\ FetchedInv'
    BY <2>1, <2>4 DEF CaptureInv, CaptureTypes, FetchedInv, capture
  <2>6. \A q \in Partitions : NextOffset(fetched', position', q) = NextOffset(fetched, position, q)
    BY <2>1 DEF NextOffset, capture
  <2>7. session' = session /\ session \in Nat /\ sequence' = sequence
    BY <2>1 DEF capture, CaptureInv, CaptureTypes
  <2>8. QED
    BY <2>1, <2>5, <2>6, <2>7, SameLog
<1>2. ASSUME NEW b \in BOOLEAN, Open(b)
      PROVE  CaptureInv'
  BY <1>2, OpenStep
<1>3. ASSUME NEW p \in Partitions, Poll(p)
      PROVE  CaptureInv'
  BY <1>3, PollStep
<1>4. CASE Write
  BY <1>4, WriteStep
<1>5. CASE EndCapture
  <2>1. /\ log' = log /\ source' = source /\ session' = session /\ session \in Nat
        /\ mode' = "idle" /\ fetched' = << >> /\ sequence' = 0
        /\ position' = [p \in Partitions |-> 0]
    BY <1>5 DEF EndCapture, Exit, CaptureInv, CaptureTypes
  <2>2. CaptureTypes' /\ FetchedInv'
    BY <2>1 DEF CaptureInv, CaptureTypes, FetchedInv
  <2>3. QED
    BY <2>1, <2>2, SameLog
<1>6. CASE \/ \E f \in FaultSets : StartReplay(f)
           \/ Send \/ Receive \/ Acknowledge \/ ProduceFails \/ Expire \/ Finish \/ UNCHANGED vars
  <2>1. /\ log' = log /\ source' = source /\ UNCHANGED capture
        /\ mode' = mode \/ (mode' # "capture" /\ mode # "capture")
    BY <1>6 DEF StartReplay, Send, Receive, Acknowledge, ProduceFails, Expire, Finish, vars
  <2>2. CaptureTypes' /\ FetchedInv'
    BY <2>1 DEF CaptureInv, CaptureTypes, FetchedInv, capture
  <2>3. \A q \in Partitions : NextOffset(fetched', position', q) = NextOffset(fetched, position, q)
    BY <2>1 DEF NextOffset, capture
  <2>4. session' = session /\ session \in Nat /\ sequence' = sequence
    BY <2>1 DEF capture, CaptureInv, CaptureTypes
  <2>5. QED
    BY <2>1, <2>2, <2>3, <2>4, SameLog
<1>7. QED
  BY <1>1, <1>2, <1>3, <1>4, <1>5, <1>6 DEF Next

(* What a capture session wrote of a partition has no gap, and sequence numbers
   increase over all sessions, however sessions end and whatever is published
   while they run: Capture of kafkasim and Write of message.Logger. *)
THEOREM NoGaps == Spec => []CaptureHasNoGaps
<1>1. CaptureInv => CaptureHasNoGaps
  BY DEF CaptureInv
<1>2. QED
  BY <1>1, CaptureInit, CaptureStep, PTL DEF Spec

(* A messages.log whose tail does not decode is refused by NewLogger, so nothing
   is written behind it. *)
THEOREM TornIsRefused == Spec => TornLogNotExtended
<1> DEFINE Safe == torn => mode # "capture"
<1>1. Init => Safe
  BY DEF Init
<1>2. Safe /\ [Next]_vars => Safe' /\ [torn => log' = log /\ mode' # "capture"]_vars
  <2> SUFFICES ASSUME Safe, [Next]_vars
               PROVE  Safe' /\ ((torn => log' = log /\ mode' # "capture") \/ UNCHANGED vars)
    OBVIOUS
  <2>1. ASSUME NEW p \in Partitions, Poll(p) \/ \E time \in 1..MaxTime : Publish(p, time)
        PROVE  Safe' /\ (torn => log' = log /\ mode' # "capture")
    BY <2>1 DEF Publish, Poll
  <2>2. ASSUME NEW b \in BOOLEAN, Open(b)
        PROVE  Safe' /\ (torn => log' = log /\ mode' # "capture")
    BY <2>2 DEF Open
  <2>3. CASE Write
    <3>1. ~torn /\ torn' = torn
      BY <2>3 DEF Write
    <3>2. QED
      BY <3>1
  <2>4. CASE EndCapture
    <3>1. log' = log /\ mode' = "idle"
      BY <2>4 DEF EndCapture, Exit
    <3>2. QED
      BY <3>1
  <2>a. CASE (\E f \in FaultSets : StartReplay(f)) \/ Send \/ Receive \/ Acknowledge \/ ProduceFails \/ Expire \/ Finish
    <3>1. log' = log /\ mode' # "capture"
      BY <2>a DEF StartReplay, Send, Receive, Acknowledge, ProduceFails, Expire, Finish
    <3>2. QED
      BY <3>1
  <2>5. CASE UNCHANGED vars
    BY <2>5 DEF vars
  <2>6. QED
    BY <2>1, <2>2, <2>3, <2>4, <2>a, <2>5 DEF Next
<1>3. QED
  BY <1>1, <1>2, PTL DEF Spec, TornLogNotExtended

-----------------------------------------------------------------------------
(* General facts.                                                          *)

(* Induction, for a set of numbers. *)
LEMMA SetInduction ==
  ASSUME NEW P \in SUBSET Nat, 0 \in P, \A n \in P : n + 1 \in P
  PROVE  \A n \in Nat : n \in P
<1> SUFFICES ASSUME Nat \ P # {}
             PROVE  FALSE
  OBVIOUS
<1>1. PICK x \in Nat \ P : \A y \in Nat \ P : ~(<<y, x>> \in OpToRel(<, Nat))
  BY NatLessThanWellFounded, WFMin
<1>2. \A y \in Nat \ P : ~(y < x)
  BY <1>1, Zenon DEF OpToRel
<1>3. x - 1 \in P
  BY <1>2
<1>4. x - 1 + 1 = x
  OBVIOUS
<1>5. QED
  BY <1>3, <1>4

(* Parts can be joined one after the other: the recursion of Plan has a value. *)
Joined(join, parts, n) == join[n] = IF n = 0 THEN << >> ELSE join[n - 1] \o parts[n]

LEMMA JoinExists ==
  ASSUME NEW E, NEW N \in Nat, NEW parts \in [1..N -> Seq(E)]
  PROVE  \E join \in [0..N -> Seq(E)] : \A n \in 0..N : Joined(join, parts, n)
<1> DEFINE Works(join, m) == \A n \in 0..m : Joined(join, parts, n)
           P == {m \in Nat : m <= N => \E join \in [0..m -> Seq(E)] : Works(join, m)}
<1>1. 0 \in P
  <2> DEFINE join == [n \in 0..0 |-> << >>]
  <2>1. join \in [0..0 -> Seq(E)] /\ Works(join, 0)
    BY DEF Joined
  <2>2. QED
    BY <2>1
<1>2. ASSUME NEW m \in P
      PROVE  m + 1 \in P
  <2> HIDE DEF Works
  <2>0. m \in Nat /\ (m <= N => \E join \in [0..m -> Seq(E)] : Works(join, m))
    OBVIOUS
  <2> SUFFICES ASSUME m + 1 <= N
               PROVE  \E join \in [0..(m + 1) -> Seq(E)] : Works(join, m + 1)
    BY <2>0
  <2> HIDE DEF P
  <2>1. PICK join \in [0..m -> Seq(E)] : Works(join, m)
    BY <2>0
  <2> USE DEF Works
  <2> DEFINE longer == [n \in 0..(m + 1) |-> IF n = m + 1 THEN join[m] \o parts[n] ELSE join[n]]
  <2>2. join[m] \in Seq(E) /\ parts[m + 1] \in Seq(E)
    BY <2>0
  <2>3. longer \in [0..(m + 1) -> Seq(E)]
    BY <2>0, <2>2
  <2>4. ASSUME NEW n \in 0..(m + 1)
        PROVE  Joined(longer, parts, n)
    <3>1. CASE n = m + 1
      <4>1. n # 0 /\ n - 1 = m /\ n - 1 # m + 1 /\ n - 1 \in 0..(m + 1)
        BY <2>0, <3>1
      <4>2. longer[n] = join[m] \o parts[n] /\ longer[n - 1] = join[m]
        BY <3>1, <4>1
      <4>3. QED
        BY <3>1, <4>1, <4>2 DEF Joined
    <3>2. CASE n # m + 1
      <4>1. n \in 0..m /\ (n # 0 => n - 1 \in 0..(m + 1) /\ n - 1 # m + 1)
        BY <2>0, <3>2
      <4>2. longer[n] = join[n] /\ (n # 0 => longer[n - 1] = join[n - 1])
        BY <3>2, <4>1
      <4>3. Joined(join, parts, n)
        BY <2>1, <4>1
      <4>4. QED
        BY <4>1, <4>2, <4>3 DEF Joined
    <3>3. QED
      BY <3>1, <3>2
  <2>5. QED
    BY <2>3, <2>4
<1>3. N \in P
  <2> HIDE DEF P
  <2>1. P \in SUBSET Nat
    BY DEF P
  <2>2. QED
    BY <1>1, <1>2, <2>1, SetInduction
<1>4. N <= N
  OBVIOUS
<1>5. QED
  BY <1>3, <1>4, Zenon

(* A finite set that is totally ordered can be sorted. *)
LEMMA SortedExists ==
  ASSUME NEW S, IsFiniteSet(S), NEW R,
         \A x, y \in S : x # y => <<x, y>> \in R \/ <<y, x>> \in R,
         \A x, y, z \in S : <<x, y>> \in R /\ <<y, z>> \in R => <<x, z>> \in R
  PROVE  \E s \in SetToSeqs(S) : \A i, j \in DOMAIN s : i < j => <<s[i], s[j]>> \in R
<1> DEFINE Sorts(s, n, T) ==
             /\ s \in [1..n -> T]
             /\ \A i, j \in 1..n : i < j => s[i] # s[j] /\ <<s[i], s[j]>> \in R
             /\ \A x \in T : \E i \in 1..n : s[i] = x
           P == {n \in Nat : \A T \in SUBSET S : Cardinality(T) = n => \E s : Sorts(s, n, T)}
<1>0. \A T \in SUBSET S : IsFiniteSet(T) /\ Cardinality(T) \in Nat
  BY FS_Subset, FS_CardinalityType
<1>1. 0 \in P
  <2> SUFFICES ASSUME NEW T \in SUBSET S, Cardinality(T) = 0
               PROVE  \E s : Sorts(s, 0, T)
    OBVIOUS
  <2>1. T = {}
    BY <1>0, FS_EmptySet
  <2> DEFINE none == [i \in 1..0 |-> i]
  <2>2. Sorts(none, 0, T)
    BY <2>1
  <2> HIDE DEF none, Sorts
  <2>3. QED
    BY <2>2
<1>2. ASSUME NEW n \in P
      PROVE  n + 1 \in P
  <2>a. n \in Nat
    OBVIOUS
  <2> HIDE DEF Sorts
  <2>0. \A T \in SUBSET S : Cardinality(T) = n => \E s : Sorts(s, n, T)
    OBVIOUS
  <2> SUFFICES ASSUME NEW T \in SUBSET S, Cardinality(T) = n + 1
               PROVE  \E s : Sorts(s, n + 1, T)
    BY <2>a
  <2> HIDE DEF P
  <2> USE DEF Sorts
  <2> USE <2>a
  <2> DEFINE Highest(m) == m \in T /\ \A x \in T \ {m} : <<x, m>> \in R
  <2>1. ASSUME NEW m \in T
        PROVE  Cardinality(T \ {m}) = n /\ T \ {m} \in SUBSET S
    <3>1. Cardinality(T \ {m}) = Cardinality(T) - 1
      BY <1>0, FS_RemoveElement
    <3>2. QED
      BY <2>0, <3>1
  <2>2. \A m \in T : \E s : Sorts(s, n, T \ {m})
    <3> HIDE DEF Sorts
    <3>1. QED
      BY <2>0, <2>1
  <2>3. PICK any \in T : TRUE
    BY <1>0, FS_EmptySet
  <2>4. \E m : Highest(m)
    <3>1. PICK s : Sorts(s, n, T \ {any})
      BY <2>2
    <3>2. CASE n = 0
      <4>1. Highest(any)
        BY <3>1, <3>2
      <4>2. QED
        BY <4>1
    <3>3. CASE n # 0
      <4>1. n \in 1..n /\ s[n] \in T \ {any}
        BY <3>1, <3>3
      <4>2. \A x \in T \ {any} : x # s[n] => <<x, s[n]>> \in R
        BY <3>1, <4>1
      <4>3. CASE <<any, s[n]>> \in R
        <5>1. Highest(s[n])
          BY <4>1, <4>2, <4>3
        <5>2. QED
          BY <5>1
      <4>4. CASE <<s[n], any>> \in R
        <5>1. Highest(any)
          BY <4>1, <4>2, <4>4
        <5>2. QED
          BY <5>1
      <4>5. QED
        BY <4>1, <4>3, <4>4
    <3>4. QED
      BY <3>2, <3>3
  <2>5. PICK m : Highest(m)
    BY <2>4
  <2>6. PICK s : Sorts(s, n, T \ {m})
    BY <2>2, <2>5
  <2> DEFINE t == [i \in 1..(n + 1) |-> IF i = n + 1 THEN m ELSE s[i]]
  <2>7. Sorts(t, n + 1, T)
    <3>1. t \in [1..(n + 1) -> T]
      BY <2>5, <2>6
    <3>2. ASSUME NEW i \in 1..(n + 1), NEW j \in 1..(n + 1), i < j
          PROVE  t[i] # t[j] /\ <<t[i], t[j]>> \in R
      <4>1. CASE j = n + 1
        <5>1. i \in 1..n /\ s[i] \in T \ {m}
          BY <2>6, <3>2, <4>1
        <5>2. QED
          BY <2>5, <4>1, <5>1
      <4>2. CASE j # n + 1
        BY <2>6, <3>2, <4>2
      <4>3. QED
        BY <4>1, <4>2
    <3>3. ASSUME NEW x \in T
          PROVE  \E i \in 1..(n + 1) : t[i] = x
      <4>1. CASE x = m
        BY <4>1
      <4>2. CASE x # m
        <5>1. PICK i \in 1..n : s[i] = x
          BY <2>6, <4>2
        <5>2. i \in 1..(n + 1) /\ t[i] = x
          BY <5>1
        <5>3. QED
          BY <5>2
      <4>3. QED
        BY <4>1, <4>2
    <3>4. QED
      BY <3>1, <3>2, <3>3
  <2>8. QED
    BY <2>7
<1>3. Cardinality(S) \in P
  <2>1. P \in SUBSET Nat /\ Cardinality(S) \in Nat
    BY <1>0
  <2> HIDE DEF P
  <2>2. QED
    BY <1>1, <1>2, <2>1, SetInduction
<1>4. PICK s : Sorts(s, Cardinality(S), S)
  BY <1>3
<1>5. s \in SetToSeqs(S)
  <2>1. \A i, j \in 1..Cardinality(S) : i # j => i < j \/ j < i
    BY <1>0
  <2>2. QED
    BY <1>4, <2>1 DEF SetToSeqs
<1>6. DOMAIN s = 1..Cardinality(S)
  BY <1>4
<1>7. QED
  BY <1>4, <1>5, <1>6
-----------------------------------------------------------------------------
(* The places of a plan.                                                    *)

LEMMA DivBounds ==
  ASSUME NEW a \in Nat, NEW w \in Nat, w > 0
  PROVE  (a \div w) \in Nat /\ (a \div w) * w <= a /\ a < (a \div w) * w + w
OBVIOUS

LEMMA DivUnique ==
  ASSUME NEW a \in Nat, NEW w \in Nat, NEW q \in Nat, q * w <= a, a < q * w + w
  PROVE  a \div w = q
<1>1. (a \div w) \in Int /\ (a \div w) * w <= a /\ a < (a \div w) * w + w
  BY DivBounds
<1>2. \A m, n \in Int : m < n => m * w + w <= n * w
  OBVIOUS
<1>3. ~(a \div w < q) /\ ~(q < a \div w)
  BY <1>1, <1>2
<1>4. QED
  BY <1>1, <1>3

(* Every n-th of the first a places. *)
LEMMA DivStep ==
  ASSUME NEW a \in Nat, NEW w \in Nat, w > 0
  PROVE  (a + 1) \div w = (a \div w) + (IF (a + 1) % w = 0 THEN 1 ELSE 0)
OBVIOUS

LEMMA MinOfTwo ==
  ASSUME NEW a \in Int, NEW b \in Int
  PROVE  Min({a, b}) = IF a <= b THEN a ELSE b
<1>1. \A x : (x \in {a, b} /\ \A y \in {a, b} : x <= y) => x = IF a <= b THEN a ELSE b
  OBVIOUS
<1>2. \E x \in {a, b} : \A y \in {a, b} : x <= y
  OBVIOUS
<1>3. QED
  BY <1>1, <1>2 DEF Min

(* A place takes its record from its own window. *)
LEMMA OriginalPlace ==
  ASSUME NEW f \in FaultSets, NEW n \in Nat, NEW i \in 1..n
  PROVE  /\ OriginalIndex(f, n, i) \in 1..n
         /\ f.window > 0 => (OriginalIndex(f, n, i) - 1) \div f.window = (i - 1) \div f.window
         /\ f.window <= 1 => OriginalIndex(f, n, i) = i
<1>0. f.window \in Nat
  BY KafkaAssumption
<1>1. CASE f.window <= 1
  BY <1>0, <1>1 DEF OriginalIndex
<1>2. CASE f.window > 1
  <2> DEFINE w     == f.window
             q     == (i - 1) \div w
             start == q * w
             end   == Min({start + w, n})
             o     == start + end - i + 1
  <2>1. OriginalIndex(f, n, i) = o
    BY <1>2 DEF OriginalIndex
  <2>2. i - 1 \in Nat /\ w \in Nat /\ w > 0
    BY <1>0, <1>2
  <2>3. q \in Nat /\ start <= i - 1 /\ i - 1 < start + w
    BY <2>2, DivBounds
  <2>4. start \in Nat
    BY <2>2, <2>3
  <2>5. end = IF start + w <= n THEN start + w ELSE n
    BY <2>2, <2>4, MinOfTwo
  <2> HIDE DEF w, q, end
  <2>6. o \in 1..n /\ start <= o - 1 /\ o - 1 < start + w
    BY <2>2, <2>3, <2>4, <2>5
  <2>7. o - 1 \in Nat
    BY <2>6
  <2> HIDE DEF o
  <2>8. (o - 1) \div w = q
    BY <2>2, <2>3, <2>6, <2>7, DivUnique
  <2>9. QED
    BY <1>0, <1>2, <2>1, <2>6, <2>8 DEF w, q
<1>3. QED
  BY <1>0, <1>1, <1>2

(* Two places have different records. *)
LEMMA OriginalInjective ==
  ASSUME NEW f \in FaultSets, NEW n \in Nat, NEW i \in 1..n, NEW j \in 1..n,
         OriginalIndex(f, n, i) = OriginalIndex(f, n, j)
  PROVE  i = j
<1>0. f.window \in Nat
  BY KafkaAssumption
<1>1. CASE f.window <= 1
  BY <1>1, OriginalPlace
<1>2. CASE f.window > 1
  <2> DEFINE w     == f.window
             start == ((i - 1) \div w) * w
             end   == Min({start + w, n})
  <2>1. (i - 1) \div w = (j - 1) \div w
    <3>1. \A k \in 1..n : (OriginalIndex(f, n, k) - 1) \div w = (k - 1) \div w
      BY <1>0, <1>2, OriginalPlace
    <3>2. QED
      BY <3>1
  <2>2. /\ OriginalIndex(f, n, i) = start + end - i + 1
        /\ OriginalIndex(f, n, j) = start + end - j + 1
    BY <1>2, <2>1 DEF OriginalIndex
  <2>3. start \in Int
    <3>1. i - 1 \in Nat /\ w \in Nat /\ w > 0
      BY <1>0, <1>2
    <3>2. (i - 1) \div w \in Nat
      BY <3>1, DivBounds
    <3>3. QED
      BY <3>1, <3>2
  <2>4. end \in Int
    BY <1>0, <2>3, MinOfTwo
  <2> HIDE DEF start, end
  <2>5. start + end - i + 1 = start + end - j + 1
    BY <2>2
  <2>6. QED
    BY <2>3, <2>4, <2>5
<1>3. QED
  BY <1>0, <1>1, <1>2

(* What is produced for one place. *)
Planned(S, N) == [record : S, original : 1..N, copy : {0, 1}, poisoned : BOOLEAN]

PartOf(f, records, S, N, n, part) ==
  /\ part \in Seq(Planned(S, N))
  /\ Len(part) = IF Every(f.drop, n) THEN 0 ELSE IF Every(f.duplicate, n) THEN 2 ELSE 1
  /\ \A i \in 1..Len(part) :
       /\ part[i].original = OriginalIndex(f, N, n)
       /\ part[i].record = records[OriginalIndex(f, N, n)]
       /\ part[i].poisoned = Every(f.poison, n)
       /\ part[i].copy = i - 1

LEMMA PlaceEntries ==
  ASSUME NEW f \in FaultSets, NEW N \in Nat, NEW S, NEW records \in [1..N -> S], Len(records) = N,
         NEW n \in 1..N
  PROVE  PartOf(f, records, S, N, n, Entries(f, records, n))
<1> DEFINE o == OriginalIndex(f, N, n)
           entry == [record |-> records[o], original |-> o, copy |-> 0, poisoned |-> Every(f.poison, n)]
           E == [record : S, original : 1..N, copy : {0, 1}, poisoned : BOOLEAN]
<1>1. o \in 1..N
  BY OriginalPlace
<1>2. Every(f.poison, n) \in BOOLEAN
  BY DEF Every
<1>3. entry \in E /\ [entry EXCEPT !.copy = 1] \in E
  BY <1>1, <1>2
<1>4. Entries(f, records, n) = IF Every(f.drop, n) THEN << >>
                               ELSE IF Every(f.duplicate, n) THEN <<entry, [entry EXCEPT !.copy = 1]>>
                               ELSE <<entry>>
  BY DEF Entries
<1>5. /\ entry.original = o /\ entry.record = records[o] /\ entry.poisoned = Every(f.poison, n)
      /\ entry.copy = 0
      /\ LET second == [entry EXCEPT !.copy = 1]
         IN  /\ second.original = o /\ second.record = records[o] /\ second.poisoned = Every(f.poison, n)
             /\ second.copy = 1
  OBVIOUS
<1> HIDE DEF entry, o, E
<1>6. QED
  <2>1. CASE Every(f.drop, n)
    BY <1>4, <2>1 DEF PartOf
  <2>2. CASE ~Every(f.drop, n) /\ Every(f.duplicate, n)
    BY <1>3, <1>4, <1>5, <2>2 DEF E, o, PartOf, Planned
  <2>3. CASE ~Every(f.drop, n) /\ ~Every(f.duplicate, n)
    BY <1>3, <1>4, <1>5, <2>3 DEF E, o, PartOf, Planned
  <2>4. QED
    BY <2>1, <2>2, <2>3


(* The loop of Plan, place by place. *)
Follows(upTo, f, records, n) == upTo[n + 1] = upTo[n] \o Entries(f, records, n + 1)

Unrolled(f, records, S, N, upTo) ==
  /\ upTo \in [0..N -> Seq(Planned(S, N))]
  /\ upTo[0] = << >>
  /\ \A n \in 0..(N - 1) : Follows(upTo, f, records, n)
  /\ Plan(f, records) = upTo[N]

LEMMA PlanLoop ==
  ASSUME NEW f \in FaultSets, NEW N \in Nat, NEW S, NEW records \in [1..N -> S], Len(records) = N
  PROVE  \E upTo : Unrolled(f, records, S, N, upTo)
<1> DEFINE parts == [n \in 1..N |-> Entries(f, records, n)]
           Body(g) == [n \in 0..Len(records) |->
                              IF n = 0 THEN << >> ELSE g[n - 1] \o Entries(f, records, n)]
           upTo == CHOOSE g : g = Body(g)
<1>1. parts \in [1..N -> Seq(Planned(S, N))]
  <2>1. \A n \in 1..N : Entries(f, records, n) \in Seq(Planned(S, N))
    BY PlaceEntries DEF PartOf
  <2>2. QED
    BY <2>1
<1>a. \A n \in 1..N : parts[n] = Entries(f, records, n)
  OBVIOUS
<1>2. PICK g \in [0..N -> Seq(Planned(S, N))] : \A n \in 0..N : Joined(g, parts, n)
  <2> HIDE DEF parts
  <2>1. \A E : parts \in [1..N -> Seq(E)] =>
          \E g \in [0..N -> Seq(E)] : \A n \in 0..N : Joined(g, parts, n)
    BY JoinExists
  <2>2. QED
    BY <1>1, <2>1
<1>3. g = Body(g)
  <2>1. \A n \in 0..N : g[n] = IF n = 0 THEN << >> ELSE g[n - 1] \o Entries(f, records, n)
    <3> SUFFICES ASSUME NEW n \in 0..N
                 PROVE  g[n] = IF n = 0 THEN << >> ELSE g[n - 1] \o Entries(f, records, n)
      OBVIOUS
    <3>1. Joined(g, parts, n)
      BY <1>2
    <3>2. n # 0 => parts[n] = Entries(f, records, n)
      OBVIOUS
    <3> HIDE DEF parts
    <3>3. QED
      BY <3>1, <3>2 DEF Joined
  <2> HIDE DEF parts
  <2>2. g = [n \in 0..N |-> g[n]]
    BY <1>2
  <2>3. QED
    BY <2>1, <2>2
<1>4. upTo = Body(upTo)
  <2> HIDE DEF Body
  <2>1. QED
    BY <1>3
<1>5. Plan(f, records) = upTo[N]
  BY DEF Plan
<1>6. \A h : h = Body(h) => h \in [0..N -> Seq(Planned(S, N))] /\ h[0] = << >>
                            /\ \A n \in 0..(N - 1) : Follows(h, f, records, n)
  <2> SUFFICES ASSUME NEW h, h = Body(h)
               PROVE  h \in [0..N -> Seq(Planned(S, N))] /\ h[0] = << >>
                      /\ \A n \in 0..(N - 1) : Follows(h, f, records, n)
    OBVIOUS
  <2>1. /\ h[0] = << >> /\ h = [n \in 0..N |-> h[n]]
        /\ \A n \in 0..N : h[n] = IF n = 0 THEN << >> ELSE h[n - 1] \o Entries(f, records, n)
    <3>1. DOMAIN h = 0..N /\ \A n \in 0..N : h[n] = Body(h)[n]
      BY Zenon
    <3>2. \A n \in 0..N : Body(h)[n] = IF n = 0 THEN << >> ELSE h[n - 1] \o Entries(f, records, n)
      BY Zenon
    <3>3. h = [n \in DOMAIN h |-> h[n]]
      OBVIOUS
    <3> HIDE DEF Body
    <3>4. h = [n \in 0..N |-> h[n]]
      BY <3>1, <3>3, Zenon
    <3>5. \A n \in 0..N : h[n] = IF n = 0 THEN << >> ELSE h[n - 1] \o Entries(f, records, n)
      BY <3>1, <3>2, Zenon
    <3>6. 0 \in 0..N
      OBVIOUS
    <3>7. h[0] = << >>
      BY <3>5, <3>6, Zenon
    <3>8. QED
      BY <3>4, <3>5, <3>7, Zenon
  <2>2. \A n \in 0..(N - 1) : Follows(h, f, records, n)
    <3> SUFFICES ASSUME NEW n \in 0..(N - 1)
                 PROVE  Follows(h, f, records, n)
      OBVIOUS
    <3>1. n + 1 \in 0..N /\ n + 1 # 0 /\ n + 1 - 1 = n
      OBVIOUS
    <3> DEFINE Goes(m, k) == h[m] = IF m = 0 THEN << >> ELSE h[k] \o Entries(f, records, m)
    <3>b. \A m \in 0..N : Goes(m, m - 1)
      BY <2>1, Zenon
    <3>c. Goes(n + 1, n)
      <4> HIDE DEF Goes
      <4>1. QED
        BY <3>1, <3>b
    <3>2. h[n + 1] = h[n] \o Entries(f, records, n + 1)
      BY <3>1, <3>c, Zenon
    <3>3. QED
      BY <3>1, <3>2, Zenon DEF Follows
  <2> HIDE DEF Body, upTo, parts
  <2> DEFINE P == {n \in Nat : n <= N => h[n] \in Seq(Planned(S, N))}
  <2>a. h[0] = << >>
    BY <2>1, Zenon
  <2>b. << >> \in Seq(Planned(S, N))
    OBVIOUS
  <2>3. 0 \in P
    <3>1. 0 \in Nat /\ h[0] \in Seq(Planned(S, N))
      BY <2>a, <2>b, Zenon
    <3>2. QED
      BY <3>1, Zenon
  <2>4. ASSUME NEW n \in P
        PROVE  n + 1 \in P
    <3> SUFFICES ASSUME n + 1 <= N
                 PROVE  h[n + 1] \in Seq(Planned(S, N))
      OBVIOUS
    <3>1. h[n] \in Seq(Planned(S, N)) /\ n + 1 \in 1..N /\ n + 1 - 1 = n
      OBVIOUS
    <3>2. Entries(f, records, n + 1) \in Seq(Planned(S, N))
      BY <3>1, PlaceEntries DEF PartOf
    <3>a. n \in 0..(N - 1)
      OBVIOUS
    <3>3. Follows(h, f, records, n)
      BY <2>2, <3>a
    <3> HIDE DEF P
    <3>4. h[n + 1] = h[n] \o Entries(f, records, n + 1)
      BY <3>3, Zenon DEF Follows
    <3>5. QED
      BY <3>1, <3>2, <3>4
  <2>5. P \in SUBSET Nat
    OBVIOUS
  <2> HIDE DEF P
  <2>6. \A n \in Nat : n \in P
    BY <2>3, <2>4, <2>5, SetInduction
  <2>7. \A n \in 0..N : h[n] \in Seq(Planned(S, N))
    BY <2>6 DEF P
  <2>8. QED
    <3>1. h[0] = << >>
      BY <2>a
    <3>2. h = [n \in 0..N |-> h[n]]
      BY <2>1, Zenon
    <3>3. h \in [0..N -> Seq(Planned(S, N))]
      BY <2>7, <3>2
    <3>4. QED
      BY <2>2, <3>1, <3>3
<1>7. QED
  <2> HIDE DEF Body, parts
  <2>1. upTo \in [0..N -> Seq(Planned(S, N))] /\ upTo[0] = << >>
        /\ \A n \in 0..(N - 1) : Follows(upTo, f, records, n)
    BY <1>4, <1>6
  <2> HIDE DEF upTo
  <2>2. Unrolled(f, records, S, N, upTo)
    BY <1>5, <2>1, Zenon DEF Unrolled
  <2>3. QED
    BY <2>2

(* Counting the numbers up to n that are in a set. *)
Count(P, n) == Cardinality(P \cap (1..n))

LEMMA CountNext ==
  ASSUME NEW P, NEW n \in Nat
  PROVE  /\ Count(P, 0) = 0 /\ Count(P, n) \in Nat
         /\ Count(P, n + 1) = Count(P, n) + (IF n + 1 \in P THEN 1 ELSE 0)
<1>1. IsFiniteSet(1..n) /\ P \cap (1..n) \subseteq 1..n
  BY FS_Interval
<1>2. IsFiniteSet(P \cap (1..n))
  BY <1>1, FS_Subset
<1>3. Count(P, n) \in Nat
  BY <1>2, FS_CardinalityType DEF Count
<1>4. P \cap (1..0) = {}
  OBVIOUS
<1>5. Count(P, 0) = 0
  BY <1>4, FS_EmptySet DEF Count
<1>6. CASE n + 1 \in P
  <2>1. P \cap (1..(n + 1)) = (P \cap (1..n)) \cup {n + 1} /\ n + 1 \notin P \cap (1..n)
    BY <1>6
  <2>2. QED
    BY <1>2, <1>3, <1>5, <1>6, <2>1, FS_AddElement DEF Count
<1>7. CASE n + 1 \notin P
  <2>1. P \cap (1..(n + 1)) = P \cap (1..n)
    BY <1>7
  <2>2. QED
    BY <1>3, <1>5, <1>7, <2>1 DEF Count
<1>8. QED
  BY <1>6, <1>7

(* The places that are kept, those that are duplicated too, and the poisoned ones. *)
Kept(f)       == {i \in Nat : ~Every(f.drop, i)}
Twice(f)      == {i \in Kept(f) : Every(f.duplicate, i)}
Sick(f)       == {i \in Nat : Every(f.poison, i)}
PoisonedOf(s) == {i \in 1..Len(s) : s[i].poisoned}

\* Each kept place gives an entry, and a second one, the copy, if it is duplicated.
Copied(f, s, n, place) ==
  /\ \A i \in 1..Len(s) : s[i].copy \in {0, 1} /\ (s[i].copy = 1 => place[i] \in Twice(f))
  /\ \A i, j \in 1..Len(s) : i < j /\ place[i] = place[j] => s[i].copy < s[j].copy
  /\ \A p \in 1..n : p \in Kept(f) => \E i \in 1..Len(s) : place[i] = p /\ s[i].copy = 0
  /\ \A p \in 1..n : p \in Twice(f) => \E i \in 1..Len(s) : place[i] = p /\ s[i].copy = 1

\* Each entry of s comes from a place up to n, in the order of the places.
Places(f, records, s, n, place) ==
  /\ place \in [1..Len(s) -> 1..n]
  /\ \A i \in 1..Len(s) : /\ place[i] \in Kept(f)
                          /\ s[i].original = OriginalIndex(f, Len(records), place[i])
                          /\ s[i].record = records[s[i].original]
                          /\ s[i].poisoned = Every(f.poison, place[i])
  /\ \A i, j \in 1..Len(s) : i < j => place[i] <= place[j]
  /\ \A p \in 1..n : p \in Kept(f) => \E i \in 1..Len(s) : place[i] = p
  /\ Copied(f, s, n, place)

Counts(f, s, n) ==
  /\ Len(s) = Count(Kept(f), n) + Count(Twice(f), n)
  /\ Count(PoisonedOf(s), Len(s)) = Count(Kept(f) \cap Sick(f), n) + Count(Twice(f) \cap Sick(f), n)

LEMMA Joining ==
  ASSUME NEW E, NEW s \in Seq(E), NEW t \in Seq(E)
  PROVE  /\ s \o t \in Seq(E) /\ Len(s \o t) = Len(s) + Len(t)
         /\ \A i \in 1..Len(s) : (s \o t)[i] = s[i]
         /\ \A i \in 1..Len(t) : (s \o t)[Len(s) + i] = t[i]
OBVIOUS

LEMMA PlacesNext ==
  ASSUME NEW f \in FaultSets, NEW N \in Nat, NEW S, NEW records \in [1..N -> S], Len(records) = N,
         NEW n \in 0..(N - 1), NEW s \in Seq(Planned(S, N)),
         NEW place, Places(f, records, s, n, place), Counts(f, s, n)
  PROVE  LET longer == s \o Entries(f, records, n + 1)
         IN  (\E next : Places(f, records, longer, n + 1, next)) /\ Counts(f, longer, n + 1)
<1> DEFINE m == n + 1
           part == Entries(f, records, m)
           longer == s \o part
           next == [i \in 1..Len(longer) |-> IF i <= Len(s) THEN place[i] ELSE m]
<1>0. n \in Nat /\ m \in 1..N /\ Len(s) \in Nat
  OBVIOUS
<1>1. /\ part \in Seq(Planned(S, N))
      /\ Len(part) = IF Every(f.drop, m) THEN 0 ELSE IF Every(f.duplicate, m) THEN 2 ELSE 1
      /\ \A i \in 1..Len(part) : /\ part[i].original = OriginalIndex(f, N, m)
                                 /\ part[i].record = records[OriginalIndex(f, N, m)]
                                 /\ part[i].poisoned = Every(f.poison, m)
                                 /\ part[i].copy = i - 1
  <2> HIDE DEF m
  <2>1. m \in 1..N
    BY <1>0
  <2>2. PartOf(f, records, S, N, m, Entries(f, records, m))
    BY <2>1, PlaceEntries
  <2>3. QED
    BY <2>2 DEF PartOf
<1>2. /\ m \in Kept(f) <=> ~Every(f.drop, m)
      /\ m \in Twice(f) <=> ~Every(f.drop, m) /\ Every(f.duplicate, m)
      /\ m \in Sick(f) <=> Every(f.poison, m)
  BY <1>0 DEF Kept, Twice, Sick
<1> HIDE DEF part
<1>3. Len(part) = (IF m \in Kept(f) THEN 1 ELSE 0) + (IF m \in Twice(f) THEN 1 ELSE 0)
  BY <1>1, <1>2
<1>4. /\ longer \in Seq(Planned(S, N)) /\ Len(longer) = Len(s) + Len(part)
      /\ \A i \in 1..Len(s) : longer[i] = s[i]
      /\ \A i \in 1..Len(part) : longer[Len(s) + i] = part[i]
  <2>1. part \in Seq(Planned(S, N))
    BY <1>1, Zenon
  <2>2. QED
    BY <2>1, Joining
<1> HIDE DEF longer
<1>5. \A i \in 1..Len(longer) : i \notin 1..Len(s) =>
        /\ m \in Kept(f) /\ longer[i].original = OriginalIndex(f, N, m)
        /\ longer[i].record = records[OriginalIndex(f, N, m)]
        /\ longer[i].poisoned = Every(f.poison, m)
        /\ longer[i].copy = (i - Len(s)) - 1 /\ i - Len(s) \in 1..Len(part)
  <2> SUFFICES ASSUME NEW i \in 1..Len(longer), i \notin 1..Len(s)
               PROVE  /\ m \in Kept(f) /\ longer[i].original = OriginalIndex(f, N, m)
                      /\ longer[i].record = records[OriginalIndex(f, N, m)]
                      /\ longer[i].poisoned = Every(f.poison, m)
                      /\ longer[i].copy = (i - Len(s)) - 1 /\ i - Len(s) \in 1..Len(part)
    OBVIOUS
  <2>1. PICK k \in 1..Len(part) : i = Len(s) + k
    <3>1. i - Len(s) \in 1..Len(part) /\ i = Len(s) + (i - Len(s))
      BY <1>0, <1>1, <1>4
    <3>2. QED
      BY <3>1
  <2>2. longer[i] = part[k]
    BY <1>4, <2>1
  <2>3. m \in Kept(f)
    BY <1>1, <1>2, <2>1
  <2>4. i - Len(s) = k
    BY <1>0, <2>1
  <2>5. QED
    BY <1>1, <2>2, <2>3, <2>4
<1>6. Places(f, records, longer, m, next)
  <2>0. /\ place \in [1..Len(s) -> 1..n]
        /\ \A i \in 1..Len(s) : /\ place[i] \in Kept(f)
                                /\ s[i].original = OriginalIndex(f, Len(records), place[i])
                                /\ s[i].record = records[s[i].original]
                                /\ s[i].poisoned = Every(f.poison, place[i])
        /\ \A i, j \in 1..Len(s) : i < j => place[i] <= place[j]
        /\ \A p \in 1..n : p \in Kept(f) => \E i \in 1..Len(s) : place[i] = p
        /\ Copied(f, s, n, place)
    BY DEF Places
  <2>1. \A i \in 1..Len(longer) : /\ i \in 1..Len(s) => next[i] = place[i] /\ place[i] \in 1..n /\ longer[i] = s[i]
                                  /\ i \notin 1..Len(s) => next[i] = m
    BY <1>0, <1>4, <2>0
  <2>a. next \in [1..Len(longer) -> 1..m]
    <3>1. \A i \in 1..Len(longer) : (IF i <= Len(s) THEN place[i] ELSE m) \in 1..m
      <4>1. 1..n \subseteq 1..m /\ m \in 1..m
        BY <1>0
      <4>2. \A i \in 1..Len(longer) : i <= Len(s) => i \in 1..Len(s)
        OBVIOUS
      <4> HIDE DEF m
      <4>3. \A i \in 1..Len(s) : place[i] \in 1..n
        BY <2>0
      <4>4. QED
        BY <4>1, <4>2, <4>3
    <3>2. QED
      BY <3>1
  <2> HIDE DEF next, m
  <2>2. ASSUME NEW i \in 1..Len(longer)
        PROVE  /\ next[i] \in Kept(f)
               /\ longer[i].original = OriginalIndex(f, Len(records), next[i])
               /\ longer[i].record = records[longer[i].original]
               /\ longer[i].poisoned = Every(f.poison, next[i])
    <3>1. CASE i \in 1..Len(s)
      BY <2>0, <2>1, <3>1
    <3>2. CASE i \notin 1..Len(s)
      BY <1>5, <2>1, <3>2
    <3>3. QED
      BY <3>1, <3>2
  <2>3. \A i, j \in 1..Len(longer) : i < j => next[i] <= next[j]
    <3> SUFFICES ASSUME NEW i \in 1..Len(longer), NEW j \in 1..Len(longer), i < j
                 PROVE  next[i] <= next[j]
      OBVIOUS
    <3>1. CASE j \in 1..Len(s)
      <4>1. i \in 1..Len(s)
        BY <3>1
      <4>2. QED
        BY <2>0, <2>1, <3>1, <4>1
    <3>2. CASE j \notin 1..Len(s)
      <4>1. next[j] = m
        BY <2>1, <3>2
      <4>2. next[i] \in 1..m
        BY <2>a, Zenon
      <4>3. \A a : a \in 1..m => a <= m
        BY <1>0 DEF m
      <4>4. QED
        BY <4>1, <4>2, <4>3, Zenon
    <3>3. QED
      BY <3>1, <3>2
  <2>4. \A p \in 1..m : p \in Kept(f) => \E i \in 1..Len(longer) : next[i] = p
    <3> SUFFICES ASSUME NEW p \in 1..m, p \in Kept(f)
                 PROVE  \E i \in 1..Len(longer) : next[i] = p
      OBVIOUS
    <3>1. CASE p = m
      <4>1. Len(part) \in {1, 2}
        BY <1>3, <3>1
      <4>2. Len(longer) \in 1..Len(longer) /\ Len(longer) \notin 1..Len(s)
        <5>1. Len(longer) = Len(s) + Len(part) /\ Len(s) \in Nat
          BY <1>0, <1>4
        <5>2. \A a, b, c \in Nat : b \in {1, 2} /\ c = a + b => c \in 1..c /\ c \notin 1..a
          OBVIOUS
        <5>3. Len(longer) \in Nat /\ Len(part) \in Nat
          BY <4>1, <5>1
        <5>4. QED
          BY <4>1, <5>1, <5>2, <5>3
      <4>3. QED
        BY <2>1, <3>1, <4>2
    <3>2. CASE p # m
      <4>1. p \in 1..n
        BY <1>0, <3>2 DEF m
      <4>2. PICK i \in 1..Len(s) : place[i] = p
        BY <2>0, <4>1
      <4>3. i \in 1..Len(longer)
        BY <1>0, <1>1, <1>3, <1>4
      <4>4. QED
        BY <2>1, <4>2, <4>3
    <3>3. QED
      BY <3>1, <3>2
  <2>5. Copied(f, longer, m, next)
    <3>0. /\ \A i \in 1..Len(s) : s[i].copy \in {0, 1} /\ (s[i].copy = 1 => place[i] \in Twice(f))
          /\ \A i, j \in 1..Len(s) : i < j /\ place[i] = place[j] => s[i].copy < s[j].copy
          /\ \A p \in 1..n : p \in Kept(f) => \E i \in 1..Len(s) : place[i] = p /\ s[i].copy = 0
          /\ \A p \in 1..n : p \in Twice(f) => \E i \in 1..Len(s) : place[i] = p /\ s[i].copy = 1
      BY <2>0 DEF Copied
    <3>a. Len(part) \in {0, 1, 2} /\ (Len(part) = 2 => m \in Twice(f)) /\ (m \in Twice(f) => m \in Kept(f))
      BY <1>1, <1>2
    <3>b. Len(longer) = Len(s) + Len(part) /\ Len(s) \in Nat /\ Len(part) \in Nat
      BY <1>0, <1>4, <3>a
    <3>c. \A i \in 1..Len(s) : i \in 1..Len(longer)
      BY <3>b
    <3>d. m \notin 1..n
      BY <1>0 DEF m
    <3>e. \A i \in 1..Len(longer) : i \notin 1..Len(s) =>
            longer[i].copy = (i - Len(s)) - 1 /\ i - Len(s) \in 1..Len(part)
      BY <1>5
    <3>1. ASSUME NEW i \in 1..Len(longer)
          PROVE  longer[i].copy \in {0, 1} /\ (longer[i].copy = 1 => next[i] \in Twice(f))
      <4>1. CASE i \in 1..Len(s)
        BY <2>1, <3>0, <4>1
      <4>2. CASE i \notin 1..Len(s)
        <5>1. longer[i].copy = (i - Len(s)) - 1 /\ i - Len(s) \in 1..Len(part) /\ next[i] = m
          BY <2>1, <3>e, <4>2
        <5>a. \A k, l \in Int : k \in 1..l /\ l \in {0, 1, 2} => k - 1 \in {0, 1} /\ (k - 1 = 1 => l = 2)
          OBVIOUS
        <5>b. i - Len(s) \in Int /\ Len(part) \in Int
          BY <3>b
        <5>2. longer[i].copy \in {0, 1} /\ (longer[i].copy = 1 => Len(part) = 2)
          BY <3>a, <5>a, <5>b, <5>1
        <5>3. QED
          BY <3>a, <5>1, <5>2
      <4>3. QED
        BY <4>1, <4>2
    <3>2. ASSUME NEW i \in 1..Len(longer), NEW j \in 1..Len(longer), i < j, next[i] = next[j]
          PROVE  longer[i].copy < longer[j].copy
      <4>1. CASE j \in 1..Len(s)
        <5>1. i \in 1..Len(s)
          BY <3>2, <3>b, <4>1
        <5>2. QED
          BY <2>1, <3>0, <3>2, <4>1, <5>1
      <4>2. CASE j \notin 1..Len(s)
        <5>1. next[j] = m
          BY <2>1, <4>2
        <5>2. i \notin 1..Len(s)
          BY <2>1, <3>2, <3>d, <5>1
        <5>3. longer[i].copy = (i - Len(s)) - 1 /\ longer[j].copy = (j - Len(s)) - 1
          BY <3>e, <4>2, <5>2
        <5>4. QED
          BY <3>2, <3>b, <5>3
      <4>3. QED
        BY <4>1, <4>2
    <3>3. ASSUME NEW p \in 1..m, NEW c \in {0, 1}, c = 0 => p \in Kept(f), c = 1 => p \in Twice(f)
          PROVE  \E i \in 1..Len(longer) : next[i] = p /\ longer[i].copy = c
      <4>1. CASE p = m
        <5>1. Len(part) >= c + 1
          BY <1>3, <3>3, <3>a, <4>1
        <5>2. /\ (Len(s) + 1) + c \in 1..Len(longer) /\ (Len(s) + 1) + c \notin 1..Len(s)
              /\ (((Len(s) + 1) + c) - Len(s)) - 1 = c
          BY <3>b, <5>1
        <5>3. longer[(Len(s) + 1) + c].copy = c /\ next[(Len(s) + 1) + c] = m
          BY <2>1, <3>e, <5>2
        <5>4. QED
          BY <4>1, <5>2, <5>3
      <4>2. CASE p # m
        <5>1. p \in 1..n
          BY <1>0, <4>2 DEF m
        <5>2. PICK i \in 1..Len(s) : place[i] = p /\ s[i].copy = c
          BY <3>0, <3>3, <5>1
        <5>3. QED
          BY <2>1, <3>c, <5>2
      <4>3. QED
        BY <4>1, <4>2
    <3>4. /\ \A p \in 1..m : p \in Kept(f) => \E i \in 1..Len(longer) : next[i] = p /\ longer[i].copy = 0
          /\ \A p \in 1..m : p \in Twice(f) => \E i \in 1..Len(longer) : next[i] = p /\ longer[i].copy = 1
      BY <3>3
    <3>5. QED
      BY <3>1, <3>2, <3>4 DEF Copied
  <2>6. QED
    BY <2>a, <2>2, <2>3, <2>4, <2>5 DEF Places
<1>7. Counts(f, longer, m)
  <2>1. /\ Len(s) = Count(Kept(f), n) + Count(Twice(f), n)
        /\ Count(PoisonedOf(s), Len(s)) = Count(Kept(f) \cap Sick(f), n) + Count(Twice(f) \cap Sick(f), n)
    BY DEF Counts
  <2>2. \A P : Count(P, n) \in Nat /\ Count(P, m) = Count(P, n) + (IF m \in P THEN 1 ELSE 0)
    BY <1>0, CountNext
  <2>3. Len(longer) = Count(Kept(f), m) + Count(Twice(f), m)
    <3>1. /\ Count(Kept(f), n) \in Nat /\ Count(Twice(f), n) \in Nat
          /\ Count(Kept(f), m) = Count(Kept(f), n) + (IF m \in Kept(f) THEN 1 ELSE 0)
          /\ Count(Twice(f), m) = Count(Twice(f), n) + (IF m \in Twice(f) THEN 1 ELSE 0)
      BY <2>2
    <3>2. QED
      BY <1>3, <1>4, <2>1, <3>1
  <2>4. Count(PoisonedOf(longer), Len(longer))
          = Count(PoisonedOf(s), Len(s)) + (IF m \in Sick(f) THEN Len(part) ELSE 0)
    <3> DEFINE Q == PoisonedOf(longer)
    <3>a. \A i \in 1..Len(s) : i \in 1..Len(longer) /\ longer[i] = s[i]
      <4>1. Len(part) \in Nat /\ Len(s) \in Nat
        BY <1>0, <1>1
      <4>2. QED
        BY <1>4, <4>1
    <3>b. Q = {i \in 1..Len(longer) : longer[i].poisoned}
      BY DEF PoisonedOf
    <3>c. PoisonedOf(s) = {i \in 1..Len(s) : s[i].poisoned}
      BY DEF PoisonedOf
    <3>1. Q \cap (1..Len(s)) = PoisonedOf(s) \cap (1..Len(s))
      <4> HIDE DEF longer, Q
      <4>1. QED
        BY <3>a, <3>b, <3>c
    <3>2. Count(Q, Len(s)) = Count(PoisonedOf(s), Len(s))
      BY <3>1 DEF Count
    <3>3. \A i \in 1..Len(longer) : i \notin 1..Len(s) => (i \in Q <=> m \in Sick(f))
      BY <1>2, <1>5 DEF PoisonedOf
    <3> HIDE DEF Q, m
    <3>4. \A k \in Nat : Count(Q, k) \in Nat /\ Count(Q, k + 1) = Count(Q, k) + (IF k + 1 \in Q THEN 1 ELSE 0)
      BY CountNext
    <3>5. Count(Q, Len(longer)) = Count(Q, Len(s)) + (IF m \in Sick(f) THEN Len(part) ELSE 0)
      <4>1. CASE Len(part) = 0
        BY <1>0, <1>4, <3>4, <4>1
      <4>2. CASE Len(part) = 1
        <5>1. Len(longer) = Len(s) + 1 /\ Len(s) + 1 \in 1..Len(longer) /\ Len(s) + 1 \notin 1..Len(s)
          BY <1>0, <1>4, <4>2
        <5>2. Len(s) + 1 \in Q <=> m \in Sick(f)
          BY <3>3, <5>1
        <5>3. Count(Q, Len(s) + 1) = Count(Q, Len(s)) + (IF Len(s) + 1 \in Q THEN 1 ELSE 0)
          BY <1>0, <3>4
        <5>4. Count(Q, Len(s)) \in Nat
          BY <1>0, <3>4
        <5>5. QED
          BY <4>2, <5>1, <5>2, <5>3, <5>4
      <4>3. CASE Len(part) = 2
        <5>1. /\ Len(longer) = Len(s) + 1 + 1
              /\ Len(s) + 1 \in 1..Len(longer) /\ Len(s) + 1 \notin 1..Len(s)
              /\ Len(s) + 1 + 1 \in 1..Len(longer) /\ Len(s) + 1 + 1 \notin 1..Len(s)
          BY <1>0, <1>4, <4>3
        <5>2. (Len(s) + 1 \in Q <=> m \in Sick(f)) /\ (Len(s) + 1 + 1 \in Q <=> m \in Sick(f))
          BY <3>3, <5>1
        <5>3. /\ Count(Q, Len(s)) \in Nat
              /\ Count(Q, Len(s) + 1) = Count(Q, Len(s)) + (IF Len(s) + 1 \in Q THEN 1 ELSE 0)
          BY <1>0, <3>4
        <5>4. Count(Q, Len(s) + 1 + 1) = Count(Q, Len(s) + 1) + (IF Len(s) + 1 + 1 \in Q THEN 1 ELSE 0)
          <6>1. Len(s) + 1 \in Nat
            BY <1>0
          <6>2. QED
            BY <3>4, <6>1
        <5>5. QED
          BY <4>3, <5>1, <5>2, <5>3, <5>4
      <4>4. QED
        BY <1>3, <4>1, <4>2, <4>3
    <3>6. QED
      BY <3>2, <3>5 DEF Q
  <2>5. /\ Count(Kept(f) \cap Sick(f), n) \in Nat /\ Count(Twice(f) \cap Sick(f), n) \in Nat
        /\ Count(Kept(f) \cap Sick(f), m)
             = Count(Kept(f) \cap Sick(f), n) + (IF m \in Kept(f) \cap Sick(f) THEN 1 ELSE 0)
        /\ Count(Twice(f) \cap Sick(f), m)
             = Count(Twice(f) \cap Sick(f), n) + (IF m \in Twice(f) \cap Sick(f) THEN 1 ELSE 0)
    BY <2>2
  <2>6. Count(PoisonedOf(longer), Len(longer)) = Count(Kept(f) \cap Sick(f), m) + Count(Twice(f) \cap Sick(f), m)
    BY <1>3, <2>1, <2>4, <2>5
  <2>7. QED
    BY <2>3, <2>6 DEF Counts
<1>8. QED
  BY <1>6, <1>7 DEF longer, part

(* Where the entries of a plan come from, and how many there are. *)
LEMMA PlanPlaces ==
  ASSUME NEW f \in FaultSets, NEW N \in Nat, NEW S, NEW records \in [1..N -> S], Len(records) = N
  PROVE  /\ Plan(f, records) \in Seq(Planned(S, N))
         /\ \E place : Places(f, records, Plan(f, records), N, place)
         /\ Counts(f, Plan(f, records), N)
<1>a. PICK upTo : Unrolled(f, records, S, N, upTo)
  BY PlanLoop
<1>1. /\ upTo \in [0..N -> Seq(Planned(S, N))]
      /\ upTo[0] = << >>
      /\ \A n \in 0..(N - 1) : Follows(upTo, f, records, n)
      /\ Plan(f, records) = upTo[N]
  BY <1>a, Zenon DEF Unrolled
<1> DEFINE Good(s, n) == (\E place : Places(f, records, s, n, place)) /\ Counts(f, s, n)
           P == {n \in Nat : n <= N => Good(upTo[n], n)}
<1>2. Good(<< >>, 0)
  <2>1. Places(f, records, << >>, 0, [i \in 1..0 |-> 1])
    <3>1. Len(<< >>) = 0 /\ 1..0 = {}
      OBVIOUS
    <3>2. Copied(f, << >>, 0, [i \in 1..0 |-> 1])
      BY <3>1 DEF Copied
    <3>3. QED
      BY <3>1, <3>2 DEF Places
  <2>2. \A Q : Count(Q, 0) = 0
    BY CountNext
  <2>3. Counts(f, << >>, 0)
    <3>1. Len(<< >>) = 0
      OBVIOUS
    <3>2. QED
      BY <2>2, <3>1 DEF Counts
  <2>4. QED
    BY <2>1, <2>3
<1> HIDE DEF Good
<1>3. 0 \in P
  <2>1. 0 \in Nat /\ Good(upTo[0], 0)
    BY <1>1, <1>2, Zenon
  <2>2. QED
    BY <2>1, Zenon
<1>4. ASSUME NEW n \in P
      PROVE  n + 1 \in P
  <2> SUFFICES ASSUME n + 1 <= N
               PROVE  Good(upTo[n + 1], n + 1)
    OBVIOUS
  <2>1. n \in Nat /\ n \in 0..(N - 1) /\ n \in 0..N /\ Good(upTo[n], n)
    OBVIOUS
  <2> HIDE DEF P
  <2>2. Follows(upTo, f, records, n) /\ upTo[n] \in Seq(Planned(S, N))
    BY <1>1, <2>1
  <2>3. PICK place : Places(f, records, upTo[n], n, place) /\ Counts(f, upTo[n], n)
    BY <2>1 DEF Good
  <2>4. Good(upTo[n] \o Entries(f, records, n + 1), n + 1)
    BY <2>1, <2>2, <2>3, PlacesNext DEF Good
  <2>5. QED
    BY <2>2, <2>4, Zenon DEF Follows
<1>5. P \in SUBSET Nat
  OBVIOUS
<1> HIDE DEF P
<1>6. N \in P
  BY <1>3, <1>4, <1>5, SetInduction
<1>7. Good(upTo[N], N)
  BY <1>6 DEF P
<1>8. QED
  BY <1>1, <1>7 DEF Good

(* A bijection keeps the number of elements. *)
LEMMA SameCardinality ==
  ASSUME NEW S, IsFiniteSet(S), NEW T, NEW g \in [S -> T],
         \A t \in T : \E x \in S : g[x] = t,
         \A x, y \in S : g[x] = g[y] => x = y
  PROVE  IsFiniteSet(T) /\ Cardinality(T) = Cardinality(S)
<1>1. g \in Surjection(S, T) /\ g \in Injection(S, T)
  BY DEF Surjection, Injection, IsInjective
<1>2. QED
  BY <1>1, FS_Surjection

(* What Load returns: every record of the log once, by time and number. *)
Sorted(records, file) ==
  /\ records \in [1..Len(file) -> {file[i] : i \in 1..Len(file)}] /\ Len(records) = Len(file)
  /\ \A i, j \in 1..Len(file) : i < j => Earlier(records[i], records[j])

LEMMA LogSorted ==
  ASSUME CaptureInv
  PROVE  Sorted(Records, log)
<1> DEFINE S == {log[i] : i \in DOMAIN log}
           n == Len(log)
           R == {pair \in S \X S : Earlier(pair[1], pair[2])}
<1>1. n \in Nat /\ DOMAIN log = 1..n /\ \A i \in 1..n : log[i] \in Record
  BY DEF CaptureInv, CaptureTypes
<1>2. \A i \in 1..n : log[i].seq \in Nat /\ log[i].time \in Nat
  BY <1>1 DEF Record
<1>3. \A i, j \in 1..n : i < j => log[i].seq < log[j].seq
  BY <1>1 DEF CaptureInv, CaptureHasNoGaps
<1>4. \A i, j \in 1..n : i # j => log[i].seq # log[j].seq
  BY <1>2, <1>3
<1>5. IsFiniteSet(S) /\ Cardinality(S) = n
  <2> DEFINE g == [i \in 1..n |-> log[i]]
  <2>1. g \in [1..n -> S]
    BY <1>1
  <2>2. \A t \in S : \E i \in 1..n : g[i] = t
    BY <1>1
  <2>3. \A i, j \in 1..n : g[i] = g[j] => i = j
    BY <1>4
  <2>4. IsFiniteSet(1..n) /\ Cardinality(1..n) = n
    BY <1>1, FS_Interval
  <2> HIDE DEF g, S, n
  <2>5. QED
    BY <2>1, <2>2, <2>3, <2>4, SameCardinality
<1>6. \A x, y \in S : x # y => <<x, y>> \in R \/ <<y, x>> \in R
  BY <1>1, <1>2, <1>4 DEF Earlier
<1>7. \A x, y, z \in S : <<x, y>> \in R /\ <<y, z>> \in R => <<x, z>> \in R
  <2>1. \A x \in S : x.seq \in Nat /\ x.time \in Nat
    BY <1>1, <1>2
  <2>2. \A x, y \in S : <<x, y>> \in R <=> Earlier(x, y)
    OBVIOUS
  <2> HIDE DEF S, R
  <2>3. \A x, y, z \in S : Earlier(x, y) /\ Earlier(y, z) => Earlier(x, z)
    BY <2>1 DEF Earlier
  <2>4. QED
    BY <2>2, <2>3
<1>8. PICK s \in SetToSeqs(S) : \A i, j \in DOMAIN s : i < j => <<s[i], s[j]>> \in R
  <2> HIDE DEF S, R
  <2>1. QED
    BY <1>5, <1>6, <1>7, SortedExists
<1> DEFINE Good(records) == \A i, j \in DOMAIN records : i < j => Earlier(records[i], records[j])
<1>9. Good(s)
  BY <1>8
<1>10. Records \in SetToSeqs(S) /\ Good(Records)
  <2> HIDE DEF S, Good
  <2>1. \E records \in SetToSeqs(S) : Good(records)
    BY <1>9
  <2>2. Records = CHOOSE records \in SetToSeqs(S) : Good(records)
    BY DEF Records, S, Good
  <2>3. QED
    BY <2>1, <2>2
<1>11. Records \in [1..n -> S]
  <2> HIDE DEF S, Good
  <2>1. QED
    BY <1>5, <1>10 DEF SetToSeqs
<1>12. Len(Records) = n
  <2> HIDE DEF S
  <2>1. QED
    BY <1>1, <1>11
<1>13. QED
  BY <1>1, <1>10, <1>11, <1>12 DEF Sorted

(* Windows follow each other. *)
LEMMA DivMonotone ==
  ASSUME NEW a \in Nat, NEW b \in Nat, NEW w \in Nat, w > 0, a <= b
  PROVE  a \div w <= b \div w
<1> DEFINE q == a \div w
           r == b \div w
<1>1. q \in Nat /\ q * w <= a
  BY DivBounds
<1>2. r \in Nat /\ b < r * w + w
  BY DivBounds
<1> HIDE DEF q, r
<1>3. ASSUME r < q
      PROVE  FALSE
  <2>1. \A m, k \in Nat : m < k => m * w + w <= k * w
    OBVIOUS
  <2>2. r * w + w <= q * w
    BY <1>1, <1>2, <1>3, <2>1
  <2>3. QED
    BY <1>1, <1>2, <2>2
<1>4. QED
  BY <1>1, <1>2, <1>3 DEF q, r

(* How many places are kept. *)
LEMMA KeptCount ==
  ASSUME NEW f \in FaultSets, NEW N \in Nat
  PROVE  Count(Kept(f), N) = N - (IF f.drop = 0 THEN 0 ELSE N \div f.drop)
<1> DEFINE Right(n) == Count(Kept(f), n) = n - (IF f.drop = 0 THEN 0 ELSE n \div f.drop)
           P == {n \in Nat : Right(n)}
<1>0. f.drop \in Nat
  BY KafkaAssumption
<1>1. 0 \in P
  <2>1. f.drop # 0 => 0 \div f.drop = 0
    BY <1>0
  <2>2. Count(Kept(f), 0) = 0
    BY CountNext
  <2>3. QED
    BY <2>1, <2>2
<1>2. ASSUME NEW n \in P
      PROVE  n + 1 \in P
  <2>1. n \in Nat /\ Count(Kept(f), n) = n - (IF f.drop = 0 THEN 0 ELSE n \div f.drop)
    OBVIOUS
  <2> HIDE DEF P
  <2>2. Count(Kept(f), n + 1) = Count(Kept(f), n) + (IF n + 1 \in Kept(f) THEN 1 ELSE 0)
    BY <2>1, CountNext
  <2>3. n + 1 \in Kept(f) <=> ~(f.drop > 0 /\ (n + 1) % f.drop = 0)
    BY <2>1 DEF Kept, Every
  <2>4. Count(Kept(f), n + 1) = (n + 1) - (IF f.drop = 0 THEN 0 ELSE (n + 1) \div f.drop)
    <3>1. CASE f.drop = 0
      BY <1>0, <2>1, <2>2, <2>3, <3>1
    <3>2. CASE f.drop # 0
      <4>1. (n + 1) \div f.drop = (n \div f.drop) + (IF (n + 1) % f.drop = 0 THEN 1 ELSE 0)
        <5>1. f.drop \in Nat /\ f.drop > 0
          BY <1>0, <3>2
        <5>2. QED
          BY <2>1, <5>1, DivStep
      <4>2. (n \div f.drop) \in Nat
        BY <1>0, <2>1, <3>2, DivBounds
      <4>3. QED
        BY <1>0, <2>1, <2>2, <2>3, <3>2, <4>1, <4>2
    <3>3. QED
      BY <3>1, <3>2
  <2>5. n + 1 \in Nat /\ Right(n + 1)
    BY <2>1, <2>4
  <2> HIDE DEF Right
  <2>6. QED
    BY <2>5 DEF P
<1>3. P \in SUBSET Nat
  OBVIOUS
<1> HIDE DEF P
<1>4. N \in P
  BY <1>1, <1>2, <1>3, SetInduction
<1>5. QED
  BY <1>4 DEF P

-----------------------------------------------------------------------------
(* Records and their topic.                                                 *)

\* A record has the timestamp that its topic has at its offset.
FromSource(r, topic) == r.offset < Len(topic[r.partition]) /\ r.time = topic[r.partition][r.offset + 1]

\* A session writes a partition in the order of its offsets.
OrderInv ==
  /\ \A i \in 1..Len(log) : FromSource(log[i], source)
  /\ \A k \in 1..Len(fetched) : FromSource(fetched[k], source)
  /\ \A i, j \in 1..Len(log) :
       i < j /\ log[i].session = log[j].session /\ log[i].partition = log[j].partition
         => log[i].offset < log[j].offset
  /\ mode = "capture" =>
       \A i \in 1..Len(log) : log[i].session = session
         => log[i].offset < NextOffset(fetched, position, log[i].partition)

LEMMA OrderPublish ==
  ASSUME CaptureInv, OrderInv, NEW p \in Partitions, NEW time \in 1..MaxTime, Publish(p, time)
  PROVE  OrderInv'
<1>1. /\ log' = log /\ mode' = mode /\ fetched' = fetched /\ position' = position /\ session' = session
      /\ source' = [source EXCEPT ![p] = Append(source[p], time)]
  BY DEF Publish, capture
<1>2. /\ source \in [Partitions -> Seq(Nat)] /\ \A i \in 1..Len(log) : log[i] \in Record
      /\ \A k \in 1..Len(fetched) : fetched[k] \in Polled
  BY DEF CaptureInv, CaptureTypes
<1>3. ASSUME NEW r, r.partition \in Partitions, r.offset \in Nat, FromSource(r, source)
      PROVE  FromSource(r, source')
  <2>1. source[p] \in Seq(Nat) /\ time \in Nat
    BY <1>2, KafkaAssumption
  <2>2. CASE r.partition = p
    <3>1. /\ source'[p] = Append(source[p], time) /\ Len(source'[p]) = Len(source[p]) + 1
          /\ Len(source[p]) \in Nat /\ \A o \in 1..Len(source[p]) : source'[p][o] = source[p][o]
      BY <1>1, <1>2, <2>1
    <3>2. r.offset + 1 \in 1..Len(source[p])
      BY <1>3, <2>2, <3>1 DEF FromSource
    <3>3. QED
      BY <1>3, <2>2, <3>1, <3>2 DEF FromSource
  <2>3. CASE r.partition # p
    BY <1>1, <1>2, <1>3, <2>3 DEF FromSource
  <2>4. QED
    BY <2>2, <2>3
<1>4. \A i \in 1..Len(log') : FromSource(log'[i], source')
  BY <1>1, <1>2, <1>3 DEF OrderInv, Record
<1>5. \A k \in 1..Len(fetched') : FromSource(fetched'[k], source')
  BY <1>1, <1>2, <1>3 DEF OrderInv, Polled
<1>6. QED
  BY <1>1, <1>4, <1>5 DEF OrderInv

LEMMA OrderPoll ==
  ASSUME CaptureInv, OrderInv, NEW p \in Partitions, Poll(p)
  PROVE  OrderInv'
<1>1. /\ log' = log /\ source' = source /\ session' = session
      /\ mode = "capture" /\ mode' = mode /\ fetched = << >>
  BY DEF Poll
<1>2. /\ position[p] \in Nat /\ Len(source[p]) \in Nat /\ position \in [Partitions -> Nat]
      /\ \A i \in 1..Len(log) : log[i].partition \in Partitions
  <2>1. \A i \in 1..Len(log) : log[i] \in Record
    BY DEF CaptureInv, CaptureTypes
  <2>2. source[p] \in Seq(Nat)
    BY DEF CaptureInv, CaptureTypes
  <2>3. position \in [Partitions -> Nat]
    BY DEF CaptureInv, CaptureTypes
  <2>4. \A i \in 1..Len(log) : log[i].partition \in Partitions
    BY <2>1 DEF Record
  <2>5. QED
    BY <2>2, <2>3, <2>4
<1>3. PICK n \in (position[p] + 1)..Len(source[p]) :
        /\ fetched' = [i \in 1..(n - position[p]) |->
                         [time |-> source[p][position[p] + i], partition |-> p,
                          offset |-> position[p] + i - 1, session |-> session]]
        /\ position' = [position EXCEPT ![p] = n]
  BY DEF Poll
<1> DEFINE size == n - position[p]
<1>4. size \in Nat /\ size >= 1 /\ 1 \in 1..size
  BY <1>2
<1>5. Len(fetched') = size /\ DOMAIN fetched' = 1..size
  BY <1>3, <1>4
<1>6. \A k \in 1..size : FromSource(fetched'[k], source')
  <2> SUFFICES ASSUME NEW k \in 1..size
               PROVE  FromSource(fetched'[k], source')
    OBVIOUS
  <2>1. /\ fetched'[k].partition = p /\ fetched'[k].offset = position[p] + k - 1
        /\ fetched'[k].time = source[p][position[p] + k]
    BY <1>3
  <2>2. (position[p] + k - 1) + 1 = position[p] + k /\ position[p] + k - 1 < Len(source[p])
    BY <1>2, <1>4
  <2>3. QED
    BY <1>1, <2>1, <2>2 DEF FromSource
<1>7. \A q \in Partitions : NextOffset(fetched', position', q) = NextOffset(fetched, position, q)
  <2>1. fetched' # << >> /\ fetched'[1].partition = p /\ fetched'[1].offset = position[p] + 1 - 1
    BY <1>3, <1>4, <1>5
  <2>2. position[p] + 1 - 1 = position[p]
    BY <1>2
  <2>3. \A q \in Partitions : q # p => position'[q] = position[q]
    BY <1>2, <1>3
  <2>4. QED
    BY <1>1, <2>1, <2>2, <2>3 DEF NextOffset
<1>8. QED
  BY <1>1, <1>2, <1>5, <1>6, <1>7 DEF OrderInv

LEMMA OrderWrite ==
  ASSUME CaptureInv, OrderInv, Write
  PROVE  OrderInv'
<1> DEFINE r   == Head(fetched)
           new == Stamped(r)
<1>1. /\ mode = "capture" /\ fetched # << >> /\ log' = Append(log, new)
      /\ source' = source /\ session' = session
  BY DEF Write
<1>2. /\ fetched \in Seq(Polled) /\ Len(fetched) >= 1 /\ Len(fetched) \in Nat
      /\ r = fetched[1] /\ r \in Polled /\ 1 \in 1..Len(fetched)
  BY <1>1 DEF CaptureInv, CaptureTypes
<1>3. /\ new.session = session /\ new.time = r.time
      /\ new.partition = r.partition /\ new.offset = r.offset
      /\ r.partition \in Partitions /\ r.offset \in Nat
  <2>1. r.session = session
    BY <1>2 DEF CaptureInv, FetchedInv
  <2>2. QED
    BY <1>2, <2>1 DEF Stamped, Polled
<1>4. NextOffset(fetched, position, r.partition) = r.offset
  BY <1>1, <1>2 DEF NextOffset
<1>5. FromSource(new, source)
  BY <1>2, <1>3 DEF OrderInv, FromSource
<1> HIDE DEF new, r
<1>6. /\ Len(log') = Len(log) + 1 /\ Len(log) \in Nat /\ log'[Len(log')] = new
      /\ \A i \in 1..Len(log) : log'[i] = log[i] /\ log[i] \in Record
  BY <1>1 DEF CaptureInv, CaptureTypes
<1>7. \A i \in 1..Len(log) : log[i].session = session
        => log[i].offset < NextOffset(fetched, position, log[i].partition)
  BY <1>1 DEF OrderInv
<1>8. \A i \in 1..Len(log') : FromSource(log'[i], source')
  <2> SUFFICES ASSUME NEW i \in 1..Len(log')
               PROVE  FromSource(log'[i], source')
    OBVIOUS
  <2>1. CASE i \in 1..Len(log)
    BY <1>1, <1>6, <2>1 DEF OrderInv
  <2>2. CASE i \notin 1..Len(log)
    <3>1. i = Len(log')
      BY <1>6, <2>2
    <3>2. QED
      BY <1>1, <1>5, <1>6, <3>1
  <2>3. QED
    BY <2>1, <2>2
<1>9. ASSUME NEW i \in 1..Len(log'), NEW j \in 1..Len(log'),
             i < j, log'[i].session = log'[j].session, log'[i].partition = log'[j].partition
      PROVE  log'[i].offset < log'[j].offset
  <2>1. i \in 1..Len(log) /\ log'[i] = log[i]
    BY <1>6, <1>9
  <2>2. CASE j \in 1..Len(log)
    BY <1>6, <1>9, <2>1, <2>2 DEF OrderInv
  <2>3. CASE j \notin 1..Len(log)
    <3>1. log'[j] = new
      BY <1>6, <2>3
    <3>2. QED
      BY <1>3, <1>4, <1>7, <1>9, <2>1, <3>1
  <2>4. QED
    BY <2>2, <2>3
<1>10. /\ \A k \in 1..Len(fetched') : FromSource(fetched'[k], source')
       /\ (mode' = "capture" => \A i \in 1..Len(log') : log'[i].session = session'
             => log'[i].offset < NextOffset(fetched', position', log'[i].partition))
  <2>1. CASE mode' # "capture"
    <3>1. fetched' = << >>
      BY <1>1, <2>1 DEF Write, Exit
    <3>2. QED
      BY <2>1, <3>1
  <2>2. CASE mode' = "capture"
    <3>1. fetched' = Tail(fetched) /\ position' = position
      BY <1>1, <2>2 DEF Write, Exit
    <3>2. /\ Len(fetched') = Len(fetched) - 1 /\ Len(fetched') \in Nat
          /\ \A k \in 1..Len(fetched') : fetched'[k] = fetched[k + 1] /\ k + 1 \in 1..Len(fetched)
      BY <1>2, <3>1
    <3>3. \A k \in 1..Len(fetched') : FromSource(fetched'[k], source')
      BY <1>1, <3>2 DEF OrderInv
    <3>4. /\ NextOffset(fetched', position', r.partition) = r.offset + 1
          /\ \A q \in Partitions : q # r.partition =>
               NextOffset(fetched', position', q) = NextOffset(fetched, position, q)
      <4>1. /\ \A k \in 1..Len(fetched) : /\ fetched[k].partition = r.partition
                                          /\ fetched[k].offset = r.offset + k - 1
            /\ position[r.partition] = r.offset + Len(fetched)
        BY <1>1, <1>2 DEF CaptureInv, FetchedInv
      <4>2. CASE fetched' = << >>
        <5>1. Len(fetched) = 1
          BY <1>2, <3>2, <4>2
        <5>2. QED
          BY <1>2, <3>1, <4>1, <4>2, <5>1 DEF NextOffset
      <4>3. CASE fetched' # << >>
        <5>1. Len(fetched') # 0
          BY <1>2, <3>1, <4>3
        <5>2. 2 \in 1..Len(fetched) /\ 1 \in 1..Len(fetched')
          BY <1>2, <3>2, <5>1
        <5>3. fetched'[1] = fetched[2]
          BY <3>2, <5>2
        <5>4. fetched'[1].partition = r.partition /\ fetched'[1].offset = r.offset + 1
          <6>1. r.offset + 2 - 1 = r.offset + 1
            BY <1>3
          <6>2. QED
            BY <4>1, <5>2, <5>3, <6>1
        <5>5. QED
          BY <1>2, <3>1, <4>3, <5>4 DEF NextOffset
      <4>4. QED
        BY <4>2, <4>3
    <3>5. ASSUME NEW i \in 1..Len(log'), log'[i].session = session'
          PROVE  log'[i].offset < NextOffset(fetched', position', log'[i].partition)
      <4>1. CASE i \in 1..Len(log)
        <5>1. /\ log'[i] = log[i] /\ log[i].partition \in Partitions /\ log[i].offset \in Nat
              /\ log[i].offset < NextOffset(fetched, position, log[i].partition)
          BY <1>1, <1>6, <1>7, <3>5, <4>1 DEF Record
        <5>2. CASE log[i].partition = r.partition
          BY <1>3, <1>4, <3>4, <5>1, <5>2
        <5>3. CASE log[i].partition # r.partition
          BY <3>4, <5>1, <5>3
        <5>4. QED
          BY <5>2, <5>3
      <4>2. CASE i \notin 1..Len(log)
        <5>1. log'[i] = new
          BY <1>6, <4>2
        <5>2. QED
          BY <1>3, <3>4, <5>1
      <4>3. QED
        BY <4>1, <4>2
    <3>6. QED
      BY <3>3, <3>5
  <2>3. QED
    BY <2>1, <2>2
<1>11. QED
  <2>1. \A i, j \in 1..Len(log') :
          i < j /\ log'[i].session = log'[j].session /\ log'[i].partition = log'[j].partition
            => log'[i].offset < log'[j].offset
    BY <1>9, Zenon
  <2>2. QED
    BY <1>8, <1>10, <2>1, Zenon DEF OrderInv

LEMMA OrderStep == CaptureInv /\ OrderInv /\ [Next]_vars => OrderInv'
<1> SUFFICES ASSUME CaptureInv, OrderInv, [Next]_vars
             PROVE  OrderInv'
  OBVIOUS
<1>1. ASSUME NEW p \in Partitions, NEW time \in 1..MaxTime, Publish(p, time)
      PROVE  OrderInv'
  BY <1>1, OrderPublish
<1>2. ASSUME NEW b \in BOOLEAN, Open(b)
      PROVE  OrderInv'
  <2>1. /\ log' = log /\ source' = source /\ session' = session + 1 /\ fetched' = << >>
    BY <1>2 DEF Open
  <2>2. \A i \in 1..Len(log) : log[i].session # session'
    <3>1. \A i \in 1..Len(log) : log[i] \in Record /\ log[i].session <= session
      BY DEF CaptureInv, CaptureTypes, SessionInv
    <3>2. \A i \in 1..Len(log) : log[i].session \in Nat
      BY <3>1 DEF Record
    <3>3. session \in Nat
      BY DEF CaptureInv, CaptureTypes
    <3>4. QED
      BY <2>1, <3>1, <3>2, <3>3
  <2>3. Len(fetched') = 0
    BY <2>1
  <2>4. QED
    BY <2>1, <2>2, <2>3 DEF OrderInv
<1>3. ASSUME NEW p \in Partitions, Poll(p)
      PROVE  OrderInv'
  BY <1>3, OrderPoll
<1>4. CASE Write
  BY <1>4, OrderWrite
<1>5. CASE EndCapture
  <2>1. log' = log /\ source' = source /\ mode' = "idle" /\ fetched' = << >>
    BY <1>5 DEF EndCapture, Exit
  <2>2. Len(fetched') = 0
    BY <2>1
  <2>3. QED
    BY <2>1, <2>2 DEF OrderInv
<1>6. CASE \/ \E f \in FaultSets : StartReplay(f)
           \/ Send \/ Receive \/ Acknowledge \/ ProduceFails \/ Expire \/ Finish \/ UNCHANGED vars
  <2>1. /\ log' = log /\ source' = source /\ UNCHANGED capture
        /\ mode' = mode \/ mode' # "capture"
    BY <1>6 DEF StartReplay, Send, Receive, Acknowledge, ProduceFails, Expire, Finish, vars
  <2>2. QED
    BY <2>1 DEF OrderInv, capture
<1>7. QED
  BY <1>1, <1>2, <1>3, <1>4, <1>5, <1>6 DEF Next

-----------------------------------------------------------------------------
(* The replay.                                                              *)

PlanOf == Planned({log[i] : i \in 1..Len(log)}, Len(log))

HasPlan == mode \in {"replay", "pass"} \/ plan # << >>

\* The plan was made from the log as it is, and what was produced comes from it.
ReplayInv ==
  /\ plan \in Seq(PlanOf) /\ target \in Seq(PlanOf)
  /\ HasPlan => faults \in FaultSets /\ plan = Plan(faults, Records)
  /\ produced \in Nat /\ Len(target) <= Len(plan)
  /\ \A i \in 1..Len(target) : target[i] = plan[i]
  /\ Len(target) \in {produced, produced + 1}
  /\ mode # "failed" => (Len(target) = produced + 1 <=> request = "written")
  /\ request # "none" => mode = "replay" /\ produced < Len(plan)
  /\ mode = "pass" => produced = Len(plan)
  /\ mode \in {"idle", "capture"} => plan = << >> /\ target = << >> /\ produced = 0

LEMMA ReplayInit == Init => OrderInv /\ ReplayInv
BY DEF Init, OrderInv, ReplayInv, HasPlan

\* While nothing is replayed, the log may grow.
LEMMA NothingReplayed ==
  ASSUME ReplayInv, mode \in {"idle", "capture"}, UNCHANGED replay,
         mode' \in {"idle", "capture", "failed"}
  PROVE  ReplayInv'
<1>1. /\ plan' = << >> /\ target' = << >> /\ produced' = 0 /\ request' = "none"
  BY DEF ReplayInv, replay
<1>2. plan' \in Seq(PlanOf)' /\ target' \in Seq(PlanOf)' /\ Len(plan') = 0 /\ Len(target') = 0
  BY <1>1
<1> HIDE DEF PlanOf
<1>3. QED
  BY <1>1, <1>2 DEF ReplayInv, HasPlan

LEMMA StartReplayStep ==
  ASSUME CaptureInv, ReplayInv, NEW f \in FaultSets, StartReplay(f)
  PROVE  ReplayInv'
<1>1. /\ mode = "idle" /\ log' = log /\ faults' = f
      /\ target' = target /\ produced' = produced /\ request' = request
      /\ torn => mode' = "failed" /\ plan' = plan
      /\ ~torn => mode' = "replay" /\ plan' = Plan(f, Records)
  BY DEF StartReplay
<1>2. plan = << >> /\ target = << >> /\ produced = 0 /\ request = "none"
  BY <1>1 DEF ReplayInv
<1>3. Len(<< >>) = 0 /\ << >> \in Seq(PlanOf)
  OBVIOUS
<1>4. PlanOf' = PlanOf /\ Records' = Records
  BY <1>1 DEF PlanOf, Records
<1>5. CASE torn
  <2>1. Seq(PlanOf)' = Seq(PlanOf)
    BY <1>4
  <2> HIDE DEF PlanOf
  <2>2. QED
    BY <1>1, <1>2, <1>3, <1>5, <2>1 DEF ReplayInv, HasPlan
<1>6. CASE ~torn
  <2>1. Len(log) \in Nat
    BY DEF CaptureInv, CaptureTypes
  <2>2. Sorted(Records, log)
    BY LogSorted
  <2>3. Plan(f, Records) \in Seq(PlanOf)
    <3> DEFINE S == {log[i] : i \in 1..Len(log)}
    <3>1. Records \in [1..Len(log) -> S] /\ Len(Records) = Len(log)
      BY <2>2 DEF Sorted
    <3> HIDE DEF S
    <3>2. Plan(f, Records) \in Seq(Planned(S, Len(log)))
      BY <2>1, <3>1, PlanPlaces
    <3>3. QED
      BY <3>2 DEF S, PlanOf
  <2>4. plan' = Plan(faults', Records')
    BY <1>1, <1>4, <1>6
  <2>5. Seq(PlanOf)' = Seq(PlanOf)
    BY <1>4
  <2>6. Len(plan') \in Nat /\ 0 <= Len(plan')
    BY <1>1, <1>6, <2>3
  <2>7. plan' \in Seq(PlanOf)' /\ target' \in Seq(PlanOf)'
    BY <1>1, <1>2, <1>3, <1>6, <2>3, <2>5
  <2> HIDE DEF PlanOf
  <2>8. QED
    BY <1>1, <1>2, <1>3, <1>6, <2>4, <2>6, <2>7 DEF ReplayInv, HasPlan
<1>7. QED
  BY <1>5, <1>6

\* A step of the replay leaves the plan alone.
LEMMA ProduceStep ==
  ASSUME ReplayInv, mode = "replay", mode' \in {"replay", "failed", "pass"},
         UNCHANGED <<log, faults, plan>>,
         target' \in Seq(PlanOf), produced' \in Nat,
         \A i \in 1..Len(target') : target'[i] = plan[i],
         Len(target') <= Len(plan), Len(target') \in {produced', produced' + 1},
         mode' # "failed" => (Len(target') = produced' + 1 <=> request' = "written"),
         request' # "none" => mode' = "replay" /\ produced' < Len(plan),
         mode' = "pass" => produced' = Len(plan)
  PROVE  ReplayInv'
<1>1. PlanOf' = PlanOf /\ Records' = Records
  BY DEF PlanOf, Records
<1>2. Seq(PlanOf)' = Seq(PlanOf) /\ plan \in Seq(PlanOf)
  BY <1>1 DEF ReplayInv
<1> HIDE DEF PlanOf
<1>3. faults' \in FaultSets /\ plan' = Plan(faults', Records')
  BY <1>1 DEF ReplayInv, HasPlan
<1>4. mode' \notin {"idle", "capture"} /\ plan' = plan
  OBVIOUS
<1>5. QED
  BY <1>2, <1>3, <1>4 DEF ReplayInv

LEMMA ReplayStep == CaptureInv /\ ReplayInv /\ [Next]_vars => ReplayInv'
<1> SUFFICES ASSUME CaptureInv, ReplayInv, [Next]_vars
             PROVE  ReplayInv'
  OBVIOUS
<1>1. ASSUME NEW p \in Partitions, Poll(p) \/ \E time \in 1..MaxTime : Publish(p, time)
      PROVE  ReplayInv'
  BY <1>1, NothingReplayed DEF Poll, Publish
<1>2. ASSUME NEW b \in BOOLEAN, Open(b)
      PROVE  ReplayInv'
  BY <1>2, NothingReplayed DEF Open
<1>3. CASE Write \/ EndCapture
  <2>1. mode = "capture" /\ mode' \in {"idle", "capture"} /\ UNCHANGED replay
    BY <1>3 DEF Write, EndCapture, Exit
  <2>2. QED
    BY <2>1, NothingReplayed
<1>4. ASSUME NEW f \in FaultSets, StartReplay(f)
      PROVE  ReplayInv'
  BY <1>4, StartReplayStep
<1>5. CASE Receive
  <2>1. /\ mode = "replay" /\ mode' = mode /\ request = "sent" /\ request' = "written"
        /\ target' = Append(target, plan[produced + 1]) /\ produced' = produced
        /\ UNCHANGED <<log, faults, plan>>
    BY <1>5 DEF Receive
  <2>2. /\ plan \in Seq(PlanOf) /\ target \in Seq(PlanOf) /\ produced \in Nat /\ Len(target) = produced
        /\ produced < Len(plan) /\ \A i \in 1..Len(target) : target[i] = plan[i]
    BY <2>1 DEF ReplayInv
  <2> HIDE DEF PlanOf
  <2>3. plan[produced + 1] \in PlanOf
    BY <2>2
  <2>4. /\ target' \in Seq(PlanOf) /\ Len(target') = produced + 1 /\ Len(target') <= Len(plan)
        /\ \A i \in 1..Len(target') : target'[i] = plan[i]
    BY <2>1, <2>2, <2>3
  <2>5. QED
    BY <2>1, <2>2, <2>4, ProduceStep
<1>6. CASE Acknowledge
  <2>1. /\ mode = "replay" /\ mode' = mode /\ request = "written" /\ request' = "none"
        /\ produced' = produced + 1 /\ UNCHANGED <<target, log, faults, plan>>
    BY <1>6 DEF Acknowledge
  <2>2. /\ target \in Seq(PlanOf) /\ produced \in Nat /\ Len(target) = produced + 1
        /\ Len(target) <= Len(plan) /\ \A i \in 1..Len(target) : target[i] = plan[i]
    BY <2>1 DEF ReplayInv
  <2> HIDE DEF PlanOf
  <2>3. produced' \in Nat /\ Len(target') = produced' /\ Len(target') # produced' + 1
    BY <2>1, <2>2
  <2>4. QED
    BY <2>1, <2>2, <2>3, ProduceStep
<1>7. CASE Send \/ ProduceFails \/ Expire \/ Finish
  <2>1. /\ mode = "replay" /\ mode' \in {"replay", "failed", "pass"}
        /\ UNCHANGED <<target, produced, log, faults, plan>>
        /\ mode' = "replay" => request = "none" /\ request' = "sent" /\ produced < Len(plan)
        /\ mode' = "pass" => request' = request /\ produced = Len(plan)
        /\ mode' = "failed" => request' = "none"
    BY <1>7 DEF Send, ProduceFails, Expire, Finish, replay
  <2>2. /\ target \in Seq(PlanOf) /\ produced \in Nat /\ Len(target) \in {produced, produced + 1}
        /\ Len(target) <= Len(plan) /\ \A i \in 1..Len(target) : target[i] = plan[i]
        /\ Len(target) = produced + 1 <=> request = "written"
        /\ request # "none" => produced < Len(plan)
    BY <2>1 DEF ReplayInv
  <2> HIDE DEF PlanOf
  <2>3. mode' = "pass" => request = "none"
    BY <2>1, <2>2
  <2>4. /\ mode' # "failed" => (Len(target') = produced' + 1 <=> request' = "written")
        /\ request' # "none" => mode' = "replay" /\ produced' < Len(plan)
    BY <2>1, <2>2, <2>3
  <2>5. QED
    BY <2>1, <2>2, <2>4, ProduceStep
<1>8. CASE UNCHANGED vars
  <2>1. /\ UNCHANGED replay /\ log' = log /\ mode' = mode
    BY <1>8 DEF vars
  <2>2. PlanOf' = PlanOf /\ Records' = Records
    BY <2>1 DEF PlanOf, Records
  <2>3. Seq(PlanOf)' = Seq(PlanOf)
    BY <2>2
  <2> HIDE DEF PlanOf
  <2>4. QED
    BY <2>1, <2>2, <2>3 DEF ReplayInv, HasPlan, replay
<1>9. QED
  BY <1>1, <1>2, <1>3, <1>4, <1>5, <1>6, <1>7, <1>8 DEF Next

(* The replay topic holds a prefix of the plan: what was counted and at most one
   record whose acknowledgement was lost; after success all of it.  Replay of
   kafkasim, whatever the plan is. *)
THEOREM PrefixOfPlan == Spec => []ProducedIsPrefix
<1>1. ReplayInv => ProducedIsPrefix
  <2> SUFFICES ASSUME ReplayInv
               PROVE  ProducedIsPrefix
    OBVIOUS
  <2>1. /\ plan \in Seq(PlanOf) /\ target \in Seq(PlanOf)
        /\ \A i \in 1..Len(target) : target[i] = plan[i]
        /\ Len(target) <= Len(plan) /\ Len(target) \in Nat /\ Len(plan) \in Nat
    BY DEF ReplayInv
  <2> HIDE DEF PlanOf
  <2>2. IsPrefix(target, plan)
    <3>1. SubSeq(target, 1, Len(target)) = SubSeq(plan, 1, Len(target))
      <4>1. /\ SubSeq(target, 1, Len(target)) = [i \in 1..Len(target) |-> target[i]]
            /\ SubSeq(plan, 1, Len(target)) = [i \in 1..Len(target) |-> plan[i]]
        BY <2>1
      <4>2. QED
        BY <2>1, <4>1
    <3>2. QED
      BY <2>1, <3>1 DEF IsPrefix
  <2>3. mode = "pass" => target = plan
    <3> SUFFICES ASSUME mode = "pass"
                 PROVE  target = plan
      OBVIOUS
    <3>1. Len(target) = Len(plan)
      <4>1. request = "none" /\ produced \in Nat /\ produced = Len(plan)
        BY DEF ReplayInv
      <4>2. QED
        BY <4>1 DEF ReplayInv
    <3>2. QED
      BY <2>1, <3>1, SeqEqual
  <2>4. QED
    BY <2>2, <2>3 DEF ReplayInv, ProducedIsPrefix
<1>2. QED
  BY <1>1, CaptureInit, CaptureStep, ReplayInit, ReplayStep, PTL DEF Spec

(* The records of a plan that are left, each counted once. *)
LEMMA UniqueCount ==
  ASSUME NEW f \in FaultSets, NEW N \in Nat, NEW records, Len(records) = N, NEW s, Len(s) \in Nat,
         DOMAIN s = 1..Len(s), NEW place, Places(f, records, s, N, place)
  PROVE  Cardinality({s[i].original : i \in DOMAIN s}) = Count(Kept(f), N)
<1> DEFINE S == Kept(f) \cap (1..N)
           T == {s[i].original : i \in DOMAIN s}
           g == [p \in S |-> OriginalIndex(f, N, p)]
<1>1. /\ \A i \in 1..Len(s) : place[i] \in S /\ s[i].original = OriginalIndex(f, N, place[i])
      /\ \A p \in S : \E i \in 1..Len(s) : place[i] = p
  BY DEF Places
<1>2. IsFiniteSet(S)
  <2>1. IsFiniteSet(1..N) /\ S \subseteq 1..N
    BY FS_Interval
  <2>2. QED
    BY <2>1, FS_Subset
<1>3. \A p, q \in S : OriginalIndex(f, N, p) = OriginalIndex(f, N, q) => p = q
  BY OriginalInjective
<1> HIDE DEF S
<1>4. g \in [S -> T]
  <2>1. \A p \in S : OriginalIndex(f, N, p) \in T
    BY <1>1
  <2>2. QED
    BY <2>1
<1>5. \A t \in T : \E p \in S : g[p] = t
  BY <1>1
<1>6. \A p, q \in S : g[p] = g[q] => p = q
  BY <1>3
<1> HIDE DEF T, g
<1>7. Cardinality(T) = Cardinality(S)
  BY <1>2, <1>4, <1>5, <1>6, SameCardinality
<1>8. QED
  BY <1>7 DEF S, T, Count

(* What a plan says of its records, in the state that has it. *)
LEMMA PlanInState ==
  ASSUME CaptureInv, ReplayInv, HasPlan
  PROVE  /\ faults \in FaultSets /\ Len(log) \in Nat /\ Sorted(Records, log)
         /\ Len(plan) \in Nat /\ DOMAIN plan = 1..Len(plan)
         /\ \E place : Places(faults, Records, plan, Len(log), place)
         /\ Counts(faults, plan, Len(log))
<1> DEFINE S == {log[i] : i \in 1..Len(log)}
<1>1. faults \in FaultSets /\ plan = Plan(faults, Records) /\ plan \in Seq(PlanOf)
  BY DEF ReplayInv
<1>2. Len(log) \in Nat /\ Sorted(Records, log)
  BY LogSorted DEF CaptureInv, CaptureTypes
<1>3. Records \in [1..Len(log) -> S] /\ Len(Records) = Len(log)
  BY <1>2 DEF Sorted
<1> HIDE DEF S
<1>4. /\ \E place : Places(faults, Records, plan, Len(log), place)
      /\ Counts(faults, plan, Len(log))
  BY <1>1, <1>2, <1>3, PlanPlaces
<1>5. Len(plan) \in Nat /\ DOMAIN plan = 1..Len(plan)
  <2> HIDE DEF PlanOf
  <2>1. QED
    BY <1>1
<1>6. QED
  BY <1>1, <1>2, <1>4, <1>5

\* A window is reversed by itself: the record at a place's original index has
\* that place as its own.
LEMMA OriginalTwice ==
  ASSUME NEW f \in FaultSets, NEW n \in Nat, NEW i \in 1..n
  PROVE  OriginalIndex(f, n, OriginalIndex(f, n, i)) = i
<1> DEFINE o == OriginalIndex(f, n, i)
<1>0. f.window \in Nat /\ o \in 1..n
  BY KafkaAssumption, OriginalPlace
<1>1. CASE f.window <= 1
  BY <1>0, <1>1, OriginalPlace
<1>2. CASE f.window > 1
  <2> DEFINE w     == f.window
             start == ((i - 1) \div w) * w
             end   == Min({start + w, n})
  <2>1. (o - 1) \div w = (i - 1) \div w
    BY <1>0, <1>2, OriginalPlace
  <2>2. o = start + end - i + 1
    BY <1>2 DEF OriginalIndex
  <2>3. OriginalIndex(f, n, o) = start + end - o + 1
    <3> HIDE DEF o
    <3>1. QED
      BY <1>2, <2>1 DEF OriginalIndex
  <2>4. start \in Int /\ end \in Int
    <3>1. i - 1 \in Nat /\ w \in Nat /\ w > 0
      BY <1>0, <1>2
    <3>2. (i - 1) \div w \in Nat
      BY <3>1, DivBounds
    <3>3. start \in Int
      BY <3>1, <3>2
    <3> HIDE DEF start
    <3>4. QED
      BY <3>1, <3>3, MinOfTwo
  <2> HIDE DEF start, end, o
  <2>5. QED
    BY <1>0, <2>2, <2>3, <2>4 DEF o
<1>3. QED
  BY <1>0, <1>1, <1>2

\* The order of the places is that of Precedes.
LEMMA PrecedesPlace ==
  ASSUME faults \in FaultSets, NEW n \in Nat, NEW i \in 1..n, NEW j \in 1..n
  PROVE  Precedes(OriginalIndex(faults, n, i), OriginalIndex(faults, n, j)) <=> i < j
<1> DEFINE w == faults.window
           a == OriginalIndex(faults, n, i)
           b == OriginalIndex(faults, n, j)
<1>0. w \in Nat /\ a \in 1..n /\ b \in 1..n
  BY KafkaAssumption, OriginalPlace
<1>1. CASE w <= 1
  <2>1. a = i /\ b = j
    BY <1>1, OriginalPlace
  <2>2. QED
    BY <1>1, <2>1 DEF Precedes
<1>2. CASE w > 1
  <2> DEFINE p == (i - 1) \div w
             q == (j - 1) \div w
  <2>1. (a - 1) \div w = p /\ (b - 1) \div w = q
    BY <1>0, <1>2, OriginalPlace
  <2>2. Precedes(a, b) <=> (p < q \/ (p = q /\ b < a))
    <3> HIDE DEF a, b, p, q
    <3>1. QED
      BY <1>0, <1>2, <2>1 DEF Precedes
  <2>3. p \in Nat /\ q \in Nat /\ (i <= j => p <= q) /\ (j <= i => q <= p)
    <3>1. i - 1 \in Nat /\ j - 1 \in Nat /\ w \in Nat /\ w > 0
      BY <1>0, <1>2
    <3>2. i - 1 <= j - 1 => p <= q
      BY <3>1, DivMonotone
    <3>3. j - 1 <= i - 1 => q <= p
      BY <3>1, DivMonotone
    <3>4. p \in Nat /\ q \in Nat
      BY <3>1, DivBounds
    <3> HIDE DEF p, q
    <3>5. QED
      BY <3>2, <3>3, <3>4
  <2>4. p = q => (b < a <=> i < j)
    <3> DEFINE start == p * w
               end   == Min({start + w, n})
    <3> SUFFICES ASSUME p = q
                 PROVE  b < a <=> i < j
      OBVIOUS
    <3>1. a = start + end - i + 1 /\ b = start + end - j + 1
      BY <1>2 DEF OriginalIndex
    <3>2. start \in Int /\ end \in Int
      <4>1. start \in Int /\ w \in Int
        <5> HIDE DEF p
        <5>1. QED
          BY <1>0, <2>3
      <4> HIDE DEF start
      <4>2. QED
        BY <4>1, MinOfTwo
    <3> HIDE DEF a, b, start, end, p, q
    <3>3. QED
      BY <3>1, <3>2
  <2> HIDE DEF a, b, p, q
  <2>5. (p < q \/ (p = q /\ b < a)) <=> i < j
    <3>1. p \in Nat /\ q \in Nat /\ i \in Int /\ j \in Int
      BY <2>3
    <3>2. CASE p < q
      BY <2>3, <3>1, <3>2
    <3>3. CASE p = q
      BY <2>4, <3>1, <3>3
    <3>4. CASE q < p
      BY <2>3, <3>1, <3>4
    <3>5. p < q \/ p = q \/ q < p
      BY <3>1
    <3>6. QED
      BY <3>2, <3>3, <3>4, <3>5, Zenon
  <2>6. Precedes(a, b) <=> i < j
    BY <2>2, <2>5
  <2>7. QED
    BY <2>6 DEF a, b
<1>3. QED
  BY <1>0, <1>1, <1>2

LEMMA FirstNumbers ==
  ASSUME NEW m \in Nat
  PROVE  IsFiniteSet(1..m) /\ Cardinality(1..m) = m
<1>1. 1 \in Int /\ m \in Int
  OBVIOUS
<1>2. QED
  BY <1>1, FS_Interval

\* Hence Place counts a record's place.
LEMMA PlaceIsPlace ==
  ASSUME faults \in FaultSets, Len(log) \in Nat, DOMAIN log = 1..Len(log), NEW p \in 1..Len(log)
  PROVE  Place(OriginalIndex(faults, Len(log), p)) = p
<1> DEFINE n == Len(log)
           S == 1..(p - 1)
           before == {r \in DOMAIN log : Precedes(r, OriginalIndex(faults, n, p))}
           g == [q \in S |-> OriginalIndex(faults, n, q)]
<1>1. \A q \in 1..n : OriginalIndex(faults, n, q) \in 1..n
  BY OriginalPlace
<1>2. \A q \in 1..n : Precedes(OriginalIndex(faults, n, q), OriginalIndex(faults, n, p)) <=> q < p
  BY PrecedesPlace
<1>3. S \subseteq 1..n /\ (\A q \in 1..n : q < p <=> q \in S) /\ IsFiniteSet(S) /\ Cardinality(S) = p - 1
  <2>1. 1 \in Int /\ p - 1 \in Int /\ p - 1 >= 0
    OBVIOUS
  <2>2. IsFiniteSet(S) /\ Cardinality(S) = p - 1
    <3>1. p - 1 \in Nat
      BY <2>1
    <3>2. QED
      BY <3>1, FirstNumbers
  <2>3. QED
    BY <2>2
<1> HIDE DEF n
<1>4. g \in [S -> before]
  <2>1. \A q \in S : OriginalIndex(faults, n, q) \in before
    BY <1>1, <1>2, <1>3 DEF n
  <2>2. QED
    BY <2>1
<1>5. \A r \in before : \E q \in S : g[q] = r
  <2> SUFFICES ASSUME NEW r \in before
               PROVE  \E q \in S : g[q] = r
    OBVIOUS
  <2>1. r \in 1..n
    BY DEF n
  <2>2. OriginalIndex(faults, n, r) \in 1..n /\ OriginalIndex(faults, n, OriginalIndex(faults, n, r)) = r
    BY <1>1, <2>1, OriginalTwice DEF n
  <2>3. PICK q \in 1..n : OriginalIndex(faults, n, q) = r
    BY <2>2
  <2>4. q \in S
    BY <1>2, <1>3, <2>3
  <2>5. QED
    BY <2>3, <2>4
<1>6. \A x, y \in S : g[x] = g[y] => x = y
  <2> SUFFICES ASSUME NEW x \in S, NEW y \in S, g[x] = g[y]
               PROVE  x = y
    OBVIOUS
  <2>1. x \in 1..n /\ y \in 1..n
    BY <1>3
  <2>2. OriginalIndex(faults, n, x) = OriginalIndex(faults, n, y)
    OBVIOUS
  <2>3. QED
    BY <2>1, <2>2, OriginalInjective DEF n
<1> HIDE DEF S, g, before
<1>7. Cardinality(before) = Cardinality(S)
  BY <1>3, <1>4, <1>5, <1>6, SameCardinality
<1>8. Place(OriginalIndex(faults, n, p)) = 1 + Cardinality(before)
  BY DEF Place, before
<1>9. QED
  BY <1>3, <1>7, <1>8 DEF n

LEMMA MultipleIsEvery ==
  ASSUME NEW n \in Nat, NEW p \in Nat, p > 0
  PROVE  Multiple(n, p) <=> Every(n, p)
<1>1. CASE n = 0
  <2>1. \A k \in 1..p : k * n = 0
    BY <1>1
  <2>2. QED
    BY <1>1, <2>1 DEF Multiple, Every
<1>2. CASE n > 0
  <2> DEFINE q == p \div n
  <2>1. p % n = 0 => p = q * n /\ q \in 1..p
    <3> SUFFICES ASSUME p % n = 0
                 PROVE  p = q * n /\ q \in 1..p
      OBVIOUS
    <3>1. q \in Nat /\ q * n <= p /\ p < q * n + n
      BY <1>2, DivBounds
    <3>a. p = n * (p \div n) + (p % n)
      BY <1>2
    <3> HIDE DEF q
    <3>2. p = q * n
      BY <3>1, <3>a DEF q
    <3>3. q <= q * n /\ q # 0
      BY <1>2, <3>1, <3>2
    <3>4. QED
      BY <3>1, <3>2, <3>3
  <2>2. \A k \in 1..p : p = k * n => p % n = 0
    BY <1>2
  <2>3. QED
    BY <1>2, <2>1, <2>2 DEF Multiple, Every
<1>3. QED
  BY <1>1, <1>2

LEMMA OriginalsInOrder ==
  ASSUME CaptureInv, ReplayInv, HasPlan
  PROVE  PlanInOrder
<1> DEFINE N == Len(log)
<1> SUFFICES ASSUME NEW i \in DOMAIN plan, NEW j \in DOMAIN plan, i < j
             PROVE  \/ Precedes(plan[i].original, plan[j].original)
                    \/ plan[i].original = plan[j].original /\ plan[i].copy < plan[j].copy
  BY DEF PlanInOrder
<1>1. /\ faults \in FaultSets /\ N \in Nat /\ Sorted(Records, log)
      /\ Len(plan) \in Nat /\ DOMAIN plan = 1..Len(plan)
  BY PlanInState
<1>2. PICK place : Places(faults, Records, plan, N, place)
  BY PlanInState
<1> HIDE DEF N
<1>3. Len(Records) = N
  BY <1>1 DEF Sorted, N
<1>4. /\ place[i] \in 1..N /\ place[j] \in 1..N /\ place[i] <= place[j]
      /\ plan[i].original = OriginalIndex(faults, N, place[i])
      /\ plan[j].original = OriginalIndex(faults, N, place[j])
      /\ place[i] = place[j] => plan[i].copy < plan[j].copy
  BY <1>1, <1>2, <1>3 DEF Places, Copied
<1>5. place[i] < place[j] => Precedes(plan[i].original, plan[j].original)
  BY <1>1, <1>4, PrecedesPlace
<1>6. place[i] < place[j] \/ place[i] = place[j]
  BY <1>1, <1>4
<1>7. QED
  BY <1>4, <1>5, <1>6

LEMMA PlacesAsWanted ==
  ASSUME CaptureInv, ReplayInv, HasPlan
  PROVE  \A o \in DOMAIN log : Produces(o) = Wanted(o)
<1> DEFINE N == Len(log)
           Entry(r, c, x) == [record |-> r, copy |-> c, poisoned |-> x]
<1>1. /\ faults \in FaultSets /\ N \in Nat /\ Sorted(Records, log)
      /\ Len(plan) \in Nat /\ DOMAIN plan = 1..Len(plan)
  BY PlanInState
<1>2. PICK place : Places(faults, Records, plan, N, place)
  BY PlanInState
<1>3. DOMAIN log = 1..N /\ Len(Records) = N
  BY <1>1 DEF Sorted, CaptureInv, CaptureTypes
<1> SUFFICES ASSUME NEW o \in 1..N
             PROVE  Produces(o) = Wanted(o)
  BY <1>3
<1>4. PICK p \in 1..N : OriginalIndex(faults, N, p) = o
  <2>1. OriginalIndex(faults, N, o) \in 1..N /\ OriginalIndex(faults, N, OriginalIndex(faults, N, o)) = o
    BY <1>1, OriginalPlace, OriginalTwice
  <2>2. QED
    BY <2>1
<1>5. Place(o) = p
  <2>1. Place(OriginalIndex(faults, N, p)) = p
    BY <1>1, <1>3, PlaceIsPlace
  <2>2. QED
    BY <1>4, <2>1
<1>6. /\ \A i \in 1..Len(plan) :
           /\ place[i] \in 1..N /\ place[i] \in Kept(faults)
           /\ plan[i].original = OriginalIndex(faults, N, place[i])
           /\ plan[i].record = Records[plan[i].original]
           /\ plan[i].poisoned = Every(faults.poison, place[i])
           /\ plan[i].copy \in {0, 1} /\ (plan[i].copy = 1 => place[i] \in Twice(faults))
      /\ p \in Kept(faults) => \E i \in 1..Len(plan) : place[i] = p /\ plan[i].copy = 0
      /\ p \in Twice(faults) => \E i \in 1..Len(plan) : place[i] = p /\ plan[i].copy = 1
  <2> HIDE DEF N
  <2>1. QED
    BY <1>1, <1>2, <1>3 DEF Places, Copied
<1>7. Copies(p) = {c \in {0, 1} : (c = 0 => p \in Kept(faults)) /\ (c = 1 => p \in Twice(faults))}
  <2>1. faults.drop \in Nat /\ faults.duplicate \in Nat /\ faults.poison \in Nat /\ p \in Nat /\ p > 0
    BY <1>1, KafkaAssumption
  <2>2. /\ Multiple(faults.drop, p) <=> Every(faults.drop, p)
        /\ Multiple(faults.duplicate, p) <=> Every(faults.duplicate, p)
    BY <2>1, MultipleIsEvery
  <2>3. QED
    BY <2>1, <2>2 DEF Copies, Kept, Twice
<1>a. Multiple(faults.poison, p) = Every(faults.poison, p)
  <2>1. faults.poison \in Nat /\ p \in Nat /\ p > 0
    BY <1>1, KafkaAssumption
  <2>2. Multiple(faults.poison, p) <=> Every(faults.poison, p)
    BY <2>1, MultipleIsEvery
  <2>3. Multiple(faults.poison, p) \in BOOLEAN /\ Every(faults.poison, p) \in BOOLEAN
    BY DEF Multiple, Every
  <2>4. QED
    BY <2>2, <2>3
<1>8. Wanted(o) = {Entry(Records[o], c, Every(faults.poison, p)) : c \in Copies(p)}
  BY <1>5, <1>a DEF Wanted
<1>9. \A i \in 1..Len(plan) : plan[i].original = o => place[i] = p
  <2> SUFFICES ASSUME NEW i \in 1..Len(plan), plan[i].original = o
               PROVE  place[i] = p
    OBVIOUS
  <2>1. place[i] \in 1..N /\ OriginalIndex(faults, N, place[i]) = OriginalIndex(faults, N, p)
    BY <1>4, <1>6
  <2>2. QED
    BY <1>1, <2>1, OriginalInjective
<1>10. ASSUME NEW x \in Produces(o)
       PROVE  x \in Wanted(o)
  <2>1. PICK i \in 1..Len(plan) : plan[i].original = o /\ x = Entry(plan[i].record, plan[i].copy, plan[i].poisoned)
    BY <1>1 DEF Produces
  <2>2. /\ plan[i].record = Records[o] /\ plan[i].poisoned = Every(faults.poison, p)
        /\ plan[i].copy \in Copies(p)
    BY <1>6, <1>7, <1>9, <2>1
  <2> HIDE DEF Entry
  <2>3. QED
    BY <1>8, <2>1, <2>2
<1>11. ASSUME NEW x \in Wanted(o)
       PROVE  x \in Produces(o)
  <2>1. PICK c \in Copies(p) : x = Entry(Records[o], c, Every(faults.poison, p))
    BY <1>8
  <2>2. PICK i \in 1..Len(plan) : place[i] = p /\ plan[i].copy = c
    BY <1>6, <1>7, <2>1
  <2>3. /\ plan[i].original = o /\ plan[i].record = Records[o]
        /\ plan[i].poisoned = Every(faults.poison, p)
    BY <1>4, <1>6, <2>2
  <2>4. x = Entry(plan[i].record, plan[i].copy, plan[i].poisoned)
    BY <2>1, <2>2, <2>3
  <2>5. QED
    BY <1>1, <2>3, <2>4 DEF Produces
<1>12. QED
  BY <1>10, <1>11

LEMMA CountsAreRight ==
  ASSUME CaptureInv, ReplayInv, HasPlan
  PROVE  FaultCounts
<1> DEFINE N    == Len(log)
           kept == {i \in DOMAIN log : ~Every(faults.drop, i)}
<1> SUFFICES /\ Dropped = IF faults.drop = 0 THEN 0 ELSE N \div faults.drop
             /\ Duplicated = Cardinality({i \in kept : Every(faults.duplicate, i)})
             /\ Poisoned = Cardinality({i \in kept : Every(faults.poison, i)})
                           + Cardinality({i \in kept : Every(faults.poison, i) /\ Every(faults.duplicate, i)})
  BY DEF FaultCounts
<1>1. /\ faults \in FaultSets /\ N \in Nat /\ Sorted(Records, log)
      /\ Len(plan) \in Nat /\ DOMAIN plan = 1..Len(plan)
      /\ Counts(faults, plan, N)
  BY PlanInState
<1>2. PICK place : Places(faults, Records, plan, N, place)
  BY PlanInState
<1>3. DOMAIN log = 1..N
  BY DEF CaptureInv, CaptureTypes
<1>4. Unique = Count(Kept(faults), N)
  <2>1. Len(Records) = N
    BY <1>1 DEF Sorted
  <2> HIDE DEF N
  <2>2. QED
    BY <1>1, <1>2, <2>1, UniqueCount DEF Unique
<1>5. /\ Count(Kept(faults), N) \in Nat /\ Count(Twice(faults), N) \in Nat
      /\ Count(Kept(faults), N) = N - (IF faults.drop = 0 THEN 0 ELSE N \div faults.drop)
      /\ Len(plan) = Count(Kept(faults), N) + Count(Twice(faults), N)
  BY <1>1, CountNext, KeptCount DEF Counts
<1>6. faults.drop # 0 => (N \div faults.drop) \in Nat
  <2>1. faults.drop \in Nat
    BY <1>1, KafkaAssumption
  <2>2. QED
    BY <1>1, <2>1, DivBounds
<1>7. Dropped = IF faults.drop = 0 THEN 0 ELSE N \div faults.drop
  <2> HIDE DEF N
  <2>1. Dropped = N - Unique
    BY DEF Dropped, N
  <2>2. QED
    BY <1>1, <1>4, <1>5, <1>6, <2>1
<1>8. Duplicated = Count(Twice(faults), N)
  BY <1>4, <1>5 DEF Duplicated
<1>9. kept = Kept(faults) \cap (1..N)
  BY <1>1, <1>3 DEF Kept
<1>10. /\ {i \in kept : Every(faults.duplicate, i)} = Twice(faults) \cap (1..N)
       /\ {i \in kept : Every(faults.poison, i)} = (Kept(faults) \cap Sick(faults)) \cap (1..N)
       /\ {i \in kept : Every(faults.poison, i) /\ Every(faults.duplicate, i)}
            = (Twice(faults) \cap Sick(faults)) \cap (1..N)
  BY <1>1, <1>9 DEF Twice, Sick, Kept
<1>11. Poisoned = Count(PoisonedOf(plan), Len(plan))
  <2>1. {i \in DOMAIN plan : plan[i].poisoned} = PoisonedOf(plan) \cap (1..Len(plan))
    BY <1>1 DEF PoisonedOf
  <2>2. QED
    BY <2>1 DEF Poisoned, Count
<1> HIDE DEF kept, N
<1>12. QED
  BY <1>1, <1>7, <1>8, <1>10, <1>11 DEF Counts, Count

(* With any faults the plan is the one that they ask for: the windows in their
   order and each of them reversed, the drop-th places left out, the duplicate-th
   twice and the poison-th poisoned; and the report's counts are those of the
   plan.  Plan and the counts of Replay in kafkasim, for any log. *)
THEOREM PlanDoesWhatItSays == Spec => []PlanFaithful
<1>1. CaptureInv /\ ReplayInv => PlanFaithful
  BY OriginalsInOrder, PlacesAsWanted, CountsAreRight DEF PlanFaithful, HasPlan
<1>2. QED
  BY <1>1, CaptureInit, CaptureStep, ReplayInit, ReplayStep, PTL DEF Spec

LEMMA Transitive == \A x, y, z \in Nat : x <= y /\ y <= z => x <= z
OBVIOUS

(* Times that never go back between neighbours never go back. *)
LEMMA TimesIncrease ==
  ASSUME NEW times \in Seq(Nat), \A o \in 1..(Len(times) - 1) : times[o] <= times[o + 1],
         NEW a \in 1..Len(times), NEW b \in 1..Len(times), a <= b
  PROVE  times[a] <= times[b]
<1> DEFINE P == {n \in Nat : a + n <= Len(times) => times[a] <= times[a + n]}
<1>0. \A o \in 1..Len(times) : times[o] \in Nat
  OBVIOUS
<1>1. 0 \in P
  <2>1. a + 0 = a /\ times[a] \in Nat
    OBVIOUS
  <2>2. QED
    BY <2>1
<1>2. ASSUME NEW n \in P
      PROVE  n + 1 \in P
  <2>1. n \in Nat /\ (a + n <= Len(times) => times[a] <= times[a + n])
    BY Zenon
  <2> HIDE DEF P
  <2>2. ASSUME a + (n + 1) <= Len(times)
        PROVE  times[a] <= times[a + (n + 1)]
    <3>1. /\ a + (n + 1) = (a + n) + 1 /\ a + n <= Len(times)
          /\ a + n \in 1..(Len(times) - 1)
          /\ a + n \in 1..Len(times) /\ (a + n) + 1 \in 1..Len(times)
      BY <2>1, <2>2
    <3>2. times[a] <= times[a + n] /\ times[a + n] <= times[(a + n) + 1]
      BY <2>1, <3>1, Zenon
    <3>3. times[a] \in Nat /\ times[a + n] \in Nat /\ times[(a + n) + 1] \in Nat
      BY <1>0, <3>1, Zenon
    <3>4. QED
      BY <3>1, <3>2, <3>3, Transitive, Zenon
  <2>3. n + 1 \in Nat
    BY <2>1
  <2>4. QED
    BY <2>2, <2>3 DEF P
<1>3. P \in SUBSET Nat
  OBVIOUS
<1> HIDE DEF P
<1>4. b - a \in P
  <2>1. b - a \in Nat
    OBVIOUS
  <2>2. QED
    BY <1>1, <1>2, <1>3, <2>1, SetInduction
<1>5. a + (b - a) = b
  OBVIOUS
<1>6. QED
  BY <1>4, <1>5 DEF P

(* Without reordering, and with timestamps that increase along a partition, only
   a record that was captured twice can be produced before an earlier one: the
   sort of Load and the order of buildPlan. *)
THEOREM OrderInPartition == Spec => []PartitionOrderKept
<1>1. CaptureInv /\ OrderInv /\ ReplayInv => PartitionOrderKept
  <2> SUFFICES ASSUME CaptureInv, OrderInv, ReplayInv, faults.window <= 1,
                      NEW i \in DOMAIN target, NEW j \in DOMAIN target, i < j,
                      target[i].record.partition = target[j].record.partition,
                      target[j].record.offset < target[i].record.offset,
                      \A o \in 1..(Len(source[target[i].record.partition]) - 1) :
                        source[target[i].record.partition][o] <= source[target[i].record.partition][o + 1]
               PROVE  /\ target[i].record.time = target[j].record.time
                      /\ target[i].record.session # target[j].record.session
    BY DEF PartitionOrderKept
  <2>1. /\ i \in 1..Len(plan) /\ j \in 1..Len(plan) /\ target[i] = plan[i] /\ target[j] = plan[j]
        /\ plan # << >>
    <3>1. /\ target \in Seq(PlanOf) /\ plan \in Seq(PlanOf) /\ Len(target) <= Len(plan)
          /\ \A k \in 1..Len(target) : target[k] = plan[k]
      BY DEF ReplayInv
    <3> HIDE DEF PlanOf
    <3>2. i \in 1..Len(target) /\ j \in 1..Len(target)
      BY <3>1
    <3>3. i \in 1..Len(plan) /\ j \in 1..Len(plan)
      BY <3>1, <3>2
    <3>4. QED
      BY <3>1, <3>2, <3>3
  <2> DEFINE N == Len(log)
             a == target[i].record
             b == target[j].record
             times == source[a.partition]
  <2>2. faults \in FaultSets /\ N \in Nat /\ Sorted(Records, log)
    BY <2>1, PlanInState DEF HasPlan
  <2>3. PICK place : Places(faults, Records, plan, N, place)
    BY <2>1, PlanInState DEF HasPlan
  <2>4. /\ place[i] \in 1..N /\ place[j] \in 1..N /\ place[i] <= place[j]
        /\ a = Records[place[i]] /\ b = Records[place[j]]
    <3> HIDE DEF N
    <3>1. Len(Records) = N
      BY <2>2 DEF Sorted, N
    <3>2. /\ place[i] \in 1..N /\ place[j] \in 1..N /\ place[i] <= place[j]
          /\ plan[i].original = OriginalIndex(faults, N, place[i]) /\ plan[i].record = Records[plan[i].original]
          /\ plan[j].original = OriginalIndex(faults, N, place[j]) /\ plan[j].record = Records[plan[j].original]
      BY <2>1, <2>3, <3>1 DEF Places
    <3>3. \A p \in 1..N : OriginalIndex(faults, N, p) = p
      BY <2>2, OriginalPlace
    <3>4. QED
      BY <2>1, <3>2, <3>3
  <2> HIDE DEF a, b
  <2>5. a.partition = b.partition /\ b.offset < a.offset
    BY DEF a, b
  <2>6. PICK ai \in 1..N : a = log[ai]
    BY <2>2, <2>4 DEF Sorted
  <2>7. PICK bi \in 1..N : b = log[bi]
    BY <2>2, <2>4 DEF Sorted
  <2>8. a \in Record /\ b \in Record
    BY <2>6, <2>7 DEF CaptureInv, CaptureTypes
  <2>9. /\ a.partition \in Partitions /\ a.offset \in Nat /\ b.offset \in Nat
        /\ a.time \in Nat /\ b.time \in Nat /\ a.seq \in Nat /\ b.seq \in Nat
    BY <2>8 DEF Record
  <2>10. Earlier(a, b)
    <3>1. place[i] # place[j]
      BY <2>4, <2>5, <2>9
    <3>2. place[i] < place[j]
      BY <2>2, <2>4, <3>1
    <3>3. QED
      BY <2>2, <2>4, <3>2 DEF Sorted
  <2>11. /\ a.offset < Len(times) /\ a.time = times[a.offset + 1]
         /\ b.offset < Len(times) /\ b.time = times[b.offset + 1]
    BY <2>5, <2>6, <2>7 DEF OrderInv, FromSource
  <2>12. times \in Seq(Nat)
    BY <2>9 DEF CaptureInv, CaptureTypes
  <2>13. \A o \in 1..(Len(times) - 1) : times[o] <= times[o + 1]
    BY DEF a
  <2> HIDE DEF times
  <2>14. b.time <= a.time
    <3>1. /\ a.offset + 1 \in 1..Len(times) /\ b.offset + 1 \in 1..Len(times)
          /\ b.offset + 1 <= a.offset + 1
      <4>1. Len(times) \in Nat
        BY <2>12
      <4>2. \A x, y, z \in Nat : x < y /\ y < z => y + 1 \in 1..z /\ x + 1 \in 1..z /\ x + 1 <= y + 1
        OBVIOUS
      <4>3. QED
        BY <2>5, <2>9, <2>11, <4>1, <4>2
    <3>2. times[b.offset + 1] <= times[a.offset + 1]
      BY <2>12, <2>13, <3>1, TimesIncrease
    <3>3. QED
      BY <2>11, <3>2
  <2>15. a.time = b.time /\ a.seq < b.seq
    BY <2>9, <2>10, <2>14 DEF Earlier
  <2>16. ai < bi
    <3>1. bi < ai => log[bi].seq < log[ai].seq
      <4>1. DOMAIN log = 1..N
        BY DEF CaptureInv, CaptureTypes
      <4>2. QED
        BY <4>1 DEF CaptureInv, CaptureHasNoGaps
    <3>2. bi # ai /\ ~(bi < ai)
      BY <2>6, <2>7, <2>9, <2>15, <3>1
    <3>3. QED
      BY <2>2, <3>2
  <2>17. a.session # b.session
    <3>1. log[ai].session = log[bi].session /\ log[ai].partition = log[bi].partition
            => log[ai].offset < log[bi].offset
      BY <2>16 DEF OrderInv
    <3>2. QED
      BY <2>5, <2>6, <2>7, <2>9, <3>1
  <2>18. QED
    BY <2>15, <2>17 DEF a, b
<1>2. QED
  BY <1>1, CaptureInit, CaptureStep, OrderStep, ReplayInit, ReplayStep, PTL DEF Spec
=============================================================================
