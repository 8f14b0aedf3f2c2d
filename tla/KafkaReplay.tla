---------------------------- MODULE KafkaReplay ----------------------------
(***************************************************************************)
(* pkg/kafkasim and pkg/message: messages of a topic are captured into     *)
(* messages.log, in one or more sessions, and replayed to another topic    *)
(* with deterministic faults.  Sessions end by their message limit, a      *)
(* signal, an error, a full disk or a kill; a replay ends by its timeout,  *)
(* by a produce error, whose record may have been written, or completely.  *)
(* The client is kgo's with its default, an idempotent producer: a record  *)
(* whose request was sent is not failed by the context any more.           *)
(*                                                                         *)
(* Abstracted: the payload is poisoned or not; a fetch returns records of  *)
(* one partition, since two fetches give any order of a larger one.        *)
(***************************************************************************)
EXTENDS Naturals, Sequences, SequencesExt, FiniteSetsExt

CONSTANTS
  Partitions,   (* of the captured topic                                   *)
  MaxTime,      (* bound on timestamps                                     *)
  MaxPublished, (* bound on the messages of each partition                 *)
  MaxSessions,  (* bound on capture sessions                               *)
  MaxMessages,  (* --max-messages of a session, 0 for no limit             *)
  FaultSets     (* drop, duplicate, poison and reorder settings tried      *)

ASSUME KafkaAssumption ==
  /\ MaxTime \in Nat /\ MaxPublished \in [Partitions -> Nat] /\ MaxSessions \in Nat
  /\ MaxMessages \in Nat
  /\ FaultSets \subseteq [drop: Nat, duplicate: Nat, poison: Nat, window: Nat]

VARIABLES
  source,       (* timestamps of the messages of each partition            *)
  log,          (* the records messages.log decodes to                     *)
  torn,         (* undecodable bytes follow them                           *)
  mode,         (* idle, capture, replay, and how the replay ended         *)
  session,      (* capture sessions so far                                 *)
  position,     (* the consumer's next offset in each partition            *)
  fetched,      (* records polled and not yet written                      *)
  sequence,     (* Logger.sequence                                         *)
  captured,     (* CaptureResult.Captured                                  *)
  faults, plan, (* of the replay                                           *)
  request,      (* of ProduceSync: "none", "sent" or "written"             *)
  produced,     (* ReplayResult.Produced                                   *)
  target        (* what the replay topic received, in order                *)

capture == <<session, position, fetched, sequence, captured>>
replay  == <<faults, plan, request, produced, target>>
vars    == <<source, log, torn, mode, capture, replay>>

-----------------------------------------------------------------------------
(* Capture.                                                                *)

\* The application publishes; producers choose the timestamps.  What comes
\* after the replay has begun matters to nothing.
Publish(p, time) ==
  /\ mode \in {"idle", "capture"}
  /\ Len(source[p]) < MaxPublished[p]
  /\ source' = [source EXCEPT ![p] = Append(@, time)]
  /\ UNCHANGED <<log, torn, mode, capture, replay>>

Numbers == {0} \cup {log[i].seq : i \in DOMAIN log}

\* Mutant: a log that does not decode is opened like an empty one.
OpenAnyway(fromBeginning) ==
  /\ mode = "idle" /\ mode' = "capture"
  /\ session < MaxSessions /\ session' = session + 1
  /\ sequence' = IF torn THEN 0 ELSE Max(Numbers)
  /\ position' = [p \in Partitions |-> IF fromBeginning THEN 0 ELSE Len(source[p])]
  /\ fetched' = << >> /\ captured' = 0
  /\ UNCHANGED <<source, log, torn, replay>>

\* NewLogger loads the whole log and refuses one that does not decode; the
\* consumer, in no group, starts at either end of each partition.
Open(fromBeginning) ==
  /\ mode = "idle" /\ mode' = "capture"
  /\ ~torn
  /\ session < MaxSessions /\ session' = session + 1
  /\ sequence' = Max(Numbers)
  /\ position' = [p \in Partitions |-> IF fromBeginning THEN 0 ELSE Len(source[p])]
  /\ fetched' = << >> /\ captured' = 0
  /\ UNCHANGED <<source, log, torn, replay>>

\* PollFetches returns the next records of a partition.
Poll(p) ==
  /\ mode = "capture" /\ fetched = << >>
  /\ \E n \in (position[p] + 1)..Len(source[p]) :
       /\ fetched' = [i \in 1..(n - position[p]) |->
                        [time |-> source[p][position[p] + i], partition |-> p,
                         offset |-> position[p] + i - 1, session |-> session]]
       /\ position' = [position EXCEPT ![p] = n]
  /\ UNCHANGED <<source, log, torn, mode, session, sequence, captured, replay>>

\* The process is gone, with what it had polled and not written.
Exit ==
  /\ mode' = "idle"
  /\ position' = [p \in Partitions |-> 0]
  /\ fetched' = << >> /\ sequence' = 0 /\ captured' = 0

Stamped(record) ==
  [seq |-> sequence + 1, time |-> record.time, partition |-> record.partition,
   offset |-> record.offset, session |-> record.session]

\* Mutant: a record that cannot be sanitized is skipped.
WriteOrSkip ==
  /\ mode = "capture" /\ fetched # << >>
  /\ \E skip \in BOOLEAN :
       /\ log' = IF skip THEN log ELSE Append(log, Stamped(Head(fetched)))
       /\ IF ~skip /\ MaxMessages > 0 /\ captured + 1 >= MaxMessages
            THEN Exit
            ELSE /\ fetched' = Tail(fetched) /\ sequence' = sequence + 1
                 /\ captured' = IF skip THEN captured ELSE captured + 1
                 /\ UNCHANGED <<mode, position>>
  /\ UNCHANGED <<source, torn, session, replay>>

\* A record is sanitized, numbered and appended; the limit ends the session.
Write ==
  /\ mode = "capture" /\ fetched # << >>
  /\ log' = Append(log, Stamped(Head(fetched)))
  /\ IF MaxMessages > 0 /\ captured + 1 >= MaxMessages
       THEN Exit
       ELSE /\ fetched' = Tail(fetched) /\ sequence' = sequence + 1
            /\ captured' = captured + 1
            /\ UNCHANGED <<mode, position>>
  /\ UNCHANGED <<source, torn, session, replay>>

\* The session ends: a signal or fetch error, a record the policy cannot
\* sanitize, a full disk or a kill; a record being written may be torn.
EndCapture ==
  /\ mode = "capture" /\ Exit
  /\ torn' \in {FALSE, fetched # << >>}
  /\ UNCHANGED <<source, log, session, replay>>

-----------------------------------------------------------------------------
(* Plan, as a function of the records and the faults.                      *)

\* Mutant: records are replayed as they are in the file.
RecordsUnsorted == log

\* Load sorts by timestamp, then by sequence number.
Earlier(a, b) == a.time < b.time \/ (a.time = b.time /\ a.seq < b.seq)
Records ==
  CHOOSE records \in SetToSeqs({log[i] : i \in DOMAIN log}) :
    \A i, j \in DOMAIN records : i < j => Earlier(records[i], records[j])

\* Which of n records comes at place i when every window is reversed.
OriginalIndex(f, n, i) ==
  LET start == ((i - 1) \div f.window) * f.window
      end   == Min({start + f.window, n})
  IN  IF f.window > 1 THEN start + end - i + 1 ELSE i

NoFaults == [drop |-> 0, duplicate |-> 0, poison |-> 0, window |-> 0]

Every(n, i) == n > 0 /\ i % n = 0

\* Mutant: a dropped record is still duplicated.
EntriesDuplicateFirst(f, records, i) ==
  LET entry == [record |-> records[OriginalIndex(f, Len(records), i)],
                original |-> OriginalIndex(f, Len(records), i),
                copy |-> 0, poisoned |-> Every(f.poison, i)]
  IN  IF Every(f.duplicate, i) THEN <<entry, [entry EXCEPT !.copy = 1]>>
      ELSE IF Every(f.drop, i) THEN << >> ELSE <<entry>>

\* What is produced for place i: nothing, or the record and perhaps a copy.
Entries(f, records, i) ==
  LET entry == [record |-> records[OriginalIndex(f, Len(records), i)],
                original |-> OriginalIndex(f, Len(records), i),
                copy |-> 0, poisoned |-> Every(f.poison, i)]
  IN  IF Every(f.drop, i) THEN << >>
      ELSE IF Every(f.duplicate, i) THEN <<entry, [entry EXCEPT !.copy = 1]>>
      ELSE <<entry>>

Plan(f, records) ==
  LET upTo[n \in 0..Len(records)] ==
        IF n = 0 THEN << >> ELSE upTo[n - 1] \o Entries(f, records, n)
  IN  upTo[Len(records)]

\* The counts of ReplayResult, computed from the plan.
Unique     == Cardinality({plan[i].original : i \in DOMAIN plan})
Dropped    == Len(log) - Unique
Duplicated == Len(plan) - Unique
Poisoned   == Cardinality({i \in DOMAIN plan : plan[i].poisoned})

-----------------------------------------------------------------------------
(* Replay.                                                                 *)

\* The log is loaded, which fails if it is torn, and the plan is made.
StartReplay(f) ==
  /\ mode = "idle" /\ mode' = IF torn THEN "failed" ELSE "replay"
  /\ log # << >>
  /\ faults' = f
  /\ plan' = IF torn THEN plan ELSE Plan(f, Records)
  /\ UNCHANGED <<source, log, torn, capture, request, produced, target>>

\* After the captured gap and the delay, ProduceSync sends a record.
Send ==
  /\ mode = "replay" /\ request = "none" /\ produced < Len(plan)
  /\ request' = "sent"
  /\ UNCHANGED <<source, log, torn, mode, capture, faults, plan, produced, target>>

\* The broker writes the record; of a request sent again it keeps one.
Receive ==
  /\ mode = "replay" /\ request = "sent"
  /\ request' = "written"
  /\ target' = Append(target, plan[produced + 1])
  /\ UNCHANGED <<source, log, torn, mode, capture, faults, plan, produced>>

\* Its acknowledgement arrives.
Acknowledge ==
  /\ mode = "replay" /\ request = "written"
  /\ request' = "none" /\ produced' = produced + 1
  /\ UNCHANGED <<source, log, torn, mode, capture, faults, plan, target>>

\* Mutant: the count is increased before the record is acknowledged.
ProduceFailsCounted ==
  /\ mode = "replay" /\ produced < Len(plan)
  /\ mode' = "failed"
  /\ request' = "none" /\ produced' = produced + 1
  /\ UNCHANGED <<source, log, torn, capture, faults, plan, target>>

\* ProduceSync fails; the broker may have the record all the same.
ProduceFails ==
  /\ mode = "replay" /\ produced < Len(plan)
  /\ mode' = "failed" /\ request' = "none"
  /\ UNCHANGED <<source, log, torn, capture, faults, plan, produced, target>>

\* The timeout ends the wait before a record, or its ProduceSync as long as no
\* request was sent.
Expire ==
  /\ mode = "replay" /\ request = "none" /\ produced < Len(plan)
  /\ mode' = "failed"
  /\ UNCHANGED <<source, log, torn, capture, replay>>

Finish ==
  /\ mode = "replay" /\ produced = Len(plan)
  /\ mode' = "pass"
  /\ UNCHANGED <<source, log, torn, capture, replay>>

Init ==
  /\ source = [p \in Partitions |-> << >>]
  /\ log = << >> /\ torn = FALSE /\ mode = "idle"
  /\ session = 0 /\ position = [p \in Partitions |-> 0]
  /\ fetched = << >> /\ sequence = 0 /\ captured = 0
  /\ faults = NoFaults /\ plan = << >>
  /\ request = "none" /\ produced = 0 /\ target = << >>

Next ==
  \/ \E p \in Partitions, time \in 1..MaxTime : Publish(p, time)
  \/ \E fromBeginning \in BOOLEAN : Open(fromBeginning)
  \/ \E p \in Partitions : Poll(p)
  \/ Write \/ EndCapture
  \/ \E f \in FaultSets : StartReplay(f)
  \/ Send \/ Receive \/ Acknowledge \/ ProduceFails \/ Expire \/ Finish

Spec == Init /\ [][Next]_vars

-----------------------------------------------------------------------------
(* Properties.                                                             *)

\* A session misses nothing: what it wrote of a partition has consecutive
\* offsets, and over all sessions sequence numbers increase along the log.
CaptureHasNoGaps ==
  \A i, j \in DOMAIN log : i < j =>
    /\ log[i].seq < log[j].seq
    /\ log[i].session = log[j].session /\ log[i].partition = log[j].partition =>
         \A o \in log[i].offset..log[j].offset :
           \E k \in i..j : log[k].partition = log[i].partition /\ log[k].offset = o

\* A log with a torn tail is never written to again: nothing is captured that
\* no reader can decode.
TornLogNotExtended == [][torn => log' = log /\ mode' # "capture"]_vars

\* Record a comes before record b: in its own order in an earlier window, in the
\* reverse of it in the same one.
Precedes(a, b) ==
  IF faults.window <= 1 THEN a < b
  ELSE LET window(o) == (o - 1) \div faults.window
       IN  window(a) < window(b) \/ (window(a) = window(b) /\ b < a)

\* The place of a record, counted before anything is dropped or duplicated.
Place(o) == 1 + Cardinality({r \in DOMAIN log : Precedes(r, o)})

PlanInOrder ==
  \A i, j \in DOMAIN plan : i < j =>
    \/ Precedes(plan[i].original, plan[j].original)
    \/ plan[i].original = plan[j].original /\ plan[i].copy < plan[j].copy

Produces(o) ==
  {[record |-> plan[i].record, copy |-> plan[i].copy, poisoned |-> plan[i].poisoned] :
     i \in {k \in DOMAIN plan : plan[k].original = o}}

Multiple(n, place) == \E k \in 1..place : place = k * n

Copies(place) ==
  {c \in {0, 1} : ~Multiple(faults.drop, place) /\ (c = 1 => Multiple(faults.duplicate, place))}

Wanted(o) ==
  {[record |-> Records[o], copy |-> c, poisoned |-> Multiple(faults.poison, Place(o))] :
     c \in Copies(Place(o))}

FaultCounts ==
  LET kept == {i \in DOMAIN log : ~Every(faults.drop, i)}
  IN  /\ Dropped = IF faults.drop = 0 THEN 0 ELSE Len(log) \div faults.drop
      /\ Duplicated = Cardinality({i \in kept : Every(faults.duplicate, i)})
      /\ Poisoned = Cardinality({i \in kept : Every(faults.poison, i)})
                    + Cardinality({i \in kept : Every(faults.poison, i) /\ Every(faults.duplicate, i)})

\* A plan is the one its settings ask for, and the report counts it: every window
\* is reversed, also a last one that is not full, and the windows keep their order;
\* the record at each drop-th place is left out, those at the other duplicate-th
\* places come twice, and those at poison-th places are poisoned, copies too (Plan,
\* uniquePlanned, the counts of Replay).
PlanFaithful ==
  mode \in {"replay", "pass"} \/ plan # << >> =>
    PlanInOrder /\ FaultCounts /\ \A o \in DOMAIN log : Produces(o) = Wanted(o)

\* The replay topic holds a prefix of the plan: the records that were counted,
\* and at most one more, whose acknowledgement is under way or lost; all of it on
\* success.
ProducedIsPrefix ==
  /\ IsPrefix(target, plan)
  /\ Len(target) \in {produced, produced + 1}
  /\ mode = "pass" => target = plan
  /\ Len(target) = produced + 1 => mode = "failed" \/ request = "written"

\* Without reordering a partition is replayed in its order, provided that its
\* timestamps increase with its offsets: only a record captured twice may come
\* before an earlier one, of the same time.
PartitionOrderKept ==
  faults.window <= 1 =>
    \A i, j \in DOMAIN target :
      LET a == target[i].record  b == target[j].record
      IN  /\ i < j /\ a.partition = b.partition /\ b.offset < a.offset
          /\ \A o \in 1..(Len(source[a.partition]) - 1) :
               source[a.partition][o] <= source[a.partition][o + 1]
          => a.time = b.time /\ a.session # b.session
=============================================================================
