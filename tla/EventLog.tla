------------------------------ MODULE EventLog ------------------------------
(***************************************************************************)
(* The JSONL logger of pkg/event: handlers of the capturing proxies write  *)
(* events concurrently, the disk may fill, the process may be killed at    *)
(* any point and a new one reopens the file, repairing a partial tail.     *)
(*                                                                         *)
(* Abstracted: the file is the sequence of records a JSON decoder reads    *)
(* from its start, whether undecodable bytes follow them, and whether the  *)
(* last record is followed by its newline.  A record written behind        *)
(* undecodable bytes is not read by anybody, so it does not enter log.     *)
(* What the operating system has accepted survives a kill of the process.  *)
(***************************************************************************)
EXTENDS Naturals, Sequences, FiniteSetsExt

CONSTANTS
  Writers,      (* goroutines that call Logger.Write                       *)
  Nobody,       (* the holder of a free mutex                              *)
  MaxWrites,    (* bound on the writes of each writer                      *)
  MaxFailures   (* bound on crashes and on full disks, together            *)

ASSUME EventLogAssumption ==
  /\ Nobody \notin Writers
  /\ MaxWrites \in Nat /\ MaxFailures \in Nat

VARIABLES
  log,          (* records a decoder reads: id and sequence                *)
  torn,         (* undecodable bytes follow them                           *)
  terminated,   (* the file is empty or ends in a newline                  *)
  mode,         (* of the process: down, opening in two steps, open, shut  *)
  sequence,     (* Logger.sequence                                         *)
  broken,       (* the sticky error of bufio.Writer and json.Encoder       *)
  mu,           (* holder of Logger.mu                                     *)
  pc,           (* control point of each Write                             *)
  stamp,        (* e.Sequence of the event being written                   *)
  writes,       (* writes started by each writer: names the event          *)
  acked,        (* history: events whose Write returned nil                *)
  failures      (* crashes and full disks so far                           *)

file == <<log, torn, terminated>>
vars == <<file, mode, sequence, broken, mu, pc, stamp, writes, acked, failures>>

Ids       == Writers \X (1..MaxWrites)
Id(w)     == <<w, writes[w]>>
Record(w) == [id |-> Id(w), seq |-> stamp[w]]

-----------------------------------------------------------------------------
(* NewLogger.                                                              *)

\* Mutant: numbering starts again in every process.
ScanFromZero ==
  /\ mode = "down" /\ mode' = "repair"
  /\ sequence' = 0
  /\ UNCHANGED <<file, broken, mu, pc, stamp, writes, acked, failures>>

\* Every record is decoded; the largest sequence number is kept.
Scan ==
  /\ mode = "down" /\ mode' = "repair"
  /\ sequence' = Max({0} \cup {log[i].seq : i \in 1..Len(log)})
  /\ UNCHANGED <<file, broken, mu, pc, stamp, writes, acked, failures>>

\* Mutant: a partial tail is left in the file.
TruncateNothing ==
  /\ mode = "repair" /\ mode' = "terminate"
  /\ UNCHANGED <<file, sequence, broken, mu, pc, stamp, writes, acked, failures>>

\* The file is cut at the end of the last record, before its newline.
Truncate ==
  /\ mode = "repair" /\ mode' = "terminate"
  /\ torn' = FALSE
  /\ terminated' = IF torn THEN log = << >> ELSE terminated
  /\ UNCHANGED <<log, sequence, broken, mu, pc, stamp, writes, acked, failures>>

\* A missing newline is written, and the logger gets new writers.
Terminate ==
  /\ mode = "terminate" /\ mode' = "open"
  /\ terminated' = TRUE
  /\ broken' = FALSE
  /\ UNCHANGED <<log, torn, sequence, mu, pc, stamp, writes, acked, failures>>

-----------------------------------------------------------------------------
(* Write.                                                                  *)

\* A handler calls Write, in a process whose logger is open or closed already.
Call(w) ==
  /\ pc[w] = "idle" /\ pc' = [pc EXCEPT ![w] = "calling"]
  /\ mode \in {"open", "shut"}
  /\ writes[w] < MaxWrites /\ writes' = [writes EXCEPT ![w] = @ + 1]
  /\ UNCHANGED <<file, mode, sequence, broken, mu, stamp, acked, failures>>

\* Mutant: Write does not take the mutex.
LockUnguarded(w) ==
  /\ pc[w] = "calling" /\ pc' = [pc EXCEPT ![w] = "locked"]
  /\ mu' = w
  /\ sequence' = sequence + 1
  /\ stamp' = [stamp EXCEPT ![w] = sequence + 1]
  /\ UNCHANGED <<file, mode, broken, writes, acked, failures>>

Lock(w) ==
  /\ pc[w] = "calling" /\ pc' = [pc EXCEPT ![w] = "locked"]
  /\ mu = Nobody /\ mu' = w
  /\ sequence' = sequence + 1
  /\ stamp' = [stamp EXCEPT ![w] = sequence + 1]
  /\ UNCHANGED <<file, mode, broken, writes, acked, failures>>

\* Bytes of a whole record reach the file, with or without their newline.
PutRecord(w, newline) ==
  /\ log' = IF torn THEN log ELSE Append(log, Record(w))
  /\ terminated' = newline
  /\ UNCHANGED torn

\* Bytes of a record reach the file, but not all.
PutPart ==
  /\ torn' = TRUE /\ terminated' = FALSE
  /\ UNCHANGED log

\* Encode and Flush succeed.
Emit(w) ==
  /\ pc[w] = "locked" /\ pc' = [pc EXCEPT ![w] = "written"]
  /\ mode = "open" /\ ~broken
  /\ PutRecord(w, TRUE)
  /\ UNCHANGED <<mode, sequence, broken, mu, stamp, writes, acked, failures>>

\* The disk is full: the write is short and the error sticks to the writers.
DiskFull(w) ==
  /\ pc[w] = "locked" /\ pc' = [pc EXCEPT ![w] = "failed"]
  /\ mode = "open" /\ ~broken /\ broken' = TRUE
  /\ failures < MaxFailures /\ failures' = failures + 1
  /\ PutPart \/ PutRecord(w, FALSE) \/ UNCHANGED file
  /\ UNCHANGED <<mode, sequence, mu, stamp, writes, acked>>

\* Writing fails at once after a sticky error, and after Close.
Refuse(w) ==
  /\ pc[w] = "locked" /\ pc' = [pc EXCEPT ![w] = "failed"]
  /\ broken \/ mode = "shut"
  /\ UNCHANGED <<file, mode, sequence, broken, mu, stamp, writes, acked, failures>>

\* Mutant: a Write that fails returns without unlocking.
ReturnKeepsMutex(w) ==
  /\ pc[w] \in {"written", "failed"} /\ pc' = [pc EXCEPT ![w] = "idle"]
  /\ mu' = IF pc[w] = "written" THEN Nobody ELSE mu
  /\ acked' = IF pc[w] = "written" THEN acked \cup {Id(w)} ELSE acked
  /\ UNCHANGED <<file, mode, sequence, broken, stamp, writes, failures>>

\* Mutant: a short write is not an error to the caller.
ReturnAlwaysNil(w) ==
  /\ pc[w] \in {"written", "failed"} /\ pc' = [pc EXCEPT ![w] = "idle"]
  /\ mu' = Nobody
  /\ acked' = acked \cup {Id(w)}
  /\ UNCHANGED <<file, mode, sequence, broken, stamp, writes, failures>>

\* The deferred unlock; the caller learns whether its event was written.
Return(w) ==
  /\ pc[w] \in {"written", "failed"} /\ pc' = [pc EXCEPT ![w] = "idle"]
  /\ mu' = Nobody
  /\ acked' = IF pc[w] = "written" THEN acked \cup {Id(w)} ELSE acked
  /\ UNCHANGED <<file, mode, sequence, broken, stamp, writes, failures>>

Write(w) ==
  Call(w) \/ Lock(w) \/ Emit(w) \/ DiskFull(w) \/ Refuse(w) \/ Return(w)

\* Close waits for the mutex; handlers still running may call Write after it.
Close ==
  /\ mode = "open" /\ mode' = "shut"
  /\ mu = Nobody
  /\ UNCHANGED <<file, sequence, broken, mu, pc, stamp, writes, acked, failures>>

\* The process ends, killed or not, while opening the file or writing to it:
\* the record being written may be in the file, in part, or not at all.
Crash ==
  /\ mode # "down" /\ mode' = "down"
  /\ failures < MaxFailures /\ failures' = failures + 1
  /\ \/ UNCHANGED file
     \/ /\ mode = "open" /\ ~broken
        /\ \E w \in Writers : /\ pc[w] = "locked"
                              /\ PutPart \/ \E b \in BOOLEAN : PutRecord(w, b)
  /\ pc' = [w \in Writers |-> "idle"]
  /\ mu' = Nobody
  /\ UNCHANGED <<sequence, broken, stamp, writes, acked>>

Init ==
  /\ log = << >> /\ torn = FALSE /\ terminated = TRUE
  /\ mode = "down" /\ sequence = 0 /\ broken = FALSE
  /\ mu = Nobody
  /\ pc = [w \in Writers |-> "idle"]
  /\ stamp = [w \in Writers |-> 0]
  /\ writes = [w \in Writers |-> 0]
  /\ acked = {} /\ failures = 0

Next ==
  \/ Scan \/ Truncate \/ Terminate \/ Close \/ Crash
  \/ \E w \in Writers : Write(w)

\* A goroutine that can run runs, and a Go mutex starves no waiter.
Fairness ==
  /\ \A w \in Writers : /\ WF_vars(Emit(w) \/ DiskFull(w) \/ Refuse(w) \/ Return(w))
                         /\ SF_vars(Lock(w))
  /\ WF_vars(Truncate \/ Terminate)

Spec == Init /\ [][Next]_vars /\ Fairness

-----------------------------------------------------------------------------
(* Properties.                                                             *)

TypeOK ==
  /\ log \in Seq([id: Ids, seq: Nat])
  /\ torn \in BOOLEAN /\ terminated \in BOOLEAN
  /\ mode \in {"down", "repair", "terminate", "open", "shut"}
  /\ sequence \in Nat /\ broken \in BOOLEAN
  /\ mu \in Writers \cup {Nobody}
  /\ pc \in [Writers -> {"idle", "calling", "locked", "written", "failed"}]
  /\ stamp \in [Writers -> Nat]
  /\ writes \in [Writers -> 0..MaxWrites]
  /\ acked \subseteq Ids
  /\ failures \in 0..MaxFailures

\* Sequence numbers increase along the file, whatever the interleaving of the
\* handlers, however often the process died and the file was repaired; the
\* order by (timestamp, sequence) of the readers relies on it.
SequencesIncrease ==
  \A i, j \in 1..Len(log) : i < j => log[i].seq < log[j].seq

\* An event whose Write returned nil stays readable: no later short write,
\* crash or repair takes it away or hides it.
AckedSurvive ==
  \A id \in acked : \E i \in 1..Len(log) : log[i].id = id

\* A logger that accepts writes appends to a whole, terminated line: the
\* records of two processes are never glued to each other.
AppendsToWholeLine ==
  (mode = "open" /\ ~broken) => ~torn /\ terminated

\* Every Write returns, on a full or closed file too, unless the process dies:
\* no failure leaves the mutex behind and blocks the other handlers.
WritesReturn ==
  \A w \in Writers : pc[w] = "calling" ~> pc[w] = "idle"

Abstract == INSTANCE AppendLog WITH log <- log, acked <- acked, Ids <- Ids

\* The logger implements the append-only log.
ImplementsAppendLog == Abstract!Spec
=============================================================================
