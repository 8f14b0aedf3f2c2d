--------------------------- MODULE WorkflowVerify ---------------------------
(***************************************************************************)
(* infernosim workflow verify (pkg/workflow): the steps that a workflow    *)
(* declares are looked for, in order, among the observations that the logs *)
(* of an incident directory hold; and infernosim strict-replay             *)
(* (pkg/replay), which goes through one log and aborts at the first        *)
(* divergence.  Both are functions of the directory.                       *)
(*                                                                         *)
(* Abstracted: method, path, gRPC method and topic of an event, and the    *)
(* regular expression of a step, are the kind of event a step wants.       *)
(***************************************************************************)
EXTENDS Integers, Sequences, FiniteSets, SequencesExt, FiniteSetsExt

\* A file is the sequence of its events and whether its last line is torn; an
\* event has kind, direction, trace, header (a correlation header), at (its
\* time), number (its Sequence), and, for strict-replay, type, status, write, grpc,
\* broken (no request can be made of it: its body is no base64 or has another hash
\* than was recorded, or its URL does not parse) and long (the line is longer than
\* the scanner's 64 KiB).
CONSTANT Absent     (* a file that is not there *)

LogNames == <<"inbound.log", "outbound.log", "messages.log">>

-----------------------------------------------------------------------------
(* loadObserved.                                                           *)

\* eventCorrelation: the trace of the proxy, or else a header of the client's.
Correlation(event) == IF event.trace # "" THEN event.trace ELSE event.header

\* Whether the directory can be loaded: inbound.log is there, and every log is
\* decoded to its end.
Loads(dir) ==
  /\ dir["inbound.log"] # Absent
  /\ \A name \in DOMAIN dir : dir[name] # Absent => ~dir[name].torn

\* InboundResponse events and the like are passed over, but they do have a place
\* in their log.
InLog(dir, name) ==
  IF dir[name] = Absent THEN {}
  ELSE {[log |-> name, place |-> n, event |-> dir[name].events[n]] :
          n \in {m \in DOMAIN dir[name].events : dir[name].events[m].kind # "other"}}

\* Locations are compared as strings: by the name of the log, and then by the
\* place (taken as a number: logs of more than nine events differ where two
\* events have one time and one number).
Rank(name) == CASE name = "inbound.log" -> 1 [] name = "messages.log" -> 2 [] OTHER -> 3

\* Mutant: times are compared, and nothing else.
BeforeByLog(a, b) == IF a.log = b.log THEN a.place < b.place ELSE Rank(a.log) < Rank(b.log)

Before(a, b) ==
  \/ a.event.at < b.event.at
  \/ a.event.at = b.event.at /\ a.event.number < b.event.number
  \/ /\ a.event.at = b.event.at /\ a.event.number = b.event.number
     /\ Rank(a.log) < Rank(b.log) \/ (a.log = b.log /\ a.place < b.place)

Seen(dir) == UNION {InLog(dir, name) : name \in DOMAIN dir}

Observations(dir) ==
  LET all == CHOOSE all \in SetToSeqs(Seen(dir)) :
               \A i, j \in DOMAIN all : i < j => Before(all[i], all[j])
  IN  [n \in DOMAIN all |-> all[n].event]

-----------------------------------------------------------------------------
(* VerifyIncident.                                                         *)

Matches(step, event) ==
  /\ event.kind = step.kind
  /\ step.direction \in {"", event.direction}

\* What the correlation mode asks of a candidate, given the correlation so far.
Correlated(mode, soFar, event) ==
  CASE mode = "required" -> Correlation(event) # "" /\ soFar \in {"", Correlation(event)}
    [] mode = "prefer"   -> "" \in {soFar, Correlation(event)} \/ soFar = Correlation(event)
    [] OTHER             -> TRUE

NextCursor(n) == n + 1

\* The time the next bound is measured from (times are positive, 0 is none).
Previous(acc, event) == event.at

\* One step of a workflow: the first candidate from the cursor on is taken, and
\* never given back; nothing is looked for behind a missing step.
Advance(obs, mode, acc, step) ==
  LET candidates == {n \in acc.cursor..Len(obs) :
                       Matches(step, obs[n]) /\ Correlated(mode, acc.correlation, obs[n])}
      n == Min(candidates)
  IN IF acc.missing THEN acc
     ELSE IF candidates = {} THEN [acc EXCEPT !.missing = TRUE]
     ELSE [cursor      |-> NextCursor(n),
           correlation |-> IF acc.correlation = "" THEN Correlation(obs[n]) ELSE acc.correlation,
           previous    |-> Previous(acc, obs[n]),
           late        |-> acc.late \/ (/\ acc.previous # 0 /\ step.within > 0
                                        /\ obs[n].at - acc.previous > step.within),
           missing     |-> FALSE]

AtFirst == [cursor |-> 1, correlation |-> "", previous |-> 0, late |-> FALSE, missing |-> FALSE]

\* The findings of a workflow: WORKFLOW_MISSING_STEP and WORKFLOW_TIMING_DRIFT.
Verify(obs, workflow) ==
  LET steps == workflow.steps
      after[n \in 0..Len(steps)] ==
        IF n = 0 THEN AtFirst ELSE Advance(obs, workflow.correlation, after[n - 1], steps[n])
  IN  [missing |-> after[Len(steps)].missing, late |-> after[Len(steps)].late]

-----------------------------------------------------------------------------
(* strict-replay.                                                          *)

\* The scanner gives up at a line that is too long, and NewReplayer does not ask
\* it why it stopped.
Scanned(file) ==
  LET long == {n \in DOMAIN file.events : file.events[n].long}
  IN IF long = {} THEN file.events ELSE SubSeq(file.events, 1, Min(long) - 1)

\* A torn line is an error, if the scanner gets that far, and so is no event.
StrictLoads(file) ==
  /\ file.torn => Len(Scanned(file)) < Len(file.events)
  /\ Scanned(file) # << >>

\* Sorted by time, then by number; the sort is stable.
Sooner(file, a, b) ==
  LET e == file.events[a]
      f == file.events[b]
  IN \/ e.at < f.at
     \/ e.at = f.at /\ e.number < f.number
     \/ e.at = f.at /\ e.number = f.number /\ a < b

StrictEvents(file) ==
  LET indices == CHOOSE indices \in SetToSeqs(DOMAIN Scanned(file)) :
                   \A i, j \in DOMAIN indices : i < j => Sooner(file, indices[i], indices[j])
  IN  [n \in DOMAIN indices |-> [index |-> indices[n], event |-> file.events[indices[n]]]]

\* A CONNECT of the log is not a call but, like a request, only printed.
IsCall(event) == event.type = "OutboundCall"

\* executeOutboundCall ends before it sends anything: a write that is not allowed,
\* or a body that is not the one that was recorded.
Unsent(event, allowWrites) == (event.write /\ ~allowWrites) \/ event.broken

\* The end of executeOutboundCall; answers gives the status that http.Client ends
\* with for the event at an index, redirects followed, or "error", which a gRPC
\* call without a recorded status may end with.
Mismatch(entry, answers) ==
  LET answer == answers[entry.index]
  IN IF answer = "error" THEN ~(entry.event.grpc /\ entry.event.status = "none")
     ELSE entry.event.status \notin {"none", answer}

\* Mutant: a write that is not allowed is passed over.
DivergesOnAnswer(entry, answers, allowWrites) ==
  IF IsCall(entry.event) THEN Mismatch(entry, answers) ELSE entry.event.type = "Unknown"

\* executeOutboundCall and applyEvent on one event.
Diverges(entry, answers, allowWrites) ==
  IF IsCall(entry.event)
  THEN Unsent(entry.event, allowWrites) \/ Mismatch(entry, answers)
  ELSE entry.event.type = "Unknown"

\* Replay: the events gone through, up to and including the first divergence.
StrictReplay(file, answers, allowWrites) ==
  LET events == StrictEvents(file)
      wrong  == {n \in DOMAIN events : Diverges(events[n], answers, allowWrites)}
      last   == IF wrong = {} THEN Len(events) ELSE Min(wrong)
  IN [pass |-> wrong = {},
      sent |-> {events[n].index : n \in {m \in 1..last :
                  IsCall(events[m].event) /\ ~Unsent(events[m].event, allowWrites)}}]
=============================================================================
