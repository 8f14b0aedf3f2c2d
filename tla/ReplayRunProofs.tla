--------------------------- MODULE ReplayRunProofs ---------------------------
(***************************************************************************)
(* Proofs about the replay verdict, for any number of workers, runs and    *)
(* requests and for any application: what a pass says of the refusals of   *)
(* the stub, of the fingerprints of the workers and of the dependencies,   *)
(* what a strong pass says of the requests that were sent, and that an     *)
(* application which makes the captured calls passes strongly.             *)
(*                                                                         *)
(* The argument for refusals: while a run goes on, the reasons recorded in *)
(* it are all refusals there are, because the loop goes on only after a    *)
(* run without reasons, and an application that was quiet when a run was   *)
(* judged makes no call before the next one sends a request.  For the      *)
(* fingerprints: one that was completed is equal to the reference, or its  *)
(* worker still waits to be collected, or nonDeterministic is set.         *)
(* For the faithful application: the calls the stub has counted in a run   *)
(* and those still to be made are together the calls of the requests sent, *)
(* which are at most those of the capture for each worker, so that no kind *)
(* of call is used up before its last call.                                *)
(***************************************************************************)
EXTENDS ReplayRun, FiniteSetTheorems, FunctionTheorems, SequenceTheorems, TLAPS

Passes   == {"PASS_STRONG", "PASS_WEAK"}
Failures == {"FAIL_STALLED", "FAIL_NON_DETERMINISTIC", "FAIL_SLO_MISSED",
             "FAIL_CONTRACT_DRIFT", "FAIL_NO_COVERAGE"}
Fields   == {"executed", "completed", "inbound", "observed", "waveComplete",
             "reference", "nondet", "window", "reason", "outcome"}
Signature == {"good", "bad", "error"}

\* Nothing that the application still does will reach the stub.
Quiet == ~ \E t \in Request : app[t] = "working" \/ todo[t] # << >>

\* The types the proofs need.
RunTypes ==
  /\ ctl \in {"loop", "wave", "observe", "judge", "post", "done"}
  /\ wpc \in [Workers -> {"idle", "ready", "waiting"} \cup Ended]
  /\ sigs \in [Workers -> Seq(Signature)]
  /\ seen \in Nat /\ refused \in Nat
  /\ DOMAIN summary = Fields
  /\ summary.observed \in Nat
  /\ ctl # "done" => summary.outcome \in Failures \cup {"none"}

\* Workers run in a wave only, for the loop waits for all of them.
WorkersInWave ==
  ctl # "wave" => \A w \in Workers : wpc[w] \in Ended \cup {"idle"}

\* The refusals of all runs, when no run was judged too early.
RefusalInv ==
  "judge" \notin straggled =>
    /\ ctl \in {"loop", "post"} => Quiet
    /\ ctl = "loop" => refusals = 0
    /\ ctl \in {"wave", "observe", "judge"} => refusals = refused
    /\ ctl = "post" => refusals = 0 \/ summary.outcome \in Failures
    /\ ctl = "done" => refusals = 0 \/ summary.outcome \notin Passes

\* A completed fingerprint is the reference, or is still to be compared.
PrintInv ==
  \A p \in prints :
    \/ summary.nondet
    \/ p = summary.reference /\ summary.reference # Unset
    \/ ctl = "wave" /\ \E w \in Workers : wpc[w] = "complete" /\ sigs[w] = p

\* What the verdict has looked at.
VerdictInv ==
  (ctl = "done" /\ summary.outcome \in Passes) =>
    /\ ~(summary.executed > 1 /\ summary.nondet)
    /\ Expected > 0 => summary.observed > 0

RunInv == RunTypes /\ WorkersInWave /\ RefusalInv /\ PrintInv /\ VerdictInv

-----------------------------------------------------------------------------
\* computeOutcome passes only a summary without a failure.
LEMMA VerdictLooks ==
  ASSUME NEW s, s.observed \in Nat, s.outcome \in Failures \cup {"none"},
         ComputeOutcome(s) \in Passes
  PROVE  /\ s.outcome = "none"
         /\ ~(s.executed > 1 /\ s.nondet)
         /\ Expected > 0 => s.observed > 0
<1>1. s.outcome = "none"
  BY DEF ComputeOutcome, Passes, Failures
<1>2. ~(Expected > 0 /\ s.observed = 0) /\ ~(s.executed > 1 /\ s.nondet)
  BY <1>1 DEF ComputeOutcome, Passes
<1> QED BY <1>1, <1>2

\* A failure that the loop has found stays one.
LEMMA AssessKeepsFailures ==
  ASSUME NEW s, s.outcome \in Failures \cup {"none"},
         NEW diff, NEW drift, NEW window, NEW slow
  PROVE  /\ Assess(s, diff, drift, window, slow) \in Failures \cup {"none"}
         /\ s.outcome \in Failures => Assess(s, diff, drift, window, slow) \in Failures
BY DEF Assess, Failures

\* What a passing conclusion has looked at.
LEMMA ConcludeLooks ==
  ASSUME RunTypes, Conclude, summary'.outcome \in Passes
  PROVE  /\ summary.outcome = "none"
         /\ ~(summary'.executed > 1 /\ summary'.nondet)
         /\ Expected > 0 => summary'.observed > 0
<1>1. PICK diff \in {FALSE, MayDrift}, drift \in {FALSE, MayDrift},
           window \in {FALSE, MayWindow}, slow \in {FALSE, MayWindow} :
        LET s == [summary EXCEPT !.window = window,
                                 !.outcome = Assess(summary, diff, drift, window, slow)]
        IN  summary' = [s EXCEPT !.outcome = ComputeOutcome(s)]
  BY DEF Conclude
<1> DEFINE s == [summary EXCEPT !.window = window,
                                !.outcome = Assess(summary, diff, drift, window, slow)]
<1>2. summary' = [s EXCEPT !.outcome = ComputeOutcome(s)]
  BY <1>1
<1>3. /\ DOMAIN summary = Fields /\ summary.observed \in Nat
      /\ summary.outcome \in Failures \cup {"none"}
  BY DEF RunTypes, Conclude
<1>4. /\ DOMAIN s = Fields
      /\ s.outcome = Assess(summary, diff, drift, window, slow)
      /\ s.observed = summary.observed
  BY <1>3 DEF Fields
<1> HIDE DEF s
<1>5. /\ summary'.outcome = ComputeOutcome(s)
      /\ summary'.executed = s.executed /\ summary'.nondet = s.nondet
      /\ summary'.observed = s.observed
  BY <1>2, <1>4 DEF Fields
<1>6. /\ s.outcome \in Failures \cup {"none"}
      /\ summary.outcome \in Failures => s.outcome \in Failures
  BY <1>3, <1>4, AssessKeepsFailures
<1>7. /\ s.outcome = "none"
      /\ ~(s.executed > 1 /\ s.nondet)
      /\ Expected > 0 => s.observed > 0
  BY <1>3, <1>4, <1>5, <1>6, VerdictLooks
<1>8. summary.outcome = "none"
  BY <1>3, <1>6, <1>7 DEF Failures
<1> QED BY <1>5, <1>7, <1>8

\* The fingerprint of a worker is never the absent reference.
LEMMA FingerprintIsSet ==
  ASSUME RunTypes, NEW w \in Workers
  PROVE  Fingerprint(w) # Unset
<1>1. Zero # Unset
  BY DEF Zero, Unset
<1>2. sigs[w] # Unset
  <2>1. sigs[w] \in Seq(Signature)
    BY DEF RunTypes
  <2>2. Unset \notin Seq(Signature)
    <3>1. Unset[1] \notin Signature /\ Len(Unset) = 1
      BY DEF Unset, Signature
    <3> SUFFICES ASSUME Unset \in Seq(Signature)
                 PROVE  FALSE
      OBVIOUS
    <3>2. 1 \in 1..Len(Unset)
      BY <3>1
    <3>3. Unset[1] \in Signature
      BY <3>2, ElementOfSeq
    <3> QED BY <3>1, <3>3
  <2> QED BY <2>1, <2>2
<1> QED BY <1>1, <1>2 DEF Fingerprint

LEMMA InitEstablishes == Init => RunInv
BY DEF Init, RunInv, RunTypes, WorkersInWave, RefusalInv, PrintInv, VerdictInv,
   Quiet, Fields, Request

-----------------------------------------------------------------------------
\* Types and the place of the workers in the loop.
LEMMA TypesStep ==
  ASSUME RunTypes, WorkersInWave, [Next]_vars
  PROVE  RunTypes' /\ WorkersInWave'
<1> USE ReplayRunAssumption
<1>0. CASE UNCHANGED vars
  BY <1>0 DEF vars, worker, stub, RunTypes, WorkersInWave
<1>1. ASSUME NEW t \in Request, Call(t) \/ Respond(t), ctl # "done"
      PROVE  RunTypes' /\ WorkersInWave'
  BY <1>1 DEF Call, Respond, worker, stub, RunTypes, WorkersInWave
<1>2. ASSUME NEW w \in Workers, Work(w)
      PROVE  RunTypes' /\ WorkersInWave'
  <2>1. CASE CutShort(w) \/ Skip(w) \/ Send(w)
    BY <2>1 DEF Turn, CutShort, Skip, Send, stub, RunTypes, WorkersInWave, Ended
  <2>2. ASSUME NEW sig \in Signature, Hash(w, sig)
        PROVE  RunTypes' /\ WorkersInWave'
    <3>1. Append(sigs[w], sig) \in Seq(Signature)
      BY DEF RunTypes
    <3> QED BY <2>2, <3>1 DEF Hash, stub, RunTypes, WorkersInWave, Ended
  <2>3. CASE Receive(w)
    BY <2>2, <2>3 DEF Receive, Signature
  <2>4. CASE GiveUp(w)
    BY <2>2, <2>4 DEF GiveUp, Signature
  <2>5. CASE Fail(w)
    BY <2>5 DEF Fail, stub, RunTypes, WorkersInWave, Ended
  <2>6. CASE Finish(w)
    BY <2>6 DEF Finish, stub, RunTypes, WorkersInWave, Ended
  <2> QED BY <1>2, <2>1, <2>3, <2>4, <2>5, <2>6 DEF Work
<1>3. CASE Expire
  BY <1>3 DEF Expire, worker, stub, RunTypes, WorkersInWave
<1>4. CASE StartRun
  <2>1. << >> \in Seq(Signature)
    OBVIOUS
  <2>2. /\ ctl' \in {"post", "wave"} /\ seen' = 0 /\ refused' = 0
        /\ DOMAIN summary' = Fields
        /\ summary'.observed = summary.observed /\ summary'.outcome = summary.outcome
    BY <1>4 DEF StartRun, ResetStub, RunTypes, Fields
  <2>3. CASE late
    <3>1. UNCHANGED <<wpc, sigs>> /\ ctl' = "post" /\ ctl = "loop"
      BY <1>4, <2>3 DEF StartRun, worker
    <3> QED BY <2>2, <3>1 DEF RunTypes, WorkersInWave
  <2>4. CASE ~late
    <3>1. /\ ctl' = "wave" /\ ctl = "loop"
          /\ wpc' = [w \in Workers |-> "ready"]
          /\ sigs' = [w \in Workers |-> << >>]
      BY <1>4, <2>4 DEF StartRun
    <3> QED BY <2>1, <2>2, <3>1 DEF RunTypes, WorkersInWave
  <2> QED BY <2>3, <2>4
<1>5. CASE Collect
  BY <1>5 DEF Collect, worker, stub, RunTypes, WorkersInWave, Fields, Failures
<1>6. CASE Observe
  BY <1>6 DEF Observe, worker, stub, RunTypes, WorkersInWave, Fields
<1>7. CASE Judge
  BY <1>7 DEF Judge, worker, stub, RunTypes, WorkersInWave, Fields, Failures
<1>8. CASE Conclude
  BY <1>8 DEF Conclude, worker, stub, RunTypes, WorkersInWave, Fields
<1> QED
  BY <1>0, <1>1, <1>2, <1>3, <1>4, <1>5, <1>6, <1>7, <1>8 DEF Next, App, Control

\* Refusals: a run starts without any, records its own, and a run that has
\* recorded some is the last one and fails.
LEMMA RefusalStep ==
  ASSUME RunTypes, WorkersInWave, RefusalInv, [Next]_vars
  PROVE  RefusalInv'
<1>0. CASE UNCHANGED vars
  BY <1>0 DEF vars, request, stub, history, RefusalInv, Quiet
<1>1. ASSUME NEW t \in Request, Call(t) \/ Respond(t), ctl # "done"
      PROVE  RefusalInv'
  <2> SUFFICES ASSUME "judge" \notin straggled PROVE RefusalInv'
    BY <1>1 DEF Call, Respond, history, RefusalInv
  <2>1. Call(t) => todo[t] # << >>
    BY DEF Call
  <2>2. Respond(t) => app[t] = "working"
    BY DEF Respond
  <2>3. ctl \in {"wave", "observe", "judge"}
    BY <1>1, <2>1, <2>2 DEF RefusalInv, Quiet, RunTypes
  <2>4. ctl' = ctl /\ straggled' = straggled
    BY <1>1 DEF Call, Respond, history
  <2>5. refusals' = refused'
    BY <1>1, <2>3 DEF Call, Respond, history, stub, RefusalInv
  <2> QED BY <2>3, <2>4, <2>5 DEF RefusalInv
<1>2. ASSUME NEW w \in Workers, Work(w)
      PROVE  RefusalInv'
  <2>1. ctl = "wave"
    BY <1>2 DEF Work, Turn, CutShort, Skip, Send, Receive, GiveUp, Hash, Fail, Finish, WorkersInWave, Ended
  <2>2. UNCHANGED <<ctl, refused, refusals, straggled, summary>>
    BY <1>2 DEF Work, Turn, CutShort, Skip, Send, Receive, GiveUp, Hash, Fail, Finish, stub, history
  <2> QED BY <2>1, <2>2 DEF RefusalInv
<1>3. CASE Expire
  BY <1>3 DEF Expire, request, stub, history, RefusalInv, Quiet
<1>4. CASE StartRun
  BY <1>4 DEF StartRun, ResetStub, request, history, RefusalInv, Quiet
<1>5. CASE Collect
  BY <1>5 DEF Collect, request, stub, history, RefusalInv, Quiet
<1>6. CASE Observe
  BY <1>6 DEF Observe, Straggle, request, stub, RefusalInv
<1>7. CASE Judge
  <2> SUFFICES ASSUME "judge" \notin straggled' PROVE RefusalInv'
    BY DEF RefusalInv
  <2>1. "judge" \notin straggled /\ Quiet
    BY <1>7 DEF Judge, Straggle, Quiet
  <2>2. Quiet' /\ refusals' = refusals /\ refusals = refused
    BY <1>7, <2>1 DEF Judge, request, stub, RefusalInv, Quiet
  <2>3. CASE ctl' = "loop"
    BY <1>7, <2>2, <2>3 DEF Judge, RefusalInv, RunTypes
  <2>4. CASE ctl' = "post"
    <3>1. refused = 0 \/ summary'.outcome = "FAIL_NON_DETERMINISTIC"
      BY <1>7 DEF Judge, RunTypes, Fields
    <3> QED BY <2>2, <2>4, <3>1 DEF RefusalInv, Failures
  <2> QED BY <1>7, <2>3, <2>4 DEF Judge
<1>8. CASE Conclude
  <2> SUFFICES ASSUME "judge" \notin straggled PROVE RefusalInv'
    BY <1>8 DEF Conclude, history, RefusalInv
  <2>1. ctl = "post" /\ ctl' = "done" /\ refusals' = refusals
    BY <1>8 DEF Conclude, history
  <2>2. summary.outcome \in Failures => summary'.outcome \notin Passes
    BY <1>8, ConcludeLooks DEF Failures
  <2> QED BY <2>1, <2>2 DEF RefusalInv
<1> QED
  BY <1>0, <1>1, <1>2, <1>3, <1>4, <1>5, <1>6, <1>7, <1>8 DEF Next, App, Control

\* Fingerprints: a completed worker's is compared when its wave is collected,
\* before any worker starts again.
LEMMA PrintStep ==
  ASSUME RunTypes, WorkersInWave, PrintInv, [Next]_vars
  PROVE  PrintInv'
<1>0. CASE UNCHANGED vars
  BY <1>0 DEF vars, worker, history, PrintInv
<1>1. ASSUME NEW t \in Request, Call(t) \/ Respond(t)
      PROVE  PrintInv'
  BY <1>1 DEF Call, Respond, worker, history, PrintInv
<1>2. ASSUME NEW w \in Workers, Work(w)
      PROVE  PrintInv'
  <2>1. /\ ctl = "wave" /\ wpc[w] \in {"ready", "waiting"}
        /\ UNCHANGED <<ctl, summary>>
    BY <1>2 DEF Work, Turn, CutShort, Skip, Send, Receive, GiveUp, Hash, Fail, Finish, WorkersInWave, Ended
  <2>2. \A v \in Workers : wpc[v] = "complete" => wpc'[v] = "complete" /\ sigs'[v] = sigs[v]
    <3> SUFFICES ASSUME NEW v \in Workers, wpc[v] = "complete"
                 PROVE  wpc'[v] = "complete" /\ sigs'[v] = sigs[v]
      OBVIOUS
    <3>1. v # w
      BY <2>1
    <3> QED BY <1>2, <3>1 DEF Work, Turn, CutShort, Skip, Send, Receive, GiveUp, Hash, Fail, Finish, RunTypes
  <2>3. CASE prints' = prints
    BY <2>1, <2>2, <2>3 DEF PrintInv
  <2>4. CASE Finish(w)
    <3>1. prints' = prints \cup {sigs[w]} /\ wpc'[w] = "complete" /\ sigs'[w] = sigs[w]
      BY <2>4 DEF Finish, RunTypes
    <3> QED BY <2>1, <2>2, <3>1 DEF PrintInv
  <2> QED BY <1>2, <2>3, <2>4 DEF Work, Turn, CutShort, Skip, Send, Receive, GiveUp, Hash, Fail, history
<1>3. CASE Expire
  BY <1>3 DEF Expire, worker, history, PrintInv
<1>4. CASE StartRun
  <2>1. UNCHANGED prints /\ ctl = "loop"
    BY <1>4 DEF StartRun, history
  <2>2. summary'.nondet = summary.nondet /\ summary'.reference = summary.reference
    BY <1>4 DEF StartRun, RunTypes, Fields
  <2> QED BY <2>1, <2>2 DEF PrintInv
<1>5. CASE Collect
  <2> DEFINE read == {w \in Workers : wpc[w] # "failed"}
  <2>1. PICK ref : /\ summary.reference # Unset => ref = summary.reference
                   /\ summary.reference = Unset /\ read # {}
                        => \E w \in read : ref = Fingerprint(w)
                   /\ summary'.reference = ref
                   /\ summary'.nondet = (summary.nondet \/ \E w \in read : Fingerprint(w) # ref)
    BY <1>5 DEF Collect, RunTypes, Fields
  <2>2. UNCHANGED <<prints, wpc, sigs>>
    BY <1>5 DEF Collect, worker, history
  <2>3. read # {} => ref # Unset
    BY <2>1, FingerprintIsSet
  <2> SUFFICES ASSUME NEW p \in prints, ~summary'.nondet
               PROVE  p = summary'.reference /\ summary'.reference # Unset
    BY <2>2 DEF PrintInv
  <2>4. ~summary.nondet /\ \A w \in read : Fingerprint(w) = ref
    BY <2>1
  <2>5. CASE p = summary.reference /\ summary.reference # Unset
    BY <2>1, <2>5
  <2>6. CASE \E w \in Workers : wpc[w] = "complete" /\ sigs[w] = p
    <3>1. PICK w \in Workers : wpc[w] = "complete" /\ sigs[w] = p
      BY <2>6
    <3>2. w \in read /\ Fingerprint(w) = p
      BY <3>1 DEF Fingerprint
    <3> QED BY <2>1, <2>3, <2>4, <3>2
  <2> QED BY <2>4, <2>5, <2>6 DEF PrintInv
<1>6. CASE Observe
  <2>1. ctl # "wave" /\ UNCHANGED prints
    BY <1>6 DEF Observe
  <2>2. summary'.nondet = summary.nondet /\ summary'.reference = summary.reference
    BY <1>6 DEF Observe, RunTypes, Fields
  <2> QED BY <2>1, <2>2 DEF PrintInv
<1>7. CASE Judge
  <2>1. ctl # "wave" /\ UNCHANGED prints
    BY <1>7 DEF Judge
  <2>2. summary'.nondet = summary.nondet /\ summary'.reference = summary.reference
    BY <1>7 DEF Judge, RunTypes, Fields
  <2> QED BY <2>1, <2>2 DEF PrintInv
<1>8. CASE Conclude
  <2>1. ctl # "wave" /\ UNCHANGED prints
    BY <1>8 DEF Conclude, history
  <2>2. summary'.nondet = summary.nondet /\ summary'.reference = summary.reference
    BY <1>8 DEF Conclude, RunTypes, Fields
  <2> QED BY <2>1, <2>2 DEF PrintInv
<1> QED
  BY <1>0, <1>1, <1>2, <1>3, <1>4, <1>5, <1>6, <1>7, <1>8 DEF Next, App, Control

\* The verdict: nothing changes the summary once the command has concluded.
LEMMA VerdictStep ==
  ASSUME RunTypes, WorkersInWave, VerdictInv, [Next]_vars
  PROVE  VerdictInv'
<1>1. CASE Conclude
  BY <1>1, ConcludeLooks DEF VerdictInv
<1>2. CASE UNCHANGED <<ctl, summary>>
  BY <1>2 DEF VerdictInv
<1>3. CASE StartRun \/ Collect \/ Observe \/ Judge
  <2>1. ctl' # "done"
    BY <1>3 DEF StartRun, Collect, Observe, Judge
  <2> QED BY <2>1 DEF VerdictInv
<1>4. ASSUME NEW w \in Workers, Work(w)
      PROVE  UNCHANGED <<ctl, summary>>
  BY <1>4 DEF Work, Turn, CutShort, Skip, Send, Receive, GiveUp, Hash, Fail, Finish
<1>5. CASE App \/ Expire \/ UNCHANGED vars
  BY <1>2, <1>5 DEF App, Call, Respond, Expire, vars
<1> QED BY <1>1, <1>2, <1>3, <1>4, <1>5 DEF Next, Control

-----------------------------------------------------------------------------
\* The inductive invariant.
LEMMA RunInvariant == Spec => []RunInv
<1>1. RunInv /\ [Next]_vars => RunInv'
  BY TypesStep, RefusalStep, PrintStep, VerdictStep DEF RunInv
<1> QED BY InitEstablishes, <1>1, PTL DEF Spec

\* A replay that passes refused no call in any run, unless a run was judged
\* while the application had calls to make.
THEOREM PassedWithoutRefusal == Spec => []PassMeansNoRefusal
<1>1. RunInv => PassMeansNoRefusal
  BY DEF RunInv, RefusalInv, PassMeansNoRefusal, Passed, Passes
<1> QED BY <1>1, RunInvariant, PTL

\* A replay of more than one run that passes had equal fingerprints everywhere.
THEOREM PassedDeterministically == Spec => []PassMeansDeterministic
<1>1. ASSUME RunInv, Passed, summary.executed > 1
      PROVE  Cardinality(prints) <= 1
  <2>1. \A p \in prints : p = summary.reference
    BY <1>1 DEF RunInv, VerdictInv, PrintInv, Passed, Passes
  <2>2. prints \subseteq {summary.reference}
    BY <2>1
  <2>3. /\ IsFiniteSet({summary.reference}) /\ Cardinality({summary.reference}) = 1
    BY FS_Singleton
  <2> QED BY <2>2, <2>3, FS_Subset
<1>2. RunInv => PassMeansDeterministic
  BY <1>1 DEF PassMeansDeterministic
<1> QED BY <1>2, RunInvariant, PTL

\* A replay whose capture has dependencies passes only if one was called.
THEOREM PassedWithCoverage == Spec => []PassMeansCoverage
<1>1. RunInv => PassMeansCoverage
  BY DEF RunInv, VerdictInv, PassMeansCoverage, Passed, Passes
<1> QED BY <1>1, RunInvariant, PTL

-----------------------------------------------------------------------------
(* Strong passes: every run that counts has sent the whole capture from    *)
(* every worker, and only the last run does not count.                     *)

\* The requests that one run counts.
Wave == Cardinality(Sent) * Fanout

CompleteInv ==
  /\ run \in 0..Runs /\ at \in [Workers -> Nat] /\ summary.inbound \in Nat
  /\ \A w \in Workers : wpc[w] \in {"ready", "waiting", "complete"} => at[w] <= NEvents
  /\ \A w \in Workers : wpc[w] = "complete" => at[w] = NEvents
  /\ ctl = "loop" => summary.completed = run /\ summary.inbound = run * Wave
  /\ ctl = "wave" => /\ run > 0 /\ summary.completed = run - 1
                     /\ summary.inbound = (run - 1) * Wave
  /\ ctl \in {"observe", "judge"} => /\ run > 0 /\ summary.completed = run - 1
                                     /\ summary.waveComplete => summary.inbound = run * Wave
  /\ ctl \in {"post", "done"} => /\ summary.completed \in {run - 1, run}
                                 /\ summary.completed = run => summary.inbound = run * Wave
  /\ Strong => summary.completed = Runs /\ summary.observed > 0

LEMMA RequestsFinite == IsFiniteSet(1..NEvents)
<1>1. 1 \in Int /\ NEvents \in Int
  BY ReplayRunAssumption
<1> QED BY <1>1, FS_Interval

LEMMA SentType == IsFiniteSet(Sent) /\ Cardinality(Sent) \in Nat /\ Sent \subseteq 1..NEvents
<1>2. Sent \subseteq 1..NEvents
  BY DEF Sent
<1>3. IsFiniteSet(Sent)
  BY RequestsFinite, <1>2, FS_Subset
<1> QED BY <1>2, <1>3, FS_CardinalityType

LEMMA WaveType == Fanout \in Nat /\ Wave \in Nat
<1>1. Fanout \in Nat
  BY ReplayRunAssumption, FS_CardinalityType DEF Fanout
<1> QED BY <1>1, SentType DEF Wave

\* The workers of a complete wave count what safe mode lets through.
LEMMA WaveSent ==
  ASSUME \A w \in Workers : wpc[w] = "complete" /\ at[w] = NEvents
  PROVE  Cardinality(CompletedBy(Workers)) = Wave
<1>1. CompletedBy(Workers) = Workers \X Sent
  BY ReplayRunAssumption DEF CompletedBy, Sent
<1>2. Cardinality(Workers \X Sent) = Cardinality(Workers) * Cardinality(Sent)
  BY SentType, ReplayRunAssumption, FS_Product
<1>3. \A a, b \in Nat : a * b = b * a
  OBVIOUS
<1> QED BY <1>1, <1>2, <1>3, SentType, WaveType DEF Wave, Fanout

LEMMA CompletedByType ==
  ASSUME NEW R, R \subseteq Workers
  PROVE  Cardinality(CompletedBy(R)) \in Nat
<1>1. IsFiniteSet(Workers \X (1..NEvents))
  BY RequestsFinite, ReplayRunAssumption, FS_Product
<1>2. CompletedBy(R) \subseteq Workers \X (1..NEvents)
  BY DEF CompletedBy
<1> QED BY <1>1, <1>2, FS_Subset, FS_CardinalityType

LEMMA OneMoreWave ==
  ASSUME NEW n \in Int, NEW W \in Nat
  PROVE  (n - 1) * W + W = n * W
OBVIOUS

\* A strong pass has looked at the completed runs.
LEMMA ConcludeStrong ==
  ASSUME RunTypes, Conclude, summary.inbound \in Int
  PROVE  /\ summary'.completed = summary.completed /\ summary'.inbound = summary.inbound
         /\ summary'.outcome = "PASS_STRONG" =>
              /\ summary'.completed = Runs /\ summary'.observed > 0
              /\ summary'.window => summary'.inbound >= Target
<1>1. PICK diff \in {FALSE, MayDrift}, drift \in {FALSE, MayDrift},
           window \in {FALSE, MayWindow}, slow \in {FALSE, MayWindow} :
        LET s == [summary EXCEPT !.window = window,
                                 !.outcome = Assess(summary, diff, drift, window, slow)]
        IN  summary' = [s EXCEPT !.outcome = ComputeOutcome(s)]
  BY DEF Conclude
<1> DEFINE s == [summary EXCEPT !.window = window,
                                !.outcome = Assess(summary, diff, drift, window, slow)]
<1>2. summary' = [s EXCEPT !.outcome = ComputeOutcome(s)]
  BY <1>1
<1>3. /\ DOMAIN summary = Fields /\ summary.outcome \in Failures \cup {"none"}
  BY DEF RunTypes, Conclude
<1>4. /\ DOMAIN s = Fields
      /\ s.outcome = Assess(summary, diff, drift, window, slow)
      /\ s.observed = summary.observed /\ s.completed = summary.completed
      /\ s.inbound = summary.inbound /\ s.window = window
  BY <1>3 DEF Fields
<1> HIDE DEF s
<1>5. /\ summary'.outcome = ComputeOutcome(s)
      /\ summary'.completed = s.completed /\ summary'.inbound = s.inbound
      /\ summary'.observed = s.observed /\ summary'.window = s.window
  BY <1>2, <1>4 DEF Fields
<1>6. s.outcome \in Failures \cup {"none"}
  BY <1>3, <1>4, AssessKeepsFailures
<1>7. ComputeOutcome(s) = "PASS_STRONG" =>
        s.outcome = "none" /\ s.completed = Runs /\ s.observed > 0
  BY <1>6 DEF ComputeOutcome, Failures
<1>8. s.outcome = "none" /\ window => ~(s.inbound < Target)
  BY <1>4 DEF Assess
<1>9. Target \in Int /\ s.inbound \in Int
  <2>1. Fanout \in Nat
    BY WaveType
  <2>2. Target \in Int
    BY <2>1, ReplayRunAssumption DEF Target
  <2> QED BY <2>2, <1>4
<1> QED BY <1>4, <1>5, <1>7, <1>8, <1>9

\* How far a worker is.
Placed(v) == /\ wpc[v] \in {"ready", "waiting", "complete"} => at[v] <= NEvents
             /\ wpc[v] = "complete" => at[v] = NEvents

LEMMA CompleteStep ==
  ASSUME RunTypes, WorkersInWave, CompleteInv, [Next]_vars
  PROVE  CompleteInv'
<1> USE ReplayRunAssumption, WaveType
<1>0. CASE UNCHANGED vars
  BY <1>0 DEF vars, worker, CompleteInv, Strong
<1>1. ASSUME NEW t \in Request, Call(t) \/ Respond(t)
      PROVE  CompleteInv'
  BY <1>1 DEF Call, Respond, worker, CompleteInv, Strong
<1>2. ASSUME NEW w \in Workers, Work(w)
      PROVE  CompleteInv'
  <2>1. ctl = "wave" /\ UNCHANGED <<ctl, run, summary>>
    BY <1>2 DEF Work, Turn, CutShort, Skip, Send, Receive, GiveUp, Hash, Fail, Finish, WorkersInWave, Ended
  <2>2. at' \in [Workers -> Nat] /\ \A v \in Workers : Placed(v)'
    <3>a. /\ at \in [Workers -> Nat] /\ DOMAIN wpc = Workers /\ \A v \in Workers :
               /\ wpc[v] \in {"ready", "waiting", "complete"} => at[v] <= NEvents
               /\ wpc[v] = "complete" => at[v] = NEvents
      BY DEF RunTypes, CompleteInv
    <3>1. CASE CutShort(w)
      BY <3>1, <3>a DEF CutShort, Placed
    <3>5. CASE Skip(w) \/ Send(w)
      <4>1. /\ at[w] < NEvents /\ wpc[w] = "ready"
            /\ wpc' = wpc \/ wpc' = [wpc EXCEPT ![w] = "waiting"]
            /\ at' = [at EXCEPT ![w] = @ + 1]
        BY <3>5 DEF Turn, Skip, Send
      <4> QED BY <3>a, <4>1 DEF Placed
    <3>2. CASE \E sig : Hash(w, sig)
      BY <3>2 DEF Hash, RunTypes, CompleteInv, Placed
    <3>3. CASE Fail(w)
      BY <3>3 DEF Fail, RunTypes, CompleteInv, Placed
    <3>4. CASE Finish(w)
      BY <3>4 DEF Finish, RunTypes, CompleteInv, Placed
    <3>6. CutShort(w) \/ Skip(w) \/ Send(w) \/ (\E sig : Hash(w, sig)) \/ Fail(w) \/ Finish(w)
      BY <1>2 DEF Work, Receive, GiveUp
    <3> QED BY <3>1, <3>2, <3>3, <3>4, <3>5, <3>6
  <2>3. summary'.inbound \in Nat /\ ~Strong'
    BY <2>1 DEF CompleteInv, Strong
  <2> QED BY <2>1, <2>2, <2>3 DEF CompleteInv, Placed
<1>3. CASE Expire
  BY <1>3 DEF Expire, worker, CompleteInv, Strong
<1>4. CASE StartRun
  <2>1. /\ ctl = "loop" /\ run \in 0..Runs /\ run < Runs /\ run' = run + 1
        /\ summary'.completed = summary.completed /\ summary'.inbound = summary.inbound
    BY <1>4 DEF StartRun, RunTypes, Fields, CompleteInv
  <2>a. /\ run' \in 0..Runs /\ run' > 0 /\ run' - 1 = run /\ run # run'
        /\ summary'.completed = run /\ summary'.inbound = run * Wave
        /\ summary'.inbound \in Nat
    BY <2>1 DEF CompleteInv
  <2>b. summary'.inbound = (run' - 1) * Wave
    BY <2>a, Zenon
  <2>2. CASE late
    <3>1. ctl' = "post" /\ UNCHANGED <<wpc, at>>
      BY <1>4, <2>2 DEF StartRun, worker
    <3> QED BY <2>a, <3>1 DEF CompleteInv, Strong
  <2>3. CASE ~late
    <3>1. /\ ctl' = "wave" /\ wpc' = [w \in Workers |-> "ready"]
          /\ at' = [w \in Workers |-> 0]
      BY <1>4, <2>3 DEF StartRun
    <3>2. /\ at' \in [Workers -> Nat]
          /\ \A w \in Workers : wpc'[w] = "ready" /\ at'[w] <= NEvents
      BY <3>1
    <3>3. summary'.completed = run' - 1 /\ run' \in 0..Runs /\ run' > 0
      BY <2>a
    <3>4. summary'.inbound \in Nat
      BY <2>a
    <3> QED BY <2>b, <3>1, <3>2, <3>3, <3>4, Zenon DEF CompleteInv, Strong
  <2> QED BY <2>2, <2>3
<1>5. CASE Collect
  <2>1. /\ ctl = "wave" /\ ctl' = "observe" /\ UNCHANGED <<run, wpc, at>>
        /\ summary'.completed = summary.completed
        /\ summary'.waveComplete = (\A w \in Workers : wpc[w] = "complete")
    BY <1>5 DEF Collect, worker, RunTypes, Fields
  <2>2. summary'.inbound = summary.inbound
                           + Cardinality(CompletedBy({w \in Workers : wpc[w] # "failed"}))
    BY <1>5 DEF Collect, RunTypes, Fields
  <2>3. ASSUME \A w \in Workers : wpc[w] = "complete"
        PROVE  summary'.inbound = run * Wave
    <3>1. {w \in Workers : wpc[w] # "failed"} = Workers
      BY <2>3
    <3>2. Cardinality(CompletedBy(Workers)) = Wave
      BY <2>3, WaveSent DEF CompleteInv
    <3>3. run \in Int /\ summary.inbound = (run - 1) * Wave
      BY <2>1 DEF CompleteInv
    <3> QED BY <2>2, <3>1, <3>2, <3>3, OneMoreWave
  <2>4. summary'.inbound \in Nat
    <3>1. Cardinality(CompletedBy({w \in Workers : wpc[w] # "failed"})) \in Nat
      BY CompletedByType
    <3>2. summary.inbound \in Nat
      BY DEF CompleteInv
    <3> QED BY <2>2, <3>1, <3>2
  <2> QED BY <2>1, <2>3, <2>4 DEF CompleteInv, Strong
<1>6. CASE Observe
  BY <1>6 DEF Observe, worker, RunTypes, Fields, CompleteInv, Strong
<1>7. CASE Judge
  <2>1. /\ ctl = "judge" /\ UNCHANGED <<run, wpc, at>> /\ ctl' \in {"loop", "post"}
        /\ summary'.inbound = summary.inbound
        /\ \/ summary.waveComplete /\ summary'.completed = summary.completed + 1
           \/ ctl' = "post" /\ summary'.completed = summary.completed
    BY <1>7 DEF Judge, worker, RunTypes, Fields
  <2> QED BY <2>1 DEF CompleteInv, Strong
<1>8. CASE Conclude
  <2>1. ctl = "post" /\ ctl' = "done" /\ UNCHANGED <<run, wpc, at>>
    BY <1>8 DEF Conclude, worker
  <2>2. summary.inbound \in Nat /\ summary.inbound \in Int
    BY DEF CompleteInv
  <2> QED BY <1>8, <2>1, <2>2, ConcludeStrong DEF CompleteInv, Strong
<1> QED
  BY <1>0, <1>1, <1>2, <1>3, <1>4, <1>5, <1>6, <1>7, <1>8 DEF Next, App, Control

\* What the application has received: no request that is skipped, and every
\* other one of the runs that are over and of those workers have gone past.
Received(t) == app[t] # "none"

ReceivedInv ==
  /\ DOMAIN app = Request
  /\ \A t \in Request : Received(t) => t[3] \in Sent
  /\ \A t \in Request : t[3] \in Sent /\ t[1] < run => Received(t)
  /\ ctl \in {"wave", "observe", "judge"} =>
       \A t \in Request : t[3] \in Sent /\ t[1] = run /\ t[3] <= at[t[2]] => Received(t)
  /\ ctl \in {"observe", "judge"} /\ summary.waveComplete =>
       \A w \in Workers : wpc[w] = "complete"
  /\ (ctl = "loop" \/ (ctl \in {"post", "done"} /\ summary.completed = run)) =>
       \A t \in Request : t[3] \in Sent /\ t[1] = run => Received(t)

\* A window that was kept to has counted all requests.
WindowInv == Strong /\ summary.window => summary.inbound >= Target

LEMMA RequestIs ==
  ASSUME NEW t \in Request
  PROVE  /\ t[1] \in 1..Runs /\ t[2] \in Workers /\ t[3] \in 1..NEvents
         /\ t = <<t[1], t[2], t[3]>>
BY DEF Request

LEMMA ReceivedStep ==
  ASSUME RunTypes, WorkersInWave, CompleteInv, ReceivedInv, [Next]_vars
  PROVE  ReceivedInv'
<1>0. CASE UNCHANGED <<app, ctl, run, at, wpc, summary>>
  BY <1>0 DEF ReceivedInv, Received
<1>1. ASSUME NEW t \in Request, Respond(t)
      PROVE  ReceivedInv'
  <2>1. /\ UNCHANGED <<ctl, run, at, wpc, summary>> /\ DOMAIN app' = DOMAIN app
        /\ \A u \in Request : Received(u)' <=> Received(u)
    BY <1>1 DEF Respond, worker, ReceivedInv, Received
  <2> QED BY <2>1 DEF ReceivedInv
<1>2. ASSUME NEW w \in Workers, Send(w)
      PROVE  ReceivedInv'
  <2> DEFINE t == <<run, w, at[w] + 1>>
  <2>1. /\ ctl = "wave" /\ wpc[w] = "ready" /\ UNCHANGED <<ctl, run, summary>>
        /\ at' = [at EXCEPT ![w] = @ + 1] /\ app' = [app EXCEPT ![t] = "working"]
        /\ at[w] + 1 \notin Skips /\ at[w] < NEvents
    BY <1>2 DEF Turn, Send, WorkersInWave, Ended
  <2>2. /\ at \in [Workers -> Nat] /\ run \in 1..Runs /\ DOMAIN app = Request
    BY <2>1, ReplayRunAssumption DEF CompleteInv, ReceivedInv
  <2>3. at[w] + 1 \in Sent /\ at[w] \in Nat
    BY <2>1, <2>2, ReplayRunAssumption DEF Sent
  <2>4. t \in Request
    BY <2>2, <2>3, SentType DEF Request
  <2>5. \A u \in Request : Received(u)' <=> (Received(u) \/ u = t)
    BY <2>1, <2>2, <2>4 DEF Received
  <2>6. t[3] \in Sent
    BY <2>3
  <2>7. ASSUME NEW u \in Request, u[1] = run, u[3] <= at'[u[2]], u # t
        PROVE  u[3] <= at[u[2]]
    <3>1. u[2] \in Workers /\ u[3] \in Nat /\ u = <<run, u[2], u[3]>>
      BY <2>7, RequestIs
    <3>2. u[2] = w => u[3] # at[w] + 1
      BY <2>7, <3>1
    <3>3. at'[u[2]] = IF u[2] = w THEN at[w] + 1 ELSE at[u[2]]
      BY <2>1, <2>2, <3>1
    <3> QED BY <2>3, <2>7, <3>1, <3>2, <3>3
  <2> HIDE DEF t
  <2> QED BY <2>1, <2>2, <2>5, <2>6, <2>7 DEF ReceivedInv
<1>3. ASSUME NEW w \in Workers, Skip(w)
      PROVE  ReceivedInv'
  <2>1. /\ ctl = "wave" /\ UNCHANGED <<ctl, run, app, wpc, summary>>
        /\ at' = [at EXCEPT ![w] = @ + 1] /\ at[w] + 1 \notin Sent
        /\ at \in [Workers -> Nat]
    BY <1>3 DEF Turn, Skip, request, WorkersInWave, Ended, Sent, CompleteInv
  <2>2. ASSUME NEW u \in Request, u[3] \in Sent, u[3] <= at'[u[2]]
        PROVE  u[3] <= at[u[2]]
    <3>1. u[2] \in Workers /\ u[3] \in Nat /\ u[3] # at[w] + 1
      BY <2>1, <2>2, RequestIs
    <3>2. at'[u[2]] = IF u[2] = w THEN at[w] + 1 ELSE at[u[2]]
      BY <2>1, <3>1
    <3> QED BY <2>1, <2>2, <3>1, <3>2
  <2> QED BY <2>1, <2>2 DEF ReceivedInv, Received
<1>4. ASSUME NEW w \in Workers, CutShort(w) \/ (\E sig : Hash(w, sig)) \/ Fail(w) \/ Finish(w)
      PROVE  ReceivedInv'
  <2>1. ctl = "wave" /\ UNCHANGED <<ctl, run, app, at, summary>>
    BY <1>4 DEF Turn, CutShort, Hash, Fail, Finish, request, WorkersInWave, Ended
  <2> QED BY <2>1 DEF ReceivedInv, Received
<1>5. CASE StartRun
  <2>1. /\ ctl = "loop" /\ run' = run + 1 /\ app' = app /\ run \in 0..Runs
        /\ summary'.completed = summary.completed /\ summary.completed = run
    BY <1>5 DEF StartRun, request, RunTypes, Fields, CompleteInv
  <2>2. /\ ctl' \in {"post", "wave"}
        /\ ctl' = "wave" => at' = [w \in Workers |-> 0]
    BY <1>5 DEF StartRun
  <2>3. \A t \in Request : t[1] < run + 1 <=> t[1] < run \/ t[1] = run
    BY <2>1, RequestIs
  <2>4. ASSUME ctl' = "wave", NEW t \in Request
        PROVE  ~(t[3] <= at'[t[2]])
    <3>1. t[2] \in Workers /\ t[3] \in 1..NEvents
      BY RequestIs
    <3>2. at'[t[2]] = 0
      BY <2>2, <2>4, <3>1
    <3> QED BY <3>1, <3>2
  <2>5. run' # summary'.completed
    BY <2>1
  <2> QED BY <2>1, <2>2, <2>3, <2>4, <2>5 DEF ReceivedInv, Received
<1>6. CASE Collect
  <2>1. /\ ctl = "wave" /\ ctl' = "observe" /\ UNCHANGED <<run, wpc, at, app>>
        /\ summary'.waveComplete = (\A w \in Workers : wpc[w] = "complete")
    BY <1>6 DEF Collect, worker, request, RunTypes, Fields
  <2> QED BY <2>1 DEF ReceivedInv, Received
<1>7. CASE Observe
  <2>1. /\ ctl = "observe" /\ ctl' = "judge" /\ UNCHANGED <<run, wpc, at, app>>
        /\ summary'.waveComplete = summary.waveComplete
    BY <1>7 DEF Observe, worker, request, RunTypes, Fields
  <2> QED BY <2>1 DEF ReceivedInv, Received
<1>8. CASE Judge
  <2>1. /\ ctl = "judge" /\ ctl' \in {"loop", "post"} /\ UNCHANGED <<run, wpc, at, app>>
        /\ \/ summary.waveComplete
           \/ ctl' = "post" /\ summary'.completed = summary.completed
        /\ run > 0 /\ summary.completed = run - 1 /\ run \in 0..Runs
    BY <1>8 DEF Judge, worker, request, RunTypes, Fields, CompleteInv
  <2>2. ASSUME summary.waveComplete, NEW t \in Request, t[3] \in Sent, t[1] = run
        PROVE  Received(t)
    <3>1. t[2] \in Workers /\ t[3] \in 1..NEvents /\ at[t[2]] = NEvents
      BY <2>1, <2>2, RequestIs DEF ReceivedInv, CompleteInv
    <3>2. t[3] <= at[t[2]]
      BY <3>1
    <3> QED BY <2>1, <2>2, <3>2 DEF ReceivedInv
  <2>3. summary'.completed = summary.completed => summary'.completed # run'
    BY <2>1
  <2> QED BY <2>1, <2>2, <2>3 DEF ReceivedInv, Received
<1>9. CASE Conclude
  <2>1. ctl = "post" /\ ctl' = "done" /\ UNCHANGED <<run, wpc, at, app>>
    BY <1>9 DEF Conclude, worker, request
  <2>2. summary'.completed = summary.completed
    BY <1>9, ConcludeStrong DEF CompleteInv
  <2> QED BY <2>1, <2>2 DEF ReceivedInv, Received
<1>10. CASE UNCHANGED vars \/ Expire \/ \E t \in Request : Call(t)
  BY <1>0, <1>10 DEF vars, worker, request, Expire, Call
<1> QED
  BY <1>1, <1>2, <1>3, <1>4, <1>5, <1>6, <1>7, <1>8, <1>9, <1>10
  DEF Next, App, Control, Work, Receive, GiveUp

LEMMA WindowStep ==
  ASSUME RunTypes, WorkersInWave, CompleteInv, WindowInv, [Next]_vars
  PROVE  WindowInv'
<1>1. CASE Conclude
  BY <1>1, ConcludeStrong DEF WindowInv, Strong, CompleteInv
<1>2. CASE UNCHANGED <<ctl, summary>>
  BY <1>2 DEF WindowInv, Strong
<1>3. CASE StartRun \/ Collect \/ Observe \/ Judge
  <2>1. ctl' # "done"
    BY <1>3 DEF StartRun, Collect, Observe, Judge
  <2> QED BY <2>1 DEF WindowInv, Strong
<1>4. ASSUME NEW w \in Workers, Work(w)
      PROVE  UNCHANGED <<ctl, summary>>
  BY <1>4 DEF Work, CutShort, Skip, Send, Receive, GiveUp, Hash, Fail, Finish
<1>5. CASE App \/ Expire \/ UNCHANGED vars
  BY <1>2, <1>5 DEF App, Call, Respond, Expire, vars
<1> QED BY <1>1, <1>2, <1>3, <1>4, <1>5 DEF Next, Control

LEMMA CompleteInvariant == Spec => [](RunInv /\ CompleteInv /\ ReceivedInv /\ WindowInv)
<1>1. Init => CompleteInv /\ ReceivedInv /\ WindowInv
  <2> SUFFICES ASSUME Init PROVE CompleteInv /\ ReceivedInv /\ WindowInv
    OBVIOUS
  <2>1. /\ run = 0 /\ ctl = "loop" /\ at \in [Workers -> Nat]
        /\ \A w \in Workers : wpc[w] = "idle"
        /\ summary.completed = 0 /\ summary.inbound = 0
        /\ app = [t \in Request |-> "none"]
    BY DEF Init
  <2>2. 0 * Wave = 0
    BY WaveType
  <2>3. \A t \in Request : ~Received(t) /\ ~(t[1] <= 0)
    BY <2>1, RequestIs DEF Received
  <2>4. CompleteInv
    BY <2>1, <2>2, ReplayRunAssumption DEF CompleteInv, Strong
  <2>5. ASSUME NEW t \in Request PROVE t[1] # 0 /\ ~(t[1] < 0)
    BY RequestIs
  <2>6. ReceivedInv
    BY <2>1, <2>3, <2>5 DEF ReceivedInv
  <2> QED BY <2>1, <2>4, <2>6 DEF WindowInv, Strong
<1>2. (RunInv /\ CompleteInv /\ ReceivedInv /\ WindowInv) /\ [Next]_vars
        => (CompleteInv /\ ReceivedInv /\ WindowInv)'
  BY CompleteStep, ReceivedStep, WindowStep DEF RunInv
<1> QED BY <1>1, <1>2, RunInvariant, PTL DEF Spec

\* A strong pass means that every requested run was completed by all workers,
\* each of which sent and counted all that safe mode lets through - with a
\* window, the whole capture -, and that dependencies were called.
THEOREM StrongIsComplete == Spec => []StrongMeansComplete
<1>1. ASSUME CompleteInv, ReceivedInv, WindowInv, Strong
      PROVE  StrongMeansComplete
  <2>1. /\ summary.completed = Runs /\ summary.observed > 0 /\ run \in 0..Runs
        /\ summary.completed \in {run - 1, run}
    BY <1>1 DEF CompleteInv, Strong
  <2>2. run = Runs
    BY <2>1, ReplayRunAssumption
  <2>3. summary.inbound = run * Wave
    BY <1>1, <2>1, <2>2 DEF CompleteInv, Strong
  <2> DEFINE C == Cardinality(Sent)
             B == Runs * Fanout
  <2>4. C \in Nat /\ Runs \in Nat \ {0} /\ Fanout \in Nat \ {0} /\ NEvents \in Nat
    BY SentType, WaveType, ReplayRunAssumption, FS_EmptySet DEF Fanout
  <2>5. Wave = C * Fanout /\ Target = NEvents * Runs * Fanout
    BY DEF Wave, Target
  <2> HIDE DEF C
  <2>6. \A a, b, c \in Nat : a * (b * c) = b * a * c /\ b * a * c = b * (a * c)
    OBVIOUS
  <2>7. summary.inbound = C * Runs * Fanout /\ summary.inbound = C * B
    BY <2>2, <2>3, <2>4, <2>5, <2>6
  <2>8. Target = NEvents * B /\ B \in Nat \ {0}
    <3>1. \A a, b \in Nat \ {0} : a * b \in Nat \ {0}
      OBVIOUS
    <3> QED BY <2>4, <2>5, <2>6, <3>1
  <2>9. ASSUME summary.window
        PROVE  Skips = {}
    <3>1. C * B >= NEvents * B
      BY <1>1, <2>7, <2>8, <2>9 DEF WindowInv
    <3>2. \A a, b \in Nat, c \in Nat \ {0} : a * c >= b * c => a >= b
      OBVIOUS
    <3> HIDE DEF B
    <3>3. C >= NEvents
      BY <2>4, <2>8, <3>1, <3>2
    <3>4. NEvents \in Int /\ 1 \in Int /\ NEvents >= 1
      BY ReplayRunAssumption
    <3>5. Cardinality(1..NEvents) = NEvents
      BY <3>4, FS_Interval
    <3>6. C <= NEvents /\ (C = NEvents => Sent = 1..NEvents)
      BY <3>5, RequestsFinite, SentType, FS_Subset DEF C
    <3>7. Sent = 1..NEvents
      BY <2>4, <3>3, <3>6
    <3> QED BY <3>7, ReplayRunAssumption DEF Sent
  <2>10. ASSUME NEW t \in Request
         PROVE  (app[t] # "none") <=> (t[3] \notin Skips)
    <3>1. t[3] \in Sent <=> t[3] \notin Skips
      BY RequestIs DEF Sent
    <3>2. t[1] \in 1..Runs
      BY RequestIs
    <3>3. t[1] < run \/ t[1] = run
      BY <2>2, <2>4, <3>2
    <3> QED BY <1>1, <2>1, <2>2, <3>1, <3>3 DEF ReceivedInv, Received, Strong
  <2> QED BY <2>1, <2>2, <2>7, <2>9, <2>10 DEF StrongMeansComplete, C
<1>2. CompleteInv /\ ReceivedInv /\ WindowInv => StrongMeansComplete
  BY <1>1 DEF StrongMeansComplete
<1> QED BY <1>2, CompleteInvariant, PTL

-----------------------------------------------------------------------------
(* A faithful application: its calls, counted. *)

\* The conditions of FaithfulAppPasses that no step changes.
Regular == Faithful /\ Total > 0 /\ ~(MayFail \/ MayDrift \/ MayWindow)

OfKind(S, k) == {c \in S : KindOf(c) = k}

LEMMA ScriptIs ==
  ASSUME Faithful, NEW n \in 1..NEvents
  PROVE  /\ Scripts[n] = {Script(n)} /\ Script(n) \in Seq(Kinds)
         /\ Len(Script(n)) \in Nat /\ DOMAIN Script(n) = 1..Len(Script(n))
         /\ \A m \in 1..Len(Script(n)) : Script(n)[m] \in Kinds
<1>1. Scripts[n] = {Script(n)}
  BY DEF Faithful
<1>2. Script(n) \in Seq(Kinds)
  BY <1>1, ReplayRunAssumption
<1> HIDE DEF Script
<1> QED BY <1>1, <1>2

LEMMA CallIs ==
  ASSUME Faithful, NEW c \in Calls
  PROVE  /\ c = <<c[1], c[2]>> /\ c[1] \in 1..NEvents
         /\ c[2] \in 1..Len(Script(c[1])) /\ KindOf(c) \in Kinds
<1>1. PICK n \in 1..NEvents : c \in {n} \X DOMAIN Script(n)
  BY DEF Calls
<1>2. c = <<c[1], c[2]>> /\ c[1] = n /\ c[2] \in DOMAIN Script(n)
  BY <1>1
<1> QED BY <1>2, ScriptIs DEF KindOf

LEMMA CallsFinite ==
  ASSUME Faithful
  PROVE  IsFiniteSet(Calls)
<1> DEFINE of(n) == {n} \X DOMAIN Script(n)
           T     == {of(n) : n \in 1..NEvents}
           f     == [n \in 1..NEvents |-> of(n)]
<1>1. ASSUME NEW n \in 1..NEvents PROVE IsFiniteSet(of(n))
  <2>1. 1 \in Int /\ Len(Script(n)) \in Int /\ of(n) = {n} \X (1..Len(Script(n)))
    BY ScriptIs
  <2>2. IsFiniteSet(1..Len(Script(n)))
    BY <2>1, FS_Interval
  <2>3. IsFiniteSet({n})
    BY FS_Singleton
  <2>4. IsFiniteSet({n} \X (1..Len(Script(n))))
    BY <2>2, <2>3, FS_Product
  <2> QED BY <2>1, <2>4
<1>2. IsFiniteSet(1..NEvents)
  BY RequestsFinite
<1>3. Calls = UNION T
  BY DEF Calls
<1> HIDE DEF of
<1>4. (\A t \in T : IsFiniteSet(t)) /\ f \in Surjection(1..NEvents, T)
  BY <1>1 DEF Surjection
<1> HIDE DEF T, f
<1>5. IsFiniteSet(T)
  BY <1>2, <1>4, FS_Surjection
<1>6. IsFiniteSet(UNION T)
  BY <1>4, <1>5, FS_UNION
<1> QED BY <1>3, <1>6

\* The application makes as many calls as were captured.
LEMMA CallsAreCaptured ==
  ASSUME Faithful
  PROVE  IsFiniteSet(Calls) /\ Cardinality(Calls) = Total
<1> DEFINE Log == UNION {{k} \X (1..Captured[k]) : k \in Kinds}
           F   == [k \in Kinds |-> CHOOSE f : f \in Bijection(1..Captured[k], OfKind(Calls, k))]
           g   == [q \in Log |-> F[q[1]][q[2]]]
<1>1. ASSUME NEW k \in Kinds
      PROVE  F[k] \in Bijection(1..Captured[k], OfKind(Calls, k))
  <2>1. IsFiniteSet(OfKind(Calls, k))
    BY CallsFinite, FS_Subset DEF OfKind
  <2>2. Cardinality(OfKind(Calls, k)) = Captured[k]
    BY DEF Faithful, OfKind
  <2>3. ExistsBijection(1..Captured[k], OfKind(Calls, k))
    BY <2>1, <2>2, FS_CardinalityType
  <2>4. \E f : f \in Bijection(1..Captured[k], OfKind(Calls, k))
    BY <2>3 DEF ExistsBijection
  <2> QED BY <2>4
<1>2. ASSUME NEW q \in Log
      PROVE  /\ q = <<q[1], q[2]>> /\ q[1] \in Kinds /\ q[2] \in 1..Captured[q[1]]
  OBVIOUS
<1>3. \A k \in Kinds : \A n \in 1..Captured[k] : <<k, n>> \in Log
  OBVIOUS
<1> HIDE DEF F, Log
<1>4. ASSUME NEW q \in Log
      PROVE  g[q] \in Calls /\ KindOf(g[q]) = q[1]
  <2>1. F[q[1]][q[2]] \in OfKind(Calls, q[1])
    BY <1>1, <1>2 DEF Bijection, Surjection
  <2> QED BY <2>1 DEF OfKind
<1>5. ASSUME NEW p \in Log, NEW q \in Log, g[p] = g[q]
      PROVE  p = q
  <2>1. p[1] = q[1]
    BY <1>4, <1>5
  <2>2. F[p[1]][p[2]] = F[p[1]][q[2]] /\ p[2] \in 1..Captured[p[1]] /\ q[2] \in 1..Captured[p[1]]
    BY <1>2, <1>5, <2>1
  <2>3. p[2] = q[2]
    <3>1. F[p[1]] \in Bijection(1..Captured[p[1]], OfKind(Calls, p[1]))
      BY <1>1, <1>2
    <3>2. \A m, n \in 1..Captured[p[1]] : F[p[1]][m] = F[p[1]][n] => m = n
      BY <3>1 DEF Bijection, Injection, IsInjective
    <3> QED BY <2>2, <3>2
  <2> QED BY <1>2, <2>1, <2>3
<1>6. ASSUME NEW c \in Calls
      PROVE  \E q \in Log : g[q] = c
  <2>1. KindOf(c) \in Kinds /\ c \in OfKind(Calls, KindOf(c))
    BY CallIs DEF OfKind
  <2>2. PICK n \in 1..Captured[KindOf(c)] : F[KindOf(c)][n] = c
    BY <1>1, <2>1 DEF Bijection, Surjection
  <2>3. <<KindOf(c), n>> \in Log
    BY <1>3, <2>1
  <2> QED BY <2>2, <2>3
<1>7. ExistsBijection(Log, Calls)
  <2>1. g \in [Log -> Calls]
    BY <1>4
  <2> HIDE DEF g
  <2>2. g \in Bijection(Log, Calls)
    BY <1>5, <1>6, <2>1 DEF Bijection, Injection, IsInjective, Surjection
  <2> QED BY <2>2 DEF ExistsBijection
<1> HIDE DEF g
<1>a. ExistsBijection(Calls, Log)
  BY <1>7, Fun_ExistsBijSymmetric
<1>8. IsFiniteSet(Calls) /\ ExistsBijection(Calls, Log)
  BY <1>a, CallsFinite
<1>9. Cardinality(Log) = Cardinality(Calls)
  BY <1>8, FS_Bijection
<1> QED BY <1>8, <1>9 DEF Total, Log

\* All workers' calls, and those of a kind.
Slots == Workers \X Calls
OfSlot(S, k) == {p \in S : KindOf(p[2]) = k}

LEMMA SlotsCount ==
  ASSUME Faithful
  PROVE  /\ IsFiniteSet(Slots) /\ Cardinality(Slots) = Budget
         /\ \A k \in Kinds : Cardinality(OfSlot(Slots, k)) = Captured[k] * Multiplier
<1>1. IsFiniteSet(Slots) /\ Cardinality(Slots) = Cardinality(Workers) * Cardinality(Calls)
  BY CallsAreCaptured, ReplayRunAssumption, FS_Product DEF Slots
<1>2. Total \in Nat /\ Cardinality(Calls) = Total
  BY CallsAreCaptured, FS_CardinalityType
<1>3. \A a, b \in Nat : a * b = b * a
  OBVIOUS
<1>4. Cardinality(Slots) = Budget
  BY <1>1, <1>2, <1>3, WaveType DEF Budget, Fanout
<1>5. ASSUME NEW k \in Kinds
      PROVE  Cardinality(OfSlot(Slots, k)) = Captured[k] * Multiplier
  <2>1. OfSlot(Slots, k) = Workers \X OfKind(Calls, k)
    BY DEF OfSlot, Slots, OfKind
  <2>2. IsFiniteSet(OfKind(Calls, k))
    BY CallsFinite, FS_Subset DEF OfKind
  <2>3. Cardinality(OfKind(Calls, k)) = Captured[k]
    BY DEF Faithful, OfKind
  <2>4. Cardinality(OfSlot(Slots, k)) = Fanout * Captured[k]
    BY <2>1, <2>2, <2>3, ReplayRunAssumption, FS_Product DEF Fanout
  <2> QED BY <1>3, <2>4, WaveType, ReplayRunAssumption DEF Multiplier
<1> QED BY <1>1, <1>4, <1>5

-----------------------------------------------------------------------------
(* A faithful application passes: while nothing is late, given up on or left
   over, every call made so far is one of the run's slots. *)

NoError(p) == \A n \in 1..Len(p) : p[n] # "error"

\* The conditions of FaithfulAppPasses on the state, said of every state.
Smooth == /\ ~late /\ straggled = {}
          /\ \A p \in prints : NoError(p)
          /\ \A w \in Workers : NoError(sigs[w])

\* How workers end, and what the application still has.
EndInv ==
  /\ \A w \in Workers : /\ wpc[w] = "expanded" => late
                        /\ wpc[w] = "failed" => MayFail
                        /\ wpc[w] = "complete" => sigs[w] \in prints
                        /\ wpc[w] = "idle" => sigs[w] = << >>
  /\ todo \in [Request -> Seq(Kinds)] /\ healthy \in [Request -> BOOLEAN]
  /\ DOMAIN uses = Kinds /\ prints \subseteq Seq(Signature)

InRun == ctl \in {"wave", "observe", "judge"}

\* The calls of this run that have been made.
Made == {p \in Slots : /\ p[2][1] <= at[p[1]] /\ p[2][1] \in Sent
                       /\ p[2][2] + Len(todo[<<run, p[1], p[2][1]>>]) <= Len(Script(p[2][1]))}

\* What a request has still to do is the end of its script.
Rest(q, s) == Len(q) <= Len(s) /\ \A m \in 1..Len(q) : q[m] = s[(Len(s) - Len(q)) + m]

CallsInv == InRun =>
  /\ seen = Cardinality(Made) /\ budget = Budget /\ refused = 0
  /\ \A k \in Kinds : uses[k] = Cardinality(OfSlot(Made, k))
  /\ \A w \in Workers, j \in 1..NEvents :
       IF j <= at[w] /\ j \in Sent
       THEN Rest(todo[<<run, w, j>>], Script(j)) ELSE todo[<<run, w, j>>] = << >>

AppInv == \A t \in Request : healthy[t] /\ (todo[t] # << >> => InRun /\ t[1] = run)

AllGood == [n \in 1..Cardinality(Sent) |-> "good"]

\* The requests up to the n-th that are sent.
SentUpTo(n) == {j \in Sent : j <= n}

\* A captured call is made by a request that is sent.
Covered == \E c \in Calls : c[1] \in Sent

SigsInv ==
  /\ \A w \in Workers : /\ \A n \in 1..Len(sigs[w]) : sigs[w][n] = "good"
                        /\ wpc[w] # "idle" =>
                             Len(sigs[w]) = IF wpc[w] = "waiting"
                                            THEN Cardinality(SentUpTo(at[w])) - 1
                                            ELSE Cardinality(SentUpTo(at[w]))
  /\ prints \subseteq {AllGood}
  /\ ctl \in {"observe", "judge"} => \A w \in Workers : wpc[w] = "complete"

SumInv ==
  /\ ctl # "done" => /\ summary.outcome = "none" /\ summary.reason = "none"
                     /\ summary.nondet = FALSE /\ summary.reference \in {Unset, AllGood}
  /\ ctl = "loop" => run < Runs
  /\ ctl \in {"observe", "judge"} => summary.waveComplete
  /\ ctl \in {"judge", "post"} /\ Covered => summary.observed > 0
  /\ ~Covered => summary.observed = 0
  /\ ctl = "post" => summary.completed = Runs
  /\ ctl = "done" => summary.outcome = IF Covered THEN "PASS_STRONG" ELSE "FAIL_NO_COVERAGE"

GoodInv == CallsInv /\ AppInv /\ SigsInv /\ SumInv

-----------------------------------------------------------------------------
LEMMA EndStep ==
  ASSUME RunTypes, WorkersInWave, CompleteInv, EndInv, [Next]_vars
  PROVE  EndInv'
<1> USE ReplayRunAssumption
<1>0. CASE UNCHANGED vars
  BY <1>0 DEF vars, worker, request, stub, history, EndInv
<1>1. ASSUME NEW t \in Request, Call(t)
      PROVE  EndInv'
  <2>1. Tail(todo[t]) \in Seq(Kinds)
    BY <1>1 DEF Call, EndInv
  <2>2. todo' \in [Request -> Seq(Kinds)] /\ healthy' \in [Request -> BOOLEAN] /\ DOMAIN uses' = Kinds
    BY <1>1, <2>1 DEF Call, EndInv
  <2> QED BY <1>1, <2>2 DEF Call, worker, EndInv
<1>2. ASSUME NEW t \in Request, Respond(t)
      PROVE  EndInv'
  BY <1>2 DEF Respond, worker, stub, history, EndInv
<1>3. ASSUME NEW w \in Workers, Work(w)
      PROVE  EndInv'
  <2>0. DOMAIN wpc = Workers /\ DOMAIN sigs = Workers /\ wpc[w] \in {"ready", "waiting"}
        /\ \A v \in Workers : sigs[v] \in Seq(Signature)
    BY <1>3 DEF Work, Turn, CutShort, Skip, Send, Receive, GiveUp, Hash, Fail, Finish, RunTypes
  <2>1. CASE Send(w)
    <3>1. at[w] + 1 \in 1..NEvents
      BY <2>1 DEF Turn, Send, CompleteInv
    <3>2. PICK q \in Scripts[at[w] + 1] : todo' = [todo EXCEPT ![<<run, w, at[w] + 1>>] = q]
      BY <2>1 DEF Send
    <3>3. q \in Seq(Kinds)
      BY <3>1, <3>2
    <3>4. todo' \in [Request -> Seq(Kinds)]
      BY <3>2, <3>3 DEF EndInv
    <3> QED BY <2>0, <2>1, <3>4 DEF Turn, Send, stub, history, EndInv
  <2>5. CASE CutShort(w) \/ Skip(w)
    BY <2>0, <2>5 DEF Turn, CutShort, Skip, request, stub, history, EndInv
  <2>2. ASSUME NEW sig, Hash(w, sig)
        PROVE  EndInv'
    BY <2>0, <2>2 DEF Hash, request, stub, history, EndInv
  <2>3. CASE Fail(w)
    BY <2>0, <2>3 DEF Fail, request, stub, history, EndInv
  <2>4. CASE Finish(w)
    BY <2>0, <2>4 DEF Finish, request, stub, EndInv
  <2> QED BY <1>3, <2>1, <2>2, <2>3, <2>4, <2>5 DEF Work, Receive, GiveUp
<1>4. CASE Expire
  BY <1>4 DEF Expire, worker, request, stub, history, EndInv
<1>5. CASE StartRun
  <2>1. UNCHANGED <<late, todo, healthy, prints>> /\ DOMAIN uses' = Kinds
    BY <1>5 DEF StartRun, ResetStub, request, history
  <2>2. CASE late
    BY <1>5, <2>1, <2>2 DEF StartRun, worker, EndInv
  <2>3. CASE ~late
    BY <1>5, <2>1, <2>3 DEF StartRun, EndInv
  <2> QED BY <2>2, <2>3
<1>6. CASE Collect
  BY <1>6 DEF Collect, worker, request, stub, history, EndInv
<1>7. CASE Observe
  BY <1>7 DEF Observe, worker, request, stub, EndInv
<1>8. CASE Judge
  BY <1>8 DEF Judge, worker, request, stub, EndInv
<1>9. CASE Conclude
  BY <1>9 DEF Conclude, worker, request, stub, history, EndInv
<1> QED
  BY <1>0, <1>1, <1>2, <1>3, <1>4, <1>5, <1>6, <1>7, <1>8, <1>9 DEF Next, App, Control

\* What is smooth after a step was smooth before it.
LEMMA SmoothBack ==
  ASSUME RunTypes, WorkersInWave, EndInv, ~MayFail, [Next]_vars, Smooth'
  PROVE  Smooth
<1>1. ~late /\ straggled = {}
  <2>1. late => late'
    BY DEF Next, vars, Control, App, Work, Turn, Expire, Call, Respond, CutShort, Skip, Send, Receive, GiveUp, Hash, Fail,
       Finish, StartRun, Collect, Observe, Judge, Conclude
  <2>2. straggled \subseteq straggled'
    BY DEF Next, vars, history, Control, App, Work, Turn, Expire, Call, Respond, CutShort, Skip, Send, Receive, GiveUp, Hash,
       Fail, Finish, StartRun, Collect, Observe, Judge, Conclude, Straggle
  <2> QED BY <2>1, <2>2 DEF Smooth
<1>2. prints \subseteq prints'
  BY DEF Next, vars, history, Control, App, Work, Turn, Expire, Call, Respond, CutShort, Skip, Send, Receive, GiveUp, Hash,
     Fail, Finish, StartRun, Collect, Observe, Judge, Conclude
<1>3. \A p \in prints : NoError(p)
  BY <1>2 DEF Smooth
<1>4. CASE sigs' = sigs
  BY <1>1, <1>3, <1>4 DEF Smooth
<1>5. ASSUME NEW w \in Workers, NEW sig, Hash(w, sig)
      PROVE  Smooth
  <2>1. sigs' = [sigs EXCEPT ![w] = Append(@, sig)]
    BY <1>5 DEF Hash
  <2>2. /\ DOMAIN sigs = Workers /\ Len(sigs[w]) \in Nat
        /\ Len(Append(sigs[w], sig)) = Len(sigs[w]) + 1
        /\ \A n \in 1..Len(sigs[w]) : Append(sigs[w], sig)[n] = sigs[w][n]
    BY DEF RunTypes
  <2>3. NoError(sigs'[w]) => NoError(sigs[w])
    BY <2>1, <2>2 DEF NoError
  <2>4. \A v \in Workers : NoError(sigs[v])
    BY <2>1, <2>2, <2>3 DEF Smooth
  <2> QED BY <1>1, <1>3, <2>4 DEF Smooth
<1>6. CASE StartRun
  <2>1. ASSUME NEW w \in Workers PROVE NoError(sigs[w])
    <3>1. wpc[w] \in {"complete", "idle"}
      BY <1>1, <1>6 DEF StartRun, WorkersInWave, Ended, EndInv
    <3>2. Len(<< >>) = 0
      OBVIOUS
    <3> QED BY <1>3, <3>1, <3>2 DEF EndInv, NoError
  <2> QED BY <1>1, <1>3, <2>1 DEF Smooth
<1> QED
  BY <1>4, <1>5, <1>6 DEF Next, vars, worker, Control, App, Work, Turn, Expire, Call, Respond, CutShort, Skip, Send, Receive,
     GiveUp, Fail, Finish, Collect, Observe, Judge, Conclude

\* The calls made are finitely many, and fewer than the slots while one is open.
LEMMA OpenSlot ==
  ASSUME Faithful, NEW S, S \subseteq Slots, NEW q \in Slots, q \notin S
  PROVE  /\ IsFiniteSet(S) /\ Cardinality(S) \in Nat /\ Cardinality(S) < Budget
         /\ Cardinality(S \cup {q}) = Cardinality(S) + 1
         /\ \A k \in Kinds : KindOf(q[2]) = k =>
              /\ Cardinality(OfSlot(S, k)) \in Nat
              /\ Cardinality(OfSlot(S, k)) < Captured[k] * Multiplier
              /\ Cardinality(OfSlot(S \cup {q}, k)) = Cardinality(OfSlot(S, k)) + 1
         /\ \A k \in Kinds : KindOf(q[2]) # k => OfSlot(S \cup {q}, k) = OfSlot(S, k)
<1>1. ASSUME NEW A, IsFiniteSet(A), NEW B, B \subseteq A, q \in A, q \notin B
      PROVE  /\ IsFiniteSet(B) /\ Cardinality(B) \in Nat /\ Cardinality(B) < Cardinality(A)
             /\ Cardinality(B \cup {q}) = Cardinality(B) + 1
  <2>1. IsFiniteSet(B) /\ Cardinality(B) <= Cardinality(A) /\ Cardinality(A) # Cardinality(B)
    BY <1>1, FS_Subset
  <2>2. Cardinality(B) \in Nat /\ Cardinality(A) \in Nat
    BY <1>1, <2>1, FS_CardinalityType
  <2>3. Cardinality(B \cup {q}) = Cardinality(B) + 1
    BY <1>1, <2>1, FS_AddElement
  <2> QED BY <2>1, <2>2, <2>3
<1>2. IsFiniteSet(Slots) /\ Cardinality(Slots) = Budget
  BY SlotsCount
<1>3. ASSUME NEW k \in Kinds
      PROVE  /\ KindOf(q[2]) = k =>
                  /\ Cardinality(OfSlot(S, k)) \in Nat
                  /\ Cardinality(OfSlot(S, k)) < Captured[k] * Multiplier
                  /\ Cardinality(OfSlot(S \cup {q}, k)) = Cardinality(OfSlot(S, k)) + 1
             /\ KindOf(q[2]) # k => OfSlot(S \cup {q}, k) = OfSlot(S, k)
  <2>1. /\ IsFiniteSet(OfSlot(Slots, k)) /\ OfSlot(S, k) \subseteq OfSlot(Slots, k)
        /\ q \notin OfSlot(S, k)
    BY <1>2, FS_Subset DEF OfSlot
  <2>2. Cardinality(OfSlot(S, k)) \in Nat
    BY <2>1, FS_Subset, FS_CardinalityType
  <2>3. CASE KindOf(q[2]) = k
    <3>1. q \in OfSlot(Slots, k) /\ OfSlot(S \cup {q}, k) = OfSlot(S, k) \cup {q}
      BY <2>3 DEF OfSlot
    <3>2. Cardinality(OfSlot(Slots, k)) = Captured[k] * Multiplier
      BY SlotsCount
    <3>3. /\ Cardinality(OfSlot(S, k)) < Cardinality(OfSlot(Slots, k))
          /\ Cardinality(OfSlot(S, k) \cup {q}) = Cardinality(OfSlot(S, k)) + 1
      BY <1>1, <2>1, <3>1
    <3> QED BY <2>2, <2>3, <3>1, <3>2, <3>3
  <2>4. CASE KindOf(q[2]) # k
    <3>1. OfSlot(S \cup {q}, k) = OfSlot(S, k)
      BY <2>4 DEF OfSlot
    <3> QED BY <2>2, <2>4, <3>1
  <2> QED BY <2>3, <2>4
<1> QED BY <1>1, <1>2, <1>3

LEMMA CountBelow ==
  ASSUME NEW a \in Int, NEW b \in Int, NEW c \in Int, NEW d \in Int, b + c = d + 1
  PROVE  /\ (a + c <= d) <=> (a < b)
         /\ (a + (c - 1) <= d) <=> (a <= b)
OBVIOUS

LEMMA CallStep ==
  ASSUME Regular, RunTypes, CompleteInv, EndInv, CallsInv, AppInv, NEW t \in Request, Call(t)
  PROVE  CallsInv' /\ Serves(Head(todo[t]))
<1>0. Faithful
  BY DEF Regular
<1>1. todo[t] # << >> /\ InRun /\ t[1] = run
  BY DEF Call, AppInv
<1>2. PICK v \in Workers, j \in 1..NEvents : t = <<run, v, j>>
  BY <1>1 DEF Request
<1> DEFINE r == Tail(todo[t])
<1>3. /\ UNCHANGED <<ctl, run, at, budget>> /\ todo' = [todo EXCEPT ![t] = r]
      /\ seen' = seen + 1
  BY DEF Call, worker
<1> DEFINE s == Script(j)
           m == (Len(s) - Len(todo[t])) + 1
           q == <<v, <<j, m>>>>
<1>4. j <= at[v] /\ j \in Sent /\ Rest(todo[t], s)
  BY <1>1, <1>2 DEF CallsInv
<1>5. /\ todo[t] \in Seq(Kinds) /\ Len(todo[t]) \in Nat /\ Len(todo[t]) > 0
      /\ Head(todo[t]) = todo[t][1]
      /\ r \in Seq(Kinds) /\ Len(r) = Len(todo[t]) - 1
      /\ \A n \in 1..Len(r) : r[n] = todo[t][n + 1]
  BY <1>1 DEF EndInv
<1> HIDE DEF r
<1>6. Len(s) \in Nat /\ DOMAIN s = 1..Len(s)
  BY <1>0, ScriptIs
<1>7. /\ m \in 1..Len(s) /\ m + Len(todo[t]) = Len(s) + 1
      /\ Head(todo[t]) = s[m] /\ s[m] \in Kinds
  <2>1. /\ Len(todo[t]) <= Len(s)
        /\ \A n \in 1..Len(todo[t]) : todo[t][n] = s[(Len(s) - Len(todo[t])) + n]
    BY <1>4 DEF Rest
  <2>2. 1 \in 1..Len(todo[t])
    BY <1>5
  <2>3. m \in 1..Len(s) /\ m + Len(todo[t]) = Len(s) + 1
    BY <1>5, <1>6, <2>1
  <2>4. Head(todo[t]) = s[m]
    BY <1>5, <2>1, <2>2
  <2> QED BY <2>3, <2>4, <1>0, ScriptIs
<1> HIDE DEF m
<1>8. q \in Slots /\ KindOf(q[2]) = Head(todo[t])
  <2>1. <<j, m>> \in {j} \X DOMAIN s
    BY <1>6, <1>7
  <2>2. <<j, m>> \in Calls
    BY <2>1 DEF Calls
  <2> QED BY <1>7, <2>2 DEF Slots, KindOf
<1>9. Made \subseteq Slots /\ q \notin Made
  <2>1. Made \subseteq Slots
    BY DEF Made
  <2>2. /\ q[1] = v /\ q[2][1] = j /\ q[2][2] = m
        /\ ~(m + Len(todo[t]) <= Len(s))
    BY <1>5, <1>6, <1>7
  <2> QED BY <1>2, <2>1, <2>2 DEF Made
<1>a. q[1] = v /\ q[2] = <<j, m>> /\ q[2][1] = j
  OBVIOUS
<1>b. \A x : <<v, <<j, x>>>> = q <=> x = m
  OBVIOUS
<1> HIDE DEF q
<1>10. Made' = Made \cup {q}
  <2>1. /\ at' = at /\ run' = run /\ Slots' = Slots
        /\ todo'[t] = r /\ \A u \in Request : u # t => todo'[u] = todo[u]
    BY <1>3 DEF EndInv
  <2>2. ASSUME NEW p \in Slots
        PROVE  p \in Made' <=> p \in Made \/ p = q
    <3>1. /\ p = <<p[1], <<p[2][1], p[2][2]>>>> /\ p[1] \in Workers /\ p[2][1] \in 1..NEvents
          /\ p[2][2] \in 1..Len(Script(p[2][1]))
      BY <1>0, CallIs DEF Slots
    <3> DEFINE u == <<run, p[1], p[2][1]>>
    <3>2. u \in Request
      BY <1>2, <3>1 DEF Request
    <3>3. p \in Made <=> /\ p[2][1] <= at[p[1]] /\ p[2][1] \in Sent
                         /\ p[2][2] + Len(todo[u]) <= Len(Script(p[2][1]))
      BY DEF Made
    <3>4. p \in Made' <=> /\ p[2][1] <= at[p[1]] /\ p[2][1] \in Sent
                          /\ p[2][2] + Len(todo'[u]) <= Len(Script(p[2][1]))
      BY <2>1 DEF Made
    <3>5. CASE u = t
      <4>1. p[1] = v /\ p[2][1] = j
        BY <1>2, <3>5
      <4>2. p = q <=> p[2][2] = m
        <5>1. p = <<v, <<j, p[2][2]>>>>
          BY <3>1, <4>1
        <5> QED BY <1>b, <5>1
      <4>3. /\ p \in Made <=> p[2][2] + Len(todo[t]) <= Len(s)
            /\ p \in Made' <=> p[2][2] + Len(r) <= Len(s)
        BY <1>4, <2>1, <3>3, <3>4, <3>5, <4>1
      <4>4. p[2][2] \in Nat
        BY <3>1
      <4>5. /\ p[2][2] + Len(todo[t]) <= Len(s) <=> p[2][2] < m
            /\ p[2][2] + Len(r) <= Len(s) <=> p[2][2] <= m
        <5>2. m \in Int /\ Len(todo[t]) \in Int /\ Len(s) \in Int /\ Len(r) = Len(todo[t]) - 1
          BY <1>5, <1>6, <1>7
        <5>3. m + Len(todo[t]) = Len(s) + 1 /\ p[2][2] \in Int
          BY <1>7, <4>4
        <5> HIDE DEF s
        <5>4. /\ (p[2][2] + Len(todo[t]) <= Len(s)) <=> (p[2][2] < m)
              /\ (p[2][2] + (Len(todo[t]) - 1) <= Len(s)) <=> (p[2][2] <= m)
          <6> DEFINE x == p[2][2]
                     y == Len(todo[t])
                     z == Len(s)
          <6>1. x \in Int /\ m \in Int /\ y \in Int /\ z \in Int /\ m + y = z + 1
            BY <5>2, <5>3
          <6> HIDE DEF x, y, z
          <6>2. ((x + y <= z) <=> (x < m)) /\ ((x + (y - 1) <= z) <=> (x <= m))
            BY <6>1, CountBelow
          <6> QED BY <6>2 DEF x, y, z
        <5> QED BY <5>2, <5>4
      <4>6. p[2][2] <= m <=> p[2][2] < m \/ p[2][2] = m
        BY <1>6, <1>7, <4>4
      <4> QED BY <4>2, <4>3, <4>5, <4>6
    <3>6. CASE u # t
      <4>1. p # q
        BY <1>2, <1>a, <3>6
      <4>2. todo'[u] = todo[u]
        BY <2>1, <3>2, <3>6
      <4> QED BY <3>3, <3>4, <4>1, <4>2
    <3> QED BY <3>5, <3>6
  <2>3. Made' \subseteq Slots
    BY <2>1 DEF Made
  <2> QED BY <1>8, <1>9, <2>2, <2>3
<1> DEFINE k == Head(todo[t])
<1>11. k \in Kinds /\ seen = Cardinality(Made) /\ budget = Budget /\ refused = 0
       /\ \A c \in Kinds : uses[c] = Cardinality(OfSlot(Made, c))
       /\ KindOf(q[2]) = k
  BY <1>1, <1>7, <1>8 DEF CallsInv
<1> HIDE DEF k
<1>12. Serves(k) /\ ~Refuses(k)
  <2>1. seen \in Nat /\ seen < Budget
    BY <1>8, <1>9, <1>11, <1>0, OpenSlot
  <2>2. uses[k] < Captured[k] * Multiplier /\ uses[k] \in Nat
    <3>1. /\ Cardinality(OfSlot(Made, k)) \in Nat
          /\ Cardinality(OfSlot(Made, k)) < Captured[k] * Multiplier
      BY <1>8, <1>9, <1>11, <1>0, OpenSlot, Zenon
    <3> QED BY <1>11, <3>1
  <2>3. Captured[k] * Multiplier \in Nat /\ Budget \in Nat
    <3>1. Total \in Nat /\ Captured[k] \in Nat
      BY ReplayRunAssumption, <1>11, <1>0, CallsAreCaptured, FS_CardinalityType
    <3> QED BY <3>1, WaveType DEF Multiplier, Budget
  <2>4. Total > 0
    BY DEF Regular
  <2> HIDE DEF k
  <2>5. ~Refuses(k)
    BY <1>11, <2>1, <2>2, <2>3 DEF Refuses
  <2> QED BY <2>4, <2>5 DEF Serves
<1>13. uses' = [uses EXCEPT ![k] = @ + 1] /\ refused' = refused
  BY <1>12 DEF Call, k
<1>14. /\ seen' = Cardinality(Made')
       /\ \A c \in Kinds : uses'[c] = Cardinality(OfSlot(Made', c))
  <2>1. seen' = Cardinality(Made')
    BY <1>3, <1>8, <1>9, <1>10, <1>11, <1>0, OpenSlot
  <2>2. ASSUME NEW c \in Kinds PROVE uses'[c] = Cardinality(OfSlot(Made', c))
    <3>1. KindOf(q[2]) = k /\ DOMAIN uses = Kinds
      BY <1>11 DEF EndInv
    <3>2. CASE c = k
      <4>1. Cardinality(OfSlot(Made \cup {q}, k)) = Cardinality(OfSlot(Made, k)) + 1
        BY <1>8, <1>9, <1>11, <1>0, OpenSlot, Zenon
      <4> QED BY <1>10, <1>11, <1>13, <3>1, <3>2, <4>1
    <3>3. CASE c # k
      <4>1. OfSlot(Made \cup {q}, c) = OfSlot(Made, c)
        BY <1>8, <1>9, <3>1, <3>3, <1>0, OpenSlot
      <4> QED BY <1>10, <1>11, <1>13, <3>1, <3>3, <4>1
    <3> QED BY <3>2, <3>3
  <2> QED BY <2>1, <2>2
<1>15. ASSUME NEW w \in Workers, NEW n \in 1..NEvents
       PROVE  IF n <= at'[w] /\ n \in Sent THEN Rest(todo'[<<run', w, n>>], Script(n))
              ELSE todo'[<<run', w, n>>] = << >>
  <2> DEFINE u == <<run, w, n>>
  <2>1. u \in Request /\ at' = at /\ run' = run
    BY <1>2, <1>3 DEF Request
  <2>2. IF n <= at[w] /\ n \in Sent THEN Rest(todo[u], Script(n)) ELSE todo[u] = << >>
    BY <1>1 DEF CallsInv
  <2>3. CASE u # t
    BY <1>3, <2>1, <2>2, <2>3 DEF EndInv
  <2>4. CASE u = t
    <3>1. w = v /\ n = j
      BY <1>2, <2>4
    <3>2. todo'[u] = r
      BY <1>3, <2>1, <2>4 DEF EndInv
    <3>3. Rest(r, s)
      <4>1. /\ Len(todo[t]) <= Len(s)
            /\ \A x \in 1..Len(todo[t]) : todo[t][x] = s[(Len(s) - Len(todo[t])) + x]
        BY <1>4 DEF Rest
      <4>2. ASSUME NEW x \in 1..Len(r)
            PROVE  r[x] = s[(Len(s) - Len(r)) + x]
        <5>1. x + 1 \in 1..Len(todo[t]) /\ x \in Nat
          BY <1>5
        <5>2. (Len(s) - Len(todo[t])) + (x + 1) = (Len(s) - Len(r)) + x
          <6>1. \A a, b, c \in Int : (a - b) + (c + 1) = (a - (b - 1)) + c
            OBVIOUS
          <6>2. Len(s) \in Int /\ Len(todo[t]) \in Int /\ x \in Int /\ Len(r) = Len(todo[t]) - 1
            BY <1>5, <1>6, <5>1
          <6> HIDE DEF s
          <6> QED BY <6>1, <6>2
        <5>3. r[x] = todo[t][x + 1]
          BY <1>5
        <5>4. todo[t][x + 1] = s[(Len(s) - Len(todo[t])) + (x + 1)]
          BY <4>1, <5>1
        <5> QED BY <5>2, <5>3, <5>4
      <4>3. Len(r) <= Len(s)
        BY <1>5, <1>6, <4>1
      <4> QED BY <4>2, <4>3 DEF Rest
    <3> QED BY <1>4, <2>1, <3>1, <3>2, <3>3
  <2> QED BY <2>3, <2>4
<1> QED BY <1>3, <1>11, <1>12, <1>13, <1>14, <1>15 DEF CallsInv, InRun, k

\* Calls and what is left of the scripts.
LEMMA CallsStep ==
  ASSUME Regular, RunTypes, WorkersInWave, CompleteInv, EndInv, Smooth, CallsInv, AppInv, [Next]_vars
  PROVE  CallsInv'
<1>0. Faithful
  BY DEF Regular
<1>1. CASE UNCHANGED <<ctl, run, at, todo, seen, budget, uses, refused>>
  <2>1. Made' = Made /\ InRun' = InRun
    BY <1>1 DEF Made, InRun
  <2> QED BY <1>1, <2>1 DEF CallsInv
<1>2. ASSUME NEW t \in Request, Call(t)
      PROVE  CallsInv'
  BY <1>2, CallStep
<1>3. ASSUME NEW w \in Workers, Send(w)
      PROVE  CallsInv'
  <2> DEFINE n == at[w] + 1
             t == <<run, w, n>>
  <2>1. /\ n \in 1..NEvents /\ run \in 1..Runs /\ at \in [Workers -> Nat]
        /\ ctl = "wave" /\ at[w] \in Nat /\ n \in Sent
    <3>1. ctl = "wave" /\ at[w] < NEvents /\ at[w] + 1 \notin Skips
      BY <1>3 DEF Turn, Send, WorkersInWave, Ended
    <3>2. run \in 0..Runs /\ run > 0 /\ at \in [Workers -> Nat]
      BY <3>1 DEF CompleteInv
    <3> QED BY <3>1, <3>2, ReplayRunAssumption DEF Sent
  <2>2. /\ at' = [at EXCEPT ![w] = n] /\ UNCHANGED <<ctl, run, seen, budget, uses, refused>>
        /\ \E s \in Scripts[n] : todo' = [todo EXCEPT ![t] = s]
    BY <1>3 DEF Send, stub
  <2>3. todo' = [todo EXCEPT ![t] = Script(n)] /\ t \in Request
    BY <1>0, <2>1, <2>2, ScriptIs DEF Request
  <2>4. ASSUME NEW v \in Workers, NEW j \in 1..NEvents
        PROVE  /\ v = w /\ j = n => /\ todo'[<<run, v, j>>] = Script(n) /\ j <= at'[v]
                                    /\ ~(j <= at[v])
               /\ ~(v = w /\ j = n) => /\ todo'[<<run, v, j>>] = todo[<<run, v, j>>]
                                       /\ j <= at'[v] <=> j <= at[v]
    <3>1. <<run, v, j>> \in Request /\ (<<run, v, j>> = t <=> v = w /\ j = n)
      BY <2>1 DEF Request
    <3>2. v = w => at'[v] = at[w] + 1
      BY <2>1, <2>2
    <3>3. v # w => at'[v] = at[v]
      BY <2>1, <2>2
    <3>4. v = w /\ j # n => (j <= at[w] + 1 <=> j <= at[w])
      BY <2>1
    <3>5. todo'[<<run, v, j>>] = IF v = w /\ j = n THEN Script(n) ELSE todo[<<run, v, j>>]
      BY <2>3, <3>1 DEF EndInv
    <3> HIDE DEF t
    <3> QED BY <2>1, <3>2, <3>3, <3>4, <3>5
  <2> HIDE DEF n, t
  <2>5. Made' = Made
    <3> SUFFICES ASSUME NEW p \in Slots
                 PROVE  p \in Made' <=> p \in Made
      BY DEF Made, Slots
    <3>1. /\ p[1] \in Workers /\ p[2][1] \in 1..NEvents
          /\ p[2][2] \in 1..Len(Script(p[2][1]))
      BY <1>0, CallIs DEF Slots
    <3>2. run' = run
      BY <2>2
    <3>3. CASE p[1] = w /\ p[2][1] = n
      <4>1. Len(Script(n)) \in Nat /\ ~(p[2][2] + Len(Script(n)) <= Len(Script(n)))
        BY <1>0, <2>1, <3>1, <3>3, ScriptIs
      <4>2. p \notin Made'
        BY <2>4, <3>1, <3>2, <3>3, <4>1 DEF Made
      <4>3. p \notin Made
        BY <2>4, <3>1, <3>3 DEF Made
      <4> QED BY <4>2, <4>3
    <3>4. CASE ~(p[1] = w /\ p[2][1] = n)
      BY <2>4, <3>1, <3>2, <3>4 DEF Made
    <3> QED BY <3>3, <3>4
  <2>6. ASSUME NEW v \in Workers, NEW j \in 1..NEvents
        PROVE  IF j <= at'[v] /\ j \in Sent THEN Rest(todo'[<<run', v, j>>], Script(j))
               ELSE todo'[<<run', v, j>>] = << >>
    <3>1. IF j <= at[v] /\ j \in Sent
          THEN Rest(todo[<<run, v, j>>], Script(j)) ELSE todo[<<run, v, j>>] = << >>
      BY <2>1 DEF CallsInv, InRun
    <3>2. CASE v = w /\ j = n
      <4>1. Len(Script(n)) \in Nat
        BY <1>0, <2>1, ScriptIs
      <4>2. \A m \in 1..Len(Script(n)) : (Len(Script(n)) - Len(Script(n))) + m = m
        BY <4>1
      <4>3. Rest(Script(n), Script(n))
        BY <4>1, <4>2 DEF Rest
      <4> QED BY <2>1, <2>2, <2>4, <3>2, <4>3
    <3>3. CASE ~(v = w /\ j = n)
      BY <2>2, <2>4, <3>1, <3>3
    <3> QED BY <3>2, <3>3
  <2> QED BY <2>1, <2>2, <2>5, <2>6 DEF CallsInv, InRun
<1>4. CASE StartRun
  <2>1. /\ run' = run + 1 /\ at' = [w \in Workers |-> 0] /\ todo' = todo /\ ctl = "loop"
        /\ seen' = 0 /\ budget' = Budget /\ uses' = [k \in Kinds |-> 0] /\ refused' = 0
    BY <1>4 DEF StartRun, ResetStub, request, Smooth
  <2>2. run' \in 1..Runs
    BY <1>4, ReplayRunAssumption DEF StartRun, CompleteInv
  <2>3. \A t \in Request : todo[t] = << >>
    BY <2>1 DEF AppInv, InRun
  <2>4. ASSUME NEW w \in Workers, NEW j \in 1..NEvents
        PROVE  ~(j <= at'[w]) /\ todo'[<<run', w, j>>] = << >>
    <3>1. <<run', w, j>> \in Request
      BY <2>2 DEF Request
    <3> QED BY <2>1, <2>3, <3>1
  <2>5. Made' = {}
    <3> SUFFICES ASSUME NEW p \in Made'
                 PROVE  FALSE
      OBVIOUS
    <3>1. p \in Slots /\ p[2][1] <= at'[p[1]]
      BY DEF Made, Slots
    <3>2. p[1] \in Workers /\ p[2][1] \in 1..NEvents
      BY <1>0, <3>1, CallIs DEF Slots
    <3> QED BY <2>4, <3>1, <3>2
  <2>6. Cardinality(Made') = 0 /\ \A k \in Kinds : Cardinality(OfSlot(Made', k)) = 0
    <3>1. \A k \in Kinds : OfSlot(Made', k) = {}
      BY <2>5 DEF OfSlot
    <3> QED BY <2>5, <3>1, FS_EmptySet
  <2> QED BY <2>1, <2>4, <2>6 DEF CallsInv
<1>5. CASE Judge \/ Conclude \/ Collect \/ Observe
  <2>1. UNCHANGED <<run, at, todo, seen, budget, uses, refused>> /\ (InRun' => InRun)
    BY <1>5 DEF Judge, Conclude, Collect, Observe, worker, request, stub, InRun
  <2>2. Made' = Made
    BY <2>1 DEF Made
  <2> QED BY <2>1, <2>2 DEF CallsInv
<1>6. CASE UNCHANGED vars \/ Expire \/ \E t \in Request : Respond(t)
  BY <1>1, <1>6 DEF vars, worker, request, stub, Expire, Respond
<1>7. ASSUME NEW w \in Workers, Work(w), ~Send(w), ~Skip(w)
      PROVE  CallsInv'
  BY <1>1, <1>7 DEF Work, CutShort, Receive, GiveUp, Hash, Fail, Finish, request, stub
<1>8. ASSUME NEW w \in Workers, Skip(w)
      PROVE  CallsInv'
  <2>1. /\ UNCHANGED <<ctl, run, todo, seen, budget, uses, refused>>
        /\ at' = [at EXCEPT ![w] = @ + 1] /\ at[w] + 1 \notin Sent
        /\ ctl = "wave" /\ at \in [Workers -> Nat]
    BY <1>8 DEF Turn, Skip, Sent, request, stub, WorkersInWave, Ended, CompleteInv
  <2>2. \A v \in Workers, j \in Sent : j <= at'[v] <=> j <= at[v]
    <3> SUFFICES ASSUME NEW v \in Workers, NEW j \in Sent
                 PROVE  j <= at'[v] <=> j <= at[v]
      OBVIOUS
    <3>1. j \in Int /\ j # at[w] + 1 /\ at[w] \in Nat
      BY <2>1, SentType
    <3>2. at'[v] = IF v = w THEN at[w] + 1 ELSE at[v]
      BY <2>1
    <3> QED BY <3>1, <3>2
  <2>3. Made' = Made
    <3> SUFFICES ASSUME NEW p \in Slots
                 PROVE  p \in Made' <=> p \in Made
      BY DEF Made, Slots
    <3>1. p[1] \in Workers
      BY DEF Slots
    <3> QED BY <2>1, <2>2, <3>1 DEF Made
  <2> QED BY <2>1, <2>2, <2>3 DEF CallsInv, InRun
<1> QED
  BY <1>2, <1>3, <1>4, <1>5, <1>6, <1>7, <1>8 DEF Next, App, Control

\* No dependency fails the application, and no call outlives its run.
LEMMA AppStep ==
  ASSUME Regular, RunTypes, WorkersInWave, CompleteInv, EndInv, CallsInv, AppInv, Smooth', [Next]_vars
  PROVE  AppInv'
<1>1. CASE UNCHANGED <<ctl, run, healthy, todo>>
  BY <1>1 DEF AppInv, InRun
<1>2. ASSUME NEW t \in Request, Call(t)
      PROVE  AppInv'
  <2>1. Serves(Head(todo[t]))
    BY <1>2, CallStep
  <2>2. todo' = [todo EXCEPT ![t] = Tail(@)] /\ UNCHANGED <<ctl, run>> /\ todo[t] # << >>
    BY <1>2 DEF Call
  <2>3. \A u \in Request : healthy'[u] = healthy[u]
    BY <1>2, <2>1 DEF Call, EndInv, AppInv
  <2>4. \A u \in Request : todo'[u] # << >> => todo[u] # << >>
    BY <2>2 DEF EndInv
  <2> QED BY <2>2, <2>3, <2>4 DEF AppInv, InRun
<1>3. ASSUME NEW w \in Workers, Send(w)
      PROVE  AppInv'
  <2>1. UNCHANGED <<ctl, run, healthy>> /\ ctl = "wave"
    BY <1>3 DEF Turn, Send, WorkersInWave, Ended
  <2>2. \E s : todo' = [todo EXCEPT ![<<run, w, at[w] + 1>>] = s]
    BY <1>3 DEF Send
  <2>3. \A u \in Request : u # <<run, w, at[w] + 1>> => todo'[u] = todo[u]
    BY <2>2 DEF EndInv
  <2>4. <<run, w, at[w] + 1>>[1] = run
    OBVIOUS
  <2> QED BY <2>1, <2>3, <2>4 DEF AppInv, InRun
<1>4. CASE StartRun
  <2>1. ctl = "loop" /\ UNCHANGED <<healthy, todo>>
    BY <1>4 DEF StartRun, request
  <2> QED BY <2>1 DEF AppInv, InRun
<1>5. CASE Judge
  <2>1. Quiet
    BY <1>5 DEF Judge, Straggle, Quiet, Smooth
  <2>2. UNCHANGED <<healthy, todo>>
    BY <1>5 DEF Judge, request
  <2> QED BY <2>1, <2>2 DEF AppInv, Quiet
<1>6. CASE Conclude \/ Collect \/ Observe
  <2>1. UNCHANGED <<run, healthy, todo>> /\ (InRun' <=> InRun)
    BY <1>6 DEF Conclude, Collect, Observe, request, InRun
  <2> QED BY <2>1 DEF AppInv
<1>7. CASE UNCHANGED vars \/ Expire \/ \E t \in Request : Respond(t)
  BY <1>1, <1>7 DEF vars, request, Expire, Respond
<1>8. ASSUME NEW w \in Workers, Work(w), ~Send(w)
      PROVE  AppInv'
  BY <1>1, <1>8 DEF Work, CutShort, Skip, Receive, GiveUp, Hash, Fail, Finish, request
<1> QED
  BY <1>2, <1>3, <1>4, <1>5, <1>6, <1>7, <1>8 DEF Next, App, Control

LEMMA SentSoFar ==
  ASSUME NEW n \in Nat
  PROVE  /\ Cardinality(SentUpTo(0)) = 0 /\ SentUpTo(NEvents) = Sent
         /\ Cardinality(SentUpTo(n)) \in Nat
         /\ n + 1 \in Sent => Cardinality(SentUpTo(n + 1)) = Cardinality(SentUpTo(n)) + 1
         /\ n + 1 \notin Sent => SentUpTo(n + 1) = SentUpTo(n)
<1>1. SentUpTo(0) = {} /\ SentUpTo(NEvents) = Sent
  <2>1. \A j \in Sent : j \in Int /\ 1 <= j /\ j <= NEvents
    BY SentType, ReplayRunAssumption
  <2>2. SentUpTo(0) = {}
    BY <2>1 DEF SentUpTo
  <2>3. SentUpTo(NEvents) = Sent
    BY <2>1 DEF SentUpTo
  <2> QED BY <2>2, <2>3
<1>2. IsFiniteSet(SentUpTo(n))
  <2>1. SentUpTo(n) \subseteq Sent
    BY DEF SentUpTo
  <2> QED BY <2>1, SentType, FS_Subset
<1>3. Cardinality(SentUpTo(n)) \in Nat
  BY <1>2, FS_CardinalityType
<1>4. ASSUME n + 1 \in Sent
      PROVE  Cardinality(SentUpTo(n + 1)) = Cardinality(SentUpTo(n)) + 1
  <2>2. Sent \subseteq Int
    BY SentType
  <2>3. \A j \in Sent : j <= n + 1 <=> j <= n \/ j = n + 1
    BY <2>2
  <2>4. ~(n + 1 <= n)
    OBVIOUS
  <2>1. SentUpTo(n + 1) = SentUpTo(n) \cup {n + 1} /\ n + 1 \notin SentUpTo(n)
    BY <1>4, <2>3, <2>4, Zenon DEF SentUpTo
  <2> QED BY <1>2, <2>1, FS_AddElement
<1>5. ASSUME n + 1 \notin Sent
      PROVE  SentUpTo(n + 1) = SentUpTo(n)
  <2> SUFFICES ASSUME NEW j \in Sent
               PROVE  j <= n + 1 <=> j <= n
    BY DEF SentUpTo
  <2>1. j \in Int /\ j # n + 1
    BY <1>5, SentType
  <2> QED BY <2>1
<1> QED BY <1>1, <1>3, <1>4, <1>5, FS_EmptySet

\* Every response is good, and every worker gets to its end.
LEMMA SigsStep ==
  ASSUME ~MayFail, RunTypes, WorkersInWave, CompleteInv, EndInv, AppInv, SigsInv, Smooth', [Next]_vars
  PROVE  SigsInv'
<1>0. /\ DOMAIN wpc = Workers /\ at \in [Workers -> Nat] /\ DOMAIN sigs = Workers
      /\ \A w \in Workers : sigs[w] \in Seq(Signature) /\ Len(sigs[w]) \in Nat
  BY DEF RunTypes, CompleteInv
<1>1. CASE UNCHANGED <<ctl, wpc, at, sigs, prints>>
  BY <1>1 DEF SigsInv
<1>2. CASE UNCHANGED <<wpc, at, sigs, prints>> /\ ctl \notin {"wave"}
           /\ (ctl' \in {"observe", "judge"} => ctl \in {"observe", "judge"})
  BY <1>2 DEF SigsInv
<1>3. CASE Collect
  <2>1. ~late
    BY <1>3 DEF Collect, Smooth
  <2>2. \A w \in Workers : wpc[w] = "complete"
    BY <1>3, <2>1 DEF Collect, Ended, EndInv
  <2> QED BY <1>3, <2>2 DEF Collect, worker, history, SigsInv
<1>4. CASE StartRun
  <2>1. Len(<< >>) = 0
    OBVIOUS
  <2>2. late \/ (ctl' = "wave" /\ wpc' = [w \in Workers |-> "ready"]
                 /\ at' = [w \in Workers |-> 0] /\ sigs' = [w \in Workers |-> << >>])
    BY <1>4 DEF StartRun
  <2>3. ~late' /\ late' = late /\ prints' = prints /\ ctl = "loop"
    BY <1>4 DEF StartRun, Smooth, history
  <2>4. Cardinality(SentUpTo(0)) = 0
    BY SentSoFar
  <2>5. \A w \in Workers : wpc'[w] = "ready" /\ at'[w] = 0 /\ sigs'[w] = << >>
    BY <2>2, <2>3
  <2> QED BY <2>1, <2>2, <2>3, <2>4, <2>5 DEF SigsInv
<1>5. ASSUME NEW w \in Workers, Work(w)
      PROVE  SigsInv'
  <2>0. /\ ctl = "wave" /\ ctl' = "wave" /\ ~late'
    BY <1>5 DEF Work, Turn, CutShort, Skip, Send, Receive, GiveUp, Hash, Fail, Finish, WorkersInWave, Ended, Smooth
  <2>1. late' = late
    BY <1>5 DEF Work, Turn, CutShort, Skip, Send, Receive, GiveUp, Hash, Fail, Finish
  <2>2. CASE Send(w)
    <3>1. /\ wpc[w] = "ready" /\ wpc' = [wpc EXCEPT ![w] = "waiting"] /\ at[w] \in Nat
          /\ at' = [at EXCEPT ![w] = @ + 1] /\ UNCHANGED <<sigs, prints>> /\ at[w] + 1 \in Sent
      <4>1. /\ at[w] \in Nat /\ at[w] < NEvents /\ NEvents \in Nat /\ at[w] + 1 \notin Skips
        BY <1>0, <2>2, ReplayRunAssumption DEF Turn, Send
      <4>2. at[w] + 1 \in Sent
        BY <4>1 DEF Sent
      <4> QED BY <2>2, <4>1, <4>2 DEF Turn, Send, history
    <3>2. Cardinality(SentUpTo(at[w] + 1)) - 1 = Cardinality(SentUpTo(at[w]))
      BY <3>1, SentSoFar
    <3>3. \A v \in Workers : at'[v] = IF v = w THEN at[w] + 1 ELSE at[v]
      BY <1>0, <3>1
    <3> QED BY <1>0, <2>0, <3>1, <3>2, <3>3 DEF SigsInv
  <2>6. CASE Skip(w)
    <3>1. /\ wpc[w] = "ready" /\ at[w] \in Nat /\ at' = [at EXCEPT ![w] = @ + 1]
          /\ UNCHANGED <<wpc, sigs, prints>> /\ at[w] + 1 \notin Sent
      BY <1>0, <2>6 DEF Turn, Skip, history, Sent
    <3>2. SentUpTo(at[w] + 1) = SentUpTo(at[w])
      BY <3>1, SentSoFar
    <3>3. \A v \in Workers : SentUpTo(at'[v]) = SentUpTo(at[v])
      BY <1>0, <3>1, <3>2
    <3> QED BY <1>0, <2>0, <3>1, <3>3 DEF SigsInv
  <2>3. ASSUME NEW sig \in {"good", "error"}, Hash(w, sig)
        PROVE  SigsInv'
    <3>1. /\ wpc[w] = "waiting" /\ wpc' = [wpc EXCEPT ![w] = "ready"]
          /\ sigs' = [sigs EXCEPT ![w] = Append(@, sig)] /\ UNCHANGED <<at, prints>>
      BY <2>0, <2>1, <2>3 DEF Hash, history
    <3> DEFINE p == sigs[w]
    <3>2. /\ Len(Append(p, sig)) = Len(p) + 1 /\ Append(p, sig)[Len(p) + 1] = sig
          /\ \A n \in 1..Len(p) : Append(p, sig)[n] = p[n]
      BY <1>0
    <3>3. sig = "good"
      <4>1. CASE sig = "error"
        <5>1. sigs'[w] = Append(p, sig)
          BY <1>0, <3>1
        <5>2. Len(p) + 1 \in 1..Len(Append(p, sig))
          BY <1>0, <3>2
        <5> QED BY <3>2, <4>1, <5>1, <5>2 DEF Smooth, NoError
      <4> QED BY <4>1
    <3>4. sigs'[w] = Append(p, sig) /\ \A v \in Workers : v # w => sigs'[v] = sigs[v]
      BY <1>0, <3>1
    <3>5. \A n \in 1..(Len(p) + 1) : Append(p, sig)[n] = "good"
      BY <1>0, <3>2, <3>3 DEF SigsInv
    <3>6. Len(p) = Cardinality(SentUpTo(at[w])) - 1 /\ Cardinality(SentUpTo(at[w])) \in Nat
      BY <1>0, <3>1, SentSoFar DEF SigsInv
    <3> HIDE DEF p
    <3> QED BY <1>0, <2>0, <3>1, <3>2, <3>4, <3>5, <3>6 DEF SigsInv
  <2>4. CASE Finish(w)
    <3>1. /\ wpc[w] = "ready" /\ at[w] = NEvents /\ wpc' = [wpc EXCEPT ![w] = "complete"]
          /\ prints' = prints \cup {sigs[w]} /\ UNCHANGED <<at, sigs>>
      BY <2>4 DEF Finish
    <3>2. Len(sigs[w]) = Cardinality(SentUpTo(at[w])) /\ \A n \in 1..Len(sigs[w]) : sigs[w][n] = "good"
      BY <3>1 DEF SigsInv
    <3>4. SentUpTo(NEvents) = Sent
      BY SentSoFar, ReplayRunAssumption
    <3>3. sigs[w] = AllGood
      BY <1>0, <3>1, <3>2, <3>4 DEF AllGood
    <3> QED BY <1>0, <2>0, <3>1, <3>3 DEF SigsInv
  <2>5. CASE Receive(w)
    <3>1. Current(w) \in Request
      <4>1. /\ wpc[w] = "waiting" /\ sigs[w] \in Seq(Signature)
            /\ Len(sigs[w]) = Cardinality(SentUpTo(at[w])) - 1
            /\ at[w] \in Nat /\ at[w] <= NEvents
        BY <1>0, <2>5 DEF Receive, Hash, CompleteInv, SigsInv
      <4>2. at[w] # 0
        <5>1. Cardinality(SentUpTo(0)) = 0
          BY SentSoFar
        <5> QED BY <1>0, <4>1, <5>1
      <4>3. run \in 1..Runs /\ at[w] \in 1..NEvents
        BY <2>0, <4>1, <4>2, ReplayRunAssumption DEF CompleteInv
      <4> QED BY <4>3 DEF Request, Current
    <3> QED BY <2>3, <2>5, <3>1 DEF Receive, AppInv
  <2>7. ~CutShort(w)
    BY <2>0, <2>1 DEF CutShort
  <2> QED BY <1>5, <2>2, <2>3, <2>4, <2>5, <2>6, <2>7 DEF Work, GiveUp, Fail
<1>6. CASE Observe \/ Judge \/ Conclude
  BY <1>2, <1>6 DEF Observe, Judge, Conclude, worker, history
<1>7. CASE UNCHANGED vars \/ Expire \/ \E t \in Request : Respond(t) \/ Call(t)
  BY <1>1, <1>7 DEF vars, worker, history, Expire, Respond, Call
<1> QED
  BY <1>3, <1>4, <1>5, <1>6, <1>7 DEF Next, App, Control

\* Once no call is left, the slots of all requests that are sent have been used.
LEMMA AllMade ==
  ASSUME Faithful, CompleteInv, CallsInv, InRun, Quiet, \A w \in Workers : wpc[w] = "complete"
  PROVE  seen \in Nat /\ (seen > 0 <=> Covered)
<1>1. ASSUME NEW p \in Slots, p[2][1] \in Sent
      PROVE  p \in Made
  <2>1. /\ p[1] \in Workers /\ p[2][1] \in 1..NEvents
        /\ p[2][2] \in 1..Len(Script(p[2][1]))
    BY CallIs DEF Slots
  <2>2. at[p[1]] = NEvents
    BY <2>1 DEF CompleteInv
  <2>3. Len(todo[<<run, p[1], p[2][1]>>]) = 0
    <3>1. run \in 1..Runs
      BY DEF CompleteInv, InRun
    <3>2. <<run, p[1], p[2][1]>> \in Request
      BY <2>1, <3>1 DEF Request
    <3>3. todo[<<run, p[1], p[2][1]>>] = << >>
      BY <3>2 DEF Quiet
    <3> QED BY <3>3
  <2> QED BY <1>1, <2>1, <2>2, <2>3 DEF Made
<1>2. Made # {} <=> Covered
  <2>1. ASSUME NEW p \in Made PROVE Covered
    BY DEF Made, Slots, Covered
  <2>2. ASSUME NEW c \in Calls, c[1] \in Sent PROVE Made # {}
    <3>1. PICK w \in Workers : TRUE
      BY ReplayRunAssumption
    <3>2. <<w, c>> \in Slots /\ <<w, c>>[2] = c
      BY DEF Slots
    <3>3. <<w, c>> \in Made
      BY <1>1, <2>2, <3>2
    <3> QED BY <3>3
  <2> QED BY <2>1, <2>2 DEF Covered
<1>3. IsFiniteSet(Made)
  <2>1. Made \subseteq Slots
    BY DEF Made
  <2> QED BY <2>1, SlotsCount, FS_Subset
<1>4. seen = Cardinality(Made) /\ Cardinality(Made) \in Nat
  BY <1>3, FS_CardinalityType DEF CallsInv
<1>5. Cardinality(Made) = 0 <=> Made = {}
  BY <1>3, FS_EmptySet
<1> QED BY <1>2, <1>4, <1>5

\* The summary of a faithful replay.
LEMMA SumStep ==
  ASSUME Regular, RunTypes, WorkersInWave, CompleteInv, EndInv, CallsInv, SigsInv, SigsInv', SumInv,
         Smooth', [Next]_vars
  PROVE  SumInv'
<1>0. /\ Faithful /\ Total > 0 /\ MayFail = FALSE /\ MayDrift = FALSE /\ MayWindow = FALSE
      /\ DOMAIN summary = Fields /\ summary.observed \in Nat
  BY ReplayRunAssumption DEF Regular, RunTypes
<1>1. CASE UNCHANGED <<ctl, run, summary>>
  BY <1>1 DEF SumInv
<1>2. CASE StartRun
  <2>1. ~late
    BY <1>2 DEF StartRun, Smooth
  <2>2. ctl = "loop" /\ ctl' = "wave" /\ summary' = summary
    BY <1>2, <2>1 DEF StartRun
  <2> QED BY <2>2 DEF SumInv
<1>3. CASE Collect
  <2>1. /\ \A w \in Workers : wpc[w] = "complete" /\ Fingerprint(w) = AllGood
        /\ ctl = "wave" /\ ctl' = "observe" /\ run' = run
    <3>1. ctl = "wave" /\ ctl' = "observe" /\ UNCHANGED <<run, wpc, sigs, prints>>
      BY <1>3 DEF Collect, worker, history
    <3>2. \A w \in Workers : wpc[w] = "complete"
      BY <3>1 DEF SigsInv
    <3>3. \A w \in Workers : sigs[w] = AllGood
      BY <3>2 DEF EndInv, SigsInv
    <3> QED BY <3>1, <3>2, <3>3 DEF Fingerprint
  <2> DEFINE read == {w \in Workers : wpc[w] # "failed"}
  <2>2. read = Workers /\ Workers # {}
    BY <2>1, ReplayRunAssumption
  <2>3. PICK ref : /\ summary.reference # Unset => ref = summary.reference
                   /\ summary.reference = Unset => \E w \in read : ref = Fingerprint(w)
                   /\ summary'.reference = ref
                   /\ summary'.nondet = (summary.nondet \/ \E w \in read : Fingerprint(w) # ref)
                   /\ summary'.waveComplete = (\A w \in Workers : wpc[w] = "complete")
                   /\ summary'.outcome = summary.outcome /\ summary'.reason = summary.reason
                   /\ summary'.observed = summary.observed
    <3>1. PICK ref \in IF summary.reference # Unset THEN {summary.reference}
                       ELSE IF read = {} THEN {Unset}
                       ELSE {Fingerprint(w) : w \in read} :
            summary' = [summary EXCEPT
              !.executed = @ + 1,
              !.waveComplete = \A w \in Workers : wpc[w] = "complete",
              !.outcome = IF \A w \in Workers : wpc[w] = "complete" THEN @ ELSE "FAIL_STALLED",
              !.reason = IF \A w \in Workers : wpc[w] = "complete" THEN @ ELSE "stalled",
              !.inbound = @ + Cardinality(CompletedBy(read)),
              !.reference = ref,
              !.nondet = @ \/ \E w \in read : Fingerprint(w) # ref]
      BY <1>3 DEF Collect
    <3>2. \A w \in Workers : wpc[w] = "complete"
      BY <2>1
    <3> HIDE DEF read
    <3> QED BY <1>0, <2>2, <3>1, <3>2 DEF Fields
  <2>4. /\ summary.reference \in {Unset, AllGood} /\ summary.nondet = FALSE
        /\ summary.outcome = "none" /\ summary.reason = "none"
    BY <2>1 DEF SumInv
  <2> HIDE DEF read
  <2>5. ref = AllGood
    BY <2>1, <2>2, <2>3, <2>4
  <2> QED BY <2>1, <2>2, <2>3, <2>4, <2>5 DEF SumInv
<1>4. CASE Observe
  <2>1. Quiet
    BY <1>4 DEF Observe, Straggle, Quiet, Smooth
  <2>2. /\ ctl = "observe" /\ ctl' = "judge" /\ run' = run
        /\ summary' = [summary EXCEPT !.observed = @ + seen]
    BY <1>4 DEF Observe
  <2>3. seen \in Nat /\ (seen > 0 <=> Covered)
    BY <1>0, <2>1, <2>2, AllMade DEF SigsInv, InRun
  <2>4. summary'.observed = summary.observed + seen
    BY <1>0, <2>2 DEF Fields
  <2>5. /\ Covered => summary'.observed > 0
        /\ ~Covered => summary'.observed = 0
    BY <1>0, <2>3, <2>4 DEF SumInv
  <2>6. /\ summary'.outcome = summary.outcome /\ summary'.reason = summary.reason
        /\ summary'.nondet = summary.nondet /\ summary'.reference = summary.reference
        /\ summary'.waveComplete = summary.waveComplete
    BY <1>0, <2>2 DEF Fields
  <2> QED BY <2>2, <2>5, <2>6 DEF SumInv
<1>5. CASE Judge
  <2>1. ctl = "judge" /\ refused = 0 /\ summary.waveComplete
    BY <1>5 DEF Judge, CallsInv, InRun, SumInv
  <2>2. /\ ctl' = (IF run < Runs THEN "loop" ELSE "post") /\ run' = run
        /\ summary' = [summary EXCEPT !.completed = @ + 1, !.outcome = @, !.reason = @]
    BY <1>5, <2>1 DEF Judge
  <2>3. /\ summary'.outcome = summary.outcome /\ summary'.reason = summary.reason
        /\ summary'.nondet = summary.nondet /\ summary'.reference = summary.reference
        /\ summary'.observed = summary.observed /\ summary'.completed = summary.completed + 1
    BY <1>0, <2>2 DEF Fields
  <2>4. summary'.completed = run /\ run \in 0..Runs
    BY <2>1, <2>3 DEF CompleteInv
  <2> QED BY <2>1, <2>2, <2>3, <2>4, ReplayRunAssumption DEF SumInv
<1>6. CASE Conclude
  <2>1. PICK diff \in {FALSE, MayDrift}, drift \in {FALSE, MayDrift},
             window \in {FALSE, MayWindow}, slow \in {FALSE, MayWindow} :
          LET s == [summary EXCEPT !.window = window,
                                   !.outcome = Assess(summary, diff, drift, window, slow)]
          IN  summary' = [s EXCEPT !.outcome = ComputeOutcome(s)]
    BY <1>6 DEF Conclude
  <2>2. /\ ctl = "post" /\ ctl' = "done" /\ summary.outcome = "none" /\ summary.reason = "none"
        /\ summary.nondet = FALSE /\ summary.completed = Runs
        /\ Covered <=> summary.observed > 0
    BY <1>0, <1>6 DEF Conclude, SumInv
  <2>3. Assess(summary, diff, drift, window, slow) = "none"
    BY <1>0, <2>1, <2>2 DEF Assess
  <2> DEFINE s == [summary EXCEPT !.window = window,
                                  !.outcome = Assess(summary, diff, drift, window, slow)]
  <2>4. summary' = [s EXCEPT !.outcome = ComputeOutcome(s)]
    BY <2>1
  <2>5. /\ DOMAIN s = Fields /\ s.outcome = "none" /\ s.reason = "none" /\ s.nondet = FALSE
        /\ s.completed = Runs /\ s.observed = summary.observed /\ s.observed \in Nat
    BY <1>0, <2>2, <2>3 DEF Fields
  <2> HIDE DEF s
  <2>8. Expected > 0
    <3>1. Total \in Nat \ {0}
      BY <1>0, CallsAreCaptured, FS_CardinalityType
    <3>2. Fanout \in Nat \ {0}
      BY WaveType, ReplayRunAssumption, FS_EmptySet DEF Fanout
    <3>3. \A a, b \in Nat \ {0} : a * b \in Nat \ {0}
      OBVIOUS
    <3>4. Total * Runs \in Nat \ {0}
      BY <3>1, <3>3, ReplayRunAssumption
    <3>5. Expected \in Nat \ {0}
      BY <3>2, <3>3, <3>4 DEF Expected
    <3> QED BY <3>5
  <2>6. ComputeOutcome(s) = IF Covered THEN "PASS_STRONG" ELSE "FAIL_NO_COVERAGE"
    BY <2>2, <2>5, <2>8 DEF ComputeOutcome
  <2>7. /\ summary'.outcome = IF Covered THEN "PASS_STRONG" ELSE "FAIL_NO_COVERAGE"
        /\ summary'.observed = summary.observed
    BY <2>4, <2>5, <2>6 DEF Fields
  <2> QED BY <2>2, <2>7, <1>0 DEF SumInv
<1>7. CASE UNCHANGED vars \/ Expire \/ \E t \in Request : Respond(t) \/ Call(t)
  BY <1>1, <1>7 DEF vars, Expire, Respond, Call
<1>8. ASSUME NEW w \in Workers, Work(w)
      PROVE  SumInv'
  BY <1>1, <1>8 DEF Work, Turn, CutShort, Skip, Send, Receive, GiveUp, Hash, Fail, Finish
<1> QED
  BY <1>2, <1>3, <1>4, <1>5, <1>6, <1>7, <1>8 DEF Next, App, Control

LEMMA FaithfulInvariant ==
  ASSUME Regular
  PROVE  Spec => [](RunInv /\ CompleteInv /\ EndInv /\ (Smooth => GoodInv))
<1>1. Init => EndInv /\ GoodInv
  <2> SUFFICES ASSUME Init PROVE EndInv /\ GoodInv
    OBVIOUS
  <2>1. ctl = "loop" /\ run = 0 /\ prints = {} /\ Len(<< >>) = 0 /\ << >> \in Seq(Kinds)
    BY DEF Init
  <2>2. EndInv
    BY <2>1 DEF Init, EndInv
  <2>3. CallsInv /\ AppInv
    BY <2>1 DEF Init, CallsInv, AppInv, InRun
  <2>4. SigsInv
    BY <2>1 DEF Init, SigsInv
  <2>5. SumInv
    BY <2>1, ReplayRunAssumption DEF Init, SumInv
  <2> QED BY <2>2, <2>3, <2>4, <2>5 DEF GoodInv
<1>2. RunInv /\ CompleteInv /\ EndInv /\ (Smooth => GoodInv) /\ [Next]_vars
        => (EndInv /\ (Smooth => GoodInv))'
  <2> SUFFICES ASSUME RunTypes, WorkersInWave, CompleteInv, EndInv, Smooth => GoodInv, [Next]_vars
               PROVE  EndInv' /\ (Smooth' => GoodInv')
    BY DEF RunInv
  <2>1. EndInv'
    BY EndStep
  <2>2. ASSUME Smooth'
        PROVE  GoodInv'
    <3>1. ~MayFail
      BY DEF Regular
    <3>2. Smooth /\ GoodInv
      BY <2>2, <3>1, SmoothBack
    <3>3. CallsInv /\ AppInv /\ SigsInv /\ SumInv
      BY <3>2 DEF GoodInv
    <3>4. CallsInv' /\ AppInv'
      BY <2>2, <3>2, <3>3, CallsStep, AppStep
    <3>5. SigsInv'
      BY <2>2, <3>1, <3>3, SigsStep
    <3>6. SumInv'
      BY <2>2, <3>3, <3>5, SumStep
    <3> QED BY <3>4, <3>5, <3>6 DEF GoodInv
  <2> QED BY <2>1, <2>2
<1> QED BY <1>1, <1>2, CompleteInvariant, PTL DEF Spec

\* An application that calls as captured passes strongly, with any fanout and
\* number of runs and in every interleaving of its calls, if they arrive before
\* the stub is read and no request is given up on or cut short; it fails for
\* lack of coverage if safe mode skips every request that makes a call.
THEOREM FaithfulReplayPasses == Spec => []FaithfulAppPasses
<1>1. CASE Regular
  <2>1. ASSUME RunInv, EndInv, Smooth => GoodInv
        PROVE  FaithfulAppPasses
    <3> SUFFICES ASSUME ctl = "done", straggled = {}, ~late,
                        \A p \in prints : \A i \in 1..Len(p) : p[i] # "error"
                 PROVE  summary.outcome = IF Covered THEN "PASS_STRONG" ELSE "FAIL_NO_COVERAGE"
      BY DEF FaithfulAppPasses, Covered
    <3>1. \A p \in prints : NoError(p)
      BY DEF NoError
    <3>2. ASSUME NEW w \in Workers
          PROVE  NoError(sigs[w])
      <4>1. wpc[w] \in Ended \cup {"idle"}
        BY <2>1 DEF RunInv, WorkersInWave
      <4>2. wpc[w] \in {"complete", "idle"}
        BY <1>1, <2>1, <4>1 DEF Regular, EndInv, Ended
      <4>3. Len(<< >>) = 0
        OBVIOUS
      <4> QED BY <2>1, <3>1, <4>2, <4>3 DEF EndInv, NoError
    <3>3. Smooth
      BY <3>1, <3>2 DEF Smooth
    <3> QED BY <2>1, <3>3 DEF GoodInv, SumInv
  <2>2. (RunInv /\ EndInv /\ (Smooth => GoodInv)) => FaithfulAppPasses
    BY <2>1
  <2>3. Spec => [](RunInv /\ CompleteInv /\ EndInv /\ (Smooth => GoodInv))
    BY <1>1, FaithfulInvariant
  <2> QED BY <2>2, <2>3, PTL
<1>2. CASE ~Regular
  <2>1. FaithfulAppPasses
    BY <1>2 DEF FaithfulAppPasses, Regular
  <2> QED BY <2>1, PTL
<1> QED BY <1>1, <1>2
=============================================================================
