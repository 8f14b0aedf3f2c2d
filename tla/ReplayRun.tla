----------------------------- MODULE ReplayRun -----------------------------
(***************************************************************************)
(* The replay command: the run loop and the verdict of cmd/agent, the      *)
(* workers it fans out (pkg/replaydriver) and the application under test,  *)
(* whose outbound calls go to the stub (pkg/stubproxy).  A request that    *)
(* times out at the worker may go on in the application, and its calls     *)
(* reach the stub when the wave, or the run, is over.                      *)
(*                                                                         *)
(* Abstracted: a call is its kind, served or refused in one step (StubProxy *)
(* has the steps), Reset with Configure is one step; a response is good or *)
(* shows that a dependency failed; the wall clock is a flag that rises at  *)
(* any time; the comparisons of --diff and --openapi and the window find   *)
(* something or not.                                                       *)
(***************************************************************************)
EXTENDS Integers, Sequences, FiniteSets

CONSTANTS
  Workers,    (* fanout                                                    *)
  Runs,       (* runs requested                                            *)
  NEvents,    (* captured inbound requests, in order                       *)
  Skips,      (* those that safe mode skips: writes it was not told to send *)
  Kinds,      (* kinds of outbound calls that matchers tell apart          *)
  Captured,   (* captured outbound calls of each kind                      *)
  Scripts,    (* Scripts[i]: the call sequences request i may cause        *)
  Async,      (* the application may answer before its calls are made      *)
  TimesOut,   (* a worker may give up on a request                         *)
  MayFail,    (* a worker may fail to read a response                      *)
  MayExpire,  (* --max-wall-time may pass                                  *)
  MayDrift,   (* --diff and --openapi are on, and may find something       *)
  MayWindow   (* --window may be given                                     *)

ASSUME ReplayRunAssumption ==
  /\ Workers # {} /\ IsFiniteSet(Workers) /\ IsFiniteSet(Kinds)
  /\ Runs \in Nat \ {0} /\ NEvents \in Nat \ {0}
  /\ Skips \subseteq 1..NEvents
  /\ Captured \in [Kinds -> Nat]
  /\ \A i \in 1..NEvents : Scripts[i] # {} /\ Scripts[i] \subseteq Seq(Kinds)
  /\ {Async, TimesOut, MayFail, MayExpire, MayDrift, MayWindow} \subseteq BOOLEAN

Fanout   == Cardinality(Workers)
Total    == Cardinality(UNION {{k} \X (1..Captured[k]) : k \in Kinds})
Target   == NEvents * Runs * Fanout
Expected == Total * Runs * Fanout
Sent     == (1..NEvents) \ Skips
Request  == (1..Runs) \X Workers \X (1..NEvents)

VARIABLES
  ctl,          (* executeReplay: loop, wave, observe, judge, post, done   *)
  run,          (* runs started                                            *)
  late,         (* the wall-clock budget has passed                        *)
  wpc,          (* of each worker: idle, ready, waiting, or how it ended   *)
  at,           (* requests it has sent or skipped in this run             *)
  sigs,         (* the response signatures it hashes                       *)
  app,          (* of each request: none, working or answered              *)
  healthy,      (* no dependency has failed it before its response         *)
  todo,         (* the calls it has still to make                          *)
  seen, budget, (* the stub's count of calls and its limit, 0 for none     *)
  uses,         (* uses of the captured calls, of each kind                *)
  refused,      (* reasons the stub has recorded since Reset               *)
  summary,      (* ReplaySummary, with waveComplete and the reference      *)
  refusals,     (* history: calls refused in all runs                      *)
  straggled,    (* history: reads of the stub with calls still to be made  *)
  prints        (* history: the fingerprints of all workers that completed *)

worker  == <<wpc, at, sigs>>
request == <<app, healthy, todo>>
stub    == <<seen, budget, uses, refused>>
history == <<refusals, straggled, prints>>
vars    == <<ctl, run, late, worker, request, stub, summary, history>>

Ended      == {"complete", "expanded", "failed"}
Current(w) == <<run, w, at[w]>>
Unset      == <<"unset">>     \* no reference fingerprint yet
Zero       == <<"zero">>      \* the fingerprint of a result cut short

-----------------------------------------------------------------------------
(* The application and the stub.                                           *)

\* Mutant: the budget of one worker for all of them.
BudgetOfOneWorker == Total

Budget == Total * Fanout

\* The captured calls are cycled for several workers.
Multiplier == Fanout

Refuses(k) ==
  \/ budget > 0 /\ seen >= budget
  \/ Total > 0 /\ uses[k] >= Captured[k] * Multiplier

\* Without any captured call the stub answers 502, and records nothing.
Serves(k) == ~Refuses(k) /\ Total > 0

\* The application makes the next call of request t.
Call(t) ==
  LET k == Head(todo[t])
  IN  /\ todo[t] # << >>
      /\ todo' = [todo EXCEPT ![t] = Tail(@)]
      /\ seen' = seen + 1
      /\ IF Serves(k) THEN uses' = [uses EXCEPT ![k] = @ + 1] ELSE UNCHANGED uses
      /\ IF Refuses(k)
         THEN refused' = refused + 1 /\ refusals' = refusals + 1
         ELSE UNCHANGED <<refused, refusals>>
      /\ healthy' = [healthy EXCEPT ![t] = @ /\ (Serves(k) \/ app[t] = "answered")]
      /\ UNCHANGED <<ctl, run, late, worker, app, budget, summary, straggled, prints>>

Respond(t) ==
  /\ app[t] = "working" /\ app' = [app EXCEPT ![t] = "answered"]
  /\ Async \/ todo[t] = << >>
  /\ UNCHANGED <<ctl, run, late, worker, healthy, todo, stub, summary, history>>

App == \E t \in Request : ctl # "done" /\ (Call(t) \/ Respond(t))

-----------------------------------------------------------------------------
(* A worker: ReplayEvents.                                                 *)

Turn(w) == wpc[w] = "ready" /\ at[w] < NEvents

\* The budget of wall time is looked at before each request ...
CutShort(w) ==
  /\ Turn(w) /\ late
  /\ wpc' = [wpc EXCEPT ![w] = "expanded"]
  /\ UNCHANGED <<ctl, run, late, at, sigs, request, stub, summary, history>>

\* Safe mode goes past a write: no request, no signature.
Skip(w) ==
  /\ Turn(w) /\ ~late
  /\ at[w] + 1 \in Skips
  /\ at' = [at EXCEPT ![w] = @ + 1]
  /\ UNCHANGED <<ctl, run, late, wpc, sigs, request, stub, summary, history>>

Send(w) ==
  /\ Turn(w) /\ ~late
  /\ at[w] + 1 \notin Skips
  /\ wpc' = [wpc EXCEPT ![w] = "waiting"]
  /\ at' = [at EXCEPT ![w] = @ + 1]
  /\ \E s \in Scripts[at[w] + 1] :
       LET t == <<run, w, at[w] + 1>>
       IN  app' = [app EXCEPT ![t] = "working"] /\ todo' = [todo EXCEPT ![t] = s]
  /\ UNCHANGED <<ctl, run, late, sigs, healthy, stub, summary, history>>

\* ... and after each answer, whose signature is hashed.
Hash(w, sig) ==
  /\ wpc[w] = "waiting"
  /\ wpc' = [wpc EXCEPT ![w] = IF late THEN "expanded" ELSE "ready"]
  /\ sigs' = [sigs EXCEPT ![w] = Append(@, sig)]
  /\ UNCHANGED <<ctl, run, late, at, request, stub, summary, history>>

Receive(w) ==
  /\ wpc[w] = "waiting" /\ app[Current(w)] = "answered"
  /\ Hash(w, IF healthy[Current(w)] THEN "good" ELSE "bad")

\* Mutant: a client without a timeout.
GiveUpNever(w) == wpc[w] = "none" /\ Hash(w, "error")

\* The client's timeout: an error is a signature too, and no failure.
GiveUp(w) == TimesOut /\ Hash(w, "error")

\* The response cannot be read: ReplayEvents returns an error.
Fail(w) ==
  /\ MayFail
  /\ wpc[w] = "waiting" /\ wpc' = [wpc EXCEPT ![w] = "failed"]
  /\ app[Current(w)] = "answered"
  /\ UNCHANGED <<ctl, run, late, at, sigs, request, stub, summary, history>>

Finish(w) ==
  /\ wpc[w] = "ready" /\ at[w] = NEvents
  /\ wpc' = [wpc EXCEPT ![w] = "complete"]
  /\ prints' = prints \cup {sigs[w]}
  /\ UNCHANGED <<ctl, run, late, at, sigs, request, stub, summary, refusals, straggled>>

Work(w) ==
  CutShort(w) \/ Skip(w) \/ Send(w) \/ Receive(w) \/ GiveUp(w) \/ Fail(w) \/ Finish(w)

Expire ==
  /\ MayExpire /\ ~late /\ late' = TRUE
  /\ ctl # "done"
  /\ UNCHANGED <<ctl, run, worker, request, stub, summary, history>>

-----------------------------------------------------------------------------
(* The run loop of executeReplay.                                          *)

\* Mutant: the divergences and the uses of the run before are kept.
ResetStubSeenOnly ==
  seen' = 0 /\ budget' = Budget /\ UNCHANGED <<uses, refused>>

\* stub.Reset and stub.ConfigureReplayCardinality
ResetStub ==
  /\ seen' = 0 /\ budget' = Budget
  /\ uses' = [k \in Kinds |-> 0]
  /\ refused' = 0

StartRun ==
  /\ ctl = "loop" /\ run < Runs
  /\ run' = run + 1
  /\ ResetStub
  /\ IF late
     THEN /\ ctl' = "post"
          /\ summary' = [summary EXCEPT !.reason = "wall_time"]
          /\ UNCHANGED worker
     ELSE /\ ctl' = "wave"
          /\ wpc' = [w \in Workers |-> "ready"]
          /\ at' = [w \in Workers |-> 0]
          /\ sigs' = [w \in Workers |-> << >>]
          /\ UNCHANGED summary
  /\ UNCHANGED <<late, request, history>>

Fingerprint(w) == IF wpc[w] = "complete" THEN sigs[w] ELSE Zero

\* CompletedEvents of the workers: one that completes has subtracted the
\* requests it skipped; one that was cut short counts all that it went past.
CompletedBy(read) ==
  {p \in read \X (1..NEvents) :
     p[2] <= at[p[1]] /\ (wpc[p[1]] = "complete" => p[2] \notin Skips)}

\* Mutant: fingerprints are compared within a wave only.
CollectPerWave ==
  LET read  == {w \in Workers : wpc[w] # "failed"}
      whole == \A w \in Workers : wpc[w] = "complete"
  IN  /\ ctl = "wave" /\ ctl' = "observe"
      /\ \A w \in Workers : wpc[w] \in Ended
      /\ summary' = [summary EXCEPT
           !.executed = @ + 1,
           !.waveComplete = whole,
           !.outcome = IF whole THEN @ ELSE "FAIL_STALLED",
           !.reason = IF whole THEN @ ELSE "stalled",
           !.inbound = @ + Cardinality(CompletedBy(read)),
           !.nondet = @ \/ \E v, w \in read : Fingerprint(v) # Fingerprint(w)]
      /\ UNCHANGED <<run, late, worker, request, stub, history>>

\* The wave has been waited for; its results are read.  A worker that failed
\* leaves neither a count nor a fingerprint.  The first fingerprint of all is
\* the reference of all others.
Collect ==
  LET read  == {w \in Workers : wpc[w] # "failed"}
      whole == \A w \in Workers : wpc[w] = "complete"
  IN  /\ ctl = "wave" /\ ctl' = "observe"
      /\ \A w \in Workers : wpc[w] \in Ended
      /\ \E ref \in IF summary.reference # Unset THEN {summary.reference}
                    ELSE IF read = {} THEN {Unset}
                    ELSE {Fingerprint(w) : w \in read} :
           summary' = [summary EXCEPT
             !.executed = @ + 1,
             !.waveComplete = whole,
             !.outcome = IF whole THEN @ ELSE "FAIL_STALLED",
             !.reason = IF whole THEN @ ELSE "stalled",
             !.inbound = @ + Cardinality(CompletedBy(read)),
             !.reference = ref,
             !.nondet = @ \/ \E w \in read : Fingerprint(w) # ref]
      /\ UNCHANGED <<run, late, worker, request, stub, history>>

\* The stub is read while the application may still call it.
Straggle(read) ==
  straggled' = IF \E t \in Request : app[t] = "working" \/ todo[t] # << >>
               THEN straggled \cup {read} ELSE straggled

\* stub.ObservedCount
Observe ==
  /\ ctl = "observe" /\ ctl' = "judge"
  /\ summary' = [summary EXCEPT !.observed = @ + seen]
  /\ Straggle("observe")
  /\ UNCHANGED <<run, late, worker, request, stub, refusals, prints>>

\* Mutant: a divergence ends the loop and does not fail the replay.
JudgeReasonOnly ==
  /\ ctl = "judge"
  /\ LET counts == summary.waveComplete /\ refused = 0
     IN  /\ ctl' = IF counts /\ run < Runs THEN "loop" ELSE "post"
         /\ summary' = [summary EXCEPT
              !.completed = IF counts THEN @ + 1 ELSE @,
              !.reason = IF refused > 0 THEN "divergence" ELSE @]
  /\ Straggle("judge")
  /\ UNCHANGED <<run, late, worker, request, stub, refusals, prints>>

\* stub.DivergenceReasons: the run counts if its wave is complete and nothing
\* was refused; otherwise it is the last one.
Judge ==
  /\ ctl = "judge"
  /\ LET counts == summary.waveComplete /\ refused = 0
     IN  /\ ctl' = IF counts /\ run < Runs THEN "loop" ELSE "post"
         /\ summary' = [summary EXCEPT
              !.completed = IF counts THEN @ + 1 ELSE @,
              !.outcome = IF refused > 0 THEN "FAIL_NON_DETERMINISTIC" ELSE @,
              !.reason = IF refused > 0 THEN "divergence" ELSE @]
  /\ Straggle("judge")
  /\ UNCHANGED <<run, late, worker, request, stub, refusals, prints>>

\* What follows the loop: the comparison, the contract, the window.
Assess(s, diff, drift, window, slow) ==
  IF window /\ (s.inbound < Target \/ slow) THEN "FAIL_SLO_MISSED"
  ELSE IF s.outcome # "none" THEN s.outcome
  ELSE IF diff THEN "FAIL_NON_DETERMINISTIC"
  ELSE IF drift THEN "FAIL_CONTRACT_DRIFT"
  ELSE "none"

\* Mutant: a strong pass without looking at the number of completed runs.
ComputeOutcomeAnyRuns(s) ==
  IF s.outcome # "none" THEN s.outcome
  ELSE IF Expected > 0 /\ s.observed = 0 THEN "FAIL_NO_COVERAGE"
  ELSE IF s.executed > 1 /\ s.nondet THEN "FAIL_NON_DETERMINISTIC"
  ELSE IF s.observed > 0 THEN "PASS_STRONG" ELSE "PASS_WEAK"

\* computeOutcome
ComputeOutcome(s) ==
  IF s.outcome # "none" THEN s.outcome
  ELSE IF Expected > 0 /\ s.observed = 0 THEN "FAIL_NO_COVERAGE"
  ELSE IF s.executed > 1 /\ s.nondet THEN "FAIL_NON_DETERMINISTIC"
  ELSE IF s.reason # "none" /\ s.completed = 0 THEN "FAIL_STALLED"
  ELSE IF s.completed = Runs /\ s.observed > 0 THEN "PASS_STRONG"
  ELSE "PASS_WEAK"

Conclude ==
  /\ ctl = "post" /\ ctl' = "done"
  /\ \E diff, drift \in {FALSE, MayDrift}, window, slow \in {FALSE, MayWindow} :
       LET s == [summary EXCEPT
                   !.window = window,
                   !.outcome = Assess(summary, diff, drift, window, slow)]
       IN  summary' = [s EXCEPT !.outcome = ComputeOutcome(s)]
  /\ UNCHANGED <<run, late, worker, request, stub, history>>

Control == StartRun \/ Collect \/ Observe \/ Judge \/ Conclude

-----------------------------------------------------------------------------
Init ==
  /\ ctl = "loop" /\ run = 0 /\ late = FALSE
  /\ wpc = [w \in Workers |-> "idle"]
  /\ at = [w \in Workers |-> 0]
  /\ sigs = [w \in Workers |-> << >>]
  /\ app = [t \in Request |-> "none"]
  /\ healthy = [t \in Request |-> TRUE]
  /\ todo = [t \in Request |-> << >>]
  /\ seen = 0 /\ budget = 0 /\ uses = [k \in Kinds |-> 0] /\ refused = 0
  /\ summary = [executed |-> 0, completed |-> 0, inbound |-> 0, observed |-> 0,
                waveComplete |-> FALSE, reference |-> Unset, nondet |-> FALSE,
                window |-> FALSE, reason |-> "none", outcome |-> "none"]
  /\ refusals = 0 /\ straggled = {} /\ prints = {}

Next == Control \/ Expire \/ App \/ \E w \in Workers : Work(w)

\* The loop and the workers run; a request is answered or given up on, for
\* the client has a timeout.  The application may stop making its calls.
Fairness == WF_vars(Control) /\ \A w \in Workers : WF_vars(Work(w))

Spec == Init /\ [][Next]_vars /\ Fairness

-----------------------------------------------------------------------------
(* Properties.                                                             *)

Passed == ctl = "done" /\ summary.outcome \in {"PASS_STRONG", "PASS_WEAK"}
Strong == ctl = "done" /\ summary.outcome = "PASS_STRONG"

\* A replay passes only if the stub refused no call in any of its runs, unless
\* a run was judged before the application had made its calls.
PassMeansNoRefusal == (Passed /\ "judge" \notin straggled) => refusals = 0

\* A strong pass means that every requested run was completed by every worker,
\* that in each of them every worker sent each request of the capture except
\* the writes that safe mode skips, and counted just these, that nothing was
\* skipped if a window was asked for, and that dependencies were called.
StrongMeansComplete ==
  Strong => /\ summary.completed = Runs /\ run = Runs
            /\ \A t \in Request : (app[t] # "none") <=> (t[3] \notin Skips)
            /\ summary.inbound = Cardinality(Sent) * Runs * Fanout
            /\ summary.window => Skips = {}
            /\ summary.observed > 0

\* A replay passes, once it has executed more than one run, only if all its
\* workers saw the same responses, in all of its runs.
PassMeansDeterministic ==
  (Passed /\ summary.executed > 1) => Cardinality(prints) <= 1

\* Dependencies that were captured and never called are not a pass.
PassMeansCoverage == (Passed /\ Expected > 0) => summary.observed > 0

\* The scripts are a single behaviour, the one that was captured.
Script(n) == CHOOSE s \in Scripts[n] : TRUE
Calls     == UNION {{n} \X DOMAIN Script(n) : n \in 1..NEvents}
KindOf(c) == Script(c[1])[c[2]]

Faithful ==
  /\ \A n \in 1..NEvents : Scripts[n] = {Script(n)}
  /\ \A k \in Kinds : Captured[k] = Cardinality({c \in Calls : KindOf(c) = k})

\* An application that behaves as captured passes strongly with any fanout and
\* any number of runs, whatever the interleaving of its calls, those it makes
\* after it has answered included, if its calls arrive before the stub is read
\* and no request is given up on or cut short - unless safe mode skips every
\* request that calls a dependency: then it fails for lack of coverage.
FaithfulAppPasses ==
  (/\ ctl = "done" /\ Faithful /\ Total > 0 /\ straggled = {} /\ ~late
   /\ \A p \in prints : \A i \in 1..Len(p) : p[i] # "error"
   /\ ~(MayFail \/ MayDrift \/ MayWindow)) =>
     summary.outcome = IF \E c \in Calls : c[1] \in Sent
                       THEN "PASS_STRONG" ELSE "FAIL_NO_COVERAGE"

\* The command ends, whatever the application does.
Terminates == <>(ctl = "done")
=============================================================================
