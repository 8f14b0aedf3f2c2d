----------------------------- MODULE StubProxy -----------------------------
(***************************************************************************)
(* The dependency stub of pkg/stubproxy with the scenario engine of        *)
(* pkg/scenario.  The application under test sends its outbound calls to   *)
(* the stub; every call is served by a goroutine of its own, so a handler  *)
(* is a process here and each shared access of ServeHTTP is a step of it.  *)
(* The controller (the replay loop of cmd/agent, or the control API of     *)
(* pkg/simserver) runs Reset and ConfigureReplayCardinality, one store per *)
(* step, without waiting for handlers that are still running.              *)
(*                                                                         *)
(* Abstracted: what a call contains (two calls are the same call when no   *)
(* matcher tells them apart), the bytes of a response, and time (a handler *)
(* that sleeps is one that has not taken its next step yet).               *)
(***************************************************************************)
EXTENDS Integers, FiniteSets, Sequences, FiniteSetsExt

CONSTANTS
  Requests,     (* handler goroutines: outbound calls that may be made     *)
  Calls,        (* the calls a matcher can tell apart                      *)
  NoCall,       (* no call yet                                             *)
  NEvents,      (* len(s.events), the captured outbound calls              *)
  Accepts,      (* Accepts[e]: the calls captured event e matches          *)
  Replayable,   (* captured events with a status and a decodable body      *)
  Scenarios,    (* scenario names                                          *)
  States,       (* scenario states                                         *)
  InitialState, (* initial_state of each scenario                          *)
  Steps,        (* the steps of all scenarios, in configuration order      *)
  Deps,         (* dependency keys: hosts                                  *)
  DepOf,        (* depKey of a call                                        *)
  Rule,         (* first injection rule of a dependency                    *)
  Configures,   (* the controller follows Reset by a configuration: the    *)
                (* replay command does, a server does not                  *)
  Fanout,       (* replays that run beside each other in a run             *)
  MaxResets     (* bound on the number of Resets                           *)

NoState == ""   \* NextState of a step that stays
NoLimit == -1   \* RetryLimit when the rule, or the dependency, has none

ASSUME StubAssumption ==
  /\ IsFiniteSet(Requests)
  /\ NoCall \notin Calls
  /\ NEvents \in Nat
  /\ Accepts \in [1..NEvents -> SUBSET Calls]
  /\ Replayable \subseteq 1..NEvents
  /\ NoState \notin States
  /\ InitialState \in [Scenarios -> States]
  /\ Steps \in Seq([scenario: Scenarios, state: States, accepts: SUBSET Calls,
                    next: States \cup {NoState}, renders: SUBSET Calls])
  /\ DepOf \in [Calls -> Deps]
  /\ Rule \in [Deps -> [timeout: BOOLEAN, retryLimit: Nat \cup {NoLimit}]]
  /\ Configures \in BOOLEAN
  /\ Fanout \in Nat \ {0}
  /\ MaxResets \in Nat

VARIABLES
  seen,         (* calls counted since Reset                               *)
  maxSeen,      (* budget of calls, 0 for none                             *)
  multiplier,   (* matchMultiplier: uses of each captured event            *)
  useCount,     (* eventUseCounts                                          *)
  attempts,     (* matched calls per dependency                            *)
  divergences,  (* calls with a divergence reason, and the reason          *)
  unexpected,   (* unexpectedOutbound                                      *)
  scenario,     (* current state of each scenario                          *)
  pc,           (* control point of a handler, its answer once it is done  *)
  call,         (* the call a handler serves                               *)
  ticket,       (* the value its atomic add of seen returned               *)
  event,        (* the captured event it matched, 0 for none               *)
  step,         (* the scenario step it took, 0 for none                   *)
  attempt,      (* the value of attempts it read back, 0 for none          *)
  ctl,          (* control point of Reset and Configure                    *)
  resets,       (* Resets started                                          *)
  charged,      (* history: the requests each counter counts since it was  *)
                (* last cleared                                            *)
  undisturbed   (* history: no handler ran while the last Reset did        *)

shared   == <<seen, maxSeen, multiplier, useCount, attempts, divergences,
              unexpected, scenario>>
locals   == <<call, ticket, event, step, attempt>>
control  == <<ctl, resets>>
vars     == <<shared, pc, locals, control, charged, undisturbed>>

Answers  == {"bad_body", "unexpected", "no_events", "scenario_reply",
             "render_failed", "injected_timeout", "injected_failure",
             "captured_error", "captured"}
Running  == {"counted", "over_budget", "scenario", "render", "match",
             "no_match", "attempt", "reply"}
Counters == {"seen", "use", "attempt", "step"}

Active   == {r \in Requests : pc[r] \in Running}

-----------------------------------------------------------------------------
(* The handler: ServeHTTP.                                                 *)

\* A handler step while the controller is between two stores is a race.
Move(r, from, to) ==
  /\ pc[r] = from
  /\ pc' = [pc EXCEPT ![r] = to]
  /\ undisturbed' = (undisturbed /\ ctl = "idle")
  /\ UNCHANGED control

Charge(counter, r) ==
  charged' = [charged EXCEPT ![counter] = @ \cup {r}]

\* A body that cannot be read, or is over 16 MiB, is refused before anything
\* is counted.
RejectBody(r) ==
  /\ Move(r, "idle", "bad_body")
  /\ UNCHANGED <<shared, locals, charged>>

\* seen := atomic.AddInt64(&s.seen, 1)
Arrive(r, c) ==
  /\ Move(r, "idle", "counted")
  /\ seen' = seen + 1
  /\ ticket' = [ticket EXCEPT ![r] = seen + 1]
  /\ call' = [call EXCEPT ![r] = c]
  /\ Charge("seen", r)
  /\ UNCHANGED <<maxSeen, multiplier, useCount, attempts, divergences,
                 unexpected, scenario, event, step, attempt>>

\* Mutant: the off-by-one that refuses the last call of the budget.
OverBudgetOffByOne(r) == maxSeen > 0 /\ ticket[r] >= maxSeen

OverBudget(r) == maxSeen > 0 /\ ticket[r] > maxSeen

CheckBudget(r) ==
  /\ Move(r, "counted", IF OverBudget(r) THEN "over_budget" ELSE "scenario")
  /\ UNCHANGED <<shared, locals, charged>>

\* The steps that serve call c in the scenarios' current states.
EnabledSteps(c) ==
  {k \in 1..Len(Steps) : /\ Steps[k].state = scenario[Steps[k].scenario]
                         /\ c \in Steps[k].accepts}

Target(k) == IF Steps[k].next = NoState THEN Steps[k].state ELSE Steps[k].next

\* scenario.Engine.Match, a transition under the engine's lock: the first step,
\* in configuration order, whose state is current and whose rule accepts c.
TakeStep(r) ==
  /\ Move(r, "scenario", "render")
  /\ EnabledSteps(call[r]) # {}
  /\ LET k == Min(EnabledSteps(call[r]))
     IN  /\ scenario' = [scenario EXCEPT ![Steps[k].scenario] = Target(k)]
         /\ step' = [step EXCEPT ![r] = k]
  /\ Charge("step", r)
  /\ UNCHANGED <<seen, maxSeen, multiplier, useCount, attempts, divergences,
                 unexpected, call, ticket, event, attempt>>

NoStep(r) ==
  /\ Move(r, "scenario", IF NEvents = 0 THEN "no_events" ELSE "match")
  /\ EnabledSteps(call[r]) = {}
  /\ UNCHANGED <<shared, locals, charged>>

\* Templates are rendered after the transition; a failure answers 502.
Render(r) ==
  /\ Move(r, "render", IF call[r] \in Steps[step[r]].renders
                       THEN "scenario_reply" ELSE "render_failed")
  /\ UNCHANGED <<shared, locals, charged>>

\* Mutant: <= for <, one use too many.
FreeEventsOneMore(c) ==
  {e \in 1..NEvents : c \in Accepts[e] /\ useCount[e] <= multiplier}

\* The captured events that match call c and have a use left.
FreeEvents(c) ==
  {e \in 1..NEvents : c \in Accepts[e] /\ useCount[e] < multiplier}

\* matchExpected, under matchMu: the first such event is used once more.
TakeEvent(r) ==
  /\ Move(r, "match", "attempt")
  /\ FreeEvents(call[r]) # {}
  /\ LET e == Min(FreeEvents(call[r]))
     IN  /\ useCount' = [useCount EXCEPT ![e] = @ + 1]
         /\ event' = [event EXCEPT ![r] = e]
  /\ Charge("use", r)
  /\ UNCHANGED <<seen, maxSeen, multiplier, attempts, divergences, unexpected,
                 scenario, call, ticket, step, attempt>>

NoEvent(r) ==
  /\ Move(r, "match", "no_match")
  /\ FreeEvents(call[r]) = {}
  /\ UNCHANGED <<shared, locals, charged>>

\* Mutant: only an unmatched call raises the flag.
ReportFlagsOnlyNoMatch(r) ==
  /\ \E why \in {"over_budget", "no_match"} :
       /\ Move(r, why, "unexpected")
       /\ divergences' = divergences \cup {<<r, why>>}
       /\ unexpected' = (unexpected \/ why = "no_match")
  /\ UNCHANGED <<seen, maxSeen, multiplier, useCount, attempts, scenario,
                 locals, charged>>

\* Both refusals append a reason and set the flag under mu, then answer 502.
Report(r) ==
  /\ \E why \in {"over_budget", "no_match"} :
       /\ Move(r, why, "unexpected")
       /\ divergences' = divergences \cup {<<r, why>>}
  /\ unexpected' = TRUE
  /\ UNCHANGED <<seen, maxSeen, multiplier, useCount, attempts, scenario,
                 locals, charged>>

\* s.attempts[dep]++ and its read back, under attemptsMu.
CountAttempt(r) ==
  LET d == DepOf[call[r]]
  IN  /\ Move(r, "attempt", "reply")
      /\ attempts' = [attempts EXCEPT ![d] = @ + 1]
      /\ attempt' = [attempt EXCEPT ![r] = attempts[d] + 1]
      /\ Charge("attempt", r)
      /\ UNCHANGED <<seen, maxSeen, multiplier, useCount, divergences,
                     unexpected, scenario, call, ticket, event, step>>

\* Mutant: the attempt counter is read again when the answer is chosen.
AnswerOfRereads(r) ==
  LET d == DepOf[call[r]]
  IN  IF Rule[d].timeout THEN "injected_timeout"
      ELSE IF attempts[d] <= Rule[d].retryLimit THEN "injected_failure"
      ELSE IF event[r] \in Replayable THEN "captured" ELSE "captured_error"

\* A rule's timeout comes before its retry failures, and those before the
\* captured outcome.
AnswerOf(r) ==
  LET rule == Rule[DepOf[call[r]]]
  IN  IF rule.timeout THEN "injected_timeout"
      ELSE IF attempt[r] <= rule.retryLimit THEN "injected_failure"
      ELSE IF event[r] \in Replayable THEN "captured" ELSE "captured_error"

Reply(r) ==
  /\ Move(r, "reply", AnswerOf(r))
  /\ UNCHANGED <<shared, locals, charged>>

Handler(r) ==
  \/ RejectBody(r)
  \/ \E c \in Calls : Arrive(r, c)
  \/ CheckBudget(r)
  \/ TakeStep(r) \/ NoStep(r) \/ Render(r)
  \/ TakeEvent(r) \/ NoEvent(r) \/ Report(r)
  \/ CountAttempt(r) \/ Reply(r)

-----------------------------------------------------------------------------
(* The controller: Reset, then ConfigureReplayCardinality when replaying.  *)

ZeroUses     == [e \in 1..NEvents |-> 0]
ZeroAttempts == [d \in Deps |-> 0]

Goto(from, to) ==
  /\ ctl = from
  /\ ctl' = to
  /\ UNCHANGED <<pc, locals, resets>>

Clear(counter) == charged' = [charged EXCEPT ![counter] = {}]

\* A step of the controller with a handler running is a race as well.
StillUndisturbed == undisturbed' = (undisturbed /\ Active = {})

ResetSeen ==
  /\ ctl = "idle" /\ ctl' = "maxSeen"
  /\ resets < MaxResets /\ resets' = resets + 1
  /\ seen' = 0
  /\ Clear("seen")
  /\ undisturbed' = (Active = {})
  /\ UNCHANGED <<maxSeen, multiplier, useCount, attempts, divergences,
                 unexpected, scenario, pc, locals>>

ResetMaxSeen ==
  /\ Goto("maxSeen", "attempts")
  /\ maxSeen' = 0
  /\ StillUndisturbed
  /\ UNCHANGED <<seen, multiplier, useCount, attempts, divergences,
                 unexpected, scenario, charged>>

ResetAttempts ==
  /\ Goto("attempts", "divergences")
  /\ attempts' = ZeroAttempts
  /\ Clear("attempt")
  /\ StillUndisturbed
  /\ UNCHANGED <<seen, maxSeen, multiplier, useCount, divergences,
                 unexpected, scenario>>

ResetDivergences ==
  /\ Goto("divergences", "uses")
  /\ divergences' = {}
  /\ unexpected' = FALSE
  /\ StillUndisturbed
  /\ UNCHANGED <<seen, maxSeen, multiplier, useCount, attempts, scenario,
                 charged>>

\* Mutant: Reset keeps the uses of the run before.
ResetUsesKept ==
  /\ Goto("uses", "scenarios")
  /\ Clear("use")
  /\ StillUndisturbed
  /\ UNCHANGED shared

ResetUses ==
  /\ Goto("uses", "scenarios")
  /\ useCount' = ZeroUses
  /\ Clear("use")
  /\ StillUndisturbed
  /\ UNCHANGED <<seen, maxSeen, multiplier, attempts, divergences, unexpected,
                 scenario>>

\* Mutant: Reset keeps the scenario states of the run before.
ResetScenariosKept ==
  /\ Goto("scenarios", IF Configures THEN "budget" ELSE "idle")
  /\ Clear("step")
  /\ StillUndisturbed
  /\ UNCHANGED shared

ResetScenarios ==
  /\ Goto("scenarios", IF Configures THEN "budget" ELSE "idle")
  /\ scenario' = InitialState
  /\ Clear("step")
  /\ StillUndisturbed
  /\ UNCHANGED <<seen, maxSeen, multiplier, useCount, attempts, divergences,
                 unexpected>>

\* What the replay command configures: every replay of a run may make the
\* captured calls once.
Cycle       == Fanout > 1
MaxObserved == NEvents * Fanout

ConfigureBudget ==
  /\ Goto("budget", "multiplier")
  /\ maxSeen' = MaxObserved
  /\ StillUndisturbed
  /\ UNCHANGED <<seen, multiplier, useCount, attempts, divergences,
                 unexpected, scenario, charged>>

\* ceil(maxObserved / len(events)), at least 1, when the events are cycled.
Multiplier ==
  IF Cycle /\ NEvents > 0
  THEN Max({1, (MaxObserved + NEvents - 1) \div NEvents})
  ELSE 1

ConfigureMultiplier ==
  /\ Goto("multiplier", "idle")
  /\ multiplier' = Multiplier
  /\ StillUndisturbed
  /\ UNCHANGED <<seen, maxSeen, useCount, attempts, divergences, unexpected,
                 scenario, charged>>

Controller ==
  \/ ResetSeen \/ ResetMaxSeen \/ ResetAttempts \/ ResetDivergences
  \/ ResetUses \/ ResetScenarios
  \/ ConfigureBudget \/ ConfigureMultiplier

-----------------------------------------------------------------------------
(* NewWithOptions *)
Init ==
  /\ seen = 0 /\ maxSeen = 0 /\ multiplier = 1
  /\ useCount = ZeroUses
  /\ attempts = ZeroAttempts
  /\ divergences = {} /\ unexpected = FALSE
  /\ scenario = InitialState
  /\ pc = [r \in Requests |-> "idle"]
  /\ call = [r \in Requests |-> NoCall]
  /\ ticket = [r \in Requests |-> 0]
  /\ event = [r \in Requests |-> 0]
  /\ step = [r \in Requests |-> 0]
  /\ attempt = [r \in Requests |-> 0]
  /\ ctl = "idle" /\ resets = 0
  /\ charged = [c \in Counters |-> {}]
  /\ undisturbed = TRUE

Next == Controller \/ \E r \in Requests : Handler(r)

Spec == Init /\ [][Next]_vars

-----------------------------------------------------------------------------
(* Properties.                                                             *)

\* Every variable has its type; in particular a scenario is always in one of
\* its declared states (NextState "" means stay, it is never stored).
TypeOK ==
  /\ seen \in Nat /\ maxSeen \in Nat /\ multiplier \in Nat
  /\ useCount \in [1..NEvents -> Nat]
  /\ attempts \in [Deps -> Nat]
  /\ divergences \subseteq Requests \X {"over_budget", "no_match"}
  /\ unexpected \in BOOLEAN
  /\ scenario \in [Scenarios -> States]
  /\ pc \in [Requests -> {"idle"} \cup Running \cup Answers]
  /\ call \in [Requests -> Calls \cup {NoCall}]
  /\ ticket \in [Requests -> Nat]
  /\ event \in [Requests -> 0..NEvents]
  /\ step \in [Requests -> 0..Len(Steps)]
  /\ attempt \in [Requests -> Nat]
  /\ ctl \in {"idle", "maxSeen", "attempts", "divergences", "uses",
              "scenarios", "budget", "multiplier"}
  /\ resets \in 0..MaxResets
  /\ charged \in [Counters -> SUBSET Requests]
  /\ undisturbed \in BOOLEAN

Served(e) == {r \in charged["use"] : event[r] = e}

\* Since the uses were last cleared, no captured response has been handed to
\* more calls than the run's multiplier allows, however the handlers and a
\* Reset interleave (matchExpected, stubproxy.go).
ServedWithinCapture ==
  \A e \in 1..NEvents : Cardinality(Served(e)) <= multiplier

\* A rule with retries=n fails exactly the first n matched calls of its
\* dependency after a Reset, also when they arrive together: once every
\* counted call is answered, n of them (or all, if fewer came) were failed.
RetryFailuresExact ==
  \A d \in Deps :
    LET counted == {r \in charged["attempt"] : DepOf[call[r]] = d}
        limit   == Rule[d].retryLimit
    IN  (/\ limit # NoLimit /\ ~Rule[d].timeout
         /\ \A r \in counted : pc[r] # "reply")
        => Cardinality({r \in counted : pc[r] = "injected_failure"})
             = Min({limit, Cardinality(counted)})

Taken(sc)       == {r \in charged["step"] : Steps[step[r]].scenario = sc}
Entered(sc, st) == {r \in Taken(sc) : Target(step[r]) = st}
Left(sc, st)    == {r \in Taken(sc) : Steps[step[r]].state = st}
Unit(b)         == IF b THEN 1 ELSE 0

\* Conservation of a scenario's state: since Reset, each state was entered as
\* often as it was left, once more if the scenario is in it now, once less if
\* it began there.  Two concurrent calls can never take the same transition
\* out of a state that was entered once.
ScenarioFlow ==
  \A sc \in Scenarios, st \in States :
    Unit(InitialState[sc] = st) + Cardinality(Entered(sc, st))
      = Cardinality(Left(sc, st)) + Unit(scenario[sc] = st)

\* Captured events are told apart or interchangeable.
Distinguishable ==
  \A e, f \in 1..NEvents :
    Accepts[e] = Accepts[f] \/ Accepts[e] \cap Accepts[f] = {}

\* The calls counted since Reset are among multiplier copies of the capture.
WithinCapture ==
  /\ \A r \in charged["seen"] : \E e \in 1..NEvents : call[r] \in Accepts[e]
  /\ \A e \in 1..NEvents :
       Cardinality({r \in charged["seen"] : call[r] \in Accepts[e]})
         <= multiplier * Cardinality({f \in 1..NEvents : Accepts[f] = Accepts[e]})

\* An application that makes the captured calls, in any order and with any
\* concurrency, is never reported as divergent in a run whose Reset it did not
\* overlap.
NoFalseDivergence ==
  (Distinguishable /\ undisturbed /\ ctl = "idle" /\ WithinCapture)
    => divergences = {} /\ ~unexpected

\* After a Reset that no handler overlapped, the next run starts from the
\* state a new stub has, with its budget and its multiplier set.
CleanStart ==
  (undisturbed /\ ctl = "idle" /\ charged["seen"] = {})
    => /\ seen = 0 /\ divergences = {} /\ ~unexpected
       /\ useCount = ZeroUses /\ attempts = ZeroAttempts
       /\ scenario = InitialState
       /\ (Configures /\ resets > 0)
            => maxSeen = MaxObserved /\ multiplier = Multiplier

\* No reason is lost: a call that was refused since the last Reset is in the
\* divergences, and the flag is up exactly when there is a reason.
RefusalsReported ==
  /\ unexpected <=> divergences # {}
  /\ (undisturbed /\ ctl = "idle")
       => \A r \in charged["seen"] :
            pc[r] = "unexpected" => \E why \in {"over_budget", "no_match"} :
                                      <<r, why>> \in divergences
=============================================================================
