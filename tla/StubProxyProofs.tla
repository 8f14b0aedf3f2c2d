-------------------------- MODULE StubProxyProofs --------------------------
(***************************************************************************)
(* Theorems about StubProxy and SimServer, for any number of handlers,     *)
(* captured events, scenarios, rules, polls and Resets.                    *)
(*                                                                         *)
(* A step of the server is a step of the stub or leaves the stub alone, so *)
(* what is invariant of the stub is invariant of the server.  A status     *)
(* that no Reset disturbed reads a list of reasons that only grows, and    *)
(* the flag, which agrees with the list, last.                             *)
(***************************************************************************)
EXTENDS SimServer, TLAPS, FiniteSetTheorems, FunctionTheorems, WellFoundedInduction

(* The least element of a non-empty set of naturals exists, so matchExpected
   and scenario.Engine.Match choose one of the candidates. *)
LEMMA MinIsMember ==
  ASSUME NEW S \in SUBSET Nat, S # {}
  PROVE  Min(S) \in S
<1>1. PICK x \in S : \A y \in S : ~(<<y, x>> \in OpToRel(<, Nat))
  BY NatLessThanWellFounded, WFMin
<1>2. \A y \in S : ~(y < x)
  BY <1>1, Zenon DEF OpToRel
<1>3. \A y \in S : x =< y
  BY <1>2
<1>4. QED
  BY <1>3 DEF Min

(* The same for the maximum of two numbers, as used by Multiplier. *)
LEMMA MaxOfTwo ==
  ASSUME NEW a \in Int, NEW b \in Int
  PROVE  Max({a, b}) \in {a, b} /\ Max({a, b}) >= a /\ Max({a, b}) >= b
<1>1. \E x \in {a, b} : \A y \in {a, b} : x >= y
  OBVIOUS
<1>2. QED
  BY <1>1 DEF Max

(* The budget of a run is a number. *)
LEMMA BudgetIsNumber == MaxObserved \in Nat
<1>1. NEvents \in Nat /\ Fanout \in Nat
  BY StubAssumption
<1>2. QED
  BY <1>1 DEF MaxObserved

(* The multiplier a configuration sets is a positive number of uses. *)
LEMMA MultiplierPositive == Multiplier \in Nat /\ Multiplier >= 1
<1>1. CASE Cycle /\ NEvents > 0
  <2>1. (MaxObserved + NEvents - 1) \div NEvents \in Int
    BY <1>1, StubAssumption, BudgetIsNumber
  <2>. DEFINE m == (MaxObserved + NEvents - 1) \div NEvents
  <2>2. Max({1, m}) \in {1, m} /\ Max({1, m}) >= 1
    BY <2>1, MaxOfTwo
  <2>3. Multiplier = Max({1, m})
    BY <1>1 DEF Multiplier
  <2>4. QED
    BY <2>1, <2>2, <2>3
<1>2. CASE ~(Cycle /\ NEvents > 0)
  BY <1>2 DEF Multiplier
<1>3. QED
  BY <1>1, <1>2

(* What the candidates of a match are drawn from. *)
LEMMA CandidatesInRange ==
  ASSUME NEW c
  PROVE  /\ EnabledSteps(c) # {} => Min(EnabledSteps(c)) \in EnabledSteps(c)
         /\ FreeEvents(c) # {} => Min(FreeEvents(c)) \in FreeEvents(c)
<1>1. EnabledSteps(c) \subseteq Nat /\ FreeEvents(c) \subseteq Nat
  BY StubAssumption DEF EnabledSteps, FreeEvents
<1>2. QED
  BY <1>1, MinIsMember

(* The state a step leads to is a declared one. *)
LEMMA TargetIsState ==
  ASSUME NEW k \in 1..Len(Steps)
  PROVE  Target(k) \in States /\ Steps[k].scenario \in Scenarios
<1>. DEFINE StepRecord ==
       [scenario: Scenarios, state: States, accepts: SUBSET Calls,
        next: States \cup {NoState}, renders: SUBSET Calls]
<1>1. Steps \in Seq(StepRecord)
  BY StubAssumption
<1>2. Steps[k] \in StepRecord
  <2>. HIDE DEF StepRecord
  <2>. QED
    BY <1>1
<1>3. QED
  BY <1>2 DEF Target

-----------------------------------------------------------------------------
(* Type correctness.  The call of a running handler is known. *)

Called  == \A r \in Requests : pc[r] \in Running => call[r] \in Calls
TypeInv == TypeOK /\ Called

LEMMA HandlerTypes ==
  ASSUME TypeInv, NEW r \in Requests, Handler(r)
  PROVE  TypeOK'
<1>. USE DEF TypeInv, shared, locals, control, Move, Charge, Running, Answers,
             Counters
<1>1. CASE RejectBody(r)
  BY <1>1 DEF RejectBody, TypeOK
<1>2. ASSUME NEW c \in Calls, Arrive(r, c) PROVE TypeOK'
  BY <1>2 DEF Arrive, TypeOK
<1>3. CASE CheckBudget(r)
  BY <1>3 DEF CheckBudget, TypeOK
<1>4. CASE TakeStep(r)
  <2>. DEFINE k == Min(EnabledSteps(call[r]))
  <2>1. k \in 1..Len(Steps)
    BY <1>4, CandidatesInRange DEF TakeStep, EnabledSteps
  <2>2. Target(k) \in States /\ Steps[k].scenario \in Scenarios
    BY <2>1, TargetIsState
  <2>3. scenario' \in [Scenarios -> States] /\ step' \in [Requests -> 0..Len(Steps)]
    BY <1>4, <2>1, <2>2 DEF TakeStep, TypeOK
  <2>4. QED
    BY <1>4, <2>3 DEF TakeStep, TypeOK
<1>5. CASE NoStep(r)
  BY <1>5 DEF NoStep, TypeOK
<1>6. CASE Render(r)
  BY <1>6 DEF Render, TypeOK
<1>7. CASE TakeEvent(r)
  <2>. DEFINE e == Min(FreeEvents(call[r]))
  <2>1. e \in 1..NEvents
    BY <1>7, CandidatesInRange DEF TakeEvent, FreeEvents
  <2>2. useCount' \in [1..NEvents -> Nat] /\ event' \in [Requests -> 0..NEvents]
    BY <1>7, <2>1, StubAssumption DEF TakeEvent, TypeOK
  <2>3. QED
    BY <1>7, <2>2 DEF TakeEvent, TypeOK
<1>8. CASE NoEvent(r)
  BY <1>8 DEF NoEvent, TypeOK
<1>9. CASE Report(r)
  BY <1>9 DEF Report, TypeOK
<1>10. CASE CountAttempt(r)
  <2>1. DepOf[call[r]] \in Deps
    BY <1>10, StubAssumption DEF CountAttempt, Called, TypeOK
  <2>2. /\ attempts' \in [Deps -> Nat]
        /\ attempt' \in [Requests -> Nat]
    BY <1>10, <2>1 DEF CountAttempt, TypeOK
  <2>3. QED
    BY <1>10, <2>2 DEF CountAttempt, TypeOK
<1>11. CASE Reply(r)
  BY <1>11 DEF Reply, AnswerOf, TypeOK
<1>12. QED
  BY <1>1, <1>2, <1>3, <1>4, <1>5, <1>6, <1>7, <1>8, <1>9, <1>10, <1>11
     DEF Handler

LEMMA ControllerTypes ==
  ASSUME TypeOK, Controller
  PROVE  TypeOK'
<1>. USE StubAssumption
     DEF shared, locals, Goto, Clear, StillUndisturbed, TypeOK, Counters
<1>1. CASE ResetSeen
  BY <1>1 DEF ResetSeen
<1>2. CASE ResetMaxSeen
  BY <1>2 DEF ResetMaxSeen
<1>3. CASE ResetAttempts
  BY <1>3 DEF ResetAttempts, ZeroAttempts
<1>4. CASE ResetDivergences
  BY <1>4 DEF ResetDivergences
<1>5. CASE ResetUses
  BY <1>5 DEF ResetUses, ZeroUses
<1>6. CASE ResetScenarios
  BY <1>6 DEF ResetScenarios
<1>7. CASE ConfigureBudget
  BY <1>7, BudgetIsNumber DEF ConfigureBudget
<1>8. CASE ConfigureMultiplier
  BY <1>8, MultiplierPositive DEF ConfigureMultiplier
<1>9. QED
  BY <1>1, <1>2, <1>3, <1>4, <1>5, <1>6, <1>7, <1>8 DEF Controller

LEMMA CalledPreserved ==
  ASSUME TypeInv, [Next]_vars
  PROVE  Called'
<1>. USE DEF TypeInv, TypeOK, Called, shared, locals, control, Move, Running,
             Answers
<1>1. ASSUME NEW r \in Requests, Handler(r) PROVE Called'
  BY <1>1 DEF Handler, RejectBody, Arrive, CheckBudget, TakeStep, NoStep,
     Render, TakeEvent, NoEvent, Report, CountAttempt, Reply, AnswerOf
<1>2. CASE Controller
  BY <1>2 DEF Controller, Goto, ResetSeen, ResetMaxSeen, ResetAttempts,
     ResetDivergences, ResetUses, ResetScenarios, ConfigureBudget,
     ConfigureMultiplier
<1>3. CASE UNCHANGED vars
  BY <1>3 DEF vars
<1>4. QED
  BY <1>1, <1>2, <1>3 DEF Next

LEMMA InitTypes == Init => TypeInv
<1>. SUFFICES ASSUME Init PROVE TypeInv
  OBVIOUS
<1>1. Called
  BY DEF Init, Called, Running
<1>2. useCount \in [1..NEvents -> Nat] /\ attempts \in [Deps -> Nat]
  BY DEF Init, ZeroUses, ZeroAttempts
<1>3. /\ event \in [Requests -> 0..NEvents]
      /\ step \in [Requests -> 0..Len(Steps)]
      /\ resets \in 0..MaxResets
  BY StubAssumption DEF Init
<1>4. scenario \in [Scenarios -> States]
  BY StubAssumption DEF Init
<1>5. QED
  BY <1>1, <1>2, <1>3, <1>4 DEF Init, TypeInv, TypeOK, Counters

LEMMA TypeInvariant == Spec => []TypeInv
<1>1. TypeInv /\ [Next]_vars => TypeInv'
  <2>1. ASSUME TypeOK, UNCHANGED vars PROVE TypeOK'
    BY <2>1 DEF vars, shared, locals, control, TypeOK
  <2>2. QED
    BY <2>1, HandlerTypes, ControllerTypes, CalledPreserved DEF Next, TypeInv
<1>2. QED
  BY InitTypes, <1>1, PTL DEF Spec

(* Every reachable state of the stub is well typed: no handler and no Reset,
   in any interleaving, leaves a counter, a scenario state or a control point
   outside its range. *)
THEOREM TypeCorrect == Spec => []TypeOK
<1>1. TypeInv => TypeOK
  BY DEF TypeInv
<1>2. QED
  BY <1>1, TypeInvariant, PTL

-----------------------------------------------------------------------------
(* Uses of captured events. *)

\* A handler that has taken an event never returns to the match.
Matched == {"attempt", "reply"} \cup Answers

UseInv ==
  /\ multiplier \in {1, Multiplier}
  /\ \A r \in charged["use"] : pc[r] \in Matched
  /\ \A e \in 1..NEvents : /\ useCount[e] = Cardinality(Served(e))
                           /\ useCount[e] <= multiplier

LEMMA ServedFinite ==
  ASSUME TypeOK, NEW e
  PROVE  IsFiniteSet(Served(e))
<1>1. Served(e) \in SUBSET Requests
  BY DEF Served, TypeOK, Counters
<1>2. QED
  BY <1>1, StubAssumption, FS_Subset

LEMMA UseUntouched ==
  ASSUME UseInv, UNCHANGED <<useCount, multiplier, event>>,
         charged'["use"] = charged["use"],
         \A r \in charged["use"] : pc'[r] \in Matched
  PROVE  UseInv'
BY DEF UseInv, Served

LEMMA UseTaken ==
  ASSUME TypeInv, UseInv, NEW r \in Requests, TakeEvent(r)
  PROVE  UseInv'
<1>1. PICK e \in 1..NEvents : /\ e = Min(FreeEvents(call[r]))
                              /\ useCount[e] < multiplier
  BY CandidatesInRange DEF TakeEvent, FreeEvents
<1>2. r \notin charged["use"]
  BY DEF TakeEvent, Move, UseInv, Matched, Answers
<1>3. /\ useCount' = [useCount EXCEPT ![e] = @ + 1]
      /\ event' = [event EXCEPT ![r] = e]
      /\ charged'["use"] = charged["use"] \cup {r}
      /\ multiplier' = multiplier
  BY <1>1 DEF TakeEvent, Charge, TypeInv, TypeOK, Counters
<1>4. Served(e)' = Served(e) \cup {r} /\ r \notin Served(e)
  BY <1>2, <1>3 DEF Served, TypeInv, TypeOK, Counters
<1>5. Cardinality(Served(e)') = Cardinality(Served(e)) + 1
  BY <1>4, ServedFinite, FS_AddElement DEF TypeInv
<1>6. \A f \in 1..NEvents : f # e => Served(f)' = Served(f)
  BY <1>2, <1>3 DEF Served, TypeInv, TypeOK, Counters
<1>7. ASSUME NEW f \in 1..NEvents
      PROVE  useCount'[f] = Cardinality(Served(f)') /\ useCount'[f] <= multiplier'
  <2>1. CASE f = e
    BY <1>1, <1>3, <1>5, <2>1, MultiplierPositive DEF UseInv, TypeInv, TypeOK
  <2>2. CASE f # e
    BY <1>1, <1>3, <1>6, <2>2 DEF UseInv, TypeInv, TypeOK
  <2>3. QED
    BY <2>1, <2>2
<1>8. \A q \in charged'["use"] : pc'[q] \in Matched
  BY <1>3 DEF TakeEvent, Move, UseInv, TypeInv, TypeOK, Matched, Counters
<1>9. QED
  BY <1>3, <1>7, <1>8 DEF UseInv

LEMMA UseByHandler ==
  ASSUME TypeInv, UseInv, NEW r \in Requests, Handler(r)
  PROVE  UseInv'
<1>1. CASE TakeEvent(r)
  BY <1>1, UseTaken
<1>2. CASE ~TakeEvent(r)
  <2>1. UNCHANGED <<useCount, multiplier, event>> /\ charged'["use"] = charged["use"]
    BY <1>2 DEF Handler, shared, locals, Charge, RejectBody, Arrive,
       CheckBudget, TakeStep, NoStep, Render, NoEvent, Report, CountAttempt,
       Reply, TypeInv, TypeOK, Counters
  <2>2. ASSUME NEW q \in charged["use"] PROVE pc'[q] \in Matched
    <3>1. pc[q] \in Matched /\ q \in Requests
      BY DEF UseInv, TypeInv, TypeOK, Counters
    <3>2. CASE q # r
      BY <1>2, <3>1, <3>2 DEF Handler, Move, RejectBody, Arrive, CheckBudget,
         TakeStep, NoStep, Render, NoEvent, Report, CountAttempt, Reply,
         TypeInv, TypeOK
    <3>3. CASE q = r
      <4>1. CountAttempt(r) \/ Reply(r)
        BY <1>2, <3>1, <3>3 DEF Handler, Move, RejectBody, Arrive,
           CheckBudget, TakeStep, NoStep, Render, NoEvent, Report, Matched,
           Answers
      <4>2. pc'[r] \in Matched
        BY <4>1 DEF CountAttempt, Reply, AnswerOf, Move, Matched, Answers,
           TypeInv, TypeOK
      <4>3. QED
        BY <3>3, <4>2
    <3>4. QED
      BY <3>2, <3>3
  <2>3. QED
    BY <2>1, <2>2, UseUntouched
<1>3. QED
  BY <1>1, <1>2

LEMMA UseByController ==
  ASSUME TypeInv, UseInv, Controller
  PROVE  UseInv'
<1>1. CASE ResetUses
  <2>1. \A e \in 1..NEvents : useCount'[e] = 0 /\ Served(e)' = {}
    BY <1>1 DEF ResetUses, ZeroUses, Clear, Served, TypeInv, TypeOK, Counters
  <2>2. charged'["use"] = {} /\ multiplier' = multiplier
    BY <1>1 DEF ResetUses, Clear, TypeInv, TypeOK, Counters
  <2>3. \A e \in 1..NEvents : Cardinality(Served(e)') = 0
    BY <2>1, FS_EmptySet, Zenon
  <2>4. 0 <= multiplier
    BY DEF TypeInv, TypeOK
  <2>5. QED
    BY <2>1, <2>2, <2>3, <2>4 DEF UseInv
<1>2. CASE ConfigureMultiplier
  <2>1. /\ multiplier' = Multiplier
        /\ UNCHANGED <<useCount, event, charged, pc>>
    BY <1>2 DEF ConfigureMultiplier, Goto, locals
  <2>2. \A e \in 1..NEvents : Served(e)' = Served(e)
    BY <2>1 DEF Served
  <2>3. ASSUME NEW e \in 1..NEvents PROVE useCount[e] <= Multiplier
    <3>1. useCount[e] \in Nat /\ useCount[e] <= multiplier
      BY DEF UseInv, TypeInv, TypeOK
    <3>2. multiplier \in {1, Multiplier}
      BY DEF UseInv
    <3>3. QED
      BY <3>1, <3>2, MultiplierPositive
  <2>4. QED
    BY <2>1, <2>2, <2>3 DEF UseInv
<1>3. CASE ~ResetUses /\ ~ConfigureMultiplier
  <2>1. /\ UNCHANGED <<useCount, multiplier, event, pc>>
        /\ charged'["use"] = charged["use"]
    BY <1>3 DEF Controller, Goto, Clear, locals, ResetSeen, ResetMaxSeen,
       ResetAttempts, ResetDivergences, ResetScenarios, ConfigureBudget,
       TypeInv, TypeOK, Counters
  <2>2. QED
    BY <2>1, UseUntouched DEF UseInv
<1>4. QED
  BY <1>1, <1>2, <1>3

(* No captured response is handed to more calls than the run's multiplier
   allows: matchExpected looks for a free event and uses it under one lock,
   and the multiplier never shrinks while uses are charged against it. *)
THEOREM CaptureNeverOverused == Spec => []ServedWithinCapture
<1>1. Init => UseInv
  <2>1. ASSUME Init PROVE UseInv
    <3>1. charged["use"] = {} /\ multiplier = 1
      BY <2>1 DEF Init, Counters
    <3>2. \A e \in 1..NEvents : useCount[e] = 0 /\ Served(e) = {}
      BY <2>1, <3>1 DEF Init, ZeroUses, Served
    <3>3. QED
      BY <3>1, <3>2, FS_EmptySet DEF UseInv
  <2>2. QED
    BY <2>1
<1>2. TypeInv /\ UseInv /\ [Next]_vars => UseInv'
  <2>1. ASSUME UseInv, UNCHANGED vars PROVE UseInv'
    BY <2>1 DEF vars, shared, locals, UseInv, Served
  <2>2. QED
    BY <2>1, UseByHandler, UseByController DEF Next
<1>3. UseInv => ServedWithinCapture
  BY DEF UseInv, ServedWithinCapture
<1>4. QED
  BY <1>1, <1>2, <1>3, TypeInvariant, PTL DEF Spec

-----------------------------------------------------------------------------
(* Refusals and the divergence record. *)

\* Between two stores of an undisturbed Reset no call has been counted yet.
RefusalInv ==
  /\ unexpected <=> divergences # {}
  /\ (undisturbed /\ ctl # "idle") => charged["seen"] = {}
  /\ undisturbed =>
       \A r \in charged["seen"] :
         pc[r] = "unexpected" => \E why \in {"over_budget", "no_match"} :
                                   <<r, why>> \in divergences

LEMMA RefusalByHandler ==
  ASSUME TypeInv, RefusalInv, NEW r \in Requests, Handler(r)
  PROVE  RefusalInv'
<1>. USE DEF TypeInv, TypeOK, Counters, Move, shared, control
<1>1. undisturbed' => undisturbed /\ ctl' = "idle"
  BY DEF Handler, RejectBody, Arrive, CheckBudget, TakeStep, NoStep, Render,
     TakeEvent, NoEvent, Report, CountAttempt, Reply
<1>2. CASE Report(r)
  <2>1. charged' = charged /\ unexpected' = TRUE /\ divergences' # {}
    BY <1>2 DEF Report
  <2>2. divergences \subseteq divergences'
    BY <1>2 DEF Report
  <2>3. \E why \in {"over_budget", "no_match"} : <<r, why>> \in divergences'
    BY <1>2 DEF Report
  <2>4. \A q \in Requests : q # r => pc'[q] = pc[q]
    BY <1>2 DEF Report
  <2>5. QED
    BY <1>1, <2>1, <2>2, <2>3, <2>4 DEF RefusalInv
<1>3. CASE ~Report(r)
  <2>1. UNCHANGED <<unexpected, divergences>>
    BY <1>3 DEF Handler, RejectBody, Arrive, CheckBudget, TakeStep, NoStep,
       Render, TakeEvent, NoEvent, CountAttempt, Reply
  <2>2. charged'["seen"] \subseteq charged["seen"] \cup {r}
    BY <1>3 DEF Handler, RejectBody, Arrive, CheckBudget, TakeStep, NoStep,
       Render, TakeEvent, NoEvent, CountAttempt, Reply, Charge
  <2>3. \A q \in Requests : q # r => pc'[q] = pc[q]
    BY <1>3 DEF Handler, RejectBody, Arrive, CheckBudget, TakeStep, NoStep,
       Render, TakeEvent, NoEvent, CountAttempt, Reply
  <2>4. pc'[r] # "unexpected"
    BY <1>3 DEF Handler, RejectBody, Arrive, CheckBudget, TakeStep, NoStep,
       Render, TakeEvent, NoEvent, CountAttempt, Reply, AnswerOf
  <2>5. QED
    BY <1>1, <2>1, <2>2, <2>3, <2>4 DEF RefusalInv
<1>4. QED
  BY <1>2, <1>3

LEMMA RefusalByController ==
  ASSUME TypeInv, RefusalInv, Controller
  PROVE  RefusalInv'
<1>. USE DEF TypeInv, TypeOK, Counters, Goto, Clear, StillUndisturbed, RefusalInv
<1>1. CASE ResetSeen
  BY <1>1 DEF ResetSeen
<1>2. CASE ResetMaxSeen
  BY <1>2 DEF ResetMaxSeen
<1>3. CASE ResetAttempts
  BY <1>3 DEF ResetAttempts
<1>4. CASE ResetDivergences
  BY <1>4 DEF ResetDivergences
<1>5. CASE ResetUses
  BY <1>5 DEF ResetUses
<1>6. CASE ResetScenarios
  BY <1>6 DEF ResetScenarios
<1>7. CASE ConfigureBudget
  BY <1>7 DEF ConfigureBudget
<1>8. CASE ConfigureMultiplier
  BY <1>8 DEF ConfigureMultiplier
<1>9. QED
  BY <1>1, <1>2, <1>3, <1>4, <1>5, <1>6, <1>7, <1>8 DEF Controller

(* Refusals are never lost: the reason and the flag are stored under one lock,
   so they agree in every state, and a refusal of the current run survives
   until the next Reset unless a handler crosses that Reset. *)
THEOREM RefusalsNeverLost == Spec => []RefusalsReported
<1>1. Init => RefusalInv
  BY DEF Init, RefusalInv, Counters
<1>2. TypeInv /\ RefusalInv /\ [Next]_vars => RefusalInv'
  <2>1. ASSUME RefusalInv, UNCHANGED vars PROVE RefusalInv'
    BY <2>1 DEF vars, shared, control, RefusalInv
  <2>2. QED
    BY <2>1, RefusalByHandler, RefusalByController DEF Next
<1>3. RefusalInv => RefusalsReported
  BY DEF RefusalInv, RefusalsReported
<1>4. QED
  BY <1>1, <1>2, <1>3, TypeInvariant, PTL DEF Spec

-----------------------------------------------------------------------------
(* Scenario states. *)

\* A handler takes at most one step, and its step is one of the configuration.
FlowInv ==
  /\ \A r \in charged["step"] : /\ pc[r] \in {"render"} \cup Answers
                                /\ step[r] \in 1..Len(Steps)
  /\ ScenarioFlow

LEMMA TakenFinite ==
  ASSUME TypeOK, NEW sc, NEW st
  PROVE  IsFiniteSet(Entered(sc, st)) /\ IsFiniteSet(Left(sc, st))
<1>1. /\ Entered(sc, st) \in SUBSET Requests
      /\ Left(sc, st) \in SUBSET Requests
  BY DEF Entered, Left, Taken, TypeOK, Counters
<1>2. QED
  BY <1>1, StubAssumption, FS_Subset

LEMMA FlowUntouched ==
  ASSUME FlowInv, UNCHANGED <<scenario, step>>,
         charged'["step"] = charged["step"],
         \A r \in charged["step"] : pc'[r] \in {"render"} \cup Answers
  PROVE  FlowInv'
BY DEF FlowInv, ScenarioFlow, Entered, Left, Taken

LEMMA FlowTaken ==
  ASSUME TypeInv, FlowInv, NEW r \in Requests, TakeStep(r)
  PROVE  FlowInv'
<1>1. PICK k \in 1..Len(Steps) : /\ k = Min(EnabledSteps(call[r]))
                                /\ Steps[k].state = scenario[Steps[k].scenario]
  BY CandidatesInRange DEF TakeStep, EnabledSteps
<1>2. r \notin charged["step"]
  BY DEF TakeStep, Move, FlowInv, Answers
<1>3. /\ scenario' = [scenario EXCEPT ![Steps[k].scenario] = Target(k)]
      /\ step' = [step EXCEPT ![r] = k]
      /\ charged'["step"] = charged["step"] \cup {r}
  BY <1>1 DEF TakeStep, Charge, TypeInv, TypeOK, Counters
<1>4. charged["step"] \subseteq Requests /\ step'[r] = k
      /\ \A q \in Requests : q # r => step'[q] = step[q]
  BY <1>3 DEF TypeInv, TypeOK, Counters
<1>5. ASSUME NEW sc \in Scenarios, NEW st \in States
      PROVE  Unit(InitialState[sc] = st) + Cardinality(Entered(sc, st)')
               = Cardinality(Left(sc, st)') + Unit(scenario'[sc] = st)
  <2>1. /\ Cardinality(Entered(sc, st)) \in Nat
        /\ Cardinality(Left(sc, st)) \in Nat
    BY TakenFinite, FS_CardinalityType DEF TypeInv
  <2>2. Unit(InitialState[sc] = st) + Cardinality(Entered(sc, st))
          = Cardinality(Left(sc, st)) + Unit(scenario[sc] = st)
    BY DEF FlowInv, ScenarioFlow
  <2>3. CASE Steps[k].scenario # sc
    <3>1. Entered(sc, st)' = Entered(sc, st) /\ Left(sc, st)' = Left(sc, st)
      BY <1>2, <1>3, <1>4, <2>3 DEF Entered, Left, Taken
    <3>2. scenario'[sc] = scenario[sc]
      BY <1>3, <2>3 DEF TypeInv, TypeOK
    <3>3. QED
      BY <2>2, <3>1, <3>2
  <2>4. CASE Steps[k].scenario = sc
    <3>1. Entered(sc, st)' = IF Target(k) = st THEN Entered(sc, st) \cup {r}
                             ELSE Entered(sc, st)
      BY <1>2, <1>3, <1>4, <2>4 DEF Entered, Taken
    <3>2. Left(sc, st)' = IF Steps[k].state = st THEN Left(sc, st) \cup {r}
                          ELSE Left(sc, st)
      BY <1>2, <1>3, <1>4, <2>4 DEF Left, Taken
    <3>3. r \notin Entered(sc, st) /\ r \notin Left(sc, st)
      BY <1>2 DEF Entered, Left, Taken
    <3>4. Cardinality(Entered(sc, st)')
            = Cardinality(Entered(sc, st)) + Unit(Target(k) = st)
      <4>1. CASE Target(k) = st
        <5>1. Cardinality(Entered(sc, st)') = Cardinality(Entered(sc, st)) + 1
          BY <3>1, <3>3, <4>1, TakenFinite, FS_AddElement DEF TypeInv
        <5>2. QED
          BY <4>1, <5>1 DEF Unit
      <4>2. CASE Target(k) # st
        <5>1. Cardinality(Entered(sc, st)') = Cardinality(Entered(sc, st))
          BY <3>1, <4>2
        <5>2. QED
          BY <2>1, <4>2, <5>1 DEF Unit
      <4>3. QED
        BY <4>1, <4>2
    <3>5. Cardinality(Left(sc, st)')
            = Cardinality(Left(sc, st)) + Unit(Steps[k].state = st)
      <4>1. CASE Steps[k].state = st
        <5>1. Cardinality(Left(sc, st)') = Cardinality(Left(sc, st)) + 1
          BY <3>2, <3>3, <4>1, TakenFinite, FS_AddElement DEF TypeInv
        <5>2. QED
          BY <4>1, <5>1 DEF Unit
      <4>2. CASE Steps[k].state # st
        <5>1. Cardinality(Left(sc, st)') = Cardinality(Left(sc, st))
          BY <3>2, <4>2
        <5>2. QED
          BY <2>1, <4>2, <5>1 DEF Unit
      <4>3. QED
        BY <4>1, <4>2
    <3>6. scenario'[sc] = Target(k) /\ scenario[sc] = Steps[k].state
      BY <1>1, <1>3, <2>4 DEF TypeInv, TypeOK
    <3>7. QED
      BY <2>1, <2>2, <3>4, <3>5, <3>6 DEF Unit
  <2>5. QED
    BY <2>3, <2>4
<1>6. \A q \in charged'["step"] : /\ pc'[q] \in {"render"} \cup Answers
                                  /\ step'[q] \in 1..Len(Steps)
  BY <1>3, <1>4 DEF TakeStep, Move, FlowInv, TypeInv, TypeOK
<1>7. QED
  BY <1>5, <1>6 DEF FlowInv, ScenarioFlow

LEMMA FlowByHandler ==
  ASSUME TypeInv, FlowInv, NEW r \in Requests, Handler(r)
  PROVE  FlowInv'
<1>1. CASE TakeStep(r)
  BY <1>1, FlowTaken
<1>2. CASE ~TakeStep(r)
  <2>1. UNCHANGED <<scenario, step>> /\ charged'["step"] = charged["step"]
    BY <1>2 DEF Handler, shared, locals, Charge, RejectBody, Arrive,
       CheckBudget, NoStep, Render, TakeEvent, NoEvent, Report, CountAttempt,
       Reply, TypeInv, TypeOK, Counters
  <2>2. ASSUME NEW q \in charged["step"] PROVE pc'[q] \in {"render"} \cup Answers
    <3>1. pc[q] \in {"render"} \cup Answers /\ q \in Requests
      BY DEF FlowInv, TypeInv, TypeOK, Counters
    <3>2. CASE q # r
      BY <1>2, <3>1, <3>2 DEF Handler, Move, RejectBody, Arrive, CheckBudget,
         NoStep, Render, TakeEvent, NoEvent, Report, CountAttempt, Reply,
         TypeInv, TypeOK
    <3>3. CASE q = r
      <4>1. Render(r)
        BY <1>2, <3>1, <3>3 DEF Handler, Move, RejectBody, Arrive,
           CheckBudget, NoStep, TakeEvent, NoEvent, Report, CountAttempt,
           Reply, Answers
      <4>2. pc'[r] \in Answers
        BY <4>1 DEF Render, Move, Answers, TypeInv, TypeOK
      <4>3. QED
        BY <3>3, <4>2
    <3>4. QED
      BY <3>2, <3>3
  <2>3. QED
    BY <2>1, <2>2, FlowUntouched
<1>3. QED
  BY <1>1, <1>2

LEMMA FlowByController ==
  ASSUME TypeInv, FlowInv, Controller
  PROVE  FlowInv'
<1>1. CASE ResetScenarios
  <2>1. charged'["step"] = {} /\ scenario' = InitialState
    BY <1>1 DEF ResetScenarios, Clear, TypeInv, TypeOK, Counters
  <2>2. ASSUME NEW sc \in Scenarios, NEW st \in States
        PROVE  Entered(sc, st)' = {} /\ Left(sc, st)' = {}
    BY <2>1 DEF Entered, Left, Taken
  <2>3. ASSUME NEW sc \in Scenarios, NEW st \in States
        PROVE  Cardinality(Entered(sc, st)') = 0 /\ Cardinality(Left(sc, st)') = 0
    BY <2>2, FS_EmptySet, Zenon
  <2>4. ASSUME NEW sc \in Scenarios, NEW st \in States
        PROVE  Unit(InitialState[sc] = st) + Cardinality(Entered(sc, st)')
                 = Cardinality(Left(sc, st)') + Unit(scenario'[sc] = st)
    BY <2>1, <2>3 DEF Unit
  <2>5. QED
    BY <2>1, <2>4 DEF FlowInv, ScenarioFlow
<1>2. CASE ~ResetScenarios
  <2>1. /\ UNCHANGED <<scenario, step, pc>>
        /\ charged'["step"] = charged["step"]
    BY <1>2 DEF Controller, Goto, Clear, locals, ResetSeen, ResetMaxSeen,
       ResetAttempts, ResetDivergences, ResetUses, ConfigureBudget,
       ConfigureMultiplier, TypeInv, TypeOK, Counters
  <2>2. QED
    BY <2>1, FlowUntouched DEF FlowInv
<1>3. QED
  BY <1>1, <1>2

(* A scenario's transitions are atomic: the calls that took its steps form a
   path from its initial state to its current one, whatever the interleaving,
   because Match reads and advances the state under the engine's lock. *)
THEOREM ScenarioPath == Spec => []ScenarioFlow
<1>1. Init => FlowInv
  <2>1. ASSUME Init PROVE FlowInv
    <3>1. charged["step"] = {} /\ scenario = InitialState
      BY <2>1 DEF Init, Counters
    <3>2. \A sc, st : Entered(sc, st) = {} /\ Left(sc, st) = {}
      BY <3>1 DEF Entered, Left, Taken
    <3>3. QED
      BY <3>1, <3>2, FS_EmptySet DEF FlowInv, ScenarioFlow, Unit
  <2>2. QED
    BY <2>1
<1>2. TypeInv /\ FlowInv /\ [Next]_vars => FlowInv'
  <2>1. ASSUME FlowInv, UNCHANGED vars PROVE FlowInv'
    BY <2>1 DEF vars, shared, locals, FlowInv, ScenarioFlow, Entered, Left, Taken
  <2>2. QED
    BY <2>1, FlowByHandler, FlowByController DEF Next
<1>3. FlowInv => ScenarioFlow
  BY DEF FlowInv
<1>4. QED
  BY <1>1, <1>2, <1>3, TypeInvariant, PTL DEF Spec

-----------------------------------------------------------------------------
(* The state a run starts from. *)

\* What Reset has cleared and Configure has set when no handler was running, by
\* the control point of the controller.
Cleared ==
  /\ seen = 0
  /\ ctl \notin {"maxSeen", "attempts"} => attempts = ZeroAttempts
  /\ ctl \notin {"maxSeen", "attempts", "divergences"} => divergences = {} /\ ~unexpected
  /\ ctl \notin {"maxSeen", "attempts", "divergences", "uses"} => useCount = ZeroUses
  /\ ctl \notin {"maxSeen", "attempts", "divergences", "uses", "scenarios"} =>
       scenario = InitialState
  /\ ctl \in {"multiplier", "idle"} /\ Configures /\ resets > 0 => maxSeen = MaxObserved
  /\ ctl = "idle" /\ Configures /\ resets > 0 => multiplier = Multiplier

CleanInv ==
  undisturbed => /\ Active \subseteq charged["seen"]
                 /\ charged["seen"] = {} => Cleared

LEMMA CleanByHandler ==
  ASSUME TypeInv, CleanInv, NEW r \in Requests, Handler(r)
  PROVE  CleanInv'
<1>. USE DEF TypeInv, TypeOK, Counters, Move, shared, locals, control
<1>1. CASE RejectBody(r)
  <2>1. UNCHANGED <<shared, control, charged>> /\ (undisturbed' => undisturbed)
    BY <1>1 DEF RejectBody
  <2>2. Active' \subseteq Active
    BY <1>1 DEF RejectBody, Active, Running
  <2>3. QED
    BY <2>1, <2>2 DEF CleanInv, Cleared
<1>2. ASSUME NEW c \in Calls, Arrive(r, c)
      PROVE  CleanInv'
  <2>1. charged'["seen"] = charged["seen"] \cup {r} /\ (undisturbed' => undisturbed)
    BY <1>2 DEF Arrive, Charge
  <2>2. Active' \subseteq Active \cup {r}
    BY <1>2 DEF Arrive, Active
  <2>3. QED
    BY <2>1, <2>2 DEF CleanInv
<1>3. CASE ~RejectBody(r) /\ \A c \in Calls : ~Arrive(r, c)
  <2>1. pc[r] \in Running
    BY <1>3 DEF Handler, CheckBudget, TakeStep, NoStep, Render, TakeEvent, NoEvent, Report,
       CountAttempt, Reply, Running
  <2>2. charged'["seen"] = charged["seen"] /\ (undisturbed' => undisturbed)
    BY <1>3 DEF Handler, CheckBudget, TakeStep, NoStep, Render, TakeEvent, NoEvent, Report,
       CountAttempt, Reply, Charge
  <2>3. \A q \in Requests : q # r => pc'[q] = pc[q]
    BY <1>3 DEF Handler, CheckBudget, TakeStep, NoStep, Render, TakeEvent, NoEvent, Report,
       CountAttempt, Reply
  <2>4. Active' \subseteq Active \cup {r} /\ r \in Active
    BY <2>1, <2>3 DEF Active
  <2>5. QED
    BY <2>2, <2>4 DEF CleanInv
<1>4. QED
  BY <1>1, <1>2, <1>3 DEF Handler

LEMMA CleanByController ==
  ASSUME TypeInv, CleanInv, Controller
  PROVE  CleanInv'
<1>. USE DEF TypeInv, TypeOK, Counters, shared, locals, Goto, Clear, StillUndisturbed,
             CleanInv, Cleared
<1>0. pc' = pc
  BY DEF Controller, ResetSeen, ResetMaxSeen, ResetAttempts, ResetDivergences, ResetUses,
     ResetScenarios, ConfigureBudget, ConfigureMultiplier
<1>a. Active' = Active
  BY <1>0 DEF Active
<1>1. CASE ResetSeen
  BY <1>1, <1>a DEF ResetSeen
<1>2. CASE ResetMaxSeen
  BY <1>2, <1>a DEF ResetMaxSeen
<1>3. CASE ResetAttempts
  BY <1>3, <1>a DEF ResetAttempts
<1>4. CASE ResetDivergences
  BY <1>4, <1>a DEF ResetDivergences
<1>5. CASE ResetUses
  BY <1>5, <1>a DEF ResetUses
<1>6. CASE ResetScenarios
  BY <1>6, <1>a DEF ResetScenarios
<1>7. CASE ConfigureBudget
  BY <1>7, <1>a DEF ConfigureBudget
<1>8. CASE ConfigureMultiplier
  BY <1>8, <1>a DEF ConfigureMultiplier
<1>9. QED
  BY <1>1, <1>2, <1>3, <1>4, <1>5, <1>6, <1>7, <1>8 DEF Controller

(* A run that no handler of the run before disturbed starts as a new stub does,
   with its budget and its multiplier: Reset clears every field that a handler
   changes, and each is still clear when the last one is. *)
THEOREM RunsStartClean == Spec => []CleanStart
<1>1. Init => CleanInv
  BY DEF Init, CleanInv, Cleared, Active, Running, Counters
<1>2. TypeInv /\ CleanInv /\ [Next]_vars => CleanInv'
  <2>1. ASSUME CleanInv, UNCHANGED vars PROVE CleanInv'
    BY <2>1 DEF vars, shared, control, CleanInv, Cleared, Active
  <2>2. QED
    BY <2>1, CleanByHandler, CleanByController DEF Next
<1>3. CleanInv => CleanStart
  BY DEF CleanInv, Cleared, CleanStart
<1>4. QED
  BY <1>1, <1>2, <1>3, TypeInvariant, PTL DEF Spec

-----------------------------------------------------------------------------
(* Injected retry failures. *)

Counted(d) == {r \in charged["attempt"] : DepOf[call[r]] = d}

\* The counted calls of a dependency bear the numbers from one to its counter,
\* each number once, and are answered by their numbers.
AttemptInv ==
  /\ \A r \in charged["attempt"] :
       /\ call[r] \in Calls
       /\ pc[r] = "reply" \/ pc[r] = AnswerOf(r)
  /\ \A d \in Deps :
       /\ \A r \in Counted(d) : attempt[r] \in 1..attempts[d]
       /\ \A r, q \in Counted(d) : attempt[r] = attempt[q] => r = q
       /\ \A n \in 1..attempts[d] : \E r \in Counted(d) : attempt[r] = n

(* A set whose members bear the numbers up to m, each once, has m members. *)
LEMMA NumberedSet ==
  ASSUME NEW S, IsFiniteSet(S), NEW m \in Nat, NEW g \in [S -> 1..m],
         \A a, b \in S : g[a] = g[b] => a = b,
         \A n \in 1..m : \E a \in S : g[a] = n
  PROVE  Cardinality(S) = m
<1>1. g \in Bijection(S, 1..m)
  BY Fun_IsBij
<1>2. ExistsBijection(S, 1..m)
  BY <1>1 DEF ExistsBijection
<1>3. Cardinality(S) = Cardinality(1..m)
  BY <1>2, FS_Bijection
<1>4. Cardinality(1..m) = IF 1 > m THEN 0 ELSE m - 1 + 1
  BY FS_Interval
<1>5. QED
  BY <1>3, <1>4

LEMMA AttemptUntouched ==
  ASSUME AttemptInv, UNCHANGED <<attempts, attempt>>, charged'["attempt"] = charged["attempt"],
         \A r \in charged["attempt"] : call'[r] = call[r] /\ event'[r] = event[r]
                                       /\ (pc'[r] = pc[r] \/ pc'[r] = AnswerOf(r))
  PROVE  AttemptInv'
<1>1. \A d \in Deps : Counted(d)' = Counted(d)
  BY DEF Counted
<1>2. \A r \in charged["attempt"] : AnswerOf(r)' = AnswerOf(r)
  BY DEF AnswerOf
<1>3. QED
  BY <1>1, <1>2 DEF AttemptInv

LEMMA AttemptCounted ==
  ASSUME TypeInv, AttemptInv, NEW r \in Requests, CountAttempt(r)
  PROVE  AttemptInv'
<1>1. PICK d \in Deps : d = DepOf[call[r]] /\ call[r] \in Calls
  BY StubAssumption DEF CountAttempt, Move, TypeInv, Called, Running
<1>2. PICK n \in Nat : n = attempts[d]
  BY DEF TypeInv, TypeOK
<1>3. /\ pc[r] = "attempt" /\ pc' = [pc EXCEPT ![r] = "reply"]
      /\ attempts' = [attempts EXCEPT ![d] = n + 1]
      /\ attempt' = [attempt EXCEPT ![r] = n + 1]
      /\ charged'["attempt"] = charged["attempt"] \cup {r}
      /\ call' = call /\ event' = event
  BY <1>1, <1>2 DEF CountAttempt, Move, Charge, TypeInv, TypeOK, Counters
<1>4. r \notin charged["attempt"] /\ charged["attempt"] \subseteq Requests
  BY <1>3 DEF AttemptInv, AnswerOf, TypeInv, TypeOK, Counters
<1>5. /\ attempt'[r] = n + 1 /\ \A q \in Requests : q # r => attempt'[q] = attempt[q]
      /\ attempts'[d] = n + 1 /\ \A e \in Deps : e # d => attempts'[e] = attempts[e]
      /\ pc'[r] = "reply" /\ \A q \in Requests : q # r => pc'[q] = pc[q]
  BY <1>3 DEF TypeInv, TypeOK
<1>6. Counted(d)' = Counted(d) \cup {r} /\ r \notin Counted(d) /\ Counted(d) \subseteq Requests
  BY <1>1, <1>3, <1>4 DEF Counted
<1>7. \A e \in Deps : e # d => Counted(e)' = Counted(e) /\ r \notin Counted(e) /\ Counted(e) \subseteq Requests
  BY <1>1, <1>3, <1>4 DEF Counted
<1>8. \A q \in charged'["attempt"] :
        /\ call'[q] \in Calls
        /\ pc'[q] = "reply" \/ pc'[q] = AnswerOf(q)'
  <2> SUFFICES ASSUME NEW q \in charged["attempt"]
               PROVE  call'[q] \in Calls /\ (pc'[q] = "reply" \/ pc'[q] = AnswerOf(q)')
    BY <1>1, <1>3, <1>5
  <2>1. attempt'[q] = attempt[q] /\ pc'[q] = pc[q]
    BY <1>4, <1>5
  <2>2. AnswerOf(q)' = AnswerOf(q)
    BY <1>3, <2>1 DEF AnswerOf
  <2>3. QED
    BY <1>3, <2>1, <2>2 DEF AttemptInv
<1>9. ASSUME NEW e \in Deps
      PROVE  /\ \A q \in Counted(e)' : attempt'[q] \in 1..attempts'[e]
             /\ \A q, s \in Counted(e)' : attempt'[q] = attempt'[s] => q = s
             /\ \A k \in 1..attempts'[e] : \E q \in Counted(e)' : attempt'[q] = k
  <2>1. CASE e # d
    BY <1>4, <1>5, <1>7, <2>1 DEF AttemptInv
  <2>2. CASE e = d
    <3>1. /\ \A q \in Counted(d) : attempt'[q] = attempt[q] /\ attempt[q] \in 1..n
          /\ \A q, s \in Counted(d) : attempt[q] = attempt[s] => q = s
          /\ \A k \in 1..n : \E q \in Counted(d) : attempt[q] = k
      BY <1>2, <1>5, <1>6 DEF AttemptInv
    <3>2. \A q \in Counted(d)' : attempt'[q] \in 1..(n + 1)
      BY <1>2, <1>5, <1>6, <3>1
    <3>3. \A q, s \in Counted(d)' : attempt'[q] = attempt'[s] => q = s
      BY <1>2, <1>5, <1>6, <3>1
    <3>4. \A k \in 1..(n + 1) : \E q \in Counted(d)' : attempt'[q] = k
      BY <1>2, <1>5, <1>6, <3>1
    <3>5. QED
      BY <1>5, <2>2, <3>2, <3>3, <3>4
  <2>3. QED
    BY <2>1, <2>2
<1>10. QED
  BY <1>8, <1>9 DEF AttemptInv

LEMMA AttemptByHandler ==
  ASSUME TypeInv, AttemptInv, NEW r \in Requests, Handler(r)
  PROVE  AttemptInv'
<1>1. CASE CountAttempt(r)
  BY <1>1, AttemptCounted
<1>2. CASE ~CountAttempt(r)
  <2>1. UNCHANGED <<attempts, attempt>> /\ charged'["attempt"] = charged["attempt"]
    BY <1>2 DEF Handler, shared, locals, Charge, RejectBody, Arrive, CheckBudget, TakeStep,
       NoStep, Render, TakeEvent, NoEvent, Report, Reply, TypeInv, TypeOK, Counters
  <2>2. ASSUME NEW q \in charged["attempt"]
        PROVE  call'[q] = call[q] /\ event'[q] = event[q] /\ (pc'[q] = pc[q] \/ pc'[q] = AnswerOf(q))
    <3>1. q \in Requests
      BY DEF TypeInv, TypeOK, Counters
    <3>2. CASE q # r
      BY <1>2, <3>1, <3>2 DEF Handler, Move, locals, RejectBody, Arrive, CheckBudget, TakeStep,
         NoStep, Render, TakeEvent, NoEvent, Report, Reply, TypeInv, TypeOK
    <3>3. CASE q = r
      <4>1. pc[r] = "reply" \/ pc[r] \in Answers
        BY <3>3 DEF AttemptInv, AnswerOf, Answers
      <4>2. Reply(r)
        BY <1>2, <4>1 DEF Handler, Move, RejectBody, Arrive, CheckBudget, TakeStep, NoStep,
           Render, TakeEvent, NoEvent, Report, Answers
      <4>3. QED
        BY <3>1, <3>3, <4>2 DEF Reply, Move, locals, TypeInv, TypeOK
    <3>4. QED
      BY <3>2, <3>3
  <2>3. QED
    BY <2>1, <2>2, AttemptUntouched
<1>3. QED
  BY <1>1, <1>2

LEMMA AttemptByController ==
  ASSUME TypeInv, AttemptInv, Controller
  PROVE  AttemptInv'
<1>1. CASE ResetAttempts
  <2>1. charged'["attempt"] = {} /\ \A d \in Deps : attempts'[d] = 0
    BY <1>1 DEF ResetAttempts, Clear, ZeroAttempts, TypeInv, TypeOK, Counters
  <2>2. \A d \in Deps : Counted(d)' = {}
    BY <2>1 DEF Counted
  <2>3. QED
    BY <2>1, <2>2 DEF AttemptInv
<1>2. CASE ~ResetAttempts
  <2>1. /\ UNCHANGED <<attempts, attempt, call, event, pc>>
        /\ charged'["attempt"] = charged["attempt"]
    BY <1>2 DEF Controller, Goto, Clear, locals, ResetSeen, ResetMaxSeen, ResetDivergences,
       ResetUses, ResetScenarios, ConfigureBudget, ConfigureMultiplier, TypeInv, TypeOK, Counters
  <2>2. QED
    BY <2>1, AttemptUntouched
<1>3. QED
  BY <1>1, <1>2

LEMMA FailedCount ==
  ASSUME TypeInv, AttemptInv, NEW d \in Deps,
         Rule[d].retryLimit # NoLimit, ~Rule[d].timeout,
         \A r \in Counted(d) : pc[r] # "reply"
  PROVE  Cardinality({r \in Counted(d) : pc[r] = "injected_failure"})
           = Min({Rule[d].retryLimit, Cardinality(Counted(d))})
<1>1. PICK l \in Nat : l = Rule[d].retryLimit
  BY StubAssumption DEF NoLimit
<1>2. PICK n \in Nat : n = attempts[d]
  BY DEF TypeInv, TypeOK
<1>3. IsFiniteSet(Counted(d))
  <2>1. Counted(d) \in SUBSET Requests
    BY DEF Counted, TypeInv, TypeOK, Counters
  <2>2. QED
    BY <2>1, StubAssumption, FS_Subset
<1>4. /\ \A r \in Counted(d) : attempt[r] \in 1..n
      /\ \A r, q \in Counted(d) : attempt[r] = attempt[q] => r = q
      /\ \A k \in 1..n : \E r \in Counted(d) : attempt[r] = k
  BY <1>2 DEF AttemptInv
<1>5. Cardinality(Counted(d)) = n
  <2> DEFINE g == [r \in Counted(d) |-> attempt[r]]
  <2>1. g \in [Counted(d) -> 1..n]
    BY <1>4
  <2>2. \A a, b \in Counted(d) : g[a] = g[b] => a = b
    BY <1>4
  <2>3. \A k \in 1..n : \E a \in Counted(d) : g[a] = k
    BY <1>4
  <2> HIDE DEF g
  <2>4. QED
    BY <1>3, <2>1, <2>2, <2>3, NumberedSet
<1> DEFINE Failed == {r \in Counted(d) : attempt[r] <= l}
<1>6. {r \in Counted(d) : pc[r] = "injected_failure"} = Failed
  <2>1. \A r \in Counted(d) : pc[r] = AnswerOf(r) /\ DepOf[call[r]] = d
    BY DEF AttemptInv, Counted
  <2>2. \A r \in Counted(d) : AnswerOf(r) = "injected_failure" <=> attempt[r] <= l
    BY <1>1, <2>1 DEF AnswerOf
  <2>3. QED
    BY <2>1, <2>2
<1>7. PICK m \in Nat : m = IF l <= n THEN l ELSE n
  OBVIOUS
<1>8. Cardinality(Failed) = m
  <2> DEFINE g == [r \in Failed |-> attempt[r]]
  <2>1. \A r \in Failed : attempt[r] \in 1..m
    BY <1>4, <1>7
  <2>2. g \in [Failed -> 1..m]
    BY <2>1
  <2>3. \A a, b \in Failed : g[a] = g[b] => a = b
    BY <1>4
  <2>4. \A k \in 1..m : \E a \in Failed : g[a] = k
    <3> SUFFICES ASSUME NEW k \in 1..m PROVE \E a \in Failed : g[a] = k
      OBVIOUS
    <3>1. k \in 1..n /\ k <= l
      BY <1>7
    <3>2. QED
      BY <1>4, <3>1
  <2>5. IsFiniteSet(Failed)
    BY <1>3, FS_Subset
  <2> HIDE DEF g, Failed
  <2>6. QED
    BY <2>2, <2>3, <2>4, <2>5, NumberedSet
<1>9. Min({l, n}) = m
  <2>1. m \in {l, n} /\ \A y \in {l, n} : m =< y
    BY <1>7
  <2>2. \A x \in {l, n} : (\A y \in {l, n} : x =< y) => x = m
    BY <1>7
  <2>3. QED
    BY <2>1, <2>2 DEF Min
<1>10. QED
  BY <1>1, <1>5, <1>6, <1>8, <1>9

(* A rule with retries=n fails exactly the first n matched calls of its
   dependency, however they overlap: a handler decides by the number it drew
   under attemptsMu, and no two draw the same. *)
THEOREM RetriesFailExactly == Spec => []RetryFailuresExact
<1>1. Init => AttemptInv
  <2> SUFFICES ASSUME Init PROVE AttemptInv
    OBVIOUS
  <2>1. charged["attempt"] = {} /\ \A d \in Deps : attempts[d] = 0
    BY DEF Init, Counters, ZeroAttempts
  <2>2. QED
    BY <2>1 DEF AttemptInv, Counted
<1>2. TypeInv /\ AttemptInv /\ [Next]_vars => AttemptInv'
  <2>1. ASSUME AttemptInv, UNCHANGED vars PROVE AttemptInv'
    BY <2>1, AttemptUntouched DEF vars, shared, locals
  <2>2. QED
    BY <2>1, AttemptByHandler, AttemptByController DEF Next
<1>3. TypeInv /\ AttemptInv => RetryFailuresExact
  BY FailedCount DEF RetryFailuresExact, Counted
<1>4. QED
  BY <1>1, <1>2, <1>3, TypeInvariant, PTL DEF Spec

-----------------------------------------------------------------------------
(* The reasons of the stub and its count of calls. *)

Uncleared == {"maxSeen", "attempts", "divergences"}

\* A call is counted once, is refused once, and when no handler crossed the
\* last Reset, every running handler and every reason is of a counted call.
CountInv ==
  /\ \A r \in charged["seen"] : pc[r] # "idle"
  /\ seen = Cardinality(charged["seen"])
  /\ undisturbed => Active \subseteq charged["seen"]

ReasonInv ==
  /\ \A d \in divergences : pc[d[1]] = "unexpected"
  /\ \A d, e \in divergences : d[1] = e[1] => d = e
  /\ (undisturbed /\ ctl \notin Uncleared)
       => \A d \in divergences : d[1] \in charged["seen"]

(* The requests a counter counts are finitely many. *)
LEMMA ChargedFinite == ASSUME TypeInv PROVE IsFiniteSet(charged["seen"])
<1>1. charged["seen"] \subseteq Requests
  BY DEF TypeInv, TypeOK, Counters
<1>2. QED
  BY <1>1, StubAssumption, FS_Subset

(* What every step of a handler does: one handler moves, and nothing it does
   clears a counter or a reason. *)
LEMMA HandlerMoves ==
  ASSUME TypeInv, NEW r \in Requests, Handler(r)
  PROVE  /\ \A q \in Requests : q # r => pc'[q] = pc[q]
         /\ pc'[r] # "idle" /\ pc[r] \notin Answers
         /\ undisturbed' => undisturbed /\ ctl' = "idle"
         /\ ctl' = ctl
         /\ divergences \subseteq divergences'
         /\ charged["seen"] \subseteq charged'["seen"]
<1>. USE DEF TypeInv, TypeOK, Counters, Move, Charge, shared, control, Answers
<1>1. CASE Report(r)
  BY <1>1 DEF Report
<1>2. CASE ~Report(r)
  <2>. USE <1>2 DEF Handler, RejectBody, Arrive, CheckBudget, TakeStep, NoStep,
           Render, TakeEvent, NoEvent, CountAttempt, Reply
  <2>1. divergences' = divergences
    OBVIOUS
  <2>2. /\ undisturbed' => undisturbed /\ ctl' = "idle"
        /\ ctl' = ctl
    OBVIOUS
  <2>3. charged["seen"] \subseteq charged'["seen"]
    <3>1. \/ charged' = charged
          \/ \E c \in Counters : charged' = [charged EXCEPT ![c] = @ \cup {r}]
      OBVIOUS
    <3>2. charged \in [Counters -> SUBSET Requests] /\ "seen" \in Counters
      OBVIOUS
    <3>3. QED
      BY ONLY <3>1, <3>2
  <2>4. \A q \in Requests : q # r => pc'[q] = pc[q]
    OBVIOUS
  <2>5. pc'[r] # "idle" /\ pc[r] \notin Answers
    BY DEF AnswerOf
  <2>6. QED
    BY <2>1, <2>2, <2>3, <2>4, <2>5
<1>3. QED
  BY <1>1, <1>2

(* Only Arrive counts a call, and only Report gives a reason. *)
LEMMA HandlerCounts ==
  ASSUME TypeInv, NEW r \in Requests, Handler(r)
  PROVE  \/ /\ pc[r] = "idle" /\ seen' = seen + 1
            /\ charged'["seen"] = charged["seen"] \cup {r}
         \/ /\ pc[r] # "idle" /\ seen' = seen
            /\ charged'["seen"] = charged["seen"]
         \/ /\ pc'[r] \notin Running /\ seen' = seen
            /\ charged'["seen"] = charged["seen"]
<1>. USE DEF TypeInv, TypeOK, Counters, Move, Charge, shared, Running
<1>1. CASE RejectBody(r)
  BY <1>1 DEF RejectBody
<1>2. ASSUME NEW c \in Calls, Arrive(r, c)
      PROVE  pc[r] = "idle" /\ seen' = seen + 1
             /\ charged'["seen"] = charged["seen"] \cup {r}
  BY <1>2 DEF Arrive
<1>3. CASE ~RejectBody(r) /\ ~\E c \in Calls : Arrive(r, c)
  <2>1. pc[r] # "idle" /\ seen' = seen
    BY <1>3 DEF Handler, CheckBudget, TakeStep, NoStep, Render, TakeEvent,
       NoEvent, Report, CountAttempt, Reply
  <2>2. charged'["seen"] = charged["seen"]
    BY <1>3 DEF Handler, CheckBudget, TakeStep, NoStep, Render, TakeEvent,
       NoEvent, Report, CountAttempt, Reply
  <2>3. QED
    BY <2>1, <2>2
<1>4. QED
  BY <1>1, <1>2, <1>3

LEMMA HandlerReasons ==
  ASSUME TypeInv, NEW r \in Requests, Handler(r)
  PROVE  \/ divergences' = divergences
         \/ /\ pc[r] \in Running /\ pc'[r] = "unexpected"
            /\ \E why \in {"over_budget", "no_match"} :
                 divergences' = divergences \cup {<<r, why>>}
<1>. USE DEF TypeInv, TypeOK, Move, shared, Running
<1>1. CASE Report(r)
  BY <1>1 DEF Report
<1>2. CASE ~Report(r)
  BY <1>2 DEF Handler, RejectBody, Arrive, CheckBudget, TakeStep, NoStep,
     Render, TakeEvent, NoEvent, CountAttempt, Reply
<1>3. QED
  BY <1>1, <1>2

LEMMA CountByHandler ==
  ASSUME TypeInv, CountInv, NEW r \in Requests, Handler(r)
  PROVE  CountInv'
<1>. USE HandlerMoves, HandlerCounts
<1>1. \A q \in charged'["seen"] : pc'[q] # "idle"
  BY DEF CountInv, TypeInv, TypeOK, Counters
<1>2. seen' = Cardinality(charged'["seen"])
  <2>1. CASE pc[r] = "idle" /\ seen' = seen + 1
             /\ charged'["seen"] = charged["seen"] \cup {r}
    BY <2>1, ChargedFinite, FS_AddElement DEF CountInv
  <2>2. CASE seen' = seen /\ charged'["seen"] = charged["seen"]
    BY <2>2 DEF CountInv
  <2>3. QED
    BY <2>1, <2>2
<1>3. undisturbed' => Active' \subseteq charged'["seen"]
  <2>1. ASSUME undisturbed', NEW q \in Requests, pc'[q] \in Running
        PROVE  q \in charged'["seen"]
    <3>1. Active \subseteq charged["seen"]
      BY <2>1 DEF CountInv
    <3>2. CASE q # r
      BY <2>1, <3>1, <3>2 DEF Active
    <3>3. CASE q = r
      <4>1. pc[r] \in {"idle"} \cup Running
        BY DEF TypeInv, TypeOK
      <4>2. QED
        BY <2>1, <3>1, <3>3, <4>1 DEF Active
    <3>4. QED
      BY <3>2, <3>3
  <2>2. QED
    BY <2>1 DEF Active
<1>4. QED
  BY <1>1, <1>2, <1>3 DEF CountInv

LEMMA ReasonByHandler ==
  ASSUME TypeInv, CountInv, ReasonInv, NEW r \in Requests, Handler(r)
  PROVE  ReasonInv'
<1>. USE HandlerMoves
<1>1. ASSUME NEW d \in divergences PROVE d[1] \in Requests /\ d[1] # r
  BY <1>1 DEF ReasonInv, TypeInv, TypeOK, Answers
<1>2. CASE divergences' = divergences
  BY <1>1, <1>2 DEF ReasonInv, TypeInv, TypeOK
<1>3. ASSUME pc[r] \in Running, pc'[r] = "unexpected",
             NEW why \in {"over_budget", "no_match"},
             divergences' = divergences \cup {<<r, why>>}
      PROVE  ReasonInv'
  <2>1. \A d \in divergences' : pc'[d[1]] = "unexpected"
    BY <1>1, <1>3 DEF ReasonInv
  <2>2. \A d, e \in divergences' : d[1] = e[1] => d = e
    BY <1>1, <1>3 DEF ReasonInv
  <2>3. undisturbed' => r \in charged["seen"]
    BY <1>3 DEF CountInv, Active
  <2>4. (undisturbed' /\ ctl' \notin Uncleared)
          => \A d \in divergences' : d[1] \in charged'["seen"]
    BY <1>3, <2>3 DEF ReasonInv
  <2>5. QED
    BY <2>1, <2>2, <2>4 DEF ReasonInv
<1>4. QED
  BY <1>2, <1>3, HandlerReasons

LEMMA ReasonByController ==
  ASSUME TypeInv, CountInv, ReasonInv, RefusalInv, Controller
  PROVE  CountInv' /\ ReasonInv' /\ pc' = pc
<1>. USE DEF TypeInv, TypeOK, Counters, Goto, Clear, StillUndisturbed,
             CountInv, ReasonInv, Uncleared, Active
<1>1. CASE ResetSeen
  BY <1>1, FS_EmptySet DEF ResetSeen
<1>2. CASE ResetMaxSeen
  BY <1>2 DEF ResetMaxSeen
<1>3. CASE ResetAttempts
  BY <1>3 DEF ResetAttempts
<1>4. CASE ResetDivergences
  BY <1>4 DEF ResetDivergences
<1>5. CASE ResetUses
  BY <1>5 DEF ResetUses
<1>6. CASE ResetScenarios
  BY <1>6 DEF ResetScenarios
<1>7. CASE ConfigureBudget
  BY <1>7 DEF ConfigureBudget
<1>8. CASE ConfigureMultiplier
  BY <1>8 DEF ConfigureMultiplier
<1>9. QED
  BY <1>1, <1>2, <1>3, <1>4, <1>5, <1>6, <1>7, <1>8 DEF Controller

(* In a run that no handler of another crossed, there are at most as many
   reasons as counted calls. *)
LEMMA ReasonsCounted ==
  ASSUME TypeInv, CountInv, ReasonInv, undisturbed, ctl = "idle"
  PROVE  Cardinality(divergences) <= seen
<1>. DEFINE R == {d[1] : d \in divergences}
            f == [r \in R |-> CHOOSE d \in divergences : d[1] = r]
<1>1. R \subseteq charged["seen"]
  BY DEF ReasonInv, Uncleared
<1>2. IsFiniteSet(R) /\ Cardinality(R) <= Cardinality(charged["seen"])
  BY <1>1, ChargedFinite, FS_Subset
<1>3. \A d \in divergences : d[1] \in R /\ f[d[1]] = d
  BY DEF ReasonInv
<1>4. f \in Surjection(R, divergences)
  <2>1. f \in [R -> divergences]
    BY Zenon
  <2>2. \A d \in divergences : \E r \in R : f[r] = d
    BY <1>3
  <2>. HIDE DEF f, R
  <2>3. QED
    BY <2>1, <2>2 DEF Surjection
<1>. HIDE DEF f, R
<1>5. Cardinality(divergences) <= Cardinality(R)
  BY <1>2, <1>4, FS_Surjection
<1>6. Cardinality(divergences) \in Nat
  BY <1>2, <1>4, FS_Surjection, FS_CardinalityType
<1>7. Cardinality(R) \in Nat /\ Cardinality(charged["seen"]) \in Nat
  BY <1>2, ChargedFinite, FS_CardinalityType
<1>8. QED
  BY <1>2, <1>5, <1>6, <1>7 DEF CountInv

-----------------------------------------------------------------------------
(* What is invariant of the stub is invariant of the server. *)

StubInv == TypeInv /\ RefusalInv /\ CountInv /\ ReasonInv

LEMMA StubInit == Init => StubInv
<1>. SUFFICES ASSUME Init PROVE StubInv
  OBVIOUS
<1>1. RefusalInv
  BY DEF Init, RefusalInv, Counters
<1>2. CountInv /\ ReasonInv
  BY FS_EmptySet DEF Init, CountInv, ReasonInv, Counters, Active, Running
<1>3. QED
  BY <1>1, <1>2, InitTypes DEF StubInv

LEMMA StubStep == StubInv /\ [Next]_vars => StubInv'
<1>. SUFFICES ASSUME StubInv, [Next]_vars PROVE StubInv'
  OBVIOUS
<1>1. ASSUME NEW r \in Requests, Handler(r) PROVE StubInv'
  BY <1>1, HandlerTypes, CalledPreserved, RefusalByHandler, CountByHandler,
     ReasonByHandler DEF StubInv, TypeInv
<1>2. CASE Controller
  BY <1>2, ControllerTypes, CalledPreserved, RefusalByController,
     ReasonByController DEF StubInv, TypeInv
<1>3. CASE UNCHANGED vars
  <2>1. TypeInv'
    BY <1>3, CalledPreserved
       DEF StubInv, TypeInv, TypeOK, vars, shared, locals, control
  <2>2. RefusalInv'
    BY <1>3 DEF StubInv, RefusalInv, vars, shared, control
  <2>3. CountInv' /\ ReasonInv'
    BY <1>3 DEF StubInv, CountInv, ReasonInv, Active, vars, shared, control
  <2>4. QED
    BY <2>1, <2>2, <2>3 DEF StubInv
<1>4. QED
  BY <1>1, <1>2, <1>3 DEF Next

-----------------------------------------------------------------------------
(* The budget and the captured calls.                                      *)

(* Induction over the captured events. *)
LEMMA SetInduction ==
  ASSUME NEW P \in SUBSET Nat, 0 \in P, \A n \in P : n + 1 \in P
  PROVE  \A n \in Nat : n \in P
<1> SUFFICES ASSUME Nat \ P # {}
             PROVE  FALSE
  OBVIOUS
<1>1. PICK x \in Nat \ P : \A y \in Nat \ P : ~(<<y, x>> \in OpToRel(<, Nat))
  BY NatLessThanWellFounded, WFMin
<1>2. \A y \in Nat \ P : ~(y < x)
  BY <1>1, Zenon DEF OpToRel
<1>3. x - 1 \in P
  BY <1>2
<1>4. (x - 1) + 1 = x
  OBVIOUS
<1>5. QED
  BY <1>3, <1>4

(* Rounding up adds nothing to a multiple. *)
LEMMA CeilingOfMultiple ==
  ASSUME NEW n \in Nat, NEW f \in Nat, n > 0
  PROVE  (n * f + n - 1) \div n = f
<1>. DEFINE a == n * f + n - 1
<1>1. a \in Nat /\ f * n <= a /\ a < f * n + n
  OBVIOUS
<1>2. \A w \in Nat : w > 0 =>
        \A x \in Nat : /\ x \div w \in Int
                       /\ (x \div w) * w <= x /\ x < (x \div w) * w + w
  OBVIOUS
<1>3. PICK q \in Int : q = a \div n /\ q * n <= a /\ a < q * n + n
  <2>. HIDE DEF a
  <2>. QED
    BY <1>1, <1>2
<1>4. \A i, j \in Int : i < j => i * n + n <= j * n
  OBVIOUS
<1>5. ~(q < f) /\ ~(f < q)
  <2>. HIDE DEF a
  <2>. QED
    BY <1>1, <1>3, <1>4
<1>6. QED
  BY <1>3, <1>5

(* A configured budget is the multiplier's number of uses of every captured
   event: nothing is refused for being too much that could be matched. *)
LEMMA BudgetIsUses == MaxObserved > 0 => MaxObserved = Multiplier * NEvents
<1>. SUFFICES ASSUME MaxObserved > 0 PROVE MaxObserved = Multiplier * NEvents
  OBVIOUS
<1>1. NEvents \in Nat /\ Fanout \in Nat /\ Fanout > 0
  BY StubAssumption
<1>2. NEvents > 0
  BY <1>1 DEF MaxObserved
<1>3. CASE Fanout > 1
  <2>1. (MaxObserved + NEvents - 1) \div NEvents = Fanout
    BY <1>1, <1>2, CeilingOfMultiple DEF MaxObserved
  <2>2. Max({1, Fanout}) = Fanout
    <3>1. Max({1, Fanout}) \in {1, Fanout} /\ Max({1, Fanout}) >= Fanout
      BY <1>1, MaxOfTwo
    <3>2. QED
      BY <1>1, <1>3, <3>1
  <2>3. Multiplier = Fanout
    BY <1>2, <1>3, <2>1, <2>2 DEF Multiplier, Cycle
  <2>4. QED
    BY <1>1, <2>3 DEF MaxObserved
<1>4. CASE ~(Fanout > 1)
  <2>1. Fanout = 1
    BY <1>1, <1>4
  <2>2. Multiplier = 1
    BY <1>4 DEF Multiplier, Cycle
  <2>3. QED
    BY <1>1, <2>1, <2>2 DEF MaxObserved
<1>5. QED
  BY <1>3, <1>4

LEMMA ClassFinite ==
  ASSUME NEW C \in SUBSET (1..NEvents)
  PROVE  IsFiniteSet(C) /\ Cardinality(C) \in Nat
<1>1. IsFiniteSet(1..NEvents)
  BY StubAssumption, FS_Interval
<1>2. QED
  BY <1>1, FS_Subset, FS_CardinalityType

Callers(e) == {r \in charged["seen"] : call[r] \in Accepts[e]}
Class(e)   == {f \in 1..NEvents : Accepts[f] = Accepts[e]}

\* The counted calls that one of the first n events matches, and the events
\* that are interchangeable with one of these.
CallersUpTo(n) == {r \in charged["seen"] : \E e \in 1..n : call[r] \in Accepts[e]}
ClassesUpTo(n) == {f \in 1..NEvents : \E e \in 1..n : Accepts[f] = Accepts[e]}

WithinUpTo(n) == Cardinality(CallersUpTo(n)) <= multiplier * Cardinality(ClassesUpTo(n))

LEMMA WithinStep ==
  ASSUME TypeInv, WithinCapture, NEW n \in 0..(NEvents - 1), WithinUpTo(n)
  PROVE  WithinUpTo(n + 1)
<1>0. NEvents \in Nat /\ multiplier \in Nat /\ n + 1 \in 1..NEvents
      /\ 1..(n + 1) = (1..n) \cup {n + 1}
  BY StubAssumption DEF TypeInv, TypeOK
<1>1. CASE \E e \in 1..n : Accepts[e] = Accepts[n + 1]
  <2>1. CallersUpTo(n + 1) = CallersUpTo(n) /\ ClassesUpTo(n + 1) = ClassesUpTo(n)
    BY <1>0, <1>1 DEF CallersUpTo, ClassesUpTo
  <2>2. QED
    BY <2>1 DEF WithinUpTo
<1>2. CASE ~\E e \in 1..n : Accepts[e] = Accepts[n + 1]
  <2>1. /\ CallersUpTo(n + 1) = CallersUpTo(n) \cup Callers(n + 1)
        /\ ClassesUpTo(n + 1) = ClassesUpTo(n) \cup Class(n + 1)
        /\ ClassesUpTo(n) \cap Class(n + 1) = {}
    BY <1>0, <1>2 DEF CallersUpTo, ClassesUpTo, Callers, Class
  <2>2. PICK a, b, c \in Nat :
          /\ IsFiniteSet(CallersUpTo(n)) /\ IsFiniteSet(Callers(n + 1))
          /\ a = Cardinality(CallersUpTo(n)) /\ b = Cardinality(Callers(n + 1))
          /\ c = Cardinality(CallersUpTo(n) \cap Callers(n + 1))
    <3>1. /\ CallersUpTo(n) \subseteq charged["seen"]
          /\ Callers(n + 1) \subseteq charged["seen"]
          /\ CallersUpTo(n) \cap Callers(n + 1) \subseteq charged["seen"]
      BY DEF CallersUpTo, Callers
    <3>2. QED
      BY <3>1, ChargedFinite, FS_Subset, FS_CardinalityType
  <2>3. Cardinality(CallersUpTo(n + 1)) = a + b - c
    BY <2>1, <2>2, FS_Union
  <2>4. PICK p, q \in Nat : /\ p = Cardinality(ClassesUpTo(n))
                            /\ q = Cardinality(Class(n + 1))
                            /\ Cardinality(ClassesUpTo(n + 1)) = p + q
    <3>1. ClassesUpTo(n) \in SUBSET (1..NEvents) /\ Class(n + 1) \in SUBSET (1..NEvents)
      BY DEF ClassesUpTo, Class
    <3>2. Cardinality(ClassesUpTo(n) \cap Class(n + 1)) = 0
      BY <2>1, FS_EmptySet, Zenon
    <3>3. /\ IsFiniteSet(ClassesUpTo(n)) /\ Cardinality(ClassesUpTo(n)) \in Nat
          /\ IsFiniteSet(Class(n + 1)) /\ Cardinality(Class(n + 1)) \in Nat
      BY <3>1, ClassFinite
    <3>4. Cardinality(ClassesUpTo(n + 1))
            = Cardinality(ClassesUpTo(n)) + Cardinality(Class(n + 1)) - 0
      BY <2>1, <3>2, <3>3, FS_Union, Zenon
    <3>5. QED
      BY <3>3, <3>4
  <2>5. a <= multiplier * p /\ b <= multiplier * q
    <3>1. b <= multiplier * q
      BY <1>0, <2>2, <2>4, Zenon DEF WithinCapture, Callers, Class
    <3>2. QED
      BY <2>2, <2>4, <3>1 DEF WithinUpTo
  <2>6. multiplier * (p + q) = multiplier * p + multiplier * q
        /\ multiplier * p \in Nat /\ multiplier * q \in Nat
    BY <1>0
  <2>7. a + b - c <= multiplier * (p + q)
    BY <2>5, <2>6
  <2>8. QED
    BY <2>3, <2>4, <2>7 DEF WithinUpTo
<1>3. QED
  BY <1>1, <1>2

(* Calls that are within the capture are no more than its uses. *)
LEMMA TotalWithin ==
  ASSUME TypeInv, CountInv, WithinCapture
  PROVE  seen <= multiplier * NEvents
<1>0. NEvents \in Nat
  BY StubAssumption
<1>. DEFINE P == {n \in Nat : n <= NEvents => WithinUpTo(n)}
<1>1. 0 \in P
  <2>1. CallersUpTo(0) = {} /\ ClassesUpTo(0) = {}
    BY DEF CallersUpTo, ClassesUpTo
  <2>2. multiplier * 0 = 0
    BY DEF TypeInv, TypeOK
  <2>3. QED
    BY <2>1, <2>2, FS_EmptySet DEF WithinUpTo
<1>2. ASSUME NEW n \in P PROVE n + 1 \in P
  <2>1. n \in Nat /\ (n + 1 <= NEvents => n <= NEvents /\ n \in 0..(NEvents - 1))
    BY <1>0
  <2>2. QED
    BY <2>1, WithinStep
<1>3. NEvents \in P
  <2>. HIDE DEF P
  <2>1. P \in SUBSET Nat
    BY DEF P
  <2>. QED
    BY <1>0, <1>1, <1>2, <2>1, SetInduction
<1>4. WithinUpTo(NEvents)
  BY <1>0, <1>3
<1>5. CallersUpTo(NEvents) = charged["seen"] /\ ClassesUpTo(NEvents) = 1..NEvents
  BY <1>0 DEF CallersUpTo, ClassesUpTo, WithinCapture
<1>6. Cardinality(1..NEvents) = NEvents
  BY <1>0, FS_Interval
<1>7. QED
  BY <1>4, <1>5, <1>6 DEF WithinUpTo, CountInv

\* The calls that were handed one of the first n events of a class.
UsersUpTo(C, n) == {r \in charged["use"] : event[r] \in C \cap (1..n)}
FullUpTo(C, n)  == /\ IsFiniteSet(UsersUpTo(C, n))
                   /\ Cardinality(UsersUpTo(C, n)) = multiplier * Cardinality(C \cap (1..n))

LEMMA FullStep ==
  ASSUME TypeInv, UseInv, NEW C \in SUBSET (1..NEvents),
         \A f \in C : useCount[f] = multiplier,
         NEW n \in Nat, FullUpTo(C, n)
  PROVE  FullUpTo(C, n + 1)
<1>0. multiplier \in Nat /\ 1..(n + 1) = (1..n) \cup {n + 1} /\ n + 1 \notin 1..n
  BY DEF TypeInv, TypeOK
<1>1. CASE n + 1 \notin C
  <2>1. C \cap (1..(n + 1)) = C \cap (1..n)
    BY <1>0, <1>1
  <2>2. UsersUpTo(C, n + 1) = UsersUpTo(C, n)
    BY <2>1 DEF UsersUpTo
  <2>3. QED
    BY <2>1, <2>2 DEF FullUpTo
<1>2. CASE n + 1 \in C
  <2>1. C \cap (1..(n + 1)) = (C \cap (1..n)) \cup {n + 1}
    BY <1>0, <1>2
  <2>2. /\ UsersUpTo(C, n + 1) = UsersUpTo(C, n) \cup Served(n + 1)
        /\ UsersUpTo(C, n) \cap Served(n + 1) = {}
    BY <1>0, <2>1 DEF UsersUpTo, Served
  <2>3. IsFiniteSet(Served(n + 1)) /\ Cardinality(Served(n + 1)) = multiplier
    BY <1>2, ServedFinite DEF UseInv, TypeInv
  <2>4. C \cap (1..n) \in SUBSET (1..NEvents)
    OBVIOUS
  <2>5. PICK k \in Nat : k = Cardinality(C \cap (1..n)) /\ IsFiniteSet(C \cap (1..n))
    BY <2>4, ClassFinite
  <2>6. Cardinality(C \cap (1..(n + 1))) = k + 1
    BY <1>0, <2>1, <2>5, FS_AddElement
  <2>7. Cardinality(UsersUpTo(C, n) \cap Served(n + 1)) = 0
    BY <2>2, FS_EmptySet, Zenon
  <2>8. /\ IsFiniteSet(UsersUpTo(C, n + 1))
        /\ Cardinality(UsersUpTo(C, n + 1)) = multiplier * k + multiplier - 0
    <3>1. IsFiniteSet(UsersUpTo(C, n)) /\ Cardinality(UsersUpTo(C, n)) = multiplier * k
      BY <2>5 DEF FullUpTo
    <3>2. /\ IsFiniteSet(UsersUpTo(C, n) \cup Served(n + 1))
          /\ Cardinality(UsersUpTo(C, n) \cup Served(n + 1))
               = Cardinality(UsersUpTo(C, n)) + Cardinality(Served(n + 1))
                   - Cardinality(UsersUpTo(C, n) \cap Served(n + 1))
      BY <2>3, <3>1, FS_Union, Zenon
    <3>3. QED
      BY <2>2, <2>3, <2>7, <3>1, <3>2, Zenon
  <2>9. multiplier * k + multiplier - 0 = multiplier * (k + 1)
    BY <1>0
  <2>10. QED
    BY <2>6, <2>8, <2>9 DEF FullUpTo
<1>3. QED
  BY <1>1, <1>2

(* The events of a class that has no use left were handed to as many calls. *)
LEMMA ClassFull ==
  ASSUME TypeInv, UseInv, NEW C \in SUBSET (1..NEvents),
         \A f \in C : useCount[f] = multiplier
  PROVE  Cardinality({r \in charged["use"] : event[r] \in C}) = multiplier * Cardinality(C)
<1>0. NEvents \in Nat /\ multiplier \in Nat
  BY StubAssumption DEF TypeInv, TypeOK
<1>. DEFINE P == {n \in Nat : FullUpTo(C, n)}
<1>1. 0 \in P
  <2>1. C \cap (1..0) = {} /\ UsersUpTo(C, 0) = {} /\ multiplier * 0 = 0
    BY <1>0 DEF UsersUpTo
  <2>2. QED
    BY <2>1, FS_EmptySet DEF FullUpTo
<1>2. \A n \in P : n + 1 \in P
  BY FullStep
<1>3. NEvents \in P
  <2>1. P \in SUBSET Nat
    OBVIOUS
  <2>. HIDE DEF P
  <2>. QED
    BY <1>0, <1>1, <1>2, <2>1, SetInduction
<1>4. C \cap (1..NEvents) = C
  OBVIOUS
<1>5. UsersUpTo(C, NEvents) = {r \in charged["use"] : event[r] \in C}
  BY <1>4 DEF UsersUpTo
<1>6. QED
  BY <1>3, <1>4, <1>5 DEF FullUpTo

-----------------------------------------------------------------------------
(* No false divergence.                                                     *)

\* A use is of an event that matches its call, and of a call of this run once
\* the uses are cleared.
MatchInv ==
  /\ \A r \in charged["use"] : event[r] \in 1..NEvents /\ call[r] \in Accepts[event[r]]
  /\ (undisturbed /\ ctl \notin Uncleared \cup {"uses"}) => charged["use"] \subseteq charged["seen"]

\* A running handler drew a number that was counted.
TicketInv == undisturbed => \A r \in Active : ticket[r] <= seen

\* There is no budget, or the one a configuration sets, and then its multiplier.
BudgetInv ==
  /\ ctl \notin {"idle", "maxSeen", "multiplier"} => maxSeen = 0
  /\ ctl = "multiplier" => maxSeen = MaxObserved
  /\ ctl = "idle" => maxSeen = 0 \/ (maxSeen = MaxObserved /\ multiplier = Multiplier)

\* A run within the capture has refused nothing, and is not about to.
Refusing == {"over_budget", "no_match"}
FaithfulInv ==
  (Distinguishable /\ undisturbed /\ ctl = "idle" /\ WithinCapture)
    => divergences = {} /\ \A r \in Requests : pc[r] \notin Refusing

MatchedInv == MatchInv /\ TicketInv /\ BudgetInv

LEMMA MatchedByHandler ==
  ASSUME TypeInv, UseInv, CountInv, MatchedInv, NEW r \in Requests, Handler(r)
  PROVE  MatchedInv'
<1>. USE HandlerMoves
<1>1. BudgetInv'
  <2>1. UNCHANGED <<ctl, maxSeen, multiplier>>
    BY DEF Handler, Move, shared, control, RejectBody, Arrive, CheckBudget, TakeStep,
       NoStep, Render, TakeEvent, NoEvent, Report, CountAttempt, Reply
  <2>2. QED
    BY <2>1 DEF MatchedInv, BudgetInv
<1>2. MatchInv'
  <2>1. CASE TakeEvent(r)
    <3>1. PICK e \in 1..NEvents : e = Min(FreeEvents(call[r])) /\ call[r] \in Accepts[e]
      BY <2>1, CandidatesInRange DEF TakeEvent, FreeEvents
    <3>2. /\ event' = [event EXCEPT ![r] = e] /\ call' = call /\ ctl' = ctl
          /\ charged'["use"] = charged["use"] \cup {r}
          /\ charged'["seen"] = charged["seen"]
      BY <2>1, <3>1 DEF TakeEvent, Move, control, Charge, TypeInv, TypeOK, Counters
    <3>3. undisturbed => r \in charged["seen"]
      BY <2>1 DEF TakeEvent, Move, CountInv, Active, Running
    <3>4. \A q \in charged'["use"] : event'[q] \in 1..NEvents /\ call'[q] \in Accepts[event'[q]]
      BY <3>1, <3>2 DEF MatchedInv, MatchInv, TypeInv, TypeOK
    <3>5. QED
      BY <3>2, <3>3, <3>4 DEF MatchedInv, MatchInv
  <2>2. CASE ~TakeEvent(r)
    <3>1. event' = event /\ charged'["use"] = charged["use"]
      BY <2>2 DEF Handler, locals, Charge, RejectBody, Arrive, CheckBudget, TakeStep,
         NoStep, Render, NoEvent, Report, CountAttempt, Reply, TypeInv, TypeOK, Counters
    <3>2. \A q \in charged["use"] : call'[q] = call[q]
      <4>1. CASE pc[r] = "idle"
        <5>1. r \notin charged["use"]
          BY <4>1 DEF UseInv, Matched, Answers
        <5>2. call' = call \/ \E c \in Calls : call' = [call EXCEPT ![r] = c]
          BY <2>2 DEF Handler, locals, RejectBody, Arrive, CheckBudget, TakeStep,
             NoStep, Render, NoEvent, Report, CountAttempt, Reply
        <5>3. QED
          BY <5>1, <5>2 DEF TypeInv, TypeOK, Counters
      <4>2. CASE pc[r] # "idle"
        BY <2>2, <4>2 DEF Handler, Move, locals, RejectBody, Arrive, CheckBudget, TakeStep,
           NoStep, Render, NoEvent, Report, CountAttempt, Reply
      <4>3. QED
        BY <4>1, <4>2
    <3>3. QED
      BY <3>1, <3>2 DEF MatchedInv, MatchInv
  <2>3. QED
    BY <2>1, <2>2
<1>3. TicketInv'
  <2>1. CASE \E c \in Calls : Arrive(r, c)
    <3>1. /\ seen' = seen + 1 /\ ticket'[r] = seen + 1
          /\ \A q \in Requests : q # r => ticket'[q] = ticket[q]
      BY <2>1 DEF Arrive, TypeInv, TypeOK
    <3>2. \A q \in Active' : q \in Requests /\ (q # r => q \in Active)
      BY DEF Active
    <3>3. seen \in Nat /\ \A q \in Requests : ticket[q] \in Nat
      BY DEF TypeInv, TypeOK
    <3>4. QED
      BY <3>1, <3>2, <3>3 DEF MatchedInv, TicketInv
  <2>2. CASE ~\E c \in Calls : Arrive(r, c)
    <3>1. seen' = seen /\ ticket' = ticket
      BY <2>2 DEF Handler, shared, locals, RejectBody, CheckBudget, TakeStep, NoStep,
         Render, TakeEvent, NoEvent, Report, CountAttempt, Reply
    <3>2. pc'[r] \in Running => pc[r] \in Running
      BY <2>2 DEF Handler, Move, RejectBody, CheckBudget, TakeStep, NoStep, Running, Render,
         TakeEvent, NoEvent, Report, CountAttempt, Reply, AnswerOf, TypeInv, TypeOK
    <3>3. Active' \subseteq Active
      BY <3>2 DEF Active
    <3>4. QED
      BY <3>1, <3>3 DEF MatchedInv, TicketInv
  <2>3. QED
    BY <2>1, <2>2
<1>4. QED
  BY <1>1, <1>2, <1>3 DEF MatchedInv

LEMMA MatchedByController ==
  ASSUME TypeInv, RefusalInv, MatchedInv, Controller
  PROVE  MatchedInv'
<1>. USE DEF TypeInv, TypeOK, Counters, Goto, Clear, StillUndisturbed, locals, Uncleared,
             MatchedInv, MatchInv, TicketInv, BudgetInv, Active, RefusalInv
<1>1. CASE ResetSeen
  BY <1>1 DEF ResetSeen
<1>2. CASE ResetMaxSeen
  BY <1>2 DEF ResetMaxSeen
<1>3. CASE ResetAttempts
  BY <1>3 DEF ResetAttempts
<1>4. CASE ResetDivergences
  BY <1>4 DEF ResetDivergences
<1>5. CASE ResetUses
  BY <1>5 DEF ResetUses
<1>6. CASE ResetScenarios
  BY <1>6 DEF ResetScenarios
<1>7. CASE ConfigureBudget
  BY <1>7 DEF ConfigureBudget
<1>8. CASE ConfigureMultiplier
  BY <1>8 DEF ConfigureMultiplier
<1>9. QED
  BY <1>1, <1>2, <1>3, <1>4, <1>5, <1>6, <1>7, <1>8 DEF Controller

(* Being within the capture is monotone: a handler's step only adds calls. *)
LEMMA WithinBack ==
  ASSUME TypeInv, CountInv, NEW r \in Requests, Handler(r), WithinCapture'
  PROVE  WithinCapture
<1>1. charged["seen"] \subseteq charged'["seen"] /\ multiplier' = multiplier
  BY HandlerMoves DEF Handler, shared, RejectBody, Arrive, CheckBudget, TakeStep, NoStep,
     Render, TakeEvent, NoEvent, Report, CountAttempt, Reply
<1>2. \A q \in charged["seen"] : call'[q] = call[q]
  <2>1. CASE pc[r] = "idle"
    <3>1. r \notin charged["seen"]
      BY <2>1 DEF CountInv
    <3>2. call' = call \/ \E c \in Calls : call' = [call EXCEPT ![r] = c]
      BY DEF Handler, locals, RejectBody, Arrive, CheckBudget, TakeStep, NoStep,
         Render, TakeEvent, NoEvent, Report, CountAttempt, Reply
    <3>3. QED
      BY <3>1, <3>2 DEF TypeInv, TypeOK, Counters
  <2>2. CASE pc[r] # "idle"
    BY <2>2 DEF Handler, Move, locals, RejectBody, Arrive, CheckBudget, TakeStep,
       NoStep, Render, TakeEvent, NoEvent, Report, CountAttempt, Reply
  <2>3. QED
    BY <2>1, <2>2
<1>3. \A q \in charged["seen"] : \E e \in 1..NEvents : call[q] \in Accepts[e]
  BY <1>1, <1>2 DEF WithinCapture
<1>4. ASSUME NEW e \in 1..NEvents
      PROVE  Cardinality(Callers(e)) <= multiplier * Cardinality(Class(e))
  <2>1. Callers(e) \subseteq Callers(e)'
    BY <1>1, <1>2 DEF Callers
  <2>2. Cardinality(Callers(e)') <= multiplier * Cardinality(Class(e))
    BY <1>1 DEF WithinCapture, Callers, Class
  <2>3. IsFiniteSet(Callers(e)')
    <3>1. Callers(e)' \subseteq Requests
      BY HandlerTypes DEF Callers, TypeOK, Counters
    <3>2. QED
      BY <3>1, StubAssumption, FS_Subset
  <2>4. Cardinality(Callers(e)) <= Cardinality(Callers(e)') /\ IsFiniteSet(Callers(e))
    BY <2>1, <2>3, FS_Subset
  <2>5. Class(e) \in SUBSET (1..NEvents)
    BY DEF Class
  <2>6. PICK m, k \in Nat : m = multiplier /\ k = Cardinality(Class(e))
    BY <2>5, ClassFinite DEF TypeInv, TypeOK
  <2>7. Cardinality(Callers(e)) \in Nat /\ Cardinality(Callers(e)') \in Nat /\ m * k \in Nat
    BY <2>3, <2>4, <2>6, FS_CardinalityType
  <2>8. QED
    BY <2>2, <2>4, <2>6, <2>7
<1>5. QED
  BY <1>3, <1>4 DEF WithinCapture, Callers, Class

(* A call of a run within the capture finds a free event: if its class were
   full, its users and the call itself would be one too many. *)
LEMMA EventLeft ==
  ASSUME TypeInv, UseInv, CountInv, MatchedInv, Distinguishable, undisturbed, ctl = "idle",
         WithinCapture, NEW r \in Requests, pc[r] = "match", FreeEvents(call[r]) = {}
  PROVE  FALSE
<1>1. r \in charged["seen"] /\ r \notin charged["use"]
  BY DEF CountInv, Active, Running, UseInv, Matched, Answers
<1>2. PICK e \in 1..NEvents : call[r] \in Accepts[e]
  BY <1>1 DEF WithinCapture
<1>3. ASSUME NEW f \in Class(e) PROVE useCount[f] = multiplier
  <2>1. f \in 1..NEvents /\ call[r] \in Accepts[f]
    BY <1>2 DEF Class
  <2>2. ~(useCount[f] < multiplier) /\ useCount[f] <= multiplier
    BY <2>1 DEF FreeEvents, UseInv
  <2>3. useCount[f] \in Nat /\ multiplier \in Nat
    BY <2>1 DEF TypeInv, TypeOK
  <2>4. QED
    BY <2>2, <2>3
<1>4. Class(e) \in SUBSET (1..NEvents)
  BY DEF Class
<1>. DEFINE U == {q \in charged["use"] : event[q] \in Class(e)}
<1>5. Cardinality(U) = multiplier * Cardinality(Class(e))
  BY <1>3, <1>4, ClassFull
<1>6. U \subseteq Callers(e) /\ r \in Callers(e) /\ r \notin U
  <2>1. charged["use"] \subseteq charged["seen"]
    BY DEF MatchedInv, MatchInv, Uncleared
  <2>2. QED
    BY <1>1, <1>2, <2>1 DEF MatchedInv, MatchInv, Class, Callers
<1>. HIDE DEF U
<1>7. IsFiniteSet(Callers(e)) /\ Cardinality(Callers(e)) <= multiplier * Cardinality(Class(e))
  <2>1. Callers(e) \subseteq charged["seen"]
    BY DEF Callers
  <2>2. IsFiniteSet(Callers(e))
    BY <2>1, ChargedFinite, FS_Subset
  <2>3. QED
    BY <2>2 DEF WithinCapture, Callers, Class
<1>8. /\ IsFiniteSet(U) /\ U # Callers(e)
      /\ Cardinality(U) <= Cardinality(Callers(e))
      /\ Cardinality(Callers(e)) = Cardinality(U) => Callers(e) = U
  BY <1>6, <1>7, FS_Subset
<1>9. Cardinality(U) \in Nat /\ Cardinality(Callers(e)) \in Nat
  BY <1>7, <1>8, FS_CardinalityType
<1>10. QED
  BY <1>5, <1>7, <1>8, <1>9

(* A call of a run within the capture is within the budget. *)
LEMMA BudgetLeft ==
  ASSUME TypeInv, CountInv, MatchedInv, undisturbed, ctl = "idle", WithinCapture,
         NEW r \in Requests, pc[r] = "counted"
  PROVE  ~OverBudget(r)
<1>1. ticket[r] <= seen
  BY DEF MatchedInv, TicketInv, Active, Running
<1>2. seen <= multiplier * NEvents
  BY TotalWithin
<1>3. maxSeen > 0 => maxSeen = multiplier * NEvents
  BY BudgetIsUses DEF MatchedInv, BudgetInv
<1>4. PICK b \in Int : b = multiplier * NEvents
  BY StubAssumption DEF TypeInv, TypeOK
<1>5. ticket[r] \in Nat /\ seen \in Nat /\ maxSeen \in Nat
  BY DEF TypeInv, TypeOK
<1>6. QED
  BY <1>1, <1>2, <1>3, <1>4, <1>5 DEF OverBudget

LEMMA FaithfulByHandler ==
  ASSUME TypeInv, UseInv, CountInv, MatchedInv, FaithfulInv, NEW r \in Requests, Handler(r)
  PROVE  FaithfulInv'
<1>. SUFFICES ASSUME Distinguishable, undisturbed', ctl' = "idle", WithinCapture'
              PROVE  divergences' = {} /\ \A q \in Requests : pc'[q] \notin Refusing
  BY DEF FaithfulInv, Distinguishable
<1>1. undisturbed /\ ctl = "idle" /\ WithinCapture
  BY HandlerMoves, WithinBack
<1>2. divergences = {} /\ \A q \in Requests : pc[q] \notin Refusing
  BY <1>1 DEF FaithfulInv
<1>3. pc'[r] \notin Refusing
  <2>1. CASE CheckBudget(r)
    BY <1>1, <2>1, BudgetLeft DEF CheckBudget, Move, Refusing, TypeInv, TypeOK
  <2>2. ~NoEvent(r)
    BY <1>1, EventLeft DEF NoEvent, Move
  <2>3. CASE ~CheckBudget(r)
    BY <2>2, <2>3 DEF Handler, Move, RejectBody, Arrive, TakeStep, NoStep, Render,
       TakeEvent, Report, CountAttempt, Reply, AnswerOf, Refusing, TypeInv, TypeOK
  <2>4. QED
    BY <2>1, <2>3
<1>4. divergences' = {}
  <2>1. ~Report(r)
    BY <1>2 DEF Report, Move, Refusing
  <2>2. QED
    BY <1>2, <2>1 DEF Handler, shared, RejectBody, Arrive, CheckBudget, TakeStep, NoStep,
       Render, TakeEvent, NoEvent, CountAttempt, Reply
<1>5. QED
  BY <1>2, <1>3, <1>4, HandlerMoves

LEMMA FaithfulByController ==
  ASSUME TypeInv, CleanInv, RefusalInv, CountInv, Controller
  PROVE  FaithfulInv'
<1>. SUFFICES ASSUME undisturbed', ctl' = "idle"
              PROVE  divergences' = {} /\ \A q \in Requests : pc'[q] \notin Refusing
  BY DEF FaithfulInv
<1>1. ResetScenarios \/ ConfigureMultiplier
  BY DEF Controller, Goto, ResetSeen, ResetMaxSeen, ResetAttempts, ResetDivergences,
     ResetUses, ConfigureBudget
<1>2. /\ undisturbed /\ Active = {} /\ ctl \in {"scenarios", "multiplier"}
      /\ UNCHANGED <<divergences, pc>>
  BY <1>1 DEF ResetScenarios, ConfigureMultiplier, Goto, StillUndisturbed
<1>3. charged["seen"] = {}
  BY <1>2 DEF RefusalInv
<1>4. divergences = {}
  BY <1>2, <1>3 DEF CleanInv, Cleared
<1>5. \A q \in Requests : pc[q] \notin Refusing
  BY <1>2 DEF Active, Running, Refusing
<1>6. QED
  BY <1>2, <1>4, <1>5

RunInv == StubInv /\ UseInv /\ CleanInv /\ MatchedInv /\ FaithfulInv

LEMMA RunUnchanged ==
  ASSUME RunInv, UNCHANGED vars
  PROVE  UseInv' /\ CleanInv' /\ MatchedInv' /\ FaithfulInv'
<1>. USE DEF vars, shared, locals, control, RunInv
<1>1. UseInv' /\ CleanInv'
  BY DEF UseInv, Served, CleanInv, Cleared, Active
<1>2. MatchedInv'
  BY DEF MatchedInv, MatchInv, TicketInv, BudgetInv, Active
<1>3. WithinCapture' = WithinCapture
  BY DEF WithinCapture
<1>4. FaithfulInv'
  BY <1>3 DEF FaithfulInv, Distinguishable
<1>5. QED
  BY <1>1, <1>2, <1>4

(* An application that makes the captured calls, in any order and with any
   concurrency, is not reported as divergent.  The budget is as large as the
   uses of all events, so it refuses no call the capture allows; and a class of
   interchangeable events runs out only when as many calls of that class as it
   has uses were matched, and the call that finds it empty is one more. *)
THEOREM FaithfulRunsPass == Spec => []NoFalseDivergence
<1>1. Init => RunInv
  <2> SUFFICES ASSUME Init PROVE RunInv
    OBVIOUS
  <2>1. charged["use"] = {} /\ charged["seen"] = {}
    BY DEF Init, Counters
  <2>2. UseInv
    <3>1. multiplier = 1 /\ \A e \in 1..NEvents : useCount[e] = 0 /\ Served(e) = {}
      BY <2>1 DEF Init, ZeroUses, Served
    <3>2. QED
      BY <2>1, <3>1, FS_EmptySet DEF UseInv
  <2>3. CleanInv
    BY DEF Init, CleanInv, Cleared, Active, Running, Counters
  <2>4. MatchedInv
    BY <2>1 DEF Init, MatchedInv, MatchInv, TicketInv, BudgetInv, Active, Running
  <2>5. FaithfulInv
    BY DEF Init, FaithfulInv, Refusing
  <2>6. QED
    BY <2>2, <2>3, <2>4, <2>5, StubInit DEF RunInv
<1>2. RunInv /\ [Next]_vars => RunInv'
  <2> SUFFICES ASSUME RunInv, [Next]_vars PROVE RunInv'
    OBVIOUS
  <2>1. StubInv'
    BY StubStep DEF RunInv
  <2>2. UseInv' /\ CleanInv' /\ MatchedInv' /\ FaithfulInv'
    <3>1. ASSUME NEW r \in Requests, Handler(r)
          PROVE  UseInv' /\ CleanInv' /\ MatchedInv' /\ FaithfulInv'
      BY <3>1, UseByHandler, CleanByHandler, MatchedByHandler, FaithfulByHandler
         DEF RunInv, StubInv
    <3>2. CASE Controller
      BY <3>2, UseByController, CleanByController, MatchedByController,
         FaithfulByController DEF RunInv, StubInv
    <3>3. QED
      BY <3>1, <3>2, RunUnchanged DEF Next
  <2>3. QED
    BY <2>1, <2>2 DEF RunInv
<1>3. RunInv => NoFalseDivergence
  BY DEF RunInv, StubInv, RefusalInv, FaithfulInv, NoFalseDivergence
<1>4. QED
  BY <1>1, <1>2, <1>3, PTL DEF Spec

-----------------------------------------------------------------------------
(* A status request. *)

Snapshots == [observed : Nat, unexpected : BOOLEAN,
              divergences : SUBSET (Requests \X {"over_budget", "no_match"})]

\* While no Reset has run since the request, the reasons read so far are among
\* those of the stub, and no flag means there were none.
PollInv ==
  /\ poll \in {"idle", "divergences", "unexpected", "done"}
  /\ snap \in Snapshots
  /\ (poll # "idle" /\ ~resetDuring) =>
       /\ ctl = "idle"
       /\ before \subseteq divergences
       /\ undisturbed => Cardinality(before) <= snap.observed
       /\ poll # "divergences" => /\ before \subseteq snap.divergences
                                  /\ snap.divergences \subseteq divergences
       /\ (poll = "done" /\ ~snap.unexpected) => snap.divergences = {}

LEMMA PollByStub ==
  ASSUME StubInv, PollInv, UNCHANGED client,
         \/ \E r \in Requests : Handler(r)
         \/ UNCHANGED vars
  PROVE  PollInv'
<1>1. /\ divergences \subseteq divergences' /\ ctl' = ctl
      /\ undisturbed' => undisturbed
  BY HandlerMoves DEF StubInv, vars, shared, control
<1>2. UNCHANGED <<poll, snap, before, resetDuring>>
  BY DEF client
<1>3. QED
  BY <1>1, <1>2 DEF PollInv

LEMMA PollByClient ==
  ASSUME StubInv, PollInv, Poll
  PROVE  PollInv'
<1>1. UNCHANGED <<ctl, divergences, undisturbed, seen, unexpected>>
  BY DEF Poll, StartPoll, ReadDivergences, ReadUnexpected, vars, shared, control
<1>2. /\ seen \in Nat /\ unexpected \in BOOLEAN
      /\ divergences \in SUBSET (Requests \X {"over_budget", "no_match"})
  BY DEF StubInv, TypeInv, TypeOK
<1>3. CASE StartPoll
  <2>1. (undisturbed /\ ctl = "idle") => Cardinality(divergences) <= seen
    BY ReasonsCounted DEF StubInv
  <2>2. snap' \in Snapshots /\ snap'.observed = seen
    BY <1>2, <1>3 DEF StartPoll, NoSnap, Snapshots
  <2>3. QED
    BY <1>1, <1>3, <2>1, <2>2 DEF StartPoll, PollInv
<1>4. CASE ReadDivergences("divergences", "unexpected")
  <2>1. /\ snap' \in Snapshots /\ snap'.observed = snap.observed
        /\ snap'.divergences = divergences
    BY <1>2, <1>4 DEF ReadDivergences, PollInv, Snapshots
  <2>2. QED
    BY <1>1, <1>4, <2>1 DEF ReadDivergences, PollInv
<1>5. CASE ReadUnexpected("unexpected", "done")
  <2>1. /\ snap' \in Snapshots /\ snap'.observed = snap.observed
        /\ snap'.divergences = snap.divergences
        /\ snap'.unexpected = unexpected
    BY <1>2, <1>5 DEF ReadUnexpected, PollInv, Snapshots
  <2>2. ~unexpected => divergences = {}
    BY DEF StubInv, RefusalInv
  <2>3. QED
    BY <1>1, <1>5, <2>1, <2>2 DEF ReadUnexpected, PollInv
<1>6. QED
  BY <1>3, <1>4, <1>5 DEF Poll

-----------------------------------------------------------------------------
(* The shutdown. *)

Lives   == {"serving", "drain_admin", "drain_stub", "close_log", "closed",
            "exited"}
Drained == {"close_log", "closed", "exited"}

\* After a shutdown within its deadline, only hijacked connections carry
\* requests still.
CloseInv ==
  /\ life \in Lives
  /\ record \in [Requests -> {"none", "written", "lost"}]
  /\ ~logOpen => life \in {"closed", "exited"}
  /\ life \in Drained => expired \/ Active \subseteq Hijacked
  /\ ObservedLogComplete

LEMMA CloseByRequest ==
  ASSUME StubInv, CloseInv, NEW r \in Requests, Observe(r) \/ Serve(r)
  PROVE  CloseInv'
<1>1. CASE Observe(r)
  <2>1. UNCHANGED <<pc, life, expired, logOpen>>
    BY <1>1 DEF Observe, vars
  <2>2. ~logOpen => expired \/ r \in Hijacked
    BY <1>1 DEF Observe, CloseInv, Drained, Active, Running
  <2>3. ObservedLogComplete'
    BY <1>1, <2>1, <2>2 DEF Observe, CloseInv, ObservedLogComplete
  <2>4. record' \in [Requests -> {"none", "written", "lost"}]
    BY <1>1 DEF Observe, CloseInv
  <2>5. QED
    BY <2>1, <2>3, <2>4 DEF CloseInv, Active
<1>2. CASE Serve(r)
  <2>1. UNCHANGED <<life, expired, logOpen, record>> /\ Handler(r)
    BY <1>2 DEF Serve, server
  <2>2. (life \in Drained /\ pc[r] = "idle") => r \in Hijacked
    BY <1>2 DEF Serve, Receives, Drained
  <2>3. Active' \subseteq Active \cup {r}
    BY <2>1, HandlerMoves DEF StubInv, Active
  <2>4. r \in Active \/ pc[r] = "idle"
    BY <2>1, HandlerMoves DEF StubInv, Active, TypeInv, TypeOK
  <2>5. QED
    BY <2>1, <2>2, <2>3, <2>4 DEF CloseInv, ObservedLogComplete
<1>3. QED
  BY <1>1, <1>2

LEMMA CloseByServer ==
  ASSUME CloseInv, CloseStep
  PROVE  CloseInv'
<1>. USE DEF CloseInv, ObservedLogComplete, Lives, Drained, Active, Shut, vars
<1>1. CASE BeginClose
  BY <1>1 DEF BeginClose
<1>2. CASE AdminDrained
  BY <1>2 DEF AdminDrained
<1>3. CASE StubDrained
  BY <1>3 DEF StubDrained
<1>4. CASE CloseLog
  BY <1>4 DEF CloseLog
<1>5. CASE Exit
  BY <1>5 DEF Exit
<1>6. CASE Expire
  BY <1>6 DEF Expire
<1>7. QED
  BY <1>1, <1>2, <1>3, <1>4, <1>5, <1>6 DEF CloseStep

-----------------------------------------------------------------------------
SimInv == StubInv /\ PollInv /\ CloseInv

LEMMA SimInvInit == SimInit => SimInv
<1>. SUFFICES ASSUME SimInit PROVE SimInv
  OBVIOUS
<1>1. StubInv
  BY StubInit DEF SimInit
<1>2. PollInv
  BY DEF SimInit, PollInv, NoSnap, Snapshots
<1>3. CloseInv
  BY DEF SimInit, CloseInv, Lives, Drained, ObservedLogComplete
<1>4. QED
  BY <1>1, <1>2, <1>3 DEF SimInv

(* A step of the server is a step of the stub, or leaves the stub alone. *)
LEMMA ServerStepIsStubStep == [SimNext]_simVars => [Next]_vars
BY DEF SimNext, simVars, Observe, Serve, HandleReset, Poll, StartPoll,
   ReadDivergences, ReadUnexpected, CloseStep, BeginClose, AdminDrained,
   StubDrained, CloseLog, Exit, Expire, Shut, Next

LEMMA SimInvStep == SimInv /\ [SimNext]_simVars => SimInv'
<1>. SUFFICES ASSUME SimInv, [SimNext]_simVars PROVE SimInv'
  OBVIOUS
<1>. USE DEF SimInv
<1>1. StubInv'
  BY ServerStepIsStubStep, StubStep
<1>2. ASSUME NEW r \in Requests, Observe(r) \/ Serve(r)
      PROVE  PollInv' /\ CloseInv'
  <2>1. UNCHANGED client /\ (Handler(r) \/ UNCHANGED vars)
    BY <1>2 DEF Observe, Serve
  <2>2. QED
    BY <1>2, <2>1, PollByStub, CloseByRequest
<1>3. CASE HandleReset
  <2>1. /\ pc' = pc /\ resetDuring' = TRUE
        /\ UNCHANGED <<life, expired, logOpen, record, poll, snap>>
    BY <1>3, ReasonByController DEF HandleReset, server, StubInv
  <2>2. QED
    BY <1>1, <2>1 DEF PollInv, CloseInv, ObservedLogComplete, Active
<1>4. CASE Poll
  <2>1. UNCHANGED <<pc, life, expired, logOpen, record>>
    BY <1>4 DEF Poll, StartPoll, ReadDivergences, ReadUnexpected, vars, server
  <2>2. QED
    BY <1>1, <1>4, <2>1, PollByClient DEF CloseInv, ObservedLogComplete, Active
<1>5. CASE CloseStep
  <2>1. UNCHANGED vars /\ UNCHANGED client
    BY <1>5 DEF CloseStep, BeginClose, AdminDrained, StubDrained, CloseLog,
       Exit, Expire, Shut
  <2>2. QED
    BY <1>1, <1>5, <2>1, PollByStub, CloseByServer
<1>6. CASE UNCHANGED simVars
  <2>1. UNCHANGED vars /\ UNCHANGED client /\ UNCHANGED server
    BY <1>6 DEF simVars
  <2>2. CloseInv'
    BY <2>1 DEF CloseInv, ObservedLogComplete, Active, vars, server
  <2>3. QED
    BY <1>1, <2>1, <2>2, PollByStub
<1>7. QED
  BY <1>1, <1>2, <1>3, <1>4, <1>5, <1>6 DEF SimNext

LEMMA SimInvariant == SimSpec => []SimInv
BY SimInvInit, SimInvStep, PTL DEF SimSpec

(* A status without the flag, when no Reset ran since it was asked for, lists
   no reason, and none had been reported before: Snapshot reads the flag after
   the list, and the two agree. *)
THEOREM NoFlagCertifies == SimSpec => []NoFlagNoDivergence
<1>1. SimInv => NoFlagNoDivergence
  BY DEF SimInv, PollInv, NoFlagNoDivergence
<1>2. QED
  BY <1>1, SimInvariant, PTL

(* A status that no Reset raced with keeps the reasons reported before it was
   asked for, and counts at least as many calls. *)
THEOREM StatusIsNotStale == SimSpec => []SnapshotIsNotStale
<1>1. SimInv => SnapshotIsNotStale
  BY DEF SimInv, PollInv, SnapshotIsNotStale
<1>2. QED
  BY <1>1, SimInvariant, PTL

(* The observed-event log lacks only requests that outlive the deadline of the
   shutdown or that arrived through a hijacked connection. *)
THEOREM DrainKeepsRecords == SimSpec => []ObservedLogComplete
<1>1. SimInv => ObservedLogComplete
  BY DEF SimInv, CloseInv
<1>2. QED
  BY <1>1, SimInvariant, PTL
=============================================================================
