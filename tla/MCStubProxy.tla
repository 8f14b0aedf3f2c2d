---------------------------- MODULE MCStubProxy ----------------------------
(***************************************************************************)
(* An instance of StubProxy for TLC.  The capture has one call, which its  *)
(* matcher does not tell from a call to another dependency; a login        *)
(* scenario serves two more kinds, the second with a template that fails.  *)
(***************************************************************************)
EXTENDS StubProxy, TLC

Symmetry == Permutations(Requests)

MCCalls     == {"pay", "login", "profile", "other"}
Host(c)     == IF c = "pay" THEN "payments" ELSE "auth"
MCDepOf     == [c \in MCCalls |-> Host(c)]
MCScenarios == {"auth"}
MCStates    == {"out", "in"}
MCInitial   == [s \in MCScenarios |-> "out"]

StepOf(from, c, to, rendered) ==
  [scenario |-> "auth", state |-> from, accepts |-> {c}, next |-> to,
   renders |-> rendered]

\* login moves out -> in; profile stays; a second login moves back.
LoginSteps == << StepOf("out", "login", "in", {"login"}),
                 StepOf("in", "profile", NoState, {"profile"}),
                 StepOf("in", "login", "out", {}) >>

\* The matcher of the captured call takes either host.
PayOrOther == <<{"pay", "other"}>>

NoRule     == [timeout |-> FALSE, retryLimit |-> NoLimit]
RetryOnce  == [d \in {"payments", "auth"} |->
                 IF d = "payments" THEN [NoRule EXCEPT !.retryLimit = 1]
                 ELSE [NoRule EXCEPT !.timeout = TRUE]]
=============================================================================
