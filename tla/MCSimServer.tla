---------------------------- MODULE MCSimServer ----------------------------
(***************************************************************************)
(* Instances of SimServer: one captured call to "payments", so a second    *)
(* one is refused, and calls over a hijacked connection among the requests.*)
(***************************************************************************)
EXTENDS SimServer, TLC

MCCalls == {"pay"}
OnePay  == <<{"pay"}>>
NoSteps == << >>
MCDepOf == [c \in MCCalls |-> "payments"]
NoRules == [d \in {"payments"} |-> [timeout |-> FALSE, retryLimit |-> NoLimit]]
=============================================================================
