---------------------------- MODULE MCReplayRun ----------------------------
(***************************************************************************)
(* Instances of ReplayRun: two captured requests, of which the second is a *)
(* write; requests call "pay", "mail" or nothing.                          *)
(***************************************************************************)
EXTENDS ReplayRun, TLC

Symmetry == Permutations(Workers)

MCKinds  == {"pay", "mail"}
OnePay   == [k \in MCKinds |-> IF k = "pay" THEN 1 ELSE 0]
OneEach  == [k \in MCKinds |-> 1]

\* The captured calls: one of each request.
PayThenMail  == << {<<"pay">>}, {<<"mail">>} >>

\* An application that may leave out the call of its first request or make another.
Erratic == << {<<"pay">>, << >>, <<"mail">>}, {<<"mail">>} >>
=============================================================================
