-------------------------- MODULE MCRecordSession ---------------------------
EXTENDS RecordSession
CONSTANTS x1, x2, c1, c2
MCCaller     == [c \in Calls |-> IF c = c2 THEN x2 ELSE x1]
MCTraces     == {<< >>, <<"bad">>, <<"t">>}
MCWellFormed == {<<"t">>}
=============================================================================
