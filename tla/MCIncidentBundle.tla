-------------------------- MODULE MCIncidentBundle --------------------------
EXTENDS IncidentBundle

\* The logger numbers the events.
Log(events) ==
  [events |-> [n \in DOMAIN events |-> [events[n] EXCEPT !.number = n]], torn |-> FALSE]
Event == [kind |-> "other", direction |-> "outbound", trace |-> "", header |-> "", at |-> 1,
          number |-> 0, type |-> "OutboundCall", status |-> "200", write |-> FALSE, grpc |-> FALSE,
          broken |-> FALSE, long |-> FALSE]

UpTo2(S) == {<< >>} \cup {<<e>> : e \in S} \cup {<<e, f>> : e, f \in S}

\* Requests bear a trace of the proxy, calls a header or nothing.
Requests == {[Event EXCEPT !.kind = "request", !.direction = "inbound", !.type = "InboundRequest",
                           !.trace = t, !.at = n] : t \in {"p", "q"}, n \in 1..3}
CallsMade == {[Event EXCEPT !.kind = "call", !.header = h, !.at = n] : h \in {"", "p", "q"}, n \in {1, 3}}
OneMessage == [Event EXCEPT !.kind = "message", !.header = "p", !.at = 2]

Recorded == {[name \in Names |->
                CASE name = "inbound.log"  -> Log(in)
                  [] name = "outbound.log" -> Log(out)
                  [] OTHER                 -> Absent] : in \in UpTo2(Requests), out \in UpTo2(CallsMade)}

WithMessages == {[name \in Names |->
                CASE name = "inbound.log"  -> Log(<<CHOOSE r \in Requests : r.trace = "p" /\ r.at = 1>>)
                  [] name = "messages.log" -> Log(<<OneMessage>>)
                  [] OTHER                 -> Log(<<CHOOSE c \in CallsMade : c.header = "p" /\ c.at = 3>>)]}

\* Calls of every kind, for strict-replay.
Strict == {[Event EXCEPT !.status = s, !.write = w] : s \in {"200", "none"}, w \in BOOLEAN}
            \cup {[Event EXCEPT !.grpc = TRUE, !.status = "none"], [Event EXCEPT !.long = TRUE], [Event EXCEPT !.broken = TRUE],
                  [Event EXCEPT !.type = "Unknown"],
                  [Event EXCEPT !.type = "InboundRequest"]}
Calls(S) == {[name \in Names |->
             CASE name = "inbound.log"  -> Log(<< >>)
               [] name = "outbound.log" -> Log(out)
               [] OTHER                 -> Absent] : out \in UpTo2(S)}

\* The recorder was killed while it appended a call.
Killed    == {[dir EXCEPT !["outbound.log"].torn = TRUE] : dir \in Calls({Event})}
MCShared  == WithMessages \cup Calls({Event}) \cup Killed
MCSources == Recorded \cup Calls(Strict) \cup MCShared
MCLater   == [Event EXCEPT !.kind = "call", !.at = 3, !.number = 3]

\* A new directory, or one with messages of something else.
MCDestinations == {Empty, [Empty EXCEPT !["messages.log"] = Log(<<OneMessage>>)]}

Step(kind, within) == [kind |-> kind, direction |-> "", within |-> within]
MCWorkflows == {[correlation |-> mode, steps |-> steps] : mode \in {"none", "prefer", "required"},
                  steps \in {<<Step("request", 0), Step("call", w)>> : w \in {0, 1}}
                       \cup {<<Step("request", 0), Step("call", 2), Step("call", 1)>>,
                             <<Step("call", 0), Step("request", 1)>>,
                             <<Step("request", 0), Step("message", 1), Step("call", 1)>>}}
=============================================================================
