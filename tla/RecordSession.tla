--------------------------- MODULE RecordSession ----------------------------
(***************************************************************************)
(* One session of infernosim record: the inbound reverse proxy and the     *)
(* outbound forward proxy of pkg/capture log the exchanges of concurrent   *)
(* clients, tunnels share the cache of leaf certificates, and a signal     *)
(* ends the session while handlers run; then LoadInboundEvents pairs the   *)
(* requests of inbound.log with their responses.  Both proxies also serve  *)
(* HTTP/2 without TLS (h2c): such a connection is hijacked from the server, *)
(* and closing the server does not close it.                               *)
(*                                                                         *)
(* Abstracted: a log is the sequence of its events (EventLog is about the  *)
(* file); headers, bodies, redaction and the choice of a transport.        *)
(***************************************************************************)
EXTENDS Naturals, Sequences, FiniteSets, SequencesExt

CONSTANTS
  Exchanges,    (* requests of clients, one handler each                   *)
  Calls,        (* outbound calls of the application, one handler each     *)
  Caller,       (* the exchange during which the application makes a call  *)
  H2c,          (* exchanges whose client uses an h2c connection           *)
  Hosts,        (* hosts the application calls                             *)
  Allowed,      (* --mitm-allow-hosts                                      *)
  ClientTraces, (* X-Inferno-TraceID as clients send it, << >> if they don't *)
  WellFormed    (* the traces that SanitizeTraceID leaves as they are      *)

\* GenerateID: an identifier that no other request has.
NewTrace(x, part) == <<part, x>>

ASSUME RecordAssumption ==
  /\ Caller \in [Calls -> Exchanges] /\ Allowed \subseteq Hosts
  /\ H2c \subseteq Exchanges
  /\ \A x \in Exchanges : NewTrace(x, "request") \notin ClientTraces
                           /\ NewTrace(x, "response") \notin ClientTraces

VARIABLES
  handler,      (* control point of the inbound handler of an exchange     *)
  trace,        (* the X-Inferno-TraceID of its forwarded request          *)
  stamp,        (* when it was received, which is when its body was read   *)
  clock,        (* receptions so far                                       *)
  inboundLog,   (* the events of inbound.log                               *)
  mitm,         (* --https-mode mitm                                       *)
  call,         (* control point of the outbound handler of a call         *)
  host,         (* the host of a tunnel                                    *)
  outboundLog,  (* the events in outbound.log: their order does not matter *)
  leafCert,     (* the cache: host -> certificate                          *)
  presented,    (* the certificate a tunnel shows its client               *)
  main,         (* how far the command is: "recording" to "exited"         *)
  metadata,     (* inbound_count of incident.json                          *)
  answered      (* history: the stage at which a client got its response   *)

vars == <<handler, trace, stamp, clock, inboundLog, mitm, call, host,
          outboundLog, leafCert, presented, main, metadata, answered>>

inbound  == <<handler, trace, stamp, clock, inboundLog, answered>>
outbound == <<mitm, call, host, outboundLog, leafCert, presented>>

None     == "none"
Shutdown == <<"recording", "inboundClosed", "outboundClosed", "inboundLogClosed",
              "outboundLogClosed", "exited">>
Stage    == CHOOSE n \in DOMAIN Shutdown : Shutdown[n] = main
Running  == main # "exited"

\* Logger.Write fails once the log is closed; writeEvent only reports it.
WriteInbound(evt) ==
  inboundLog' = IF Stage < 4 THEN Append(inboundLog, evt) ELSE inboundLog

WriteOutbound(evt) ==
  outboundLog' = IF Stage < 5 THEN outboundLog \cup {evt} ELSE outboundLog

-----------------------------------------------------------------------------
(* The inbound proxy.                                                      *)

\* The Director takes the time of a request and gives it a trace if it has none.
\* A handler that has begun goes on when the server is closed, and an h2c
\* connection brings new ones.
Receive(x) ==
  /\ Running /\ handler[x] = "idle"
  /\ \E t \in ClientTraces :
       trace' = [trace EXCEPT ![x] = IF t = << >> THEN NewTrace(x, "request") ELSE t]
  /\ clock' = clock + 1
  /\ stamp' = [stamp EXCEPT ![x] = clock']
  /\ handler' = [handler EXCEPT ![x] = "received"]
  /\ UNCHANGED <<inboundLog, answered, main, metadata>> /\ UNCHANGED outbound

\* ... and logs it with the trace as it is, before it is forwarded.
LogRequest(x) ==
  /\ Running /\ handler[x] = "received"
  /\ WriteInbound([type |-> "InboundRequest", of |-> x, trace |-> trace[x], at |-> stamp[x]])
  /\ handler' = [handler EXCEPT ![x] = "forwarded"]
  /\ UNCHANGED <<trace, stamp, clock, answered, main, metadata>> /\ UNCHANGED outbound

\* The application cannot be reached: the client gets a 502 and there is no
\* response event.
Unreachable(x) ==
  /\ Running /\ handler[x] = "forwarded"
  /\ handler' = [handler EXCEPT ![x] = "done"]
  /\ UNCHANGED <<trace, stamp, clock, inboundLog, answered, main, metadata>> /\ UNCHANGED outbound

\* SanitizeTraceID: an ill-formed trace is replaced by a new one.
\* GenerateID's values are well-formed.
ResponseTrace(x) ==
  IF trace[x] \in WellFormed \cup {NewTrace(x, "request")} THEN trace[x]
  ELSE NewTrace(x, "response")

\* Mutant: the event is left to a goroutine nobody waits for.
LogResponseDeferred(x) ==
  /\ Running /\ handler[x] = "forwarded"
  /\ handler' = [handler EXCEPT ![x] = "logged"]
  /\ UNCHANGED <<trace, stamp, clock, inboundLog, answered, main, metadata>> /\ UNCHANGED outbound

\* ModifyResponse, before the response is passed on.
LogResponse(x) ==
  /\ Running /\ handler[x] = "forwarded"
  /\ WriteInbound([type |-> "InboundResponse", of |-> x, trace |-> ResponseTrace(x), at |-> stamp[x]])
  /\ handler' = [handler EXCEPT ![x] = "logged"]
  /\ UNCHANGED <<trace, stamp, clock, answered, main, metadata>> /\ UNCHANGED outbound

\* Once the server is closed there is no connection to answer on, except h2c.
Answer(x) ==
  /\ Running /\ handler[x] = "logged"
  /\ answered' = [answered EXCEPT ![x] = IF Stage < 2 \/ x \in H2c THEN Stage ELSE @]
  /\ handler' = [handler EXCEPT ![x] = "done"]
  /\ UNCHANGED <<trace, stamp, clock, inboundLog, main, metadata>> /\ UNCHANGED outbound

-----------------------------------------------------------------------------
(* The forward proxy.                                                      *)

Step(c, from, to) == Running /\ call[c] = from /\ call' = [call EXCEPT ![c] = to]
Rest == UNCHANGED <<mitm, main, metadata>> /\ UNCHANGED inbound

\* As on the inbound side, handlers go on when the server is closed.
CanDial(c) == handler[Caller[c]] = "forwarded"

\* The application makes a plain call,
Dial(c) ==
  /\ CanDial(c)
  /\ Step(c, "idle", "requested")
  /\ UNCHANGED <<host, outboundLog, leafCert, presented>> /\ Rest

\* or asks for a tunnel, which is passed on as it is
Tunnel(c) ==
  /\ CanDial(c) /\ ~mitm
  /\ Step(c, "idle", "tunnelled")
  /\ UNCHANGED <<host, outboundLog, leafCert, presented>> /\ Rest

\* (and is logged, whether the destination could be reached or not)
LogTunnel(c) ==
  /\ Step(c, "tunnelled", "done")
  /\ WriteOutbound([type |-> "CONNECT", of |-> c])
  /\ UNCHANGED <<host, leafCert, presented>> /\ Rest

\* or is intercepted if its host is allowed.
Connect(c) ==
  /\ CanDial(c) /\ mitm
  /\ Step(c, "idle", "connected")
  /\ \E h \in Allowed : host' = [host EXCEPT ![c] = h]
  /\ UNCHANGED <<outboundLog, leafCert, presented>> /\ Rest

\* It is refused if it is not, or if the application asks on an h2c connection,
\* which cannot be hijacked again; nothing is logged.
Refuse(c) ==
  /\ CanDial(c) /\ mitm
  /\ Step(c, "idle", "done")
  /\ UNCHANGED <<host, outboundLog, leafCert, presented>> /\ Rest

\* GenerateLeafCert under the read lock.
CertFound(c) ==
  /\ Step(c, "connected", "handshake")
  /\ leafCert[host[c]] # None
  /\ presented' = [presented EXCEPT ![c] = leafCert[host[c]]]
  /\ UNCHANGED <<host, outboundLog, leafCert>> /\ Rest

CertMissing(c) ==
  /\ Step(c, "connected", "generating")
  /\ leafCert[host[c]] = None
  /\ UNCHANGED <<host, outboundLog, leafCert, presented>> /\ Rest

\* Mutant: the cache is not looked at again under the write lock.
StoreCertBlindly(c) ==
  /\ Step(c, "generating", "handshake")
  /\ presented' = [presented EXCEPT ![c] = c]
  /\ leafCert' = [leafCert EXCEPT ![host[c]] = c]
  /\ UNCHANGED <<host, outboundLog>> /\ Rest

\* GenerateLeafCert under the write lock; the certificate of c is named c.
StoreCert(c) ==
  /\ Step(c, "generating", "handshake")
  /\ LET cached == leafCert[host[c]]
     IN presented' = [presented EXCEPT ![c] = IF cached = None THEN c ELSE cached]
  /\ leafCert' = [leafCert EXCEPT ![host[c]] = presented'[c]]
  /\ UNCHANGED <<host, outboundLog>> /\ Rest

\* The tunnel's event is written when the tunnel is up; its requests are served
\* by a goroutine of their own.
Handshake(c) ==
  /\ Step(c, "handshake", "requested")
  /\ WriteOutbound([type |-> "CONNECT", of |-> c])
  /\ UNCHANGED <<host, leafCert, presented>> /\ Rest

HandshakeFails(c) ==
  /\ Step(c, "handshake", "done")
  /\ UNCHANGED <<host, outboundLog, leafCert, presented>> /\ Rest

\* handleHTTP forwards the call and copies the response, or a 502, to the
\* application; a session that records has no rules to inject faults.
CopyResponse(c) ==
  /\ Step(c, "requested", "copied")
  /\ UNCHANGED <<host, outboundLog, leafCert, presented>> /\ Rest

\* The call is logged after it was answered.
LogCall(c) ==
  /\ Step(c, "copied", "done")
  /\ WriteOutbound([type |-> "OutboundCall", of |-> c])
  /\ UNCHANGED <<host, leafCert, presented>> /\ Rest

-----------------------------------------------------------------------------
(* The command.                                                            *)

Requests == {n \in DOMAIN inboundLog : inboundLog[n].type = "InboundRequest"}

\* The signal, and the calls of runRecord after it, one by one.  Server.Close
\* waits for no handler.
ShutDown ==
  /\ Running
  /\ main' = Shutdown[Stage + 1]
  /\ metadata' = IF main = "outboundLogClosed" THEN Cardinality(Requests) ELSE metadata
  /\ UNCHANGED inbound /\ UNCHANGED outbound

Init ==
  /\ handler = [x \in Exchanges |-> "idle"]
  /\ trace = [x \in Exchanges |-> << >>] /\ stamp = [x \in Exchanges |-> 0]
  /\ clock = 0 /\ inboundLog = << >> /\ answered = [x \in Exchanges |-> 0]
  /\ mitm \in BOOLEAN
  /\ call = [c \in Calls |-> "idle"] /\ host = [c \in Calls |-> None] /\ outboundLog = {}
  /\ leafCert = [h \in Hosts |-> None] /\ presented = [c \in Calls |-> None]
  /\ main = "recording" /\ metadata = 0

Inbound(x) == Receive(x) \/ LogRequest(x) \/ Unreachable(x) \/ LogResponse(x) \/ Answer(x)

Outbound(c) ==
  \/ Dial(c) \/ Connect(c) \/ Refuse(c) \/ CertFound(c) \/ CertMissing(c) \/ StoreCert(c)
  \/ Handshake(c) \/ HandshakeFails(c) \/ CopyResponse(c) \/ LogCall(c)
  \/ Tunnel(c) \/ LogTunnel(c)

Next ==
  \/ \E x \in Exchanges : Inbound(x)
  \/ \E c \in Calls : Outbound(c)
  \/ ShutDown

Spec == Init /\ [][Next]_vars

-----------------------------------------------------------------------------
(* LoadInboundEvents.                                                      *)

\* Responses are kept by trace, a later one instead of an earlier one.
ResponseOf(t) ==
  LET found == {n \in DOMAIN inboundLog :
                  inboundLog[n].type = "InboundResponse" /\ inboundLog[n].trace = t}
  IN IF found = {} THEN None ELSE inboundLog[CHOOSE n \in found : \A m \in found : m <= n].of

\* Mutant: requests stay in the order of the log.
SortedByLog(a, b) == a < b

\* Requests are sorted by their time, then by their sequence numbers.
Sorted(a, b) ==
  inboundLog[a].at < inboundLog[b].at \/ (inboundLog[a].at = inboundLog[b].at /\ a < b)

\* The places of the requests in the log, sorted.
Order ==
  CHOOSE order \in SetToSeqs(Requests) : \A i, j \in DOMAIN order : i < j => Sorted(order[i], order[j])

Loaded ==
  LET order == Order
  IN  [n \in DOMAIN order |-> LET request == inboundLog[order[n]]
                              IN  [of |-> request.of, response |-> ResponseOf(request.trace)]]

-----------------------------------------------------------------------------
(* Properties.                                                             *)

InLog(x) ==
  \E n, m \in DOMAIN inboundLog :
    /\ n < m
    /\ inboundLog[n].type = "InboundRequest" /\ inboundLog[n].of = x
    /\ inboundLog[m].type = "InboundResponse" /\ inboundLog[m].of = x

\* A client that got its response finds its exchange in the recorded incident,
\* complete, whenever the session is stopped: the events are written before the
\* response is passed on, and the server is closed before the log.  Only who is
\* answered on h2c when inbound.log is closed may find nothing.
AnsweredIsRecorded ==
  \A x \in Exchanges : answered[x] # 0 /\ (x \in H2c => answered[x] < 4) => InLog(x)

LoadsInOrder(loaded) ==
  \A n \in DOMAIN loaded :
    LET x == loaded[n].of IN
    /\ \A m \in 1..(n - 1) : stamp[loaded[m].of] < stamp[x]
    /\ (\A y \in Exchanges \ {x} : trace[y] # trace[x]) => loaded[n].response \in {x, None}

\* The loaded requests are in the order in which they were received (the timestamp
\* is taken when a request's body has been read), each with
\* its own response or none, however handlers interleave, as long as no other
\* request bears the same trace; and incident.json counts just these requests,
\* though handlers go on while the session is being stopped.
LoadedAsReceived ==
  LET loaded == Loaded
  IN  LoadsInOrder(loaded) /\ (main = "exited" => metadata = Len(loaded))

\* All tunnels to a host show the same certificate, however their generations
\* overlap, and it is the one in the cache.
OneCertificatePerHost ==
  \A c \in Calls : presented[c] # None => presented[c] = leafCert[host[c]]
=============================================================================
