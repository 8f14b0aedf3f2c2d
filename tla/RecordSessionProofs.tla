------------------------ MODULE RecordSessionProofs -------------------------
(***************************************************************************)
(* Proofs about a recording session, for any number of exchanges, calls    *)
(* and hosts: a client that was answered finds its exchange in the log,    *)
(* the tunnels to a host show one certificate, and the log loads as what   *)
(* was received.                                                           *)
(*                                                                         *)
(* The first holds because the log is closed after the server: a response  *)
(* that is passed on was logged while the log was open, and so was its     *)
(* request, except on h2c connections that outlive the server.  The        *)
(* second holds because the cache of a host is written once.  The third    *)
(* holds because an exchange logs its request once, with the number of its *)
(* reception, and its response with its trace or a new one.                *)
(***************************************************************************)
EXTENDS RecordSession, TLAPS, FiniteSetTheorems, WellFoundedInduction

-----------------------------------------------------------------------------
(* The stages of the shutdown. *)

MainInv == main \in {Shutdown[n] : n \in 1..6}

(* The stage is the position of the command in the order of the shutdown. *)
LEMMA StageIs ==
  ASSUME NEW n \in 1..6, main = Shutdown[n]
  PROVE  Stage = n
<1>1. DOMAIN Shutdown = 1..6
  BY DEF Shutdown
<1>2. Stage \in 1..6 /\ Shutdown[Stage] = main
  BY <1>1 DEF Stage
<1>3. \A k \in 1..6 : Shutdown[k] = Shutdown[n] => k = n
  BY SMTT(30) DEF Shutdown
<1>4. QED
  BY <1>2, <1>3

(* A step keeps the stage or goes to the next one. *)
LEMMA StageMoves ==
  ASSUME MainInv, [Next]_vars
  PROVE  MainInv' /\ Stage \in 1..6 /\ Stage' \in {Stage, Stage + 1}
<1>1. PICK n \in 1..6 : main = Shutdown[n]
  BY DEF MainInv
<1>2. Stage = n
  BY <1>1, StageIs
<1>3. CASE main' = main
  <2>1. Stage' = Stage
    BY <1>3 DEF Stage, Shutdown
  <2>2. QED
    BY <1>1, <1>2, <1>3, <2>1 DEF MainInv, Shutdown
<1>4. CASE ShutDown
  <2>1. n # 6
    BY <1>1, <1>4 DEF ShutDown, Running, Shutdown
  <2>2. main' = Shutdown[n + 1] /\ n + 1 \in 1..6
    BY <1>2, <1>4, <2>1 DEF ShutDown
  <2>3. \A k \in 1..6 : main' = Shutdown[k] => Stage' = k
    <3>1. DOMAIN Shutdown = 1..6
      BY DEF Shutdown
    <3> SUFFICES ASSUME NEW k \in 1..6, main' = Shutdown[k]
                 PROVE  (CHOOSE j \in DOMAIN Shutdown : Shutdown[j] = main') = k
      BY DEF Stage, Shutdown
    <3>2. \A j \in 1..6 : Shutdown[j] = Shutdown[k] => j = k
      BY SMTT(30) DEF Shutdown
    <3>3. QED
      BY <3>1, <3>2
  <2>4. QED
    BY <1>2, <2>2, <2>3 DEF MainInv, Shutdown
<1>5. [Next]_vars => main' = main \/ ShutDown
  BY DEF vars, Next, Inbound, Receive, LogRequest, Unreachable, LogResponse, Answer,
         Outbound, Step, Rest, Dial, Connect, Refuse, CertFound, CertMissing, StoreCert,
         Handshake, HandshakeFails, CopyResponse, LogCall, Tunnel, LogTunnel
<1>6. QED
  BY <1>3, <1>4, <1>5

-----------------------------------------------------------------------------
(* The certificates. *)

CallStates == {"idle", "requested", "tunnelled", "connected", "generating", "handshake",
               "copied", "done"}

\* A tunnel that has a certificate has the one in the cache of its host, and
\* has none before it asked for it.
CertInv ==
  /\ call \in [Calls -> CallStates]
  /\ host \in [Calls -> Hosts \cup {None}]
  /\ leafCert \in [Hosts -> Calls \cup {None}]
  /\ presented \in [Calls -> Calls \cup {None}]
  /\ \A c \in Calls : call[c] \in {"connected", "generating", "handshake"} => host[c] \in Hosts
  /\ \A c \in Calls : call[c] \in {"idle", "connected", "generating"} => presented[c] = None
  /\ \A c \in Calls : presented[c] # None => host[c] \in Hosts /\ presented[c] = leafCert[host[c]]

LEMMA CertInit == Init => CertInv
BY DEF Init, CertInv, CallStates

LEMMA CertStep == CertInv /\ [Next]_vars => CertInv'
<1> SUFFICES ASSUME CertInv, [Next]_vars
             PROVE  CertInv'
  OBVIOUS
<1> USE RecordAssumption DEF CertInv, CallStates
<1>1. CASE UNCHANGED outbound
  BY <1>1 DEF outbound
<1>2. ASSUME NEW c \in Calls, Outbound(c)
      PROVE  CertInv'
  <2>1. CASE Dial(c) \/ Refuse(c) \/ Tunnel(c)
    BY <2>1 DEF Dial, Refuse, Tunnel, Step
  <2>2. CASE LogTunnel(c) \/ Handshake(c) \/ HandshakeFails(c) \/ CopyResponse(c) \/ LogCall(c)
    BY <2>2 DEF LogTunnel, Handshake, HandshakeFails, CopyResponse, LogCall, Step
  <2>3. CASE Connect(c)
    BY <2>3 DEF Connect, Step
  <2>4. CASE CertFound(c)
    BY <2>4 DEF CertFound, Step
  <2>5. CASE CertMissing(c)
    BY <2>5 DEF CertMissing, Step
  <2>6. CASE StoreCert(c)
    <3> DEFINE h == host[c]
    <3>1. h \in Hosts /\ host' = host /\ call' = [call EXCEPT ![c] = "handshake"]
      BY <2>6 DEF StoreCert, Step
    <3>2. presented' = [presented EXCEPT ![c] = IF leafCert[h] = None THEN c ELSE leafCert[h]]
      BY <2>6 DEF StoreCert
    <3>3. leafCert' = [leafCert EXCEPT ![h] = presented'[c]]
      BY <2>6 DEF StoreCert
    <3>4. presented'[c] = leafCert'[h]
      BY <3>1, <3>2, <3>3
    <3>5. \A d \in Calls : d # c /\ presented[d] # None => presented'[d] = leafCert'[host[d]]
      BY <3>1, <3>2, <3>3
    <3> HIDE DEF h
    <3>6. QED
      BY <3>1, <3>2, <3>3, <3>4, <3>5 DEF h
  <2>7. QED
    BY <1>2, <2>1, <2>2, <2>3, <2>4, <2>5, <2>6 DEF Outbound
<1>3. UNCHANGED outbound \/ \E c \in Calls : Outbound(c)
  BY DEF vars, outbound, Next, Inbound, Receive, LogRequest, Unreachable, LogResponse, Answer, ShutDown
<1>4. QED
  BY <1>1, <1>2, <1>3

(* Tunnels to the same host show the same certificate, however many ask for it
   at the same time: GenerateLeafCert looks at the cache again under the write
   lock (mitm.go). *)
THEOREM OneCertificate == Spec => []OneCertificatePerHost
<1>1. CertInv => OneCertificatePerHost
  BY DEF CertInv, OneCertificatePerHost
<1>2. QED
  BY <1>1, CertInit, CertStep, PTL DEF Spec

-----------------------------------------------------------------------------
(* The inbound log. *)

Traces == {<< >>} \cup ClientTraces \cup {NewTrace(x, p) : x \in Exchanges, p \in {"request", "response"}}

Events == [type : {"InboundRequest", "InboundResponse"}, of : Exchanges, trace : Traces, at : Nat]

InboundTypes ==
  /\ handler \in [Exchanges -> {"idle", "received", "forwarded", "logged", "done"}]
  /\ trace \in [Exchanges -> Traces]
  /\ stamp \in [Exchanges -> Nat] /\ clock \in Nat
  /\ inboundLog \in Seq(Events)
  /\ answered \in [Exchanges -> 0..6]

Requested(x) ==
  \E n \in DOMAIN inboundLog : inboundLog[n].type = "InboundRequest" /\ inboundLog[n].of = x

\* While the log is open it holds what the handlers have been through; what was
\* answered was logged before the server was closed.
InboundInv ==
  /\ InboundTypes
  /\ \A x \in Exchanges : handler[x] = "forwarded" /\ Stage < 4 => Requested(x)
  /\ \A x \in Exchanges : handler[x] = "logged" /\ Stage < 4 => InLog(x)
  /\ \A x \in Exchanges : answered[x] # 0 /\ (x \in H2c => answered[x] < 4) => InLog(x)

(* The log only grows, and what it holds stays there. *)
LEMMA Grows ==
  ASSUME inboundLog \in Seq(Events), NEW evt \in Events, inboundLog' = Append(inboundLog, evt)
  PROVE  /\ inboundLog' \in Seq(Events)
         /\ Len(inboundLog') = Len(inboundLog) + 1
         /\ inboundLog'[Len(inboundLog')] = evt
         /\ \A n \in DOMAIN inboundLog : n \in DOMAIN inboundLog' /\ inboundLog'[n] = inboundLog[n]
BY SMT

LEMMA HoldsOn ==
  ASSUME /\ inboundLog \in Seq(Events)
         /\ inboundLog' = inboundLog
            \/ \E evt \in Events : inboundLog' = Append(inboundLog, evt),
         NEW x
  PROVE  (Requested(x) => Requested(x)') /\ (InLog(x) => InLog(x)')
<1>1. CASE inboundLog' = inboundLog
  BY <1>1 DEF Requested, InLog
<1>2. ASSUME NEW evt \in Events, inboundLog' = Append(inboundLog, evt)
      PROVE  \A n \in DOMAIN inboundLog : n \in DOMAIN inboundLog' /\ inboundLog'[n] = inboundLog[n]
  BY <1>2, Grows
<1>3. QED
  BY <1>1, <1>2 DEF Requested, InLog

LEMMA InboundInit == Init => InboundInv
BY DEF Init, InboundInv, InboundTypes, Traces

(* What a step of a handler does to the log, and to the other handlers. *)
LEMMA InboundStep ==
  ASSUME MainInv, InboundInv, NEW x \in Exchanges, Inbound(x)
  PROVE  InboundInv'
<1> USE DEF InboundTypes
<1>s. Stage' = Stage /\ Stage \in 1..6
  <2>1. main' = main
    BY DEF Inbound, Receive, LogRequest, Unreachable, LogResponse, Answer
  <2>2. QED
    BY <2>1, StageIs DEF MainInv, Stage, Shutdown
<1>t. InboundTypes
  BY DEF InboundInv
<1>1. CASE Receive(x)
  <2>1. InboundTypes'
    BY <1>1, <1>t DEF Receive, InboundInv, Traces
  <2>2. inboundLog' = inboundLog /\ answered' = answered /\ handler' = [handler EXCEPT ![x] = "received"]
    BY <1>1 DEF Receive
  <2>3. QED
    BY <1>s, <1>t, <2>1, <2>2 DEF InboundInv, Requested, InLog
<1>2. CASE LogRequest(x)
  <2> DEFINE evt == [type |-> "InboundRequest", of |-> x, trace |-> trace[x], at |-> stamp[x]]
  <2>1. evt \in Events
    BY <1>t DEF Events
  <2>2. /\ inboundLog' = IF Stage < 4 THEN Append(inboundLog, evt) ELSE inboundLog
        /\ handler' = [handler EXCEPT ![x] = "forwarded"]
        /\ answered' = answered
        /\ UNCHANGED <<trace, stamp, clock>>
    BY <1>2 DEF LogRequest, WriteInbound
  <2>3. evt.type = "InboundRequest" /\ evt.of = x
    OBVIOUS
  <2> HIDE DEF evt
  <2>4. InboundTypes'
    BY <1>t, <2>1, <2>2, Grows
  <2>5. \A y : (Requested(y) => Requested(y)') /\ (InLog(y) => InLog(y)')
    BY <1>t, <2>1, <2>2, HoldsOn
  <2>6. Stage < 4 => Requested(x)'
    <3> SUFFICES ASSUME Stage < 4 PROVE Requested(x)'
      OBVIOUS
    <3>1. inboundLog' \in Seq(Events) /\ Len(inboundLog') = Len(inboundLog) + 1
          /\ inboundLog'[Len(inboundLog')] = evt
      BY <1>t, <2>1, <2>2, Grows
    <3>2. Len(inboundLog') \in DOMAIN inboundLog'
      BY <1>t, <3>1
    <3>3. QED
      BY <2>3, <3>1, <3>2 DEF Requested
  <2>7. QED
    BY <1>s, <1>t, <2>2, <2>4, <2>5, <2>6 DEF InboundInv
<1>3. CASE Unreachable(x)
  <2>1. inboundLog' = inboundLog /\ answered' = answered /\ handler' = [handler EXCEPT ![x] = "done"]
        /\ UNCHANGED <<trace, stamp, clock>>
    BY <1>3 DEF Unreachable
  <2>2. QED
    BY <1>s, <1>t, <2>1 DEF InboundInv, Requested, InLog
<1>4. CASE LogResponse(x)
  <2> DEFINE evt == [type |-> "InboundResponse", of |-> x, trace |-> ResponseTrace(x), at |-> stamp[x]]
  <2>1. evt \in Events
    BY <1>t DEF Events, ResponseTrace, Traces
  <2>2. /\ inboundLog' = IF Stage < 4 THEN Append(inboundLog, evt) ELSE inboundLog
        /\ handler[x] = "forwarded"
        /\ handler' = [handler EXCEPT ![x] = "logged"]
        /\ answered' = answered
        /\ UNCHANGED <<trace, stamp, clock>>
    BY <1>4 DEF LogResponse, WriteInbound
  <2>3. evt.type = "InboundResponse" /\ evt.of = x
    OBVIOUS
  <2> HIDE DEF evt
  <2>4. InboundTypes'
    BY <1>t, <2>1, <2>2, Grows
  <2>5. \A y : (Requested(y) => Requested(y)') /\ (InLog(y) => InLog(y)')
    BY <1>t, <2>1, <2>2, HoldsOn
  <2>6. Stage < 4 => InLog(x)'
    <3> SUFFICES ASSUME Stage < 4 PROVE InLog(x)'
      OBVIOUS
    <3>1. PICK n \in DOMAIN inboundLog : inboundLog[n].type = "InboundRequest" /\ inboundLog[n].of = x
      BY <2>2 DEF InboundInv, Requested
    <3>2. /\ inboundLog' \in Seq(Events) /\ Len(inboundLog') = Len(inboundLog) + 1
          /\ inboundLog'[Len(inboundLog')] = evt
          /\ n \in DOMAIN inboundLog' /\ inboundLog'[n] = inboundLog[n]
      BY <1>t, <2>1, <2>2, Grows
    <3>3. Len(inboundLog') \in DOMAIN inboundLog' /\ n < Len(inboundLog')
      BY <1>t, <3>2
    <3>4. QED
      BY <2>3, <3>1, <3>2, <3>3 DEF InLog
  <2>7. QED
    BY <1>s, <1>t, <2>2, <2>4, <2>5, <2>6 DEF InboundInv
<1>5. CASE Answer(x)
  <2>1. /\ inboundLog' = inboundLog /\ handler[x] = "logged"
        /\ handler' = [handler EXCEPT ![x] = "done"]
        /\ answered' = [answered EXCEPT ![x] = IF Stage < 2 \/ x \in H2c THEN Stage ELSE answered[x]]
        /\ UNCHANGED <<trace, stamp, clock>>
    BY <1>5 DEF Answer
  <2>2. Stage < 4 => InLog(x)
    BY <1>s, <2>1 DEF InboundInv
  <2>3. \A y : Requested(y)' = Requested(y) /\ InLog(y)' = InLog(y)
    BY <2>1 DEF Requested, InLog
  <2>4. InboundTypes'
    BY <1>s, <1>t, <2>1
  <2>5. answered'[x] # 0 /\ (x \in H2c => answered'[x] < 4) => InLog(x)
    BY <1>s, <1>t, <2>1, <2>2 DEF InboundInv
  <2>6. \A y \in Exchanges : y # x => answered'[y] = answered[y] /\ handler'[y] = handler[y]
    BY <1>t, <2>1
  <2>7. handler'[x] = "done"
    BY <1>t, <2>1
  <2>8. QED
    BY <1>s, <2>3, <2>4, <2>5, <2>6, <2>7 DEF InboundInv
<1>6. QED
  BY <1>1, <1>2, <1>3, <1>4, <1>5 DEF Inbound

LEMMA SessionStep == MainInv /\ InboundInv /\ [Next]_vars => MainInv' /\ InboundInv'
<1> SUFFICES ASSUME MainInv, InboundInv, [Next]_vars
             PROVE  MainInv' /\ InboundInv'
  OBVIOUS
<1>1. MainInv' /\ Stage \in 1..6 /\ Stage' \in {Stage, Stage + 1}
  BY StageMoves
<1>2. CASE \E x \in Exchanges : Inbound(x)
  BY <1>1, <1>2, InboundStep
<1>3. CASE UNCHANGED inbound
  BY <1>1, <1>3 DEF inbound, InboundInv, InboundTypes, Requested, InLog
<1>4. (\E x \in Exchanges : Inbound(x)) \/ UNCHANGED inbound
  BY DEF vars, inbound, Next, Outbound, Step, Rest, Dial, Connect, Refuse, CertFound,
         CertMissing, StoreCert, Handshake, HandshakeFails, CopyResponse, LogCall, Tunnel,
         LogTunnel, ShutDown
<1>5. QED
  BY <1>1, <1>2, <1>3, <1>4

(* Whenever the session is stopped, an exchange whose client was answered is in
   the log, the request before the response: ModifyResponse logs before the
   response is passed on, and runRecord closes the server before the log.  An
   h2c connection outlives the server: what is answered there is in the log
   if it was answered before the log was closed. *)
THEOREM AnsweredAreRecorded == Spec => []AnsweredIsRecorded
<1>1. Init => MainInv
  <2>1. Init => main = Shutdown[1]
    BY DEF Init, Shutdown
  <2>2. QED
    BY <2>1 DEF MainInv
<1>2. InboundInv => AnsweredIsRecorded
  BY DEF InboundInv, AnsweredIsRecorded, InLog
<1>3. QED
  BY <1>1, <1>2, InboundInit, SessionStep, PTL DEF Spec

-----------------------------------------------------------------------------
(* General facts. *)

(* Induction, for a set of numbers. *)
LEMMA SetInduction ==
  ASSUME NEW P \in SUBSET Nat, 0 \in P, \A n \in P : n + 1 \in P
  PROVE  \A n \in Nat : n \in P
<1> SUFFICES ASSUME Nat \ P # {}
             PROVE  FALSE
  OBVIOUS
<1>1. PICK x \in Nat \ P : \A y \in Nat \ P : ~(<<y, x>> \in OpToRel(<, Nat))
  BY NatLessThanWellFounded, WFMin
<1>2. \A y \in Nat \ P : ~(y < x)
  BY <1>1, Zenon DEF OpToRel
<1>3. x - 1 \in P
  BY <1>2
<1>4. x - 1 + 1 = x
  OBVIOUS
<1>5. QED
  BY <1>3, <1>4

(* A finite set that is totally ordered can be sorted. *)
LEMMA SortedExists ==
  ASSUME NEW S, IsFiniteSet(S), NEW R,
         \A x, y \in S : x # y => <<x, y>> \in R \/ <<y, x>> \in R,
         \A x, y, z \in S : <<x, y>> \in R /\ <<y, z>> \in R => <<x, z>> \in R
  PROVE  \E s \in SetToSeqs(S) : \A i, j \in DOMAIN s : i < j => <<s[i], s[j]>> \in R
<1> DEFINE Sorts(s, n, T) ==
             /\ s \in [1..n -> T]
             /\ \A i, j \in 1..n : i < j => s[i] # s[j] /\ <<s[i], s[j]>> \in R
             /\ \A x \in T : \E i \in 1..n : s[i] = x
           P == {n \in Nat : \A T \in SUBSET S : Cardinality(T) = n => \E s : Sorts(s, n, T)}
<1>0. \A T \in SUBSET S : IsFiniteSet(T) /\ Cardinality(T) \in Nat
  BY FS_Subset, FS_CardinalityType
<1>1. 0 \in P
  <2> SUFFICES ASSUME NEW T \in SUBSET S, Cardinality(T) = 0
               PROVE  \E s : Sorts(s, 0, T)
    OBVIOUS
  <2>1. T = {}
    BY <1>0, FS_EmptySet
  <2> DEFINE none == [i \in 1..0 |-> i]
  <2>2. Sorts(none, 0, T)
    BY <2>1
  <2> HIDE DEF none, Sorts
  <2>3. QED
    BY <2>2
<1>2. ASSUME NEW n \in P
      PROVE  n + 1 \in P
  <2>a. n \in Nat
    OBVIOUS
  <2> HIDE DEF Sorts
  <2>0. \A T \in SUBSET S : Cardinality(T) = n => \E s : Sorts(s, n, T)
    OBVIOUS
  <2> SUFFICES ASSUME NEW T \in SUBSET S, Cardinality(T) = n + 1
               PROVE  \E s : Sorts(s, n + 1, T)
    BY <2>a
  <2> HIDE DEF P
  <2> USE DEF Sorts
  <2> USE <2>a
  <2> DEFINE Highest(m) == m \in T /\ \A x \in T \ {m} : <<x, m>> \in R
  <2>1. ASSUME NEW m \in T
        PROVE  Cardinality(T \ {m}) = n /\ T \ {m} \in SUBSET S
    <3>1. Cardinality(T \ {m}) = Cardinality(T) - 1
      BY <1>0, FS_RemoveElement
    <3>2. QED
      BY <2>0, <3>1
  <2>2. \A m \in T : \E s : Sorts(s, n, T \ {m})
    <3> HIDE DEF Sorts
    <3>1. QED
      BY <2>0, <2>1
  <2>3. PICK any \in T : TRUE
    BY <1>0, FS_EmptySet
  <2>4. \E m : Highest(m)
    <3>1. PICK s : Sorts(s, n, T \ {any})
      BY <2>2
    <3>2. CASE n = 0
      <4>1. Highest(any)
        BY <3>1, <3>2
      <4>2. QED
        BY <4>1
    <3>3. CASE n # 0
      <4>1. n \in 1..n /\ s[n] \in T \ {any}
        BY <3>1, <3>3
      <4>2. \A x \in T \ {any} : x # s[n] => <<x, s[n]>> \in R
        BY <3>1, <4>1
      <4>3. CASE <<any, s[n]>> \in R
        <5>1. Highest(s[n])
          BY <4>1, <4>2, <4>3
        <5>2. QED
          BY <5>1
      <4>4. CASE <<s[n], any>> \in R
        <5>1. Highest(any)
          BY <4>1, <4>2, <4>4
        <5>2. QED
          BY <5>1
      <4>5. QED
        BY <4>1, <4>3, <4>4
    <3>4. QED
      BY <3>2, <3>3
  <2>5. PICK m : Highest(m)
    BY <2>4
  <2>6. PICK s : Sorts(s, n, T \ {m})
    BY <2>2, <2>5
  <2> DEFINE t == [i \in 1..(n + 1) |-> IF i = n + 1 THEN m ELSE s[i]]
  <2>7. Sorts(t, n + 1, T)
    <3>1. t \in [1..(n + 1) -> T]
      BY <2>5, <2>6
    <3>2. ASSUME NEW i \in 1..(n + 1), NEW j \in 1..(n + 1), i < j
          PROVE  t[i] # t[j] /\ <<t[i], t[j]>> \in R
      <4>1. CASE j = n + 1
        <5>1. i \in 1..n /\ s[i] \in T \ {m}
          BY <2>6, <3>2, <4>1
        <5>2. QED
          BY <2>5, <4>1, <5>1
      <4>2. CASE j # n + 1
        BY <2>6, <3>2, <4>2
      <4>3. QED
        BY <4>1, <4>2
    <3>3. ASSUME NEW x \in T
          PROVE  \E i \in 1..(n + 1) : t[i] = x
      <4>1. CASE x = m
        BY <4>1
      <4>2. CASE x # m
        <5>1. PICK i \in 1..n : s[i] = x
          BY <2>6, <4>2
        <5>2. i \in 1..(n + 1) /\ t[i] = x
          BY <5>1
        <5>3. QED
          BY <5>2
      <4>3. QED
        BY <4>1, <4>2
    <3>4. QED
      BY <3>1, <3>2, <3>3
  <2>8. QED
    BY <2>7
<1>3. Cardinality(S) \in P
  <2>1. P \in SUBSET Nat /\ Cardinality(S) \in Nat
    BY <1>0
  <2> HIDE DEF P
  <2>2. QED
    BY <1>1, <1>2, <2>1, SetInduction
<1>4. PICK s : Sorts(s, Cardinality(S), S)
  BY <1>3
<1>5. s \in SetToSeqs(S)
  <2>1. \A i, j \in 1..Cardinality(S) : i # j => i < j \/ j < i
    BY <1>0
  <2>2. QED
    BY <1>4, <2>1 DEF SetToSeqs
<1>6. DOMAIN s = 1..Cardinality(S)
  BY <1>4
<1>7. QED
  BY <1>4, <1>5, <1>6

-----------------------------------------------------------------------------
(* What LoadInboundEvents makes of the log. *)

\* Receptions are numbered.
StampInv ==
  /\ \A x \in Exchanges : handler[x] # "idle" =>
       stamp[x] <= clock /\ trace[x] \in ClientTraces \cup {NewTrace(x, "request")}
  /\ \A x, y \in Exchanges :
       x # y /\ handler[x] # "idle" /\ handler[y] # "idle" => stamp[x] # stamp[y]

\* An event has the time of its exchange and the trace of its forwarded request,
\* or the one that SanitizeTraceID made of it.
Belongs(evt) ==
  /\ handler[evt.of] \notin {"idle", "received"}
  /\ evt.at = stamp[evt.of]
  /\ evt.type = "InboundRequest" => evt.trace = trace[evt.of]
  /\ evt.type = "InboundResponse" => evt.trace = ResponseTrace(evt.of)

AllBelong == \A n \in DOMAIN inboundLog : Belongs(inboundLog[n])

\* An exchange has one request in the log.
RequestOnce == \A m, n \in Requests : inboundLog[m].of = inboundLog[n].of => m = n

\* The requests are counted when the log is closed.
Counted == main = "exited" => metadata = Cardinality(Requests)

LoadInv == StampInv /\ AllBelong /\ RequestOnce /\ Counted

LEMMA LoadInit == Init => LoadInv
<1> SUFFICES ASSUME Init
             PROVE  LoadInv
  OBVIOUS
<1>1. DOMAIN inboundLog = {} /\ main = "recording" /\ \A x \in Exchanges : handler[x] = "idle"
  BY DEF Init
<1>2. Requests = {}
  BY <1>1 DEF Requests
<1>3. QED
  BY <1>1, <1>2 DEF LoadInv, StampInv, AllBelong, RequestOnce, Counted

(* An event that is appended has the last place. *)
LEMMA Places ==
  ASSUME inboundLog \in Seq(Events), NEW evt \in Events, inboundLog' = Append(inboundLog, evt),
         NEW n \in DOMAIN inboundLog'
  PROVE  \/ n \in DOMAIN inboundLog /\ inboundLog'[n] = inboundLog[n]
         \/ n = Len(inboundLog) + 1 /\ inboundLog'[n] = evt
BY SMT

LEMMA ReceiveLoads ==
  ASSUME InboundTypes, LoadInv, NEW x \in Exchanges, Receive(x)
  PROVE  StampInv' /\ AllBelong' /\ RequestOnce'
<1>1. PICK t \in ClientTraces :
        trace' = [trace EXCEPT ![x] = IF t = << >> THEN NewTrace(x, "request") ELSE t]
  BY DEF Receive
<1>2. /\ clock' = clock + 1 /\ stamp' = [stamp EXCEPT ![x] = clock + 1]
      /\ handler[x] = "idle" /\ handler' = [handler EXCEPT ![x] = "received"]
      /\ inboundLog' = inboundLog
  BY DEF Receive
<1>3. StampInv'
  BY <1>1, <1>2 DEF InboundTypes, LoadInv, StampInv
<1>4. AllBelong'
  <2> SUFFICES ASSUME NEW n \in DOMAIN inboundLog
               PROVE  Belongs(inboundLog[n])'
    BY <1>2 DEF AllBelong
  <2> DEFINE y == inboundLog[n].of
  <2>a. inboundLog[n] \in Events
    BY DEF InboundTypes
  <2>1. y \in Exchanges /\ Belongs(inboundLog[n])
    BY <2>a DEF Events, LoadInv, AllBelong
  <2>2. y # x
    BY <1>2, <2>1 DEF Belongs
  <2>3. handler'[y] = handler[y] /\ stamp'[y] = stamp[y] /\ trace'[y] = trace[y]
    BY <1>1, <1>2, <2>1, <2>2 DEF InboundTypes
  <2>4. \A z \in Exchanges : z # x => ResponseTrace(z)' = ResponseTrace(z)
    BY <1>1 DEF InboundTypes, ResponseTrace
  <2>5. inboundLog'[n] = inboundLog[n]
    BY <1>2
  <2>6. QED
    BY <2>1, <2>2, <2>3, <2>4, <2>5 DEF Belongs
<1>5. QED
  BY <1>2, <1>3, <1>4 DEF LoadInv, RequestOnce, Requests

(* A step of a handler that may append an event of its own. *)
LEMMA LogLoads ==
  ASSUME InboundTypes, LoadInv, NEW x \in Exchanges, handler[x] # "idle",
         NEW to \in {"forwarded", "logged", "done"}, handler' = [handler EXCEPT ![x] = to],
         UNCHANGED <<trace, stamp, clock>>,
         NEW evt \in Events, inboundLog' = inboundLog \/ inboundLog' = Append(inboundLog, evt),
         evt.of = x, evt.at = stamp[x],
         evt.type = "InboundRequest" => handler[x] = "received" /\ evt.trace = trace[x],
         evt.type = "InboundResponse" => evt.trace = ResponseTrace(x)
  PROVE  StampInv' /\ AllBelong' /\ RequestOnce'
<1>1. \A y \in Exchanges :
        /\ handler'[y] \in {"idle", "received"} => handler'[y] = handler[y]
        /\ handler[y] = "idle" <=> handler'[y] = "idle"
  BY DEF InboundTypes
<1>2. StampInv'
  BY <1>1 DEF LoadInv, StampInv
<1>3. \A n \in DOMAIN inboundLog' :
        \/ n \in DOMAIN inboundLog /\ inboundLog'[n] = inboundLog[n]
        \/ n = Len(inboundLog) + 1 /\ inboundLog'[n] = evt
  <2>1. CASE inboundLog' = inboundLog
    BY <2>1
  <2>2. CASE inboundLog' = Append(inboundLog, evt)
    BY <2>2, Places DEF InboundTypes
  <2>3. QED
    BY <2>1, <2>2
<1>4. \A y \in Exchanges : ResponseTrace(y)' = ResponseTrace(y)
  BY DEF ResponseTrace
<1>5. AllBelong'
  <2> SUFFICES ASSUME NEW n \in DOMAIN inboundLog'
               PROVE  Belongs(inboundLog[n])'
    BY DEF AllBelong
  <2>1. CASE n \in DOMAIN inboundLog /\ inboundLog'[n] = inboundLog[n]
    <3> DEFINE y == inboundLog[n].of
    <3>a. inboundLog[n] \in Events
      BY <2>1 DEF InboundTypes
    <3>1. y \in Exchanges /\ Belongs(inboundLog[n])
      BY <2>1, <3>a DEF Events, LoadInv, AllBelong
    <3>2. QED
      BY <1>1, <1>4, <2>1, <3>1 DEF Belongs
  <2>2. CASE n = Len(inboundLog) + 1 /\ inboundLog'[n] = evt
    <3>1. handler'[x] = to
      BY DEF InboundTypes
    <3>2. QED
      BY <1>4, <2>2, <3>1 DEF Belongs
  <2>3. QED
    BY <1>3, <2>1, <2>2
<1>6. RequestOnce'
  <2> SUFFICES ASSUME NEW m \in Requests', NEW n \in Requests',
                      inboundLog'[m].of = inboundLog'[n].of
               PROVE  m = n
    BY DEF RequestOnce
  <2>1. ASSUME NEW k \in Requests', k \in DOMAIN inboundLog, inboundLog'[k] = inboundLog[k]
        PROVE  k \in Requests /\ handler[inboundLog[k].of] # "received"
    BY <2>1 DEF Requests, LoadInv, AllBelong, Belongs
  <2>2. ASSUME NEW k \in Requests', inboundLog'[k] = evt
        PROVE  handler[x] = "received" /\ inboundLog'[k].of = x
    BY <2>2 DEF Requests
  <2>3. m \in DOMAIN inboundLog' /\ n \in DOMAIN inboundLog'
    BY DEF Requests
  <2>4. QED
    BY <1>3, <2>1, <2>2, <2>3 DEF LoadInv, RequestOnce
<1>7. QED
  BY <1>2, <1>5, <1>6

LEMMA LoadStep ==
  ASSUME MainInv, InboundInv, LoadInv, [Next]_vars
  PROVE  LoadInv'
<1>1. InboundTypes
  BY DEF InboundInv
<1>2. ASSUME NEW x \in Exchanges, Inbound(x)
      PROVE  LoadInv'
  <2>1. main # "exited" /\ main' = main
    BY <1>2 DEF Inbound, Receive, LogRequest, Unreachable, LogResponse, Answer, Running
  <2> SUFFICES StampInv' /\ AllBelong' /\ RequestOnce'
    BY <2>1 DEF LoadInv, Counted
  <2> DEFINE request  == [type |-> "InboundRequest", of |-> x, trace |-> trace[x], at |-> stamp[x]]
             response == [type |-> "InboundResponse", of |-> x, trace |-> ResponseTrace(x), at |-> stamp[x]]
  <2>2. request \in Events /\ response \in Events
    BY <1>1 DEF InboundTypes, Events, ResponseTrace, Traces
  <2>3. request.type = "InboundRequest" /\ request.of = x /\ request.at = stamp[x]
        /\ request.trace = trace[x]
    OBVIOUS
  <2>4. response.type = "InboundResponse" /\ response.of = x /\ response.at = stamp[x]
        /\ response.trace = ResponseTrace(x)
    OBVIOUS
  <2>5. CASE Receive(x)
    BY <1>1, <2>5, ReceiveLoads
  <2>6. CASE LogRequest(x)
    <3>1. /\ handler[x] = "received" /\ handler' = [handler EXCEPT ![x] = "forwarded"]
          /\ UNCHANGED <<trace, stamp, clock>>
          /\ inboundLog' = inboundLog \/ inboundLog' = Append(inboundLog, request)
      BY <2>6 DEF LogRequest, WriteInbound
    <3> HIDE DEF request, response
    <3>2. handler[x] # "idle" /\ request.type # "InboundResponse"
      BY <2>3, <3>1
    <3>3. QED
      BY <1>1, <2>2, <2>3, <3>1, <3>2, LogLoads
  <2>7. CASE Unreachable(x) \/ LogResponse(x) \/ Answer(x)
    <3>1. /\ handler[x] \in {"forwarded", "logged"}
          /\ \E to \in {"logged", "done"} : handler' = [handler EXCEPT ![x] = to]
          /\ UNCHANGED <<trace, stamp, clock>>
          /\ inboundLog' = inboundLog \/ inboundLog' = Append(inboundLog, response)
      BY <2>7 DEF Unreachable, LogResponse, Answer, WriteInbound
    <3> HIDE DEF request, response
    <3>2. handler[x] # "idle" /\ response.type # "InboundRequest"
      BY <2>4, <3>1
    <3>3. QED
      BY <1>1, <2>2, <2>4, <3>1, <3>2, LogLoads
  <2>8. QED
    BY <1>2, <2>5, <2>6, <2>7 DEF Inbound
<1>3. CASE ShutDown
  <2>1. UNCHANGED inbound
    BY <1>3 DEF ShutDown
  <2>2. main' = "exited" => metadata' = Cardinality(Requests)
    <3>1. PICK k \in 1..6 : main = Shutdown[k]
      BY DEF MainInv
    <3>2. Stage = k /\ main' = Shutdown[k + 1]
      BY <1>3, <3>1, StageIs DEF ShutDown
    <3>3. main = Shutdown[k] /\ main # "exited" => k \in 1..5
      BY DEF Shutdown
    <3>4. k \in 1..5
      BY <1>3, <3>1, <3>3 DEF ShutDown, Running
    <3>5. main' = "exited" => main = "outboundLogClosed"
      BY <3>1, <3>2, <3>4, SMTT(30) DEF Shutdown
    <3>6. QED
      BY <1>3, <3>5 DEF ShutDown
  <2>3. Requests' = Requests
    BY <2>1 DEF inbound, Requests
  <2>4. StampInv' /\ AllBelong' /\ RequestOnce'
    BY <2>1 DEF inbound, LoadInv, StampInv, AllBelong, Belongs, ResponseTrace, RequestOnce, Requests
  <2>5. QED
    BY <2>2, <2>3, <2>4 DEF LoadInv, Counted
<1>4. CASE UNCHANGED <<inbound, main, metadata>>
  BY <1>4 DEF inbound, LoadInv, StampInv, AllBelong, Belongs, ResponseTrace, RequestOnce, Requests,
         Counted
<1>5. \/ \E x \in Exchanges : Inbound(x)
      \/ ShutDown
      \/ UNCHANGED <<inbound, main, metadata>>
  BY DEF vars, inbound, Next, Outbound, Step, Rest, Dial, Connect, Refuse, CertFound,
         CertMissing, StoreCert, Handshake, HandshakeFails, CopyResponse, LogCall, Tunnel, LogTunnel
<1>6. QED
  BY <1>2, <1>3, <1>4, <1>5

(* The order in which LoadInboundEvents takes the requests. *)
LEMMA Ordered ==
  ASSUME InboundTypes
  PROVE  /\ Order \in [1..Cardinality(Requests) -> Requests] /\ Cardinality(Requests) \in Nat
         /\ \A m, n \in 1..Cardinality(Requests) :
              m < n => Order[m] # Order[n] /\ Sorted(Order[m], Order[n])
<1> DEFINE R == {pair \in Requests \X Requests : Sorted(pair[1], pair[2])}
           Good(order) == \A i, j \in DOMAIN order : i < j => Sorted(order[i], order[j])
<1>1. Len(inboundLog) \in Nat /\ DOMAIN inboundLog = 1..Len(inboundLog)
  BY DEF InboundTypes
<1>2. \A n \in Requests : n \in Nat /\ inboundLog[n].at \in Nat
  <2>1. \A n \in DOMAIN inboundLog : inboundLog[n] \in Events
    BY DEF InboundTypes
  <2>2. QED
    BY <1>1, <2>1 DEF Requests, Events
<1>3. IsFiniteSet(Requests) /\ Cardinality(Requests) \in Nat
  <2>1. IsFiniteSet(1..Len(inboundLog)) /\ Requests \subseteq 1..Len(inboundLog)
    BY <1>1, FS_Interval DEF Requests
  <2>2. QED
    BY <2>1, FS_Subset, FS_CardinalityType
<1>4. \A x, y \in Requests : x # y => <<x, y>> \in R \/ <<y, x>> \in R
  BY <1>2 DEF Sorted
<1>5. \A x, y, z \in Requests : <<x, y>> \in R /\ <<y, z>> \in R => <<x, z>> \in R
  <2>1. \A x, y \in Requests : <<x, y>> \in R <=> Sorted(x, y)
    OBVIOUS
  <2> HIDE DEF R
  <2>2. \A x, y, z \in Requests : Sorted(x, y) /\ Sorted(y, z) => Sorted(x, z)
    BY <1>2 DEF Sorted
  <2>3. QED
    BY <2>1, <2>2
<1>6. PICK s \in SetToSeqs(Requests) : \A i, j \in DOMAIN s : i < j => <<s[i], s[j]>> \in R
  <2> HIDE DEF R
  <2>1. QED
    BY <1>3, <1>4, <1>5, SortedExists
<1>7. Good(s)
  BY <1>6
<1>8. Order \in SetToSeqs(Requests) /\ Good(Order)
  <2> HIDE DEF Good
  <2>1. Order = CHOOSE order \in SetToSeqs(Requests) : Good(order)
    BY DEF Order, Good
  <2>2. QED
    BY <1>7, <2>1
<1>9. Order \in [1..Cardinality(Requests) -> Requests]
  BY <1>8 DEF SetToSeqs
<1>10. \A m, n \in 1..Cardinality(Requests) : m < n => Order[m] # Order[n]
  BY <1>3, <1>8, <1>9 DEF SetToSeqs
<1>11. QED
  BY <1>3, <1>8, <1>9, <1>10

(* An exchange with a trace of its own gets its own response: a trace that
   SanitizeTraceID makes up is no other request's. *)
LEMMA OwnResponse ==
  ASSUME InboundTypes, LoadInv, NEW x \in Exchanges, handler[x] # "idle",
         \A y \in Exchanges \ {x} : trace[y] # trace[x]
  PROVE  ResponseOf(trace[x]) \in {x, None}
<1> DEFINE found == {n \in DOMAIN inboundLog :
                       inboundLog[n].type = "InboundResponse" /\ inboundLog[n].trace = trace[x]}
<1>1. Len(inboundLog) \in Nat /\ DOMAIN inboundLog = 1..Len(inboundLog)
      /\ \A n \in DOMAIN inboundLog : inboundLog[n] \in Events
  BY DEF InboundTypes
<1>2. \A n \in found : inboundLog[n].of = x
  <2> SUFFICES ASSUME NEW n \in found, inboundLog[n].of # x
               PROVE  FALSE
    OBVIOUS
  <2>1. PICK y \in Exchanges : y = inboundLog[n].of
    BY <1>1 DEF Events
  <2>2. y # x /\ ResponseTrace(y) = trace[x]
    BY <2>1 DEF LoadInv, AllBelong, Belongs
  <2>3. trace[x] # NewTrace(y, "response")
    <3>1. trace[x] \in ClientTraces \cup {NewTrace(x, "request")}
      BY DEF LoadInv, StampInv
    <3>2. NewTrace(y, "response") \notin ClientTraces
      BY <2>1, RecordAssumption
    <3>3. NewTrace(y, "response") # NewTrace(x, "request")
      BY DEF NewTrace
    <3>4. QED
      BY <3>1, <3>2, <3>3
  <2>4. QED
    BY <2>2, <2>3 DEF ResponseTrace
<1>3. CASE found = {}
  BY <1>3 DEF ResponseOf
<1>4. CASE found # {}
  <2>1. found \in SUBSET Nat /\ IsFiniteSet(found)
    <3>1. found \subseteq 1..Len(inboundLog) /\ IsFiniteSet(1..Len(inboundLog))
      BY <1>1, FS_Interval
    <3>2. QED
      BY <1>1, <3>1, FS_Subset
  <2> DEFINE last == CHOOSE n \in found : \A m \in found : m <= n
  <2>2. \E n \in found : \A m \in found : m <= n
    <3> DEFINE back == {Len(inboundLog) - n : n \in found}
    <3>1. back \in SUBSET Nat /\ back # {}
      BY <1>1, <1>4
    <3>2. PICK k \in back : \A j \in back : ~(<<j, k>> \in OpToRel(<, Nat))
      <4> HIDE DEF back
      <4> QED
        BY <3>1, NatLessThanWellFounded, WFMin
    <3>3. PICK n \in found : k = Len(inboundLog) - n
      OBVIOUS
    <3>4. \A m \in found : ~(Len(inboundLog) - m < k)
      <4>1. \A j \in back : ~(j < k)
        BY <3>1, <3>2, Zenon DEF OpToRel
      <4>2. QED
        BY <4>1
    <3>5. \A m \in found : m <= n
      BY <1>1, <3>3, <3>4
    <3>6. QED
      BY <3>5
  <2>3. last \in found
    <3> HIDE DEF found
    <3> QED
      BY <2>2
  <2>4. ResponseOf(trace[x]) = inboundLog[last].of
    BY <1>4 DEF ResponseOf
  <2>5. QED
    BY <1>2, <2>3, <2>4
<1>5. QED
  BY <1>3, <1>4

(* What is loaded is what was received, in this order, with its own responses,
   and as many as incident.json says, for any number of exchanges and any end of
   the session: a request is logged once, with the time it was received, and
   the log is closed before it is counted (LoadInboundEvents, runRecord). *)
THEOREM LoadsWhatWasReceived == Spec => []LoadedAsReceived
<1>1. ASSUME InboundTypes, LoadInv
      PROVE  LoadedAsReceived
  <2> DEFINE N == Cardinality(Requests)
             at(n) == inboundLog[Order[n]]
  <2>1. Order \in [1..N -> Requests] /\ N \in Nat
    BY <1>1, Ordered
  <2>2. \A m, n \in 1..N : m < n => Order[m] # Order[n] /\ Sorted(Order[m], Order[n])
    BY <1>1, Ordered
  <2>3. DOMAIN Loaded = 1..N /\ Len(Loaded) = N
    BY <2>1 DEF Loaded
  <2>4. \A n \in 1..N : Loaded[n].of = at(n).of /\ Loaded[n].response = ResponseOf(at(n).trace)
    BY <2>1 DEF Loaded
  <2>5. \A n \in 1..N : /\ at(n) \in Events /\ at(n).of \in Exchanges
                        /\ at(n).at = stamp[at(n).of] /\ at(n).trace = trace[at(n).of]
                        /\ handler[at(n).of] # "idle"
    <3> SUFFICES ASSUME NEW k \in Requests
                 PROVE  LET e == inboundLog[k]
                        IN  /\ e \in Events /\ e.of \in Exchanges
                            /\ e.at = stamp[e.of] /\ e.trace = trace[e.of]
                            /\ handler[e.of] # "idle"
      BY <2>1
    <3>1. k \in DOMAIN inboundLog /\ inboundLog[k].type = "InboundRequest" /\ inboundLog[k] \in Events
      BY <1>1 DEF Requests, InboundTypes
    <3>2. QED
      BY <1>1, <3>1 DEF Events, LoadInv, AllBelong, Belongs
  <2>6. ASSUME NEW n \in 1..N, NEW m \in 1..(n - 1)
        PROVE  stamp[Loaded[m].of] < stamp[Loaded[n].of]
    <3>1. m \in 1..N /\ m < n
      BY <2>1
    <3>2. Order[m] # Order[n] /\ Sorted(Order[m], Order[n]) /\ Order[m] \in Requests /\ Order[n] \in Requests
      BY <2>1, <2>2, <3>1
    <3>3. at(m).of # at(n).of
      BY <1>1, <3>2 DEF LoadInv, RequestOnce
    <3>4. stamp[at(m).of] # stamp[at(n).of]
      BY <1>1, <2>5, <3>1, <3>3 DEF LoadInv, StampInv
    <3>a. stamp[at(m).of] = at(m).at /\ stamp[at(n).of] = at(n).at
      BY <2>5, <3>1
    <3>b. at(m).at \in Nat /\ at(n).at \in Nat
      BY <2>5, <3>1 DEF Events
    <3>c. at(m).at <= at(n).at
      BY <3>2, <3>b DEF Sorted
    <3>5. stamp[at(m).of] <= stamp[at(n).of] /\ stamp[at(m).of] \in Nat /\ stamp[at(n).of] \in Nat
      BY <3>a, <3>b, <3>c
    <3>6. stamp[at(m).of] < stamp[at(n).of]
      <4> HIDE DEF at, N
      <4>1. \A a, b \in Nat : a <= b /\ a # b => a < b
        OBVIOUS
      <4>2. QED
        BY <3>4, <3>5, <4>1
    <3>7. Loaded[m].of = at(m).of /\ Loaded[n].of = at(n).of
      BY <2>4, <3>1
    <3>8. QED
      BY <3>6, <3>7, Zenon
  <2>7. ASSUME NEW n \in 1..N, \A y \in Exchanges \ {Loaded[n].of} : trace[y] # trace[Loaded[n].of]
        PROVE  Loaded[n].response \in {Loaded[n].of, None}
    BY <1>1, <2>4, <2>5, <2>7, OwnResponse
  <2>8. LoadsInOrder(Loaded)
    BY <2>3, <2>6, <2>7 DEF LoadsInOrder
  <2>9. main = "exited" => metadata = Len(Loaded)
    BY <1>1, <2>3 DEF LoadInv, Counted
  <2>10. QED
    BY <2>8, <2>9 DEF LoadedAsReceived
<1>2. Init => MainInv
  <2>1. Init => main = Shutdown[1]
    BY DEF Init, Shutdown
  <2>2. QED
    BY <2>1 DEF MainInv
<1>3. InboundInv => InboundTypes
  BY DEF InboundInv
<1>4. QED
  BY <1>1, <1>2, <1>3, InboundInit, LoadInit, SessionStep, LoadStep, PTL DEF Spec
=============================================================================
