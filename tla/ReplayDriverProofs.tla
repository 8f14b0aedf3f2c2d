------------------------- MODULE ReplayDriverProofs -------------------------
(***************************************************************************)
(* Theorems about ReplayDriver, for any captures, adapters and targets.    *)
(*                                                                         *)
(* The returns.  Every request the loop is past has a signature or was     *)
(* skipped, and each way out reports just these.                           *)
(*                                                                         *)
(* What is sent.  The invariant says of every value that cannot be taken   *)
(* for another and that the target has produced anew: the state maps it to *)
(* the live value, or it has not changed.  UpdateState keeps it, for only  *)
(* the value's own live counterpart pairs with it, and substitute, in      *)
(* whatever order it takes the map, makes the live value of it.  What      *)
(* verify and inspect say of the capture follows.                          *)
(***************************************************************************)
EXTENDS ReplayDriver, TLAPS, FiniteSetTheorems, FunctionTheorems, WellFoundedInduction

-----------------------------------------------------------------------------
(* Recursion over a sequence. *)

LEMMA SetInduction ==
  ASSUME NEW P \in SUBSET Nat, 0 \in P, \A n \in P : n + 1 \in P
  PROVE  \A n \in Nat : n \in P
<1> SUFFICES ASSUME Nat \ P # {}
             PROVE  FALSE
  OBVIOUS
<1>1. PICK x \in Nat \ P : \A y \in Nat \ P : ~(<<y, x>> \in OpToRel(<, Nat))
  BY NatLessThanWellFounded, WFMin
<1>2. \A y \in Nat \ P : ~(y < x)
  BY <1>1, Zenon DEF OpToRel
<1>3. x - 1 \in P
  BY <1>2
<1>4. (x - 1) + 1 = x
  OBVIOUS
<1>5. QED
  BY <1>3, <1>4

(* A loop over a sequence has a value after each of its steps. *)
Stepped(f, a, step, n) == f[n] = IF n = 0 THEN a ELSE step[<<f[n - 1], n>>]

LEMMA LoopExists ==
  ASSUME NEW T, NEW a \in T, NEW N \in Nat, NEW step \in [T \X (1..N) -> T]
  PROVE  \E f \in [0..N -> T] : \A n \in 0..N : Stepped(f, a, step, n)
<1> DEFINE Works(f, m) == \A n \in 0..m : Stepped(f, a, step, n)
           P == {m \in Nat : m <= N => \E f \in [0..m -> T] : Works(f, m)}
<1>1. 0 \in P
  <2> DEFINE f == [n \in 0..0 |-> a]
  <2>1. f \in [0..0 -> T] /\ Works(f, 0)
    BY DEF Stepped
  <2>2. QED
    BY <2>1
<1>2. ASSUME NEW m \in P
      PROVE  m + 1 \in P
  <2> HIDE DEF Works
  <2>0. m \in Nat /\ (m <= N => \E f \in [0..m -> T] : Works(f, m))
    OBVIOUS
  <2> SUFFICES ASSUME m + 1 <= N
               PROVE  \E f \in [0..(m + 1) -> T] : Works(f, m + 1)
    BY <2>0
  <2> HIDE DEF P
  <2>1. PICK f \in [0..m -> T] : Works(f, m)
    BY <2>0
  <2> USE DEF Works
  <2> DEFINE next   == step[<<f[m], m + 1>>]
             longer == [n \in 0..(m + 1) |-> IF n = m + 1 THEN next ELSE f[n]]
  <2>2. next \in T
    BY <2>0
  <2>3. longer \in [0..(m + 1) -> T]
    BY <2>0, <2>2
  <2>4. ASSUME NEW n \in 0..(m + 1)
        PROVE  Stepped(longer, a, step, n)
    <3>1. CASE n = m + 1
      <4>1. n # 0 /\ n - 1 = m /\ n - 1 # m + 1 /\ n - 1 \in 0..(m + 1)
        BY <2>0, <3>1
      <4>2. longer[n] = next /\ longer[n - 1] = f[m]
        BY <3>1, <4>1
      <4>3. QED
        BY <3>1, <4>1, <4>2 DEF Stepped
    <3>2. CASE n # m + 1
      <4>1. n \in 0..m /\ (n # 0 => n - 1 \in 0..(m + 1) /\ n - 1 # m + 1)
        BY <2>0, <3>2
      <4>2. longer[n] = f[n] /\ (n # 0 => longer[n - 1] = f[n - 1])
        BY <3>2, <4>1
      <4>3. Stepped(f, a, step, n)
        BY <2>1, <4>1
      <4>4. QED
        BY <4>1, <4>2, <4>3 DEF Stepped
    <3>3. QED
      BY <3>1, <3>2
  <2>5. QED
    BY <2>3, <2>4
<1>3. N \in P
  <2> HIDE DEF P
  <2>1. P \in SUBSET Nat
    BY DEF P
  <2>2. QED
    BY <1>1, <1>2, <2>1, SetInduction
<1>4. N <= N
  OBVIOUS
<1>5. QED
  BY <1>3, <1>4, Zenon

(* A sequence of a finite set that repeats nothing has every member. *)
LEMMA OrderComplete ==
  ASSUME NEW S, IsFiniteSet(S), NEW s \in SetToSeqs(S)
  PROVE  /\ s \in [1..Cardinality(S) -> S] /\ Cardinality(S) \in Nat
         /\ Len(s) = Cardinality(S)
         /\ \A x \in S : \E n \in 1..Cardinality(S) : s[n] = x
<1> DEFINE N == Cardinality(S)
<1>1. N \in Nat
  BY FS_CardinalityType
<1>2. s \in [1..N -> S] /\ \A m, n \in 1..N : s[m] = s[n] => m = n
  BY DEF SetToSeqs
<1>3. Len(s) = N
  BY <1>1, <1>2
<1> DEFINE I == {s[n] : n \in 1..N}
<1>4. IsFiniteSet(1..N) /\ Cardinality(1..N) = N
  BY <1>1, FS_Interval
<1>5. Cardinality(I) = N
  <2>1. s \in Surjection(1..N, I) /\ s \in Injection(1..N, I)
    BY <1>2 DEF Surjection, Injection, IsInjective
  <2>2. QED
    BY <1>4, <2>1, FS_Surjection
<1>6. I = S
  <2>1. I \in SUBSET S
    BY <1>2
  <2>2. QED
    BY <1>5, <2>1, FS_Subset
<1>7. QED
  BY <1>1, <1>2, <1>3, <1>6

-----------------------------------------------------------------------------
(* substitute. *)

\* What the loop of substitute holds after n replacements.
TextAfter(f, value, order, n) ==
  f[n] = IF n = 0 THEN value ELSE ReplaceIn(f[n - 1], order[n])

LEMMA SubstituteLoop ==
  ASSUME NEW value, NEW order, NEW N \in Nat, Len(order) = N
  PROVE  \E f : /\ \A n \in 0..N : TextAfter(f, value, order, n)
                /\ Replaced(value, order) = f[N]
<1> DEFINE T == {value, Garbled} \cup {state[order[n]] : n \in 1..N}
           step == [p \in T \X (1..N) |-> ReplaceIn(p[1], order[p[2]])]
<1>1. step \in [T \X (1..N) -> T]
  <2>1. ASSUME NEW p \in T \X (1..N)
        PROVE  ReplaceIn(p[1], order[p[2]]) \in T
    BY DEF ReplaceIn
  <2>2. QED
    BY <2>1
<1>2. value \in T
  OBVIOUS
<1> HIDE DEF T
<1>3. PICK f \in [0..N -> T] : \A n \in 0..N : Stepped(f, value, step, n)
  <2> HIDE DEF step
  <2> QED
    BY <1>1, <1>2, LoopExists
<1>4. \A n \in 0..N : TextAfter(f, value, order, n)
  <2>1. ASSUME NEW n \in 0..N
        PROVE  TextAfter(f, value, order, n)
    <3>1. Stepped(f, value, step, n)
      BY <1>3
    <3>2. n # 0 => <<f[n - 1], n>> \in T \X (1..N)
      OBVIOUS
    <3>3. QED
      BY <3>1, <3>2 DEF Stepped, TextAfter
  <2>2. QED
    BY <2>1
<1> DEFINE IsLoop(g) == g = [n \in 0..Len(order) |->
                             IF n = 0 THEN value ELSE ReplaceIn(g[n - 1], order[n])]
<1>5. IsLoop(f)
  BY <1>4 DEF TextAfter
<1> DEFINE g == CHOOSE h : IsLoop(h)
<1>6. IsLoop(g)
  <2> HIDE DEF IsLoop
  <2> QED
    BY <1>5
<1>7. Replaced(value, order) = g[N]
  BY DEF Replaced
<1>8. \A n \in 0..N : TextAfter(g, value, order, n)
  <2> HIDE DEF g
  <2> QED
    BY <1>6 DEF TextAfter
<1>9. QED
  BY <1>7, <1>8

(* A value that is not taken for another, and that is mapped to its live value
   or is live as captured, becomes its live value. *)
LEMMA SubstituteFresh ==
  ASSUME NEW v \in Values, Unambiguous(v), DOMAIN state \subseteq Values,
         v \in DOMAIN state => state[v] = Live[v],
         v \notin DOMAIN state => Live[v] = v,
         NEW text \in Substitutions(v)
  PROVE  text = Live[v]
<1>1. PICK order \in SetToSeqs(DOMAIN state) : text = Replaced(v, order)
  BY DEF Substitutions
<1> DEFINE N == Cardinality(DOMAIN state)
<1>2. IsFiniteSet(DOMAIN state)
  BY DriverAssumption, FS_Subset
<1>3. /\ order \in [1..N -> DOMAIN state] /\ N \in Nat /\ Len(order) = N
      /\ \A x \in DOMAIN state : \E n \in 1..N : order[n] = x
  BY <1>2, OrderComplete
<1> HIDE DEF N
<1>4. PICK f : /\ \A n \in 0..N : TextAfter(f, v, order, n)
               /\ Replaced(v, order) = f[N]
  BY <1>3, SubstituteLoop
<1> DEFINE Text(n) == f[n] = IF \E m \in 1..n : order[m] = v THEN Live[v] ELSE v
           P == {n \in Nat : n <= N => Text(n)}
<1>5. 0 \in P
  <2>1. 0 \in 0..N
    BY <1>3
  <2>2. f[0] = v
    BY <1>4, <2>1 DEF TextAfter
  <2>3. 1..0 = {}
    OBVIOUS
  <2>4. QED
    BY <2>2, <2>3
<1>6. ASSUME NEW n \in P
      PROVE  n + 1 \in P
  <2> SUFFICES ASSUME n + 1 <= N
               PROVE  Text(n + 1)
    OBVIOUS
  <2>1. n \in Nat /\ n + 1 \in 0..N /\ n + 1 \in 1..N /\ n + 1 # 0 /\ (n + 1) - 1 = n
        /\ 1..(n + 1) = (1..n) \cup {n + 1}
    BY <1>3
  <2>2. f[n + 1] = ReplaceIn(f[n], order[n + 1])
    BY <1>4, <2>1 DEF TextAfter
  <2>3. Text(n)
    BY <1>3, <2>1
  <2>4. PICK old \in DOMAIN state : old = order[n + 1]
    BY <1>3, <2>1
  <2>5. old # v => Live[v] # old /\ <<old, v>> \notin Inside /\ <<old, Live[v]>> \notin Inside
    BY <2>4 DEF Unambiguous
  <2>6. <<v, Live[v]>> \notin Inside
    BY DEF Unambiguous
  <2>7. CASE old = v
    <3>1. f[n + 1] = Live[v]
      BY <2>2, <2>3, <2>4, <2>6, <2>7 DEF ReplaceIn
    <3>2. \E m \in 1..(n + 1) : order[m] = v
      BY <2>1, <2>4, <2>7
    <3>3. QED
      BY <3>1, <3>2
  <2>8. CASE old # v
    <3>1. f[n + 1] = f[n]
      BY <2>2, <2>3, <2>4, <2>5, <2>8 DEF ReplaceIn
    <3>2. (\E m \in 1..(n + 1) : order[m] = v) <=> (\E m \in 1..n : order[m] = v)
      BY <2>1, <2>4, <2>8
    <3>3. QED
      BY <2>3, <3>1, <3>2
  <2>9. QED
    BY <2>7, <2>8
<1>7. N \in P
  <2> HIDE DEF P
  <2>1. P \in SUBSET Nat
    BY DEF P
  <2>2. QED
    BY <1>3, <1>5, <1>6, <2>1, SetInduction
<1>8. Text(N)
  BY <1>3, <1>7
<1>9. QED
  BY <1>1, <1>3, <1>4, <1>8

-----------------------------------------------------------------------------
(* UpdateState. *)

LEMMA GreatestExists ==
  ASSUME NEW N \in Nat, NEW S \in SUBSET (0..N), S # {}
  PROVE  \E m \in S : \A x \in S : x <= m
<1> DEFINE T == {N - x : x \in S}
<1>1. T \in SUBSET Nat /\ T # {}
  <2>1. \A x \in S : N - x \in Nat
    OBVIOUS
  <2>2. QED
    BY <2>1
<1>2. PICK y \in T : \A z \in T : ~(<<z, y>> \in OpToRel(<, Nat))
  BY <1>1, NatLessThanWellFounded, WFMin
<1>3. \A z \in T : ~(z < y)
  BY <1>1, <1>2, Zenon DEF OpToRel
<1>4. PICK m \in S : y = N - m
  OBVIOUS
<1>5. ASSUME NEW x \in S PROVE x <= m
  <2>1. N - x \in T /\ ~(N - x < N - m)
    BY <1>3, <1>4
  <2>2. x \in 0..N /\ m \in 0..N
    OBVIOUS
  <2>3. QED
    BY <2>1, <2>2
<1>6. QED
  BY <1>5

(* Of the links of a value there is one that is put last. *)
LEMMA LastPutExists ==
  ASSUME NEW A \in Nat, NEW B \in Nat, NEW links,
         \A l \in links : l.place \in (0..A) \X (0..B),
         NEW v, \E l \in links : l.old = v
  PROVE  LastPut(links, v) \in links /\ LastPut(links, v).old = v
<1> DEFINE S == {l \in links : l.old = v}
           F == {l.place[1] : l \in S}
<1>1. PICK a \in F : \A x \in F : x <= a
  <2>1. F \in SUBSET (0..A) /\ F # {}
    OBVIOUS
  <2> HIDE DEF F
  <2>2. QED
    BY <2>1, GreatestExists
<1> DEFINE G == {l.place[2] : l \in {m \in S : m.place[1] = a}}
<1>2. PICK b \in G : \A x \in G : x <= b
  <2>1. G \in SUBSET (0..B) /\ G # {}
    OBVIOUS
  <2> HIDE DEF G
  <2>2. QED
    BY <2>1, GreatestExists
<1>3. PICK l \in S : l.place[1] = a /\ l.place[2] = b
  OBVIOUS
<1>4. ASSUME NEW m \in links, m.old = v
      PROVE  ~Before(l.place, m.place)
  <2>1. m.place[1] \in F /\ m.place[1] <= a
    BY <1>1, <1>4
  <2>2. m.place[1] = a => m.place[2] <= b
    BY <1>2, <1>4
  <2>3. m.place \in (0..A) \X (0..B) /\ l.place \in (0..A) \X (0..B)
    BY <1>4
  <2>4. QED
    BY <1>3, <2>1, <2>2, <2>3 DEF Before
<1>5. l \in links /\ l.old = v
  OBVIOUS
<1> HIDE DEF S, F, G
<1>6. QED
  BY <1>4, <1>5 DEF LastPut

Found(f) == \E N \in Nat : DOMAIN f \subseteq 1..N /\ \A a \in DOMAIN f : IsProduced(f[a])

\* What is captured of a response, and of a request whose response is not.
LEMMA CapturedShape ==
  ASSUME NEW events \in Scripts, NEW k \in DOMAIN events
  PROVE  /\ Found(CapturedValues(events[k]))
         /\ \A a \in DOMAIN CapturedValues(events[k]) : CapturedValues(events[k])[a].value \in Values
<1> DEFINE req == events[k]
<1>1. ASSUME NEW found \in {req.produces, req.own}
      PROVE  /\ Len(found) \in Nat /\ DOMAIN found = 1..Len(found)
             /\ \A a \in DOMAIN found : IsProduced(found[a]) /\ found[a].value \in Values
  BY DriverAssumption
<1> HIDE DEF req
<1>2. CASE CapturedValues(req) \in {req.produces, req.own}
  BY <1>1, <1>2 DEF Found, req
<1>3. CASE CapturedValues(req)
             = [a \in {n \in DOMAIN req.produces : IsCookie(req.produces[n])} |-> req.produces[a]]
  BY <1>1, <1>3 DEF Found, req
<1>4. QED
  BY <1>2, <1>3 DEF CapturedValues

\* Any value that a response of the target can hold.
Held == (UNION {UNION {Anew(events[k].produces) : k \in DOMAIN events} : events \in Scripts})
          \cup (UNION Extras)

\* The values of an answer, in the order in which they are found.
IsReply(new, req) ==
  \E values \in {Anew(req.produces), {}} : \E extra \in Extras : new \in SetToSeqs(values \cup extra)

LEMMA RenewShape ==
  ASSUME NEW p, IsProduced(p)
  PROVE  Renew(p).kind = p.kind /\ Renew(p).name = p.name /\ Renew(p).value = Live[p.value]
BY DEF Renew, IsProduced

LEMMA ReplyShape ==
  ASSUME NEW events \in Scripts, NEW k \in DOMAIN events, NEW new, IsReply(new, events[k])
  PROVE  /\ \E B \in Nat : DOMAIN new = 1..B
         /\ Range(new) \subseteq Held
<1>1. PICK values \in {Anew(events[k].produces), {}}, extra \in Extras :
        new \in SetToSeqs(values \cup extra)
  BY DEF IsReply
<1>2. IsFiniteSet(Anew(events[k].produces))
  <2> DEFINE produces == events[k].produces
             f == [a \in DOMAIN produces |-> Renew(produces[a])]
  <2>1. Len(produces) \in Nat /\ DOMAIN produces = 1..Len(produces)
    BY DriverAssumption
  <2> HIDE DEF produces
  <2>2. 1 \in Int /\ Len(produces) \in Int
    BY <2>1
  <2>3. IsFiniteSet(DOMAIN produces)
    BY <2>1, <2>2, FS_Interval
  <2>4. f \in Surjection(DOMAIN produces, Anew(produces))
    BY DEF Surjection, Anew
  <2>5. IsFiniteSet(Anew(produces))
    BY <2>3, <2>4, FS_Surjection
  <2>6. QED
    BY <2>5 DEF produces
<1>3. IsFiniteSet(extra)
  BY DriverAssumption
<1>4. IsFiniteSet(values)
  BY <1>2, FS_EmptySet
<1>5. IsFiniteSet(values \cup extra)
  BY <1>3, <1>4, FS_Union
<1>6. new \in [1..Cardinality(values \cup extra) -> values \cup extra]
      /\ Cardinality(values \cup extra) \in Nat
  BY <1>1, <1>5, OrderComplete
<1>7. values \cup extra \subseteq Held
  <2>1. ASSUME NEW p \in values PROVE p \in Held
    <3>1. p \in Anew(events[k].produces)
      OBVIOUS
    <3>2. Anew(events[k].produces) \in {Anew(events[m].produces) : m \in DOMAIN events}
      OBVIOUS
    <3>3. p \in UNION {Anew(events[m].produces) : m \in DOMAIN events}
      BY <3>1, <3>2
    <3>4. QED
      BY <3>3 DEF Held
  <2>2. ASSUME NEW p \in extra PROVE p \in Held
    BY DEF Held
  <2>3. QED
    BY <2>1, <2>2
<1>8. QED
  BY <1>6, <1>7 DEF Range

LEMMA LinkFields == \A old, new, place : /\ Link(old, new, place).old = old
                                         /\ Link(old, new, place).new = new
                                         /\ Link(old, new, place).place = place
BY DEF Link

(* Where links come from. *)
FromCaptured(l, old, new) ==
  \E a \in DOMAIN old, b \in DOMAIN new :
    Paired(old[a], new[b]) /\ l.old = old[a].value /\ l.new = new[b].value

FromConsumer(l, old, new) ==
  /\ DOMAIN old = {}
  /\ \E c \in Consumers, b \in DOMAIN new :
       /\ l.old = c.value /\ l.new = new[b].value
       /\ c.kind = new[b].kind /\ c.value # new[b].value

LEMMA LinksShape ==
  ASSUME NEW old, NEW A \in Nat, DOMAIN old \subseteq 1..A,
         NEW new, NEW B \in Nat, DOMAIN new = 1..B,
         NEW l \in Links(old, new)
  PROVE  /\ l.place \in (0..A) \X (0..B)
         /\ FromCaptured(l, old, new) \/ FromConsumer(l, old, new)
<1>1. CASE DOMAIN old # {}
  <2>1. PICK p \in (DOMAIN old) \X (DOMAIN new) :
          Paired(old[p[1]], new[p[2]]) /\ l = Link(old[p[1]].value, new[p[2]].value, p)
    BY <1>1 DEF Links
  <2>2. l.place = p /\ l.old = old[p[1]].value /\ l.new = new[p[2]].value
    BY <2>1, LinkFields
  <2>3. p \in (0..A) \X (0..B) /\ p[1] \in DOMAIN old /\ p[2] \in DOMAIN new
    OBVIOUS
  <2>4. QED
    BY <1>1, <2>1, <2>2, <2>3 DEF FromCaptured
<1>2. CASE DOMAIN old = {}
  <2>1. PICK p \in Consumers \X (DOMAIN new) :
          /\ p[1].kind = new[p[2]].kind /\ p[1].value # new[p[2]].value
          /\ l = Link(p[1].value, new[p[2]].value, <<0, p[2]>>)
    BY <1>2 DEF Links
  <2>2. l.place = <<0, p[2]>> /\ l.old = p[1].value /\ l.new = new[p[2]].value
    BY <2>1, LinkFields
  <2>3. <<0, p[2]>> \in (0..A) \X (0..B) /\ p[1] \in Consumers /\ p[2] \in DOMAIN new
    OBVIOUS
  <2>4. QED
    BY <1>2, <2>1, <2>2, <2>3 DEF FromConsumer
<1>3. QED
  BY <1>1, <1>2

\* The map after a response, for a value that no value of the response passes for.
Renewed(v, values, produced) ==
  /\ v \in DOMAIN values => IF v \in DOMAIN state /\ values[v] = state[v]
                            THEN TRUE ELSE Live[v] # v /\ values[v] = Live[v]
  /\ v \in DOMAIN state => v \in DOMAIN values
  /\ produced /\ Live[v] # v => v \in DOMAIN values /\ values[v] = Live[v]

LEMMA UpdateFresh ==
  ASSUME script \in Scripts, i \in DOMAIN script, NEW new, IsReply(new, script[i]),
         NEW v \in Values, \A x \in Range(new) : ~PassesFor(x, v, script[i])
  PROVE  Renewed(v, UpdateState(CapturedValues(script[i]), new),
                 \E p \in Range(CapturedValues(script[i])) : p.value = v /\ Renew(p) \in Range(new))
<1> DEFINE old   == CapturedValues(script[i])
           links == Links(old, new)
           values == Put(links)
<1>1. PICK A \in Nat : DOMAIN old \subseteq 1..A /\ \A a \in DOMAIN old : IsProduced(old[a])
  BY CapturedShape DEF Found
<1>2. PICK B \in Nat : DOMAIN new = 1..B
  BY ReplyShape
<1>3. ASSUME NEW x \in Range(new), ~(x.value = Live[v])
      PROVE  /\ \A p \in Range(old) : ~(p.value = v /\ p.kind = x.kind
                                        /\ (p.name = x.name \/ x.kind = "cookie"))
             /\ DOMAIN old = {} => \A use \in Consumers : ~(use.value = v /\ use.kind = x.kind)
  BY <1>3 DEF PassesFor
<1> HIDE DEF old
<1>4. ASSUME NEW l \in links, l.old = v
      PROVE  l.new = Live[v] /\ Live[v] # v
  <2>1. FromCaptured(l, old, new) \/ FromConsumer(l, old, new)
    BY <1>1, <1>2, LinksShape
  <2>2. CASE FromCaptured(l, old, new)
    <3>1. PICK a \in DOMAIN old, b \in DOMAIN new :
            Paired(old[a], new[b]) /\ l.old = old[a].value /\ l.new = new[b].value
      BY <2>2 DEF FromCaptured
    <3>2. old[a] \in Range(old) /\ new[b] \in Range(new)
      BY DEF Range
    <3>3. /\ old[a].value = v /\ old[a].kind = new[b].kind /\ old[a].value # new[b].value
          /\ old[a].name = new[b].name \/ new[b].kind = "cookie"
      BY <1>4, <3>1 DEF Paired, IsCookie
    <3>4. new[b].value = Live[v]
      BY <1>3, <3>2, <3>3
    <3>5. QED
      BY <3>1, <3>3, <3>4
  <2>3. CASE FromConsumer(l, old, new)
    <3>1. PICK c \in Consumers, b \in DOMAIN new :
            /\ l.old = c.value /\ l.new = new[b].value
            /\ c.kind = new[b].kind /\ c.value # new[b].value
      BY <2>3 DEF FromConsumer
    <3>2. new[b] \in Range(new) /\ DOMAIN old = {}
      BY <2>3 DEF Range, FromConsumer
    <3>3. new[b].value = Live[v]
      BY <1>3, <1>4, <3>1, <3>2
    <3>4. QED
      BY <1>4, <3>1, <3>3
  <2>4. QED
    BY <2>1, <2>2, <2>3
<1>5. \A l \in links : l.place \in (0..A) \X (0..B)
  BY <1>1, <1>2, LinksShape
<1>6. (\E l \in links : l.old = v) => LastPut(links, v).new = Live[v] /\ Live[v] # v
  <2> HIDE DEF links
  <2> SUFFICES ASSUME \E l \in links : l.old = v
               PROVE  LastPut(links, v).new = Live[v] /\ Live[v] # v
    OBVIOUS
  <2>1. LastPut(links, v) \in links /\ LastPut(links, v).old = v
    BY <1>5, LastPutExists
  <2>2. QED
    BY <1>4, <2>1
<1>7. ((\E p \in Range(old) : p.value = v /\ Renew(p) \in Range(new)) /\ Live[v] # v)
        => \E l \in links : l.old = v
  <2> SUFFICES ASSUME NEW p \in Range(old), p.value = v, Renew(p) \in Range(new), Live[v] # v
               PROVE  \E l \in links : l.old = v
    OBVIOUS
  <2>1. PICK a \in DOMAIN old : p = old[a]
    BY DEF Range
  <2>2. PICK b \in DOMAIN new : Renew(p) = new[b]
    BY DEF Range
  <2>3. Renew(p).kind = p.kind /\ Renew(p).name = p.name /\ Renew(p).value = Live[p.value]
    BY <1>1, <2>1, RenewShape
  <2>4. Paired(old[a], new[b])
    BY <2>1, <2>2, <2>3 DEF Paired
  <2>5. Link(old[a].value, new[b].value, <<a, b>>) \in links
    <3>1. /\ <<a, b>> \in (DOMAIN old) \X (DOMAIN new) /\ DOMAIN old # {}
          /\ <<a, b>>[1] = a /\ <<a, b>>[2] = b
      OBVIOUS
    <3>2. QED
      BY <2>4, <3>1 DEF Links
  <2>6. QED
    BY <2>1, <2>5, LinkFields
<1>8. /\ DOMAIN values = DOMAIN state \cup {l.old : l \in links}
      /\ v \in DOMAIN values => values[v] = IF \E l \in links : l.old = v
                                            THEN LastPut(links, v).new ELSE state[v]
  <2> HIDE DEF links
  <2> QED
    BY DEF Put
<1>9. UpdateState(CapturedValues(script[i]), new) = values
  BY DEF UpdateState, old
<1> HIDE DEF values, links
<1>10. Renewed(v, values, \E p \in Range(old) : p.value = v /\ Renew(p) \in Range(new))
  BY <1>6, <1>7, <1>8 DEF Renewed
<1>11. QED
  BY <1>9, <1>10 DEF old

(* The map maps captured values. *)
LEMMA UpdateDomain ==
  ASSUME script \in Scripts, i \in DOMAIN script, NEW new, IsReply(new, script[i]),
         DOMAIN state \subseteq Values
  PROVE  DOMAIN UpdateState(CapturedValues(script[i]), new) \subseteq Values
<1> DEFINE old   == CapturedValues(script[i])
           links == Links(old, new)
<1>1. /\ \E A \in Nat : DOMAIN old \subseteq 1..A
      /\ \A a \in DOMAIN old : old[a].value \in Values
  BY CapturedShape DEF Found
<1>2. PICK B \in Nat : DOMAIN new = 1..B
  BY ReplyShape
<1>3. \A c \in Consumers : c.value \in Values
  <2>1. \A k \in DOMAIN script : Carried(script[k]) \subseteq Values
    BY DriverAssumption
  <2>2. QED
    BY <2>1 DEF Consumers, Carried
<1> HIDE DEF old
<1>4. ASSUME NEW l \in links PROVE l.old \in Values
  <2>1. FromCaptured(l, old, new) \/ FromConsumer(l, old, new)
    BY <1>1, <1>2, LinksShape
  <2>2. QED
    BY <1>1, <1>3, <2>1 DEF FromCaptured, FromConsumer
<1> HIDE DEF links
<1>5. DOMAIN Put(links) \subseteq Values
  BY <1>4 DEF Put
<1>6. QED
  BY <1>5 DEF UpdateState, links, old

-----------------------------------------------------------------------------
(* Counting. *)

Looping   == {"loop", "sending", "reading"}
Signature == [index : Nat, error : BOOLEAN, values : SUBSET Held]
Sending   == [index : Nat,
              became : UNION {UNION {[Carried(events[k]) -> Texts] : k \in DOMAIN events} :
                                events \in Scripts}]

ShapeInv ==
  /\ script \in Scripts
  /\ pc \in Looping \cup {"done", "expanded", "stalled", "failed"}
  /\ i \in 1..(Len(script) + 1)
  /\ pc \in {"sending", "reading"} => i \in DOMAIN script /\ ~Skips(script[i])
  /\ pc = "reading" => IsReply(received, script[i])
  /\ signatures \in Seq(Signature) /\ replayed \in Seq(Nat) /\ sent \in Seq(Sending)

\* The requests that the loop is past are those with a signature and those that
\* were skipped.
PastInv ==
  /\ Len(signatures) + skipped = i - 1
  /\ Indices(signatures) = Due(i - 1)
  /\ Range(replayed) = WithAnswer(signatures)

CountInv ==
  /\ skipped \in Nat
  /\ pc \in Looping => PastInv
  /\ skipped > 0 => Writes # {}
  /\ EveryExitCounts

LEMMA ScriptShape ==
  ASSUME ShapeInv
  PROVE  Len(script) \in Nat /\ DOMAIN script = 1..Len(script)
         /\ i \in Nat /\ i >= 1 /\ i <= Len(script) + 1
BY DriverAssumption DEF ShapeInv

LEMMA AppendShape ==
  ASSUME NEW S, NEW s \in Seq(S), NEW x \in S, NEW t, t = Append(s, x)
  PROVE  /\ Len(s) \in Nat /\ DOMAIN s = 1..Len(s) /\ DOMAIN t = 1..(Len(s) + 1)
         /\ Len(t) = Len(s) + 1 /\ t \in Seq(S)
         /\ Len(s) + 1 \in DOMAIN t /\ t[Len(s) + 1] = x
         /\ \A n \in DOMAIN s : n \in DOMAIN t /\ t[n] = s[n]
         /\ \A n \in DOMAIN t : t[n] = x \/ (n \in DOMAIN s /\ t[n] = s[n])
OBVIOUS

\* The signatures grow at their end, by that of the present request.
Signs(x) == x \in Signature /\ x.index = i /\ signatures' = Append(signatures, x)
Extended == signatures' = signatures \/ \E x \in Signature : Signs(x)

(* The two actions that append a signature. *)
LEMMA WhatIsSigned ==
  ASSUME ShapeInv, DoFails \/ Answered
  PROVE  /\ i \in DOMAIN script /\ ~Skips(script[i]) /\ pc \in Looping /\ i \in Nat
         /\ \/ pc' = "loop" /\ i' = i + 1
            \/ pc' = "expanded" /\ i' = i /\ result' = [NoResult EXCEPT !.completed = i]
         /\ DoFails => \E x \in Signature : Signs(x) /\ x.error /\ x.values = {}
         /\ Answered => \E x \in Signature : Signs(x) /\ ~x.error /\ x.values = Range(received)
<1> USE ScriptShape
<1>1. /\ i \in DOMAIN script /\ ~Skips(script[i]) /\ pc \in Looping /\ i \in Nat
      /\ \/ pc' = "loop" /\ i' = i + 1
         \/ pc' = "expanded" /\ i' = i /\ result' = [NoResult EXCEPT !.completed = i]
  BY DEF DoFails, Answered, NextRequest, ReturnEarly, ShapeInv, Looping
<1>2. ASSUME DoFails
      PROVE  \E x \in Signature : Signs(x) /\ x.error /\ x.values = {}
  <2> DEFINE x == [index |-> i, error |-> TRUE, values |-> {}]
  <2>1. x \in Signature /\ x.index = i /\ x.error /\ x.values = {}
    BY <1>1 DEF Signature
  <2>2. signatures' = Append(signatures, x)
    BY <1>2 DEF DoFails
  <2> HIDE DEF x
  <2>3. QED
    BY <2>1, <2>2 DEF Signs
<1>3. ASSUME Answered
      PROVE  \E x \in Signature : Signs(x) /\ ~x.error /\ x.values = Range(received)
  <2> DEFINE x == [index |-> i, error |-> FALSE, values |-> Range(received)]
  <2>1. Range(received) \subseteq Held
    BY <1>1, <1>3, ReplyShape DEF Answered, ShapeInv
  <2>2. x \in Signature /\ x.index = i /\ ~x.error /\ x.values = Range(received)
    BY <1>1, <2>1 DEF Signature
  <2>3. signatures' = Append(signatures, x)
    BY <1>3 DEF Answered
  <2> HIDE DEF x
  <2>4. QED
    BY <2>2, <2>3 DEF Signs
<1>4. QED
  BY <1>1, <1>2, <1>3

\* What Send sends.
LEMMA WhatIsSent ==
  ASSUME ShapeInv, Send
  PROVE  /\ i \in DOMAIN script /\ pc \in Looping /\ UNCHANGED <<i, state, signatures>>
         /\ \E x \in Sending :
              /\ x.index = i /\ sent' = Append(sent, x)
              /\ DOMAIN x.became = Carried(script[i])
              /\ \A v \in DOMAIN x.became : x.became[v] \in Substitutions(v)
<1> USE ScriptShape
<1>1. i \in DOMAIN script /\ pc \in Looping /\ UNCHANGED <<i, state, signatures>>
  BY DEF Send, Looping
<1>2. PICK became \in [Carried(script[i]) -> Texts] :
        /\ sent' = Append(sent, [index |-> i, became |-> became])
        /\ \A v \in DOMAIN became : became[v] \in Substitutions(v)
  BY DEF Send
<1> DEFINE x == [index |-> i, became |-> became]
<1>3. became \in UNION {UNION {[Carried(events[k]) -> Texts] : k \in DOMAIN events} :
                          events \in Scripts}
  BY <1>1 DEF ShapeInv
<1>4. x \in Sending /\ x.index = i /\ x.became = became
  BY <1>3 DEF Sending
<1>5. sent' = Append(sent, x)
  BY <1>2
<1> HIDE DEF x
<1>6. QED
  BY <1>1, <1>2, <1>4, <1>5

LEMMA StepShape ==
  ASSUME ShapeInv, Next
  PROVE  script' = script /\ ShapeInv' /\ Extended
<1> USE ScriptShape
<1>0. script' = script /\ safe' = safe
  BY DEF Next, Loop, Keep, Stall, ExpireBefore, Omitted, Skip, Send, Finish, DoFails, Respond,
     ReadFails, Answered, Expire
<1>a. \A req : Skips(req)' <=> Skips(req)
  BY <1>0 DEF Skips
<1>1. CASE Stall \/ ExpireBefore \/ Omitted \/ Finish \/ Expire
  BY <1>0, <1>1, <1>a DEF Stall, ExpireBefore, Omitted, Finish, Expire, Fail, ReturnEarly, ShapeInv,
     Looping, Skips, IsReply, Extended
<1>2. CASE Skip
  BY <1>0, <1>2 DEF Skip, ShapeInv, Looping, Extended
<1>3. CASE Send
  <2>1. /\ i \in DOMAIN script /\ pc' = "sending" /\ ~Skips(script[i])
        /\ UNCHANGED <<i, received, signatures, replayed>>
    BY <1>3 DEF Send
  <2>2. sent' \in Seq(Sending)
    BY <1>3, WhatIsSent, AppendShape DEF ShapeInv
  <2>3. QED
    BY <1>0, <2>1, <2>2 DEF ShapeInv, Looping, Skips, Extended
<1>4. CASE Respond
  <2>1. IsReply(received', script[i])
    BY <1>4 DEF Respond, IsReply
  <2>2. QED
    BY <1>0, <1>4, <2>1 DEF Respond, ShapeInv, Looping, Skips, IsReply, Extended
<1>5. CASE ReadFails
  BY <1>0, <1>5 DEF ReadFails, Fail, ShapeInv, Looping, Extended
<1>6. CASE DoFails \/ Answered
  <2>1. PICK x \in Signature : Signs(x)
    BY <1>6, WhatIsSigned
  <2>2. signatures' \in Seq(Signature)
    BY <2>1, AppendShape DEF Signs, ShapeInv
  <2>3. replayed' \in Seq(Nat) /\ sent' = sent
    <3>1. i \in Nat /\ sent' = sent /\ (replayed' = replayed \/ replayed' = Append(replayed, i))
      BY <1>6 DEF DoFails, Answered
    <3>2. QED
      BY <3>1, AppendShape DEF ShapeInv
  <2>4. i \in DOMAIN script /\ ((pc' = "loop" /\ i' = i + 1) \/ (pc' = "expanded" /\ i' = i))
    BY <1>6, WhatIsSigned
  <2>5. ShapeInv'
    BY <1>0, <2>2, <2>3, <2>4 DEF ShapeInv, Looping
  <2>6. QED
    BY <1>0, <2>1, <2>5 DEF Extended
<1>7. QED
  BY <1>1, <1>2, <1>3, <1>4, <1>5, <1>6 DEF Next, Loop

\* What one more signature makes of the indices.
LEMMA IndicesGrow ==
  ASSUME NEW s \in Seq(Signature), NEW x \in Signature, NEW t, t = Append(s, x)
  PROVE  /\ Indices(t) = Indices(s) \cup {x.index}
         /\ WithAnswer(t) = IF x.error THEN WithAnswer(s) ELSE WithAnswer(s) \cup {x.index}
<1>1. /\ Len(s) + 1 \in DOMAIN t /\ t[Len(s) + 1] = x
      /\ \A n \in DOMAIN s : n \in DOMAIN t /\ t[n] = s[n]
      /\ \A n \in DOMAIN t : t[n] = x \/ (n \in DOMAIN s /\ t[n] = s[n])
  BY AppendShape
<1>2. Indices(t) = Indices(s) \cup {x.index}
  BY <1>1 DEF Indices
<1>3. CASE x.error
  <2>1. WithAnswer(t) = WithAnswer(s)
    BY <1>1, <1>3 DEF WithAnswer
  <2>2. QED
    BY <1>2, <1>3, <2>1
<1>4. CASE ~x.error
  <2>1. WithAnswer(t) = WithAnswer(s) \cup {x.index}
    BY <1>1, <1>4 DEF WithAnswer
  <2>2. QED
    BY <1>2, <1>4, <2>1
<1>5. QED
  BY <1>3, <1>4

LEMMA RangeGrows ==
  ASSUME NEW S, NEW s \in Seq(S), NEW x \in S
  PROVE  Range(Append(s, x)) = Range(s) \cup {x}
<1> DEFINE t == Append(s, x)
<1>1. /\ Len(s) + 1 \in DOMAIN t /\ t[Len(s) + 1] = x
      /\ \A n \in DOMAIN s : n \in DOMAIN t /\ t[n] = s[n]
      /\ \A n \in DOMAIN t : t[n] = x \/ (n \in DOMAIN s /\ t[n] = s[n])
  BY AppendShape
<1> HIDE DEF t
<1>2. Range(t) = Range(s) \cup {x}
  BY <1>1 DEF Range
<1>3. QED
  BY <1>2 DEF t

LEMMA DueGrows ==
  ASSUME ShapeInv, NEW m \in Nat, m = i
  PROVE  Due(m) = IF Skips(script[i]) THEN Due(m - 1) ELSE Due(m - 1) \cup {m}
<1>1. m >= 1 /\ 1..m = (1..(m - 1)) \cup {m}
  BY ScriptShape
<1>2. QED
  BY <1>1 DEF Due

LEMMA StepCounts ==
  ASSUME ShapeInv, CountInv, Next
  PROVE  CountInv'
<1> USE ScriptShape
<1>0. script' = script /\ safe' = safe /\ Writes' = Writes
  <2>1. safe' = safe
    BY DEF Next, Loop, Keep, Stall, ExpireBefore, Omitted, Skip, Send, Finish, DoFails, Respond,
       ReadFails, Answered, Expire
  <2>2. QED
    BY <2>1, StepShape DEF Writes
<1>a. \A n \in Nat : Due(n)' = Due(n)
  BY <1>0 DEF Due, Skips
<1>b. Len(signatures) \in Nat /\ i - 1 \in Nat /\ i \in Nat
  BY DEF ShapeInv
<1>1. CASE Expire \/ Respond
  <2>1. UNCHANGED <<i, replayed, signatures, skipped, result>> /\ pc \in Looping /\ pc' \in Looping
    BY <1>1 DEF Expire, Respond, Returned, Looping, ShapeInv
  <2>2. PastInv'
    BY <1>0, <1>a, <1>b, <2>1 DEF PastInv, CountInv, Indices, WithAnswer, Due, Skips
  <2>3. QED
    BY <1>0, <2>1, <2>2 DEF CountInv, EveryExitCounts, Looping
<1>2. CASE Send
  <2>1. UNCHANGED <<i, replayed, signatures, skipped, result>> /\ pc \in Looping /\ pc' = "sending"
    BY <1>2 DEF Send, Looping
  <2>2. PastInv'
    BY <1>0, <1>a, <1>b, <2>1 DEF PastInv, CountInv, Indices, WithAnswer, Due, Skips
  <2>3. QED
    BY <1>0, <2>1, <2>2 DEF CountInv, EveryExitCounts, Looping
<1>3. CASE Omitted \/ ReadFails
  BY <1>0, <1>3 DEF Omitted, ReadFails, Fail, CountInv, EveryExitCounts, Looping
<1>4. CASE Stall \/ ExpireBefore
  <2>1. /\ UNCHANGED <<i, replayed, signatures, skipped>> /\ pc \in Looping
        /\ pc' \in {"stalled", "expanded"} /\ result' = [NoResult EXCEPT !.completed = i - 1]
    BY <1>4 DEF Stall, ExpireBefore, ReturnEarly, Looping
  <2>2. /\ result'.completed = i - 1 /\ result'.skipped = 0 /\ result'.replayed = << >>
    BY <2>1 DEF NoResult
  <2>3. Indices(signatures) = Due(i - 1)
    BY <2>1 DEF CountInv, PastInv
  <2>4. Indices(signatures)' = Due(result.completed)'
    BY <1>0, <2>1, <2>2, <2>3 DEF Indices, Due, Skips
  <2>5. EveryExitCounts'
    BY <2>1, <2>2, <2>4 DEF EveryExitCounts
  <2>6. QED
    BY <1>0, <2>1, <2>5 DEF CountInv, Looping
<1>5. CASE Finish
  <2>1. /\ UNCHANGED <<i, replayed, signatures, skipped>> /\ pc \in Looping /\ pc' = "done"
        /\ result' = [completed |-> Len(script) - skipped, skipped |-> skipped, replayed |-> replayed]
        /\ i = Len(script) + 1
    BY <1>5 DEF Finish, Looping
  <2>2. /\ result'.completed = Len(script) - skipped /\ result'.skipped = skipped
        /\ result'.replayed = replayed
    BY <2>1
  <2>3. /\ Len(signatures) + skipped = Len(script) /\ Indices(signatures) = Due(Len(script))
        /\ Range(replayed) = WithAnswer(signatures) /\ skipped \in Nat
    BY <2>1 DEF CountInv, PastInv
  <2>4. /\ Indices(signatures)' = Due(Len(script))'
        /\ WithAnswer(signatures)' = WithAnswer(signatures)
    BY <1>0, <2>1, <2>3 DEF Indices, WithAnswer, Due, Skips
  <2>5. EveryExitCounts'
    BY <1>0, <1>b, <2>1, <2>2, <2>3, <2>4 DEF EveryExitCounts
  <2>6. QED
    BY <1>0, <2>1, <2>3, <2>5 DEF CountInv, Looping
<1>6. CASE Skip
  <2>1. /\ i \in Writes /\ Skips(script[i]) /\ pc = "loop" /\ pc' = "loop" /\ i' = i + 1
        /\ skipped' = skipped + 1 /\ UNCHANGED <<replayed, signatures, result>>
    BY <1>6 DEF Skip, Skips, Writes
  <2>2. Due(i) = Due(i - 1)
    BY <1>b, <2>1, DueGrows
  <2>3. Indices(signatures)' = Due(i - 1)' /\ WithAnswer(signatures)' = WithAnswer(signatures)
    <3>1. Indices(signatures) = Due(i)
      BY <2>1, <2>2 DEF CountInv, PastInv, Looping
    <3>2. i' - 1 = i
      BY <1>b, <2>1
    <3>3. QED
      BY <1>0, <2>1, <3>1, <3>2 DEF Indices, WithAnswer, Due, Skips
  <2>4. PastInv'
    BY <1>b, <2>1, <2>3 DEF CountInv, PastInv, Looping
  <2>5. EveryExitCounts'
    BY <2>1 DEF EveryExitCounts
  <2>6. skipped' \in Nat /\ Writes' # {}
    BY <1>0, <2>1 DEF CountInv
  <2>7. QED
    BY <2>4, <2>5, <2>6 DEF CountInv
<1>7. CASE DoFails \/ Answered
  <2>1. /\ i \in DOMAIN script /\ ~Skips(script[i]) /\ pc \in Looping
        /\ \/ pc' = "loop" /\ i' = i + 1
           \/ pc' = "expanded" /\ i' = i /\ result' = [NoResult EXCEPT !.completed = i]
    BY <1>7, WhatIsSigned
  <2>2. PICK x \in Signature : Signs(x) /\ (DoFails => x.error) /\ (Answered => ~x.error)
    <3>1. CASE DoFails
      <4>1. ~Answered
        BY <3>1 DEF DoFails, Answered
      <4>2. QED
        BY <3>1, <4>1, WhatIsSigned
    <3>2. CASE Answered
      <4>1. ~DoFails
        BY <3>2 DEF DoFails, Answered
      <4>2. QED
        BY <3>2, <4>1, WhatIsSigned
    <3>3. QED
      BY <1>7, <3>1, <3>2
  <2>3. /\ Len(signatures') = Len(signatures) + 1 /\ x.index = i
        /\ Indices(signatures') = Indices(signatures) \cup {i}
        /\ WithAnswer(signatures') = IF x.error THEN WithAnswer(signatures)
                                     ELSE WithAnswer(signatures) \cup {i}
    <3>1. signatures' = Append(signatures, x) /\ signatures \in Seq(Signature) /\ x.index = i
      BY <2>2 DEF Signs, ShapeInv
    <3>2. Len(signatures') = Len(signatures) + 1
      BY <3>1, AppendShape
    <3>3. QED
      BY <3>1, <3>2, IndicesGrow
  <2>4. Range(replayed') = WithAnswer(signatures')
    <3>1. Range(replayed) = WithAnswer(signatures)
      BY <2>1 DEF CountInv, PastInv
    <3>2. CASE DoFails
      BY <2>2, <2>3, <3>1, <3>2 DEF DoFails
    <3>3. CASE Answered
      <4>1. replayed' = Append(replayed, i) /\ replayed \in Seq(Nat) /\ i \in Nat
        BY <3>3 DEF Answered, ShapeInv
      <4>2. Range(replayed') = Range(replayed) \cup {i}
        BY <4>1, RangeGrows
      <4>3. QED
        BY <2>2, <2>3, <3>1, <3>3, <4>2
    <3>4. QED
      BY <1>7, <3>2, <3>3
  <2>5. Indices(signatures') = Due(i)
    <3>1. Due(i) = Due(i - 1) \cup {i}
      BY <1>b, <2>1, DueGrows
    <3>2. QED
      BY <2>1, <2>3, <3>1 DEF CountInv, PastInv
  <2>6. skipped' = skipped /\ skipped \in Nat /\ Len(signatures) + skipped = i - 1
    BY <1>7, <2>1 DEF DoFails, Answered, CountInv, PastInv
  <2>7. CASE pc' = "loop" /\ i' = i + 1
    <3>1. i' - 1 = i
      BY <1>b, <2>7
    <3>2. Indices(signatures)' = Due(i - 1)'
      BY <1>0, <2>5, <3>1 DEF Indices, Due, Skips
    <3>3. Len(signatures') + skipped' = i' - 1
      BY <1>b, <2>3, <2>6, <2>7
    <3>4. PastInv'
      BY <2>4, <3>2, <3>3 DEF PastInv, WithAnswer
    <3>5. QED
      BY <1>0, <2>6, <2>7, <3>4 DEF CountInv, EveryExitCounts
  <2>8. CASE pc' = "expanded" /\ result' = [NoResult EXCEPT !.completed = i]
    <3>1. result'.completed = i /\ result'.skipped = 0 /\ result'.replayed = << >>
      BY <2>8 DEF NoResult
    <3>2. Indices(signatures)' = Due(result.completed)'
      BY <1>0, <2>5, <3>1 DEF Indices, Due, Skips
    <3>3. EveryExitCounts'
      BY <2>8, <3>1, <3>2 DEF EveryExitCounts
    <3>4. QED
      BY <1>0, <2>6, <2>8, <3>3 DEF CountInv, Looping
  <2>9. QED
    BY <2>1, <2>7, <2>8
<1>8. QED
  BY <1>1, <1>2, <1>3, <1>4, <1>5, <1>6, <1>7 DEF Next, Loop

LEMMA CountInvariant == Spec => [](ShapeInv /\ CountInv)
<1>1. Init => ShapeInv /\ CountInv
  <2> SUFFICES ASSUME Init PROVE ShapeInv /\ CountInv
    OBVIOUS
  <2>1. script \in Scripts /\ Len(script) \in Nat
    BY DriverAssumption DEF Init
  <2>2. ShapeInv
    BY <2>1 DEF Init, ShapeInv, Looping
  <2>3. PastInv
    <3>1. signatures = << >> /\ replayed = << >> /\ i - 1 = 0 /\ skipped = 0 /\ Len(<< >>) = 0
      BY DEF Init
    <3>2. DOMAIN << >> = {} /\ 1..0 = {}
      OBVIOUS
    <3>3. Due(i - 1) = {}
      BY <3>1, <3>2 DEF Due
    <3>4. Indices(<< >>) = {} /\ WithAnswer(<< >>) = {} /\ Range(<< >>) = {}
      BY <3>2 DEF Indices, WithAnswer, Range
    <3>5. /\ Len(signatures) + skipped = i - 1
          /\ Indices(signatures) = Due(i - 1)
          /\ Range(replayed) = WithAnswer(signatures)
      <4>1. Len(signatures) = 0
        BY <3>1
      <4>2. Indices(signatures) = {} /\ WithAnswer(signatures) = {} /\ Range(replayed) = {}
        BY <3>1, <3>4
      <4>3. Len(signatures) + skipped = i - 1
        BY <3>1, <4>1
      <4>4. QED
        BY <3>3, <4>2, <4>3, Zenon
    <3>6. QED
      BY <3>5 DEF PastInv
  <2>4. CountInv
    BY <2>3 DEF Init, CountInv, EveryExitCounts, Looping
  <2>5. QED
    BY <2>2, <2>4
<1>2. ShapeInv /\ CountInv /\ [Next]_vars => (ShapeInv /\ CountInv)'
  <2>1. ASSUME ShapeInv, CountInv, UNCHANGED vars
        PROVE  (ShapeInv /\ CountInv)'
    <3>1. ShapeInv'
      BY <2>1 DEF vars, ShapeInv, Skips, IsReply
    <3>2. PastInv' <=> PastInv
      BY <2>1 DEF vars, PastInv, Indices, WithAnswer, Due, Skips
    <3>3. EveryExitCounts' <=> EveryExitCounts
      BY <2>1 DEF vars, EveryExitCounts, Indices, WithAnswer, Due, Skips
    <3>4. QED
      BY <2>1, <3>1, <3>2, <3>3 DEF vars, CountInv, Writes
  <2>2. QED
    BY <2>1, StepShape, StepCounts
<1>3. QED
  BY <1>1, <1>2, PTL DEF Spec

(* However the loop is left, the result describes what was done: which requests
   have a signature, which were answered, how many were skipped, as far as that
   way out reports it. *)
THEOREM ExitsCount == Spec => []EveryExitCounts
<1>1. CountInv => EveryExitCounts
  BY DEF CountInv
<1>2. QED
  BY <1>1, CountInvariant, PTL

-----------------------------------------------------------------------------
(* What is sent. *)

\* The state maps a value to what the target produces now, unless that is the
\* captured one.
Fresh(v) ==
  IF Live[v] = v THEN v \notin DOMAIN state
  ELSE v \in DOMAIN state /\ state[v] = Live[v]

SignedInv ==
  /\ \A n \in DOMAIN signatures : /\ signatures[n].index <= i
                                  /\ pc \in Looping => signatures[n].index < i
  /\ \A n \in DOMAIN sent : /\ sent[n].index <= i /\ sent[n].index \in DOMAIN script
                            /\ DOMAIN sent[n].became = Carried(script[sent[n].index])

\* Of every value that nothing was taken for: what was produced is fresh.
FreshInv ==
  /\ DOMAIN state \subseteq Values
  /\ pc \in Looping => \A v \in Values : Recognised(v, i) =>
                          /\ Live[v] = v => v \notin DOMAIN state
                          /\ Produced(v, i) => Fresh(v)

SendInv == SignedInv /\ FreshInv /\ LiveValuesSent

\* The answer to request j held the live counterpart of v.
Gave(v, j) ==
  \E n \in DOMAIN signatures :
    /\ signatures[n].index = j
    /\ \E p \in Range(CapturedValues(script[j])) :
         p.value = v /\ Renew(p) \in signatures[n].values

(* The signatures of earlier requests never change, hence neither what was
   produced before a request nor what it was mistaken for. *)
LEMMA EarlierStays ==
  ASSUME ShapeInv, script' = script, Extended, NEW v, NEW j \in Nat, j < i
  PROVE  /\ Mistaken(v, j)' <=> Mistaken(v, j)
         /\ Gave(v, j)' <=> Gave(v, j)
<1>0. Consumers' = Consumers
  BY DEF Consumers
<1>1. CASE signatures' = signatures
  BY <1>0, <1>1 DEF Mistaken, PassesFor, Gave
<1>2. CASE \E x \in Signature : Signs(x)
  <2>1. PICK x \in Signature : Signs(x)
    BY <1>2
  <2>2. x.index # j
    BY <2>1, ScriptShape DEF Signs
  <2>3. /\ \A n \in DOMAIN signatures : n \in DOMAIN signatures' /\ signatures'[n] = signatures[n]
        /\ \A n \in DOMAIN signatures' :
             signatures'[n] = x \/ (n \in DOMAIN signatures /\ signatures'[n] = signatures[n])
    BY <2>1, AppendShape DEF Signs, ShapeInv
  <2>4. \A n : (n \in DOMAIN signatures' /\ signatures'[n].index = j)
                 <=> (n \in DOMAIN signatures /\ signatures[n].index = j)
    BY <2>2, <2>3
  <2>5. Mistaken(v, j)' <=> Mistaken(v, j)
    BY <1>0, <2>3, <2>4 DEF Mistaken, PassesFor
  <2>6. Gave(v, j)' <=> Gave(v, j)
    BY <2>3, <2>4 DEF Gave
  <2>7. QED
    BY <2>5, <2>6
<1>3. QED
  BY <1>1, <1>2 DEF Extended

LEMMA BeforeStays ==
  ASSUME ShapeInv, script' = script, Extended, NEW v, NEW k \in Nat, k <= i
  PROVE  /\ Produced(v, k)' <=> Produced(v, k)
         /\ Recognised(v, k)' <=> Recognised(v, k)
<1>1. \A j \in 1..(k - 1) : j \in Nat /\ j < i
  BY ScriptShape
<1>2. Produced(v, k)' <=> Produced(v, k)
  <2>1. Produced(v, k) <=> \E j \in 1..(k - 1) : Gave(v, j)
    BY DEF Produced, Gave
  <2>2. Produced(v, k)' <=> \E j \in 1..(k - 1) : Gave(v, j)'
    BY DEF Produced, Gave
  <2>3. \A j \in 1..(k - 1) : Gave(v, j)' <=> Gave(v, j)
    BY <1>1, EarlierStays
  <2>4. QED
    BY <2>1, <2>2, <2>3
<1>3. \A j \in 1..(k - 1) : Mistaken(v, j)' <=> Mistaken(v, j)
  BY <1>1, EarlierStays
<1>4. Unambiguous(v)' <=> Unambiguous(v)
  BY DEF Unambiguous
<1>5. QED
  BY <1>2, <1>3, <1>4 DEF Recognised

LEMMA SignedStep ==
  ASSUME ShapeInv, SignedInv, Next
  PROVE  SignedInv'
<1> USE ScriptShape
<1>0. script' = script /\ ShapeInv'
  BY StepShape
<1>a. /\ DOMAIN signatures = 1..Len(signatures) /\ Len(signatures) \in Nat
      /\ DOMAIN sent = 1..Len(sent) /\ Len(sent) \in Nat
      /\ \A n \in DOMAIN signatures : signatures[n].index \in Nat
      /\ \A n \in DOMAIN sent : sent[n].index \in Nat
  <2>1. /\ \A n \in DOMAIN signatures : signatures[n] \in Signature
        /\ \A n \in DOMAIN sent : sent[n] \in Sending
    BY DEF ShapeInv
  <2>2. (\A x \in Signature : x.index \in Nat) /\ \A x \in Sending : x.index \in Nat
    BY DEF Signature, Sending
  <2>3. QED
    BY <2>1, <2>2 DEF ShapeInv
<1>1. CASE Stall \/ ExpireBefore \/ Omitted \/ Finish \/ Expire \/ ReadFails \/ Respond
  BY <1>0, <1>1, <1>a DEF Stall, ExpireBefore, Omitted, Finish, Expire, ReadFails, Respond, Fail,
     ReturnEarly, SignedInv, Looping
<1>2. CASE Skip
  BY <1>0, <1>2, <1>a DEF Skip, SignedInv, Looping
<1>3. CASE Send
  <2>1. i \in DOMAIN script /\ pc \in Looping /\ UNCHANGED <<i, signatures>>
    BY <1>3, WhatIsSent
  <2>2. PICK x \in Sending : /\ x.index = i /\ sent' = Append(sent, x)
                             /\ DOMAIN x.became = Carried(script[i])
    BY <1>3, WhatIsSent
  <2>3. \A n \in DOMAIN sent' : sent'[n] = x \/ (n \in DOMAIN sent /\ sent'[n] = sent[n])
    BY <2>2, AppendShape DEF ShapeInv
  <2>4. \A n \in DOMAIN sent' : /\ sent'[n].index <= i /\ sent'[n].index \in DOMAIN script
                                /\ DOMAIN sent'[n].became = Carried(script[sent'[n].index])
    BY <2>1, <2>2, <2>3 DEF SignedInv
  <2>5. QED
    BY <1>0, <2>1, <2>4 DEF SignedInv
<1>4. CASE DoFails \/ Answered
  <2>1. PICK x \in Signature : signatures' = Append(signatures, x) /\ x.index = i
    BY <1>4, WhatIsSigned DEF Signs
  <2>2. /\ pc \in Looping /\ sent' = sent
        /\ (pc' = "loop" /\ i' = i + 1) \/ (pc' = "expanded" /\ i' = i)
    BY <1>4, WhatIsSigned DEF DoFails, Answered
  <2>3. \A n \in DOMAIN signatures' :
          signatures'[n].index = i \/ (n \in DOMAIN signatures /\ signatures'[n] = signatures[n])
    BY <2>1, AppendShape DEF ShapeInv
  <2>4. \A n \in DOMAIN signatures' : /\ signatures'[n].index <= i'
                                      /\ pc' \in Looping => signatures'[n].index < i'
    BY <1>a, <2>2, <2>3 DEF SignedInv, Looping
  <2>5. i <= i'
    BY <2>2
  <2>6. \A n \in DOMAIN sent : sent[n].index <= i'
    BY <1>a, <2>2, <2>5 DEF SignedInv
  <2>7. QED
    BY <1>0, <2>2, <2>4, <2>6 DEF SignedInv
<1>5. QED
  BY <1>1, <1>2, <1>3, <1>4 DEF Next, Loop

\* A step that leaves the state alone and signs nothing that was answered.
LEMMA FreshKept ==
  ASSUME ShapeInv, SignedInv, FreshInv, script' = script, Extended,
         state' = state, i' = i \/ i' = i + 1, pc' \in Looping => pc \in Looping,
         \A n \in DOMAIN signatures' : signatures'[n].index = i => signatures'[n].values = {} \/ i' = i
  PROVE  FreshInv'
<1> USE ScriptShape
<1>1. ASSUME NEW v \in Values, pc' \in Looping, Recognised(v, i)'
      PROVE  (Live[v] = v => v \notin DOMAIN state') /\ (Produced(v, i)' => Fresh(v)')
  <2>0. PICK k \in Nat : k = i
    OBVIOUS
  <2>1. Recognised(v, i)
    <3>1. Recognised(v, k)'
      <4>1. Unambiguous(v)' /\ \A j \in 1..(i' - 1) : Mistaken(v, j)' = FALSE
        BY <1>1 DEF Recognised
      <4>2. \A j \in 1..(k - 1) : j \in 1..(i' - 1)
        BY <2>0
      <4>3. QED
        BY <4>1, <4>2 DEF Recognised
    <3>2. Recognised(v, k)
      BY <2>0, <3>1, BeforeStays
    <3>3. QED
      BY <2>0, <3>2
  <2>2. Produced(v, i)' => Produced(v, i)
    <3> SUFFICES ASSUME Produced(v, i)' PROVE Produced(v, i)
      OBVIOUS
    <3>1. PICK j \in 1..(i' - 1), n \in DOMAIN signatures' :
            /\ signatures'[n].index = j
            /\ \E p \in Range(CapturedValues(script[j])) :
                 p.value = v /\ Renew(p) \in signatures'[n].values
      BY DEF Produced
    <3>2. j # k \/ i' = i
      BY <2>0, <3>1
    <3>3. j \in 1..(k - 1)
      BY <2>0, <3>1, <3>2
    <3>4. Produced(v, k)'
      BY <3>1, <3>3 DEF Produced
    <3>5. Produced(v, k)
      BY <2>0, <3>4, BeforeStays
    <3>6. QED
      BY <2>0, <3>5
  <2>3. Fresh(v)' <=> Fresh(v)
    BY DEF Fresh
  <2>4. QED
    BY <1>1, <2>1, <2>2, <2>3 DEF FreshInv
<1>2. QED
  BY <1>1 DEF FreshInv

LEMMA FreshAnswered ==
  ASSUME ShapeInv, SignedInv, FreshInv, script' = script, Extended, Answered
  PROVE  FreshInv'
<1> USE ScriptShape
<1>1. /\ i \in DOMAIN script /\ IsReply(received, script[i]) /\ pc \in Looping
      /\ state' = UpdateState(CapturedValues(script[i]), received)
      /\ (pc' = "loop" /\ i' = i + 1) \/ (pc' = "expanded" /\ i' = i)
  BY WhatIsSigned DEF Answered, ShapeInv
<1>2. PICK x \in Signature : Signs(x) /\ x.values = Range(received)
  BY WhatIsSigned
<1>3. /\ \A n \in DOMAIN signatures' :
           signatures'[n] = x \/ (n \in DOMAIN signatures /\ signatures'[n] = signatures[n])
      /\ Len(signatures) + 1 \in DOMAIN signatures' /\ signatures'[Len(signatures) + 1] = x
      /\ x.index = i
  BY <1>2, AppendShape DEF Signs, ShapeInv
<1>4. DOMAIN state' \subseteq Values
  BY <1>1, UpdateDomain DEF ShapeInv, FreshInv
<1>5. ASSUME NEW v \in Values, pc' \in Looping, Recognised(v, i)'
      PROVE  (Live[v] = v => v \notin DOMAIN state') /\ (Produced(v, i)' => Fresh(v)')
  <2> DEFINE produced == \E p \in Range(CapturedValues(script[i])) :
                           p.value = v /\ Renew(p) \in Range(received)
  <2>0. PICK k \in Nat : k = i
    OBVIOUS
  <2>1. i' = k + 1
    BY <1>1, <1>5, <2>0 DEF Looping
  <2>2. Unambiguous(v)' /\ \A j \in 1..k : ~(Mistaken(v, j)')
    <3>1. \A j \in 1..k : j \in 1..(i' - 1)
      BY <2>1
    <3>2. QED
      BY <1>5, <3>1 DEF Recognised
  <2>3. Recognised(v, k)
    <3>1. Recognised(v, k)'
      BY <2>2 DEF Recognised
    <3>2. QED
      BY <2>0, <3>1, BeforeStays
  <2>4. \A new \in Range(received) : ~PassesFor(new, v, script[i])
    <3>1. ~(Mistaken(v, k)')
      BY <2>0, <2>2
    <3>2. Consumers' = Consumers
      BY DEF Consumers
    <3>3. QED
      BY <1>2, <1>3, <2>0, <3>1, <3>2 DEF Mistaken, PassesFor
  <2>5. Renewed(v, state', produced)
    BY <1>1, <2>4, UpdateFresh DEF ShapeInv
  <2>6. (Live[v] = v => v \notin DOMAIN state) /\ (Produced(v, i) => Fresh(v))
    BY <1>1, <2>0, <2>3 DEF FreshInv
  <2>7. Produced(v, i)' => Produced(v, i) \/ produced
    <3> SUFFICES ASSUME Produced(v, i)', ~Produced(v, i) PROVE produced
      OBVIOUS
    <3>1. PICK j \in 1..(i' - 1), n \in DOMAIN signatures' :
            /\ signatures'[n].index = j
            /\ \E p \in Range(CapturedValues(script[j])) :
                 p.value = v /\ Renew(p) \in signatures'[n].values
      BY DEF Produced
    <3>2. CASE j = k
      <4>1. signatures'[n] = x
        <5>1. n \in DOMAIN signatures => signatures[n].index < i
          BY <1>1 DEF SignedInv
        <5>2. n \in DOMAIN signatures /\ signatures'[n] = signatures[n] => FALSE
          BY <2>0, <3>1, <3>2, <5>1
        <5>3. QED
          BY <1>3, <5>2
      <4>2. QED
        BY <1>2, <2>0, <3>1, <3>2, <4>1
    <3>3. CASE j # k
      <4>1. j \in 1..(k - 1)
        BY <2>1, <3>1, <3>3
      <4>2. Produced(v, k)'
        BY <3>1, <4>1 DEF Produced
      <4>3. Produced(v, k)
        BY <2>0, <4>2, BeforeStays
      <4>4. QED
        BY <2>0, <4>3
    <3>4. QED
      BY <3>2, <3>3
  <2> HIDE DEF produced
  <2>8. Live[v] = v => v \notin DOMAIN state'
    BY <2>5, <2>6 DEF Renewed
  <2>9. Fresh(v) \/ produced => Fresh(v)'
    BY <2>5, <2>8 DEF Renewed, Fresh
  <2>10. QED
    BY <2>6, <2>7, <2>8, <2>9
<1>6. QED
  BY <1>4, <1>5 DEF FreshInv

LEMMA FreshStep ==
  ASSUME ShapeInv, SignedInv, FreshInv, Next
  PROVE  FreshInv'
<1> USE ScriptShape
<1>0. script' = script /\ Extended
  BY StepShape
<1>1. CASE Stall \/ ExpireBefore \/ Omitted \/ Finish \/ Expire \/ ReadFails \/ Respond \/ Send
  <2>1. state' = state /\ i' = i /\ (pc' \in Looping => pc \in Looping)
    BY <1>1 DEF Stall, ExpireBefore, Omitted, Finish, Expire, ReadFails, Respond, Send, Fail,
       ReturnEarly, Looping
  <2>2. QED
    BY <1>0, <2>1, FreshKept
<1>2. CASE Skip
  <2>1. state' = state /\ i' = i + 1 /\ pc \in Looping /\ signatures' = signatures
    BY <1>2 DEF Skip, Looping
  <2>2. \A n \in DOMAIN signatures : signatures[n].index < i
    BY <2>1 DEF SignedInv
  <2>3. \A n \in DOMAIN signatures' : signatures'[n].index # i
    BY <2>1, <2>2
  <2>4. QED
    BY <1>0, <2>1, <2>3, FreshKept
<1>3. CASE DoFails
  <2>1. PICK x \in Signature : Signs(x) /\ x.values = {}
    BY <1>3, WhatIsSigned
  <2>2. state' = state /\ (i' = i \/ i' = i + 1) /\ pc \in Looping
    BY <1>3, WhatIsSigned DEF DoFails
  <2>3. \A n \in DOMAIN signatures' :
          signatures'[n] = x \/ (n \in DOMAIN signatures /\ signatures'[n] = signatures[n])
    BY <2>1, AppendShape DEF Signs, ShapeInv
  <2>4. \A n \in DOMAIN signatures : signatures[n].index < i
    BY <2>2 DEF SignedInv
  <2>5. \A n \in DOMAIN signatures' : signatures'[n].index = i => signatures'[n].values = {}
    BY <2>1, <2>3, <2>4
  <2>6. QED
    BY <1>0, <2>2, <2>5, FreshKept
<1>4. CASE Answered
  BY <1>0, <1>4, FreshAnswered
<1>5. QED
  BY <1>1, <1>2, <1>3, <1>4 DEF Next, Loop

LEMMA LiveValuesStep ==
  ASSUME ShapeInv, SignedInv, FreshInv, LiveValuesSent, Next
  PROVE  LiveValuesSent'
<1> USE ScriptShape
<1>0. script' = script /\ Extended
  BY StepShape
<1>1. ASSUME NEW n \in DOMAIN sent, NEW v \in DOMAIN sent[n].became, NEW k \in Nat, k = sent[n].index,
             Recognised(v, k)', Produced(v, k)'
      PROVE  sent[n].became[v] = Live[v]
  <2>1. k <= i
    BY <1>1 DEF SignedInv
  <2>2. Recognised(v, k) /\ Produced(v, k)
    BY <1>0, <1>1, <2>1, BeforeStays
  <2>3. QED
    BY <1>1, <2>2 DEF LiveValuesSent
<1>2. ASSUME NEW n \in DOMAIN sent
      PROVE  sent[n].index \in Nat
  <2>1. sent \in Seq(Sending)
    BY DEF ShapeInv
  <2>2. sent[n] \in Sending
    BY <2>1
  <2>3. \A x \in Sending : x.index \in Nat
    BY DEF Sending
  <2>4. QED
    BY <2>2, <2>3
<1>3. CASE sent' = sent
  <2>1. ASSUME NEW n \in DOMAIN sent', NEW v \in DOMAIN sent'[n].became,
               Recognised(v, sent[n].index)', Produced(v, sent[n].index)'
        PROVE  sent'[n].became[v] = Live[v]
    <3>1. PICK k \in Nat : k = sent[n].index /\ k = sent'[n].index
      BY <1>2, <1>3
    <3>2. Recognised(v, k)' /\ Produced(v, k)'
      BY <2>1, <3>1 DEF Recognised, Produced
    <3>3. QED
      BY <1>1, <1>3, <3>1, <3>2
  <2>2. QED
    BY <2>1 DEF LiveValuesSent
<1>4. CASE Send
  <2>1. i \in DOMAIN script /\ pc \in Looping /\ UNCHANGED <<i, state, signatures>>
    BY <1>4, WhatIsSent
  <2>2. PICK x \in Sending : /\ x.index = i /\ sent' = Append(sent, x)
                             /\ DOMAIN x.became = Carried(script[i])
                             /\ \A v \in DOMAIN x.became : x.became[v] \in Substitutions(v)
    BY <1>4, WhatIsSent
  <2>3. \A n \in DOMAIN sent' : sent'[n] = x \/ (n \in DOMAIN sent /\ sent'[n] = sent[n])
    BY <2>2, AppendShape DEF ShapeInv
  <2>4. ASSUME NEW v \in DOMAIN x.became, Recognised(v, i), Produced(v, i)
        PROVE  x.became[v] = Live[v]
    <3>1. v \in Values
      BY <2>1, <2>2, DriverAssumption DEF ShapeInv
    <3>2. DOMAIN state \subseteq Values /\ Fresh(v) /\ Unambiguous(v)
      BY <2>1, <2>4, <3>1 DEF FreshInv, Recognised
    <3>3. /\ v \in DOMAIN state => state[v] = Live[v]
          /\ v \notin DOMAIN state => Live[v] = v
      BY <3>2 DEF Fresh
    <3>4. x.became[v] \in Substitutions(v)
      BY <2>2
    <3>5. QED
      BY <3>1, <3>2, <3>3, <3>4, SubstituteFresh
  <2>5. ASSUME NEW n \in DOMAIN sent', NEW v \in DOMAIN sent'[n].became,
               Recognised(v, sent[n].index)', Produced(v, sent[n].index)'
        PROVE  sent'[n].became[v] = Live[v]
    <3>1. sent'[n].index \in Nat
      BY <1>2, <2>1, <2>2, <2>3
    <3>2. PICK k \in Nat : k = sent'[n].index
      BY <3>1
    <3>3. Recognised(v, k)' /\ Produced(v, k)'
      BY <2>5, <3>2 DEF Recognised, Produced
    <3>4. CASE n \in DOMAIN sent /\ sent'[n] = sent[n]
      BY <1>1, <3>2, <3>3, <3>4
    <3>5. CASE sent'[n] = x
      <4>1. k = i /\ v \in DOMAIN x.became
        BY <2>2, <3>2, <3>5
      <4>2. Recognised(v, k) /\ Produced(v, k)
        BY <1>0, <3>3, <4>1, BeforeStays
      <4>3. QED
        BY <2>4, <3>5, <4>1, <4>2
    <3>6. QED
      BY <2>3, <3>4, <3>5
  <2>6. QED
    BY <2>5 DEF LiveValuesSent
<1>5. QED
  BY <1>3, <1>4 DEF Next, Loop, Stall, ExpireBefore, Omitted, Skip, Finish, DoFails, Respond,
     ReadFails, Answered, Expire

LEMMA SendInvariant == Spec => [](ShapeInv /\ CountInv /\ SendInv)
<1>1. Init => SendInv
  <2> SUFFICES ASSUME Init PROVE SendInv
    OBVIOUS
  <2>1. signatures = << >> /\ sent = << >> /\ script \in Scripts /\ state \in Seeds /\ i = 1
    BY DEF Init, ApplyAdapters
  <2>2. SignedInv /\ LiveValuesSent
    BY <2>1 DEF SignedInv, LiveValuesSent
  <2>3. DOMAIN state \subseteq Values
    BY <2>1, DriverAssumption
  <2>4. \A v : Unambiguous(v) /\ Live[v] = v => v \notin DOMAIN state
    BY <2>1 DEF Unambiguous
  <2>5. \A v : ~Produced(v, i)
    BY <2>1 DEF Produced
  <2>6. QED
    BY <2>2, <2>3, <2>4, <2>5 DEF SendInv, FreshInv, Recognised
<1>2. ShapeInv /\ SendInv /\ [Next]_vars => SendInv'
  <2>1. ASSUME SendInv, UNCHANGED vars
        PROVE  SendInv'
    BY <2>1 DEF vars, SendInv, SignedInv, FreshInv, LiveValuesSent, Recognised, Mistaken, PassesFor,
       Consumers, Unambiguous, Produced, Fresh
  <2>2. QED
    BY <2>1, SignedStep, FreshStep, LiveValuesStep DEF SendInv
<1>3. QED
  BY <1>1, <1>2, CountInvariant, PTL DEF Spec

(* A value that nothing passes for is sent live by every request that follows
   its production, whatever the order in which substitute takes the map, however
   often tokens were rotated in between and whatever else the target answers. *)
THEOREM LiveValuesAreSent == Spec => []LiveValuesSent
<1>1. SendInv => LiveValuesSent
  BY DEF SendInv
<1>2. QED
  BY <1>1, SendInvariant, PTL

-----------------------------------------------------------------------------
(* What verify and inspect predict. *)

\* The readiness score is 100 only when there is nothing to deduct.
LEMMA ReadyMeansNoWrites ==
  ASSUME ShapeInv, Readiness = 100
  PROVE  Writes = {}
<1> USE ScriptShape
<1>1. IsFiniteSet(DOMAIN script)
  BY FS_Interval
<1>2. IsFiniteSet(Writes) /\ IsFiniteSet(Expired)
  BY <1>1, FS_Subset DEF Writes, Expired
<1>3. IsFiniteSet(MissingDeps)
  <2> DEFINE each == {script[k].uses : k \in DOMAIN script}
  <2>1. \A s \in each : IsFiniteSet(s)
    BY DriverAssumption DEF ShapeInv
  <2>2. IsFiniteSet(each)
    <3> DEFINE f == [k \in DOMAIN script |-> script[k].uses]
    <3>1. f \in Surjection(DOMAIN script, each)
      BY DEF Surjection
    <3>2. QED
      BY <1>1, <3>1, FS_Surjection
  <2>3. IsFiniteSet(Consumers)
    <3> HIDE DEF each
    <3>1. IsFiniteSet(UNION each)
      BY <2>1, <2>2, FS_UNION
    <3>2. QED
      BY <3>1 DEF Consumers, each
  <2>4. IsFiniteSet((DOMAIN script) \X Consumers)
    BY <1>1, <2>3, FS_Product
  <2>5. QED
    BY <2>4, FS_Subset DEF MissingDeps
<1>4. /\ Cardinality(Writes) \in Nat /\ Cardinality(Expired) \in Nat
      /\ Cardinality(MissingDeps) \in Nat
  BY <1>2, <1>3, FS_CardinalityType
<1>5. Cardinality(Writes) = 0
  BY <1>4, SMTT(30) DEF Readiness
<1>6. QED
  BY <1>2, <1>5, FS_EmptySet

\* Where no value is missing, whatever a request uses was produced before it.
LEMMA NothingMissing ==
  ASSUME MissingDeps = {}, NEW k \in DOMAIN script, NEW use \in script[k].uses
  PROVE  use \in ProducedBefore(k)
<1>1. use \in Consumers
  BY DEF Consumers
<1>2. <<k, use>> \in (DOMAIN script) \X Consumers /\ <<k, use>>[1] = k /\ <<k, use>>[2] = use
  BY <1>1
<1>3. <<k, use>> \notin MissingDeps
  OBVIOUS
<1>4. QED
  BY <1>2, <1>3 DEF MissingDeps

LEMMA PredictionHolds ==
  ASSUME ShapeInv, CountInv, SendInv
  PROVE  VerifyPredicts
<1>1. Readiness = 100 => skipped = 0
  BY ReadyMeansNoWrites DEF CountInv
<1>2. ASSUME MissingDeps = {}
      PROVE  DependencyChains = Cardinality({k \in DOMAIN script : script[k].uses # {}})
  <2>1. ASSUME NEW k \in DOMAIN script
        PROVE  (\E use \in script[k].uses, p \in ProducedBefore(k) : p.value = use.value)
                 <=> script[k].uses # {}
    BY <1>2, NothingMissing
  <2>2. {k \in DOMAIN script :
           \E use \in script[k].uses, p \in ProducedBefore(k) : p.value = use.value}
          = {k \in DOMAIN script : script[k].uses # {}}
    BY <2>1
  <2>3. QED
    BY <2>2 DEF DependencyChains
<1>3. ASSUME MissingDeps = {}, NEW n \in DOMAIN sent,
             \A j \in 1..(sent[n].index - 1) : AnsweredAsCaptured(j),
             NEW use \in script[sent[n].index].uses, Recognised(use.value, sent[n].index)
      PROVE  sent[n].became[use.value] = Live[use.value]
  <2>1. PICK k \in DOMAIN script : k = sent[n].index /\ DOMAIN sent[n].became = Carried(script[k])
    BY DEF SendInv, SignedInv
  <2>2. use \in ProducedBefore(k)
    BY <1>3, <2>1, NothingMissing
  <2>3. PICK j \in 1..(k - 1) : \E p \in Range(CapturedValues(script[j])) :
                                   use = [kind |-> p.kind, value |-> p.value]
    BY <2>2 DEF ProducedBefore
  <2>4. PICK p \in Range(CapturedValues(script[j])) : p.value = use.value
    BY <2>3
  <2>5. /\ Answers(j, Anew(script[j].produces))
        /\ Range(CapturedValues(script[j])) \subseteq Range(script[j].produces)
    BY <1>3, <2>1 DEF AnsweredAsCaptured
  <2>6. PICK m \in DOMAIN signatures :
          signatures[m].index = j /\ signatures[m].values = Anew(script[j].produces)
    BY <2>5 DEF Answers
  <2>7. Renew(p) \in Anew(script[j].produces)
    BY <2>4, <2>5 DEF Anew, Range
  <2>8. Produced(use.value, sent[n].index)
    BY <2>1, <2>4, <2>6, <2>7 DEF Produced
  <2>9. use.value \in DOMAIN sent[n].became
    BY <1>3, <2>1 DEF Carried
  <2>10. QED
    BY <1>3, <2>8, <2>9 DEF SendInv, LiveValuesSent
<1>4. QED
  BY <1>1, <1>2, <1>3 DEF VerifyPredicts

(* What verify and inspect say of a capture comes true in its replay: a score
   of 100 loses no request to safe mode, and without missing values every
   request that uses one is part of a chain and is sent with the live one. *)
THEOREM PredictionsHold == Spec => []VerifyPredicts
<1>1. QED
  BY SendInvariant, PredictionHolds, PTL

=============================================================================
