------------------------ MODULE IncidentBundleProofs ------------------------
(***************************************************************************)
(* Proofs about pkg/bundlev2, pkg/workflow and pkg/replay.                 *)
(*                                                                         *)
(* Bundles, for any incidents and any number of runs of seal and open that *)
(* fail anywhere, into any directories.  The files of the archive that are *)
(* not to be extracted any more are complete, and there is no other file:  *)
(* a bundle is whole, and what was opened is the bundle.                   *)
(*                                                                         *)
(* The checks, for any logs, workflows and answers.  What is checked is a  *)
(* directory of logs that nothing changes afterwards.  Its observations    *)
(* can be sorted by Before, which is total on them.  The loop of           *)
(* VerifyIncident is followed step by step: without a finding, each step   *)
(* took an observation behind the last one; and without correlations the   *)
(* loop is never behind any other choice of observations.                  *)
(***************************************************************************)
EXTENDS IncidentBundle, TLAPS, FiniteSetTheorems, FunctionTheorems, WellFoundedInduction

-----------------------------------------------------------------------------
(* The order of the files.                                                 *)

LEMMA Ranks ==
  Rank("inbound.log") = 1 /\ Rank("messages.log") = 2 /\ Rank("outbound.log") = 3
<1>1. Rank("inbound.log") = 1
  BY DEF Rank
<1>2. Rank("messages.log") = 2
  BY DEF Rank
<1>3. Rank("outbound.log") = 3
  BY DEF Rank
<1>4. QED
  BY <1>1, <1>2, <1>3

LEMMA RankIsOrder ==
  /\ \A n \in Names : Rank(n) \in {1, 2, 3}
  /\ \A n, m \in Names : Rank(n) = Rank(m) => n = m
BY Ranks DEF Names

LEMMA FirstIsLeast ==
  ASSUME NEW S \in SUBSET Names, S # {}
  PROVE  First(S) \in S /\ \A n \in S : Rank(First(S)) <= Rank(n)
<1>1. \E n \in S : \A m \in S : Rank(n) <= Rank(m)
  <2>1. CASE "inbound.log" \in S
    BY <2>1, Ranks, RankIsOrder
  <2>2. CASE "inbound.log" \notin S /\ "messages.log" \in S
    BY <2>2, Ranks DEF Names
  <2>3. CASE S = {"outbound.log"}
    BY <2>3, Ranks
  <2>4. QED
    BY <2>1, <2>2, <2>3 DEF Names
<1>2. QED
  BY <1>1 DEF First

Newest(S) == CHOOSE name \in S : \A other \in S : Rank(other) <= Rank(name)

-----------------------------------------------------------------------------
(* Sealing.                                                                *)

IsDir(dir) == dir = [name \in Names |-> dir[name]]

\* A file as the incident's was at some moment of the sealing.
Sealed(file, name) ==
  \/ file = source[name]
  \/ name = "outbound.log" /\ appended /\ source[name].events = Append(file.events, Later)

SealInv ==
  /\ DOMAIN source = Names /\ "events" \in DOMAIN source["outbound.log"]
  /\ todo \subseteq Names
  /\ sealer # "idle" =>
       IsDir(archive) /\ \A name \in Names \ todo : Sealed(archive[name], name)
  /\ sealer = "copying" => todo # {}
  /\ sealer \in {"written", "renaming"} => todo = {}
  /\ sealer = "renaming" => bundle = Absent
  /\ bundle # Absent => IsDir(bundle) /\ \A name \in Names : Sealed(bundle[name], name)

LEMMA SealInit == Init => SealInv
BY BundleAssumption DEF Init, SealInv, IsLog, Names

\* What is sealed stays so when the recorder appends.
LEMMA AppendKeepsSealed ==
  ASSUME SealInv, Append1, NEW file, NEW name \in Names, Sealed(file, name)
  PROVE  Sealed(file, name)'
<1>1. ~appended /\ appended' /\ file = source[name]
  BY DEF Append1, Sealed
<1>2. source' = [source EXCEPT !["outbound.log"] =
                   [source["outbound.log"] EXCEPT !.events = Append(@, Later)]]
  BY DEF Append1
<1>3. CASE name = "outbound.log"
  <2>1. source'[name] = [source[name] EXCEPT !.events = Append(@, Later)]
    BY <1>2, <1>3 DEF SealInv
  <2>2. source'[name].events = Append(file.events, Later)
    BY <1>1, <1>3, <2>1 DEF SealInv
  <2>3. QED
    BY <1>1, <1>3, <2>2 DEF Sealed
<1>4. CASE name # "outbound.log"
  <2>1. source'[name] = source[name]
    BY <1>2, <1>4 DEF SealInv
  <2>2. QED
    BY <1>1, <2>1 DEF Sealed
<1>5. QED
  BY <1>3, <1>4

LEMMA SealStep == SealInv /\ [Next]_vars => SealInv'
<1> SUFFICES ASSUME SealInv, [Next]_vars
             PROVE  SealInv'
  OBVIOUS
<1> USE DEF SealInv, IsDir, sealing, opening
<1>1. CASE Append1
  <2>1. DOMAIN source' = Names /\ "events" \in DOMAIN source'["outbound.log"]
    BY <1>1 DEF Append1, Names
  <2>2. UNCHANGED <<sealer, todo, archive, bundle>>
    BY <1>1 DEF Append1
  <2>3. \A name \in Names \ todo : sealer # "idle" => Sealed(archive[name], name)'
    BY <1>1, <2>2, AppendKeepsSealed
  <2>4. \A name \in Names : bundle # Absent => Sealed(bundle[name], name)'
    BY <1>1, <2>2, AppendKeepsSealed
  <2>5. QED
    BY <2>1, <2>2, <2>3, <2>4
<1>2. CASE StartSeal
  BY <1>2 DEF StartSeal, Present, Empty, Sealed
<1>3. CASE Header
  BY <1>3 DEF Header, Sealed
<1>4. CASE Copy
  <2>1. First(todo) \in todo
    BY <1>4, FirstIsLeast DEF Copy
  <2>2. QED
    BY <1>4, <2>1 DEF Copy, Sealed
<1>5. CASE CopyTooLong
  BY <1>5 DEF CopyTooLong, StopSeal, Sealed
<1>6. CASE WriteTemp
  BY <1>6 DEF WriteTemp, Sealed
<1>7. CASE Refuse
  BY <1>7 DEF Refuse, StopSeal, Sealed
<1>8. CASE Stat
  BY <1>8 DEF Stat, OutputIsFree, Sealed
<1>9. CASE Rename
  BY <1>9 DEF Rename, StopSeal, Sealed
<1>10. CASE SealFails
  BY <1>10 DEF SealFails, StopSeal, Sealed
<1>11. CASE Open \/ CheckWorkflow \/ CheckStrictly \/ UNCHANGED vars
  <2>1. UNCHANGED <<source, appended>> /\ UNCHANGED sealing
    BY <1>11 DEF Open, ReadBundle, RefuseDestination, Create, Write, Opened, OpenFails,
                 CheckWorkflow, CheckStrictly, vars
  <2>2. QED
    BY <2>1 DEF Sealed
<1>12. QED
  BY <1>1, <1>2, <1>3, <1>4, <1>5, <1>6, <1>7, <1>8, <1>9, <1>10, <1>11 DEF Next, Seal

-----------------------------------------------------------------------------
(* Opening.                                                                *)

\* The files of the archive that are not to be extracted any more are complete.
Complete == \A name \in Present(contents) \ rest : dest[name] = contents[name]

OpenInv ==
  /\ IsDir(dest)
  /\ opener # "idle" => bundle # Absent /\ contents = bundle /\ rest \in SUBSET Present(contents)
  /\ opener = "decrypted" => rest = Present(contents)
  /\ opener = "writing" =>
       rest # {} /\ Complete /\ Present(dest) = (Present(contents) \ rest) \cup {First(rest)}
  /\ opener \in {"extracting", "opened"} => Complete /\ Present(dest) = Present(contents) \ rest
  /\ opener = "opened" => rest = {}

LEMMA OpenInit == Init => OpenInv
BY DEF Init, OpenInv, IsDir, Empty

\* Only the bundle's own files are looked at.
LEMMA PresentInDir ==
  ASSUME NEW d, IsDir(d)
  PROVE  DOMAIN d = Names /\ Present(d) \in SUBSET Names
BY DEF IsDir, Present

\* A directory after one of its files was written.
LEMMA PresentAfter ==
  ASSUME NEW d, IsDir(d), NEW e, IsDir(e), NEW name \in Names, e[name] # Absent,
         \A n \in Names : n # name => e[n] = d[n]
  PROVE  Present(e) = Present(d) \cup {name}
<1>1. DOMAIN d = Names /\ DOMAIN e = Names
  BY DEF IsDir
<1>2. QED
  BY <1>1 DEF Present

LEMMA CreateStep ==
  ASSUME OpenInv, SealInv, Create
  PROVE  OpenInv'
<1> DEFINE name == First(rest)
           file == [events |-> << >>, torn |-> FALSE]
<1>1. /\ UNCHANGED <<contents, rest, bundle>> /\ opener' = "writing" /\ rest # {}
      /\ dest' = [dest EXCEPT ![name] = file] /\ dest[name] = Absent
  BY DEF Create, sealing
<1>2. /\ contents = bundle /\ bundle # Absent /\ IsDir(contents) /\ IsDir(dest)
      /\ rest \in SUBSET Present(contents)
  BY DEF OpenInv, SealInv, Create
<1>3. Present(contents) \in SUBSET Names
  BY <1>2, PresentInDir
<1>4. name \in rest /\ name \in Names
  BY <1>1, <1>2, <1>3, FirstIsLeast
<1>5. Complete /\ Present(dest) = Present(contents) \ rest
  BY DEF OpenInv, Create, DestinationIsEmpty, Complete
<1>6. file # Absent
  BY BundleAssumption
<1>7. /\ IsDir(dest') /\ Present(dest') = Present(dest) \cup {name}
      /\ \A n \in Names : n # name => dest'[n] = dest[n]
  <2> HIDE DEF name, file
  <2>1. PICK e : e = dest'
    OBVIOUS
  <2>2. IsDir(e) /\ e[name] = file /\ \A n \in Names : n # name => e[n] = dest[n]
    BY <1>1, <1>2, <1>4, <2>1 DEF IsDir
  <2>3. Present(e) = Present(dest) \cup {name}
    BY <1>2, <1>4, <1>6, <2>2, PresentAfter
  <2>4. QED
    BY <2>1, <2>2, <2>3
<1>8. \A n \in Present(contents) \ rest : dest'[n] = contents[n]
  BY <1>3, <1>4, <1>5, <1>7 DEF Complete
<1>9. Complete'
  BY <1>1, <1>8 DEF Complete
<1>10. Present(dest)' = (Present(contents)' \ rest') \cup {First(rest)'}
  <2>1. Present(dest)' = Present(dest') /\ Present(contents)' = Present(contents) /\ First(rest)' = name
    BY <1>1
  <2>2. QED
    BY <1>1, <1>5, <1>7, <2>1
<1>11. QED
  BY <1>1, <1>2, <1>7, <1>9, <1>10 DEF OpenInv

LEMMA WriteStep ==
  ASSUME OpenInv, SealInv, Write
  PROVE  OpenInv'
<1> DEFINE name == First(rest)
<1>1. /\ UNCHANGED <<contents, bundle>> /\ opener = "writing" /\ opener' = "extracting"
      /\ dest' = [dest EXCEPT ![name] = contents[name]] /\ rest' = rest \ {name}
  BY DEF Write, sealing
<1>2. /\ contents = bundle /\ bundle # Absent /\ IsDir(contents) /\ IsDir(dest)
      /\ rest \in SUBSET Present(contents)
      /\ rest # {} /\ Complete /\ Present(dest) = (Present(contents) \ rest) \cup {name}
  BY <1>1 DEF OpenInv, SealInv
<1>3. Present(contents) \in SUBSET Names
  BY <1>2, PresentInDir
<1>4. name \in rest /\ name \in Present(contents) /\ name \in Names
  BY <1>2, <1>3, FirstIsLeast
<1> HIDE DEF name
<1>5. contents[name] # Absent
  BY <1>4 DEF Present
<1>6. /\ IsDir(dest') /\ Present(dest') = Present(dest) \cup {name}
      /\ dest'[name] = contents[name] /\ \A n \in Names : n # name => dest'[n] = dest[n]
  <2>1. PICK e : e = dest'
    OBVIOUS
  <2>2. IsDir(e) /\ e[name] = contents[name] /\ \A n \in Names : n # name => e[n] = dest[n]
    BY <1>1, <1>2, <1>4, <2>1 DEF IsDir
  <2>3. Present(e) = Present(dest) \cup {name}
    BY <1>2, <1>4, <1>5, <2>2, PresentAfter
  <2>4. QED
    BY <2>1, <2>2, <2>3
<1>7. \A n \in Present(contents) \ rest' : dest'[n] = contents[n]
  BY <1>1, <1>2, <1>3, <1>6 DEF Complete
<1>8. Complete'
  BY <1>1, <1>7 DEF Complete
<1>9. Present(dest') = Present(contents) \ rest'
  BY <1>1, <1>2, <1>4, <1>6
<1>10. Present(dest)' = Present(contents)' \ rest' /\ rest' \in SUBSET Present(contents)'
  BY <1>1, <1>2, <1>9
<1>11. QED
  BY <1>1, <1>2, <1>6, <1>8, <1>10 DEF OpenInv

\* What fails leaves something behind, but no directory that is not one.
LEMMA FailStep ==
  ASSUME OpenInv, SealInv, OpenFails
  PROVE  OpenInv'
<1>1. opener' = "idle"
  BY DEF OpenFails
<1>2. IsDir(dest')
  <2>1. CASE opener = "writing"
    <3>1. PICK file : dest' = [dest EXCEPT ![First(rest)] = file]
      BY <2>1 DEF OpenFails
    <3>2. QED
      BY <3>1 DEF OpenInv, IsDir
  <2>2. CASE opener # "writing"
    BY <2>2 DEF OpenFails, OpenInv, IsDir
  <2>3. QED
    BY <2>1, <2>2
<1>3. QED
  BY <1>1, <1>2 DEF OpenInv

LEMMA OpenStep == OpenInv /\ SealInv /\ [Next]_vars => OpenInv'
<1> SUFFICES ASSUME OpenInv, SealInv, [Next]_vars
             PROVE  OpenInv'
  OBVIOUS
<1>1. CASE Create
  BY <1>1, CreateStep
<1>2. CASE Write
  BY <1>2, WriteStep
<1>3. CASE OpenFails
  BY <1>3, FailStep
<1>4. CASE ReadBundle
  <2>1. dest' \in {dest} \cup Destinations
    BY <1>4 DEF ReadBundle
  <2>2. IsDir(dest')
    BY <2>1, BundleAssumption DEF OpenInv, IsDir
  <2>3. QED
    BY <1>4, <2>2 DEF ReadBundle, OpenInv, sealing
<1>5. CASE RefuseDestination
  BY <1>5 DEF RefuseDestination, OpenInv, IsDir, sealing
<1>6. CASE Opened
  BY <1>6 DEF Opened, OpenInv, IsDir, Present, Complete, sealing
<1>7. CASE Rename
  <2>1. UNCHANGED opening /\ opener = "idle"
    BY <1>7 DEF Rename, OpenInv, SealInv
  <2>2. QED
    BY <2>1 DEF opening, OpenInv, IsDir
<1>8. CASE Append1 \/ CheckWorkflow \/ CheckStrictly \/ UNCHANGED vars
           \/ (Seal /\ ~Rename)
  <2>1. UNCHANGED bundle /\ UNCHANGED opening
    BY <1>8 DEF Append1, CheckWorkflow, CheckStrictly, vars, Seal, StartSeal, Header, Copy,
                CopyTooLong, WriteTemp, Refuse, Stat, SealFails, sealing, opening
  <2>2. QED
    BY <2>1 DEF opening, OpenInv, IsDir, Present, First, Complete
<1>9. QED
  BY <1>1, <1>2, <1>3, <1>4, <1>5, <1>6, <1>7, <1>8 DEF Next, Open

\* A bundle that exists is whole, and where open reports success the directory
\* is the bundle, whatever failed before (SealDirectory, extractArchive).
THEOREM OpensWhatWasSealed == Spec => []OpenedIsSealed
<1>1. OpenInv /\ SealInv => OpenedIsSealed
  <2> SUFFICES ASSUME OpenInv, SealInv
               PROVE  OpenedIsSealed
    OBVIOUS
  <2>1. ASSUME bundle # Absent, NEW name \in Names
        PROVE  \/ bundle[name] = source[name]
               \/ name = "outbound.log" /\ appended
                  /\ source[name].events = Append(bundle[name].events, Later)
    BY <2>1 DEF SealInv, Sealed
  <2>2. ASSUME opener = "opened"
        PROVE  dest = bundle
    <3>1. /\ bundle = contents /\ IsDir(dest) /\ IsDir(contents)
          /\ Present(dest) = Present(contents) /\ \A name \in Present(contents) : dest[name] = contents[name]
      BY <2>2 DEF Complete, OpenInv, SealInv
    <3>2. \A name \in Names : dest[name] = contents[name]
      BY <3>1, PresentInDir DEF Present
    <3>3. QED
      BY <3>1, <3>2 DEF IsDir
  <2>3. QED
    BY <2>1, <2>2 DEF OpenedIsSealed
<1>2. QED
  BY <1>1, SealInit, SealStep, OpenInit, OpenStep, PTL DEF Spec

-----------------------------------------------------------------------------
(* Recursion and sorting. *)

LEMMA SetInduction ==
  ASSUME NEW P \in SUBSET Nat, 0 \in P, \A n \in P : n + 1 \in P
  PROVE  \A n \in Nat : n \in P
<1> SUFFICES ASSUME Nat \ P # {}
             PROVE  FALSE
  OBVIOUS
<1>1. PICK x \in Nat \ P : \A y \in Nat \ P : ~(<<y, x>> \in OpToRel(<, Nat))
  BY NatLessThanWellFounded, WFMin
<1>2. \A y \in Nat \ P : ~(y < x)
  BY <1>1, Zenon DEF OpToRel
<1>3. x - 1 \in P
  BY <1>2
<1>4. (x - 1) + 1 = x
  OBVIOUS
<1>5. QED
  BY <1>3, <1>4

(* A loop over a sequence has a value after each of its steps. *)
Stepped(f, a, step, n) == f[n] = IF n = 0 THEN a ELSE step[<<f[n - 1], n>>]

LEMMA LoopExists ==
  ASSUME NEW T, NEW a \in T, NEW N \in Nat, NEW step \in [T \X (1..N) -> T]
  PROVE  \E f \in [0..N -> T] : \A n \in 0..N : Stepped(f, a, step, n)
<1> DEFINE Works(f, m) == \A n \in 0..m : Stepped(f, a, step, n)
           P == {m \in Nat : m <= N => \E f \in [0..m -> T] : Works(f, m)}
<1>1. 0 \in P
  <2> DEFINE f == [n \in 0..0 |-> a]
  <2>1. f \in [0..0 -> T] /\ Works(f, 0)
    BY DEF Stepped
  <2>2. QED
    BY <2>1
<1>2. ASSUME NEW m \in P
      PROVE  m + 1 \in P
  <2> HIDE DEF Works
  <2>0. m \in Nat /\ (m <= N => \E f \in [0..m -> T] : Works(f, m))
    OBVIOUS
  <2> SUFFICES ASSUME m + 1 <= N
               PROVE  \E f \in [0..(m + 1) -> T] : Works(f, m + 1)
    BY <2>0
  <2> HIDE DEF P
  <2>1. PICK f \in [0..m -> T] : Works(f, m)
    BY <2>0
  <2> USE DEF Works
  <2> DEFINE next   == step[<<f[m], m + 1>>]
             longer == [n \in 0..(m + 1) |-> IF n = m + 1 THEN next ELSE f[n]]
  <2>2. next \in T
    BY <2>0
  <2>3. longer \in [0..(m + 1) -> T]
    BY <2>0, <2>2
  <2>4. ASSUME NEW n \in 0..(m + 1)
        PROVE  Stepped(longer, a, step, n)
    <3>1. CASE n = m + 1
      <4>1. n # 0 /\ n - 1 = m /\ n - 1 # m + 1 /\ n - 1 \in 0..(m + 1)
        BY <2>0, <3>1
      <4>2. longer[n] = next /\ longer[n - 1] = f[m]
        BY <3>1, <4>1
      <4>3. QED
        BY <3>1, <4>1, <4>2 DEF Stepped
    <3>2. CASE n # m + 1
      <4>1. n \in 0..m /\ (n # 0 => n - 1 \in 0..(m + 1) /\ n - 1 # m + 1)
        BY <2>0, <3>2
      <4>2. longer[n] = f[n] /\ (n # 0 => longer[n - 1] = f[n - 1])
        BY <3>2, <4>1
      <4>3. Stepped(f, a, step, n)
        BY <2>1, <4>1
      <4>4. QED
        BY <4>1, <4>2, <4>3 DEF Stepped
    <3>3. QED
      BY <3>1, <3>2
  <2>5. QED
    BY <2>3, <2>4
<1>3. N \in P
  <2> HIDE DEF P
  <2>1. P \in SUBSET Nat
    BY DEF P
  <2>2. QED
    BY <1>1, <1>2, <2>1, SetInduction
<1>4. N <= N
  OBVIOUS
<1>5. QED
  BY <1>3, <1>4, Zenon

(* A sequence of a finite set that repeats nothing has every member. *)
LEMMA OrderComplete ==
  ASSUME NEW S, IsFiniteSet(S), NEW s \in SetToSeqs(S)
  PROVE  /\ s \in [1..Cardinality(S) -> S] /\ Cardinality(S) \in Nat
         /\ Len(s) = Cardinality(S)
         /\ \A x \in S : \E n \in 1..Cardinality(S) : s[n] = x
<1> DEFINE N == Cardinality(S)
<1>1. N \in Nat
  BY FS_CardinalityType
<1>2. s \in [1..N -> S] /\ \A m, n \in 1..N : s[m] = s[n] => m = n
  BY DEF SetToSeqs
<1>3. Len(s) = N
  BY <1>1, <1>2
<1> DEFINE I == {s[n] : n \in 1..N}
<1>4. IsFiniteSet(1..N) /\ Cardinality(1..N) = N
  BY <1>1, FS_Interval
<1>5. Cardinality(I) = N
  <2>1. s \in Surjection(1..N, I) /\ s \in Injection(1..N, I)
    BY <1>2 DEF Surjection, Injection, IsInjective
  <2>2. QED
    BY <1>4, <2>1, FS_Surjection
<1>6. I = S
  <2>1. I \in SUBSET S
    BY <1>2
  <2>2. QED
    BY <1>5, <2>1, FS_Subset
<1>7. QED
  BY <1>1, <1>2, <1>3, <1>6

(* A finite set on which an order is total can be sorted. *)
LEMMA SortedExists ==
  ASSUME NEW S, IsFiniteSet(S), NEW R,
         \A x, y \in S : x # y => <<x, y>> \in R \/ <<y, x>> \in R,
         \A x, y, z \in S : <<x, y>> \in R /\ <<y, z>> \in R => <<x, z>> \in R
  PROVE  \E s \in SetToSeqs(S) : \A i, j \in DOMAIN s : i < j => <<s[i], s[j]>> \in R
<1> DEFINE Sorts(s, n, T) ==
             /\ s \in [1..n -> T]
             /\ \A i, j \in 1..n : i < j => s[i] # s[j] /\ <<s[i], s[j]>> \in R
             /\ \A x \in T : \E i \in 1..n : s[i] = x
           P == {n \in Nat : \A T \in SUBSET S : Cardinality(T) = n => \E s : Sorts(s, n, T)}
<1>0. \A T \in SUBSET S : IsFiniteSet(T) /\ Cardinality(T) \in Nat
  BY FS_Subset, FS_CardinalityType
<1>1. 0 \in P
  <2> SUFFICES ASSUME NEW T \in SUBSET S, Cardinality(T) = 0
               PROVE  \E s : Sorts(s, 0, T)
    OBVIOUS
  <2>1. T = {}
    BY <1>0, FS_EmptySet
  <2> DEFINE none == [i \in 1..0 |-> i]
  <2>2. Sorts(none, 0, T)
    BY <2>1
  <2> HIDE DEF none, Sorts
  <2>3. QED
    BY <2>2
<1>2. ASSUME NEW n \in P
      PROVE  n + 1 \in P
  <2>a. n \in Nat
    OBVIOUS
  <2> HIDE DEF Sorts
  <2>0. \A T \in SUBSET S : Cardinality(T) = n => \E s : Sorts(s, n, T)
    OBVIOUS
  <2> SUFFICES ASSUME NEW T \in SUBSET S, Cardinality(T) = n + 1
               PROVE  \E s : Sorts(s, n + 1, T)
    BY <2>a
  <2> HIDE DEF P
  <2> USE DEF Sorts
  <2> USE <2>a
  <2> DEFINE Highest(m) == m \in T /\ \A x \in T \ {m} : <<x, m>> \in R
  <2>1. ASSUME NEW m \in T
        PROVE  Cardinality(T \ {m}) = n /\ T \ {m} \in SUBSET S
    <3>1. Cardinality(T \ {m}) = Cardinality(T) - 1
      BY <1>0, FS_RemoveElement
    <3>2. QED
      BY <2>0, <3>1
  <2>2. \A m \in T : \E s : Sorts(s, n, T \ {m})
    <3> HIDE DEF Sorts
    <3>1. QED
      BY <2>0, <2>1
  <2>3. PICK any \in T : TRUE
    BY <1>0, FS_EmptySet
  <2>4. \E m : Highest(m)
    <3>1. PICK s : Sorts(s, n, T \ {any})
      BY <2>2
    <3>2. CASE n = 0
      <4>1. Highest(any)
        BY <3>1, <3>2
      <4>2. QED
        BY <4>1
    <3>3. CASE n # 0
      <4>1. n \in 1..n /\ s[n] \in T \ {any}
        BY <3>1, <3>3
      <4>2. \A x \in T \ {any} : x # s[n] => <<x, s[n]>> \in R
        BY <3>1, <4>1
      <4>3. CASE <<any, s[n]>> \in R
        <5>1. Highest(s[n])
          BY <4>1, <4>2, <4>3
        <5>2. QED
          BY <5>1
      <4>4. CASE <<s[n], any>> \in R
        <5>1. Highest(any)
          BY <4>1, <4>2, <4>4
        <5>2. QED
          BY <5>1
      <4>5. QED
        BY <4>1, <4>3, <4>4
    <3>4. QED
      BY <3>2, <3>3
  <2>5. PICK m : Highest(m)
    BY <2>4
  <2>6. PICK s : Sorts(s, n, T \ {m})
    BY <2>2, <2>5
  <2> DEFINE t == [i \in 1..(n + 1) |-> IF i = n + 1 THEN m ELSE s[i]]
  <2>7. Sorts(t, n + 1, T)
    <3>1. t \in [1..(n + 1) -> T]
      BY <2>5, <2>6
    <3>2. ASSUME NEW i \in 1..(n + 1), NEW j \in 1..(n + 1), i < j
          PROVE  t[i] # t[j] /\ <<t[i], t[j]>> \in R
      <4>1. CASE j = n + 1
        <5>1. i \in 1..n /\ s[i] \in T \ {m}
          BY <2>6, <3>2, <4>1
        <5>2. QED
          BY <2>5, <4>1, <5>1
      <4>2. CASE j # n + 1
        BY <2>6, <3>2, <4>2
      <4>3. QED
        BY <4>1, <4>2
    <3>3. ASSUME NEW x \in T
          PROVE  \E i \in 1..(n + 1) : t[i] = x
      <4>1. CASE x = m
        BY <4>1
      <4>2. CASE x # m
        <5>1. PICK i \in 1..n : s[i] = x
          BY <2>6, <4>2
        <5>2. i \in 1..(n + 1) /\ t[i] = x
          BY <5>1
        <5>3. QED
          BY <5>2
      <4>3. QED
        BY <4>1, <4>2
    <3>4. QED
      BY <3>1, <3>2, <3>3
  <2>8. QED
    BY <2>7
<1>3. Cardinality(S) \in P
  <2>1. P \in SUBSET Nat /\ Cardinality(S) \in Nat
    BY <1>0
  <2> HIDE DEF P
  <2>2. QED
    BY <1>1, <1>2, <2>1, SetInduction
<1>4. PICK s : Sorts(s, Cardinality(S), S)
  BY <1>3
<1>5. s \in SetToSeqs(S)
  <2>1. \A i, j \in 1..Cardinality(S) : i # j => i < j \/ j < i
    BY <1>0
  <2>2. QED
    BY <1>4, <2>1 DEF SetToSeqs
<1>6. DOMAIN s = 1..Cardinality(S)
  BY <1>4
<1>7. QED
  BY <1>4, <1>5, <1>6

-----------------------------------------------------------------------------
(* strict-replay. *)

LEMMA LogPositions ==
  ASSUME NEW file, IsLog(file)
  PROVE  /\ Len(file.events) \in Nat /\ DOMAIN file.events = 1..Len(file.events)
         /\ \A n \in DOMAIN file.events : file.events[n].at \in Nat \ {0} /\ file.events[n].number \in Nat
BY DEF IsLog, IsSequence

LEMMA LeastExists ==
  ASSUME NEW S \in SUBSET Nat, S # {}
  PROVE  Min(S) \in S /\ \A n \in S : Min(S) <= n
<1>1. PICK x \in S : \A y \in S : ~(<<y, x>> \in OpToRel(<, Nat))
  BY NatLessThanWellFounded, WFMin
<1>2. \A y \in S : ~(y < x)
  BY <1>1, Zenon DEF OpToRel
<1>3. \A y \in S : x <= y
  BY <1>2
<1>4. QED
  BY <1>3 DEF Min

\* What is scanned is the log, or the lines before the first that is too long.
LEMMA ScannedPositions ==
  ASSUME NEW file, IsLog(file)
  PROVE  /\ DOMAIN Scanned(file) \in SUBSET DOMAIN file.events
         /\ IsFiniteSet(DOMAIN Scanned(file))
         /\ (\A n \in DOMAIN file.events : ~file.events[n].long) => Scanned(file) = file.events
<1> DEFINE long == {n \in DOMAIN file.events : file.events[n].long}
<1>1. Len(file.events) \in Nat /\ DOMAIN file.events = 1..Len(file.events)
  BY LogPositions
<1>2. Scanned(file) = IF long = {} THEN file.events ELSE SubSeq(file.events, 1, Min(long) - 1)
  BY DEF Scanned
<1>3. CASE long = {}
  <2>1. IsFiniteSet(1..Len(file.events))
    <3> DEFINE M == Len(file.events)
    <3>1. M \in Int /\ 1 \in Int
      BY <1>1
    <3> HIDE DEF M
    <3>2. IsFiniteSet(1..M)
      BY <3>1, FS_Interval
    <3>3. QED
      BY <3>2 DEF M
  <2>2. Scanned(file) = file.events
    BY <1>2, <1>3
  <2>3. QED
    BY <1>1, <2>1, <2>2
<1>4. CASE long # {}
  <2>1. Min(long) \in long
    <3>1. long \in SUBSET Nat
      BY <1>1
    <3> HIDE DEF long
    <3>2. QED
      BY <1>4, <3>1, LeastExists
  <2> DEFINE m == Min(long) - 1
  <2>2. m \in Nat /\ m <= Len(file.events)
    BY <1>1, <2>1
  <2>3. Scanned(file) = SubSeq(file.events, 1, m)
    BY <1>2, <1>4
  <2> HIDE DEF m
  <2>4. DOMAIN Scanned(file) = 1..m
    <3>1. file.events \in Seq({file.events[n] : n \in DOMAIN file.events})
      BY DEF IsLog, IsSequence
    <3>2. QED
      BY <2>2, <2>3, <3>1
  <2>5. IsFiniteSet(1..m)
    BY <2>2, FS_Interval
  <2>6. DOMAIN Scanned(file) \in SUBSET DOMAIN file.events
    BY <1>1, <2>2, <2>4
  <2>7. ~(\A n \in DOMAIN file.events : ~file.events[n].long)
    BY <1>4
  <2>8. QED
    BY <2>4, <2>5, <2>6, <2>7
<1>5. QED
  BY <1>3, <1>4

\* The events that strict-replay goes through: each one that was scanned, once.
Faithful(entries, file) ==
  /\ Len(entries) \in Nat /\ DOMAIN entries = 1..Len(entries)
  /\ \A n \in DOMAIN entries :
       /\ entries[n].index \in DOMAIN Scanned(file)
       /\ entries[n].event = file.events[entries[n].index]
  /\ \A m \in DOMAIN Scanned(file) : \E n \in DOMAIN entries : entries[n].index = m

LEMMA StrictEventsFaithful ==
  ASSUME NEW file, IsLog(file)
  PROVE  Faithful(StrictEvents(file), file)
<1> DEFINE S == DOMAIN Scanned(file)
           R == {p \in S \X S : Sooner(file, p[1], p[2])}
           N == Cardinality(S)
           Good(s) == \A i, j \in DOMAIN s : i < j => Sooner(file, s[i], s[j])
           indices == CHOOSE s \in SetToSeqs(S) : Good(s)
<1>1. IsFiniteSet(S) /\ S \in SUBSET Nat
      /\ \A n \in S : file.events[n].at \in Nat /\ file.events[n].number \in Nat
  <2>1. /\ Len(file.events) \in Nat /\ DOMAIN file.events = 1..Len(file.events)
        /\ \A n \in DOMAIN file.events : file.events[n].at \in Nat \ {0} /\ file.events[n].number \in Nat
    BY LogPositions
  <2>2. IsFiniteSet(S) /\ S \in SUBSET DOMAIN file.events
    BY ScannedPositions
  <2>3. QED
    BY <2>1, <2>2
<1>2. \A x, y \in S : <<x, y>> \in R <=> Sooner(file, x, y)
  OBVIOUS
<1>3. \A x, y \in S : x # y => <<x, y>> \in R \/ <<y, x>> \in R
  BY <1>1, <1>2 DEF Sooner
<1>4. \A x, y, z \in S : <<x, y>> \in R /\ <<y, z>> \in R => <<x, z>> \in R
  BY <1>1, <1>2 DEF Sooner
<1>5. \E s \in SetToSeqs(S) : \A i, j \in DOMAIN s : i < j => <<s[i], s[j]>> \in R
  <2> HIDE DEF S, R
  <2> QED
    BY <1>1, <1>3, <1>4, SortedExists
<1>6. \E s \in SetToSeqs(S) : Good(s)
  <2>1. PICK s \in SetToSeqs(S) : \A i, j \in DOMAIN s : i < j => <<s[i], s[j]>> \in R
    BY <1>5
  <2>2. Good(s)
    BY <2>1
  <2>3. QED
    BY <2>2
<1>7. indices \in SetToSeqs(S)
  <2> HIDE DEF S, Good
  <2> QED
    BY <1>6
<1>8. StrictEvents(file) =
        [n \in DOMAIN indices |-> [index |-> indices[n], event |-> file.events[indices[n]]]]
  BY DEF StrictEvents
<1>9. /\ indices \in [1..N -> S] /\ N \in Nat
      /\ \A x \in S : \E n \in 1..N : indices[n] = x
  <2> HIDE DEF S, indices
  <2> QED
    BY <1>1, <1>7, OrderComplete
<1> HIDE DEF N, S, indices
<1>10. DOMAIN StrictEvents(file) = 1..N
  BY <1>8, <1>9
<1>11. Len(StrictEvents(file)) = N
  BY <1>8, <1>9
<1>12. \A n \in 1..N : /\ StrictEvents(file)[n].index = indices[n]
                       /\ StrictEvents(file)[n].event = file.events[indices[n]]
  BY <1>8, <1>9
<1>13. QED
  BY <1>9, <1>10, <1>11, <1>12 DEF Faithful, S

\* What StrictPassIsComplete says of one replay of one log.
PassCovers(file, answers, allowWrites, result) ==
  /\ \A n \in result.sent : ~file.events[n].broken /\ (file.events[n].write => allowWrites)
  /\ result.pass /\ (\A n \in DOMAIN file.events : ~file.events[n].long)
       => /\ result.sent = {n \in DOMAIN file.events : IsCall(file.events[n])}
          /\ \A n \in result.sent : file.events[n].status \in {"none", answers[n]}

LEMMA StrictReplayCovers ==
  ASSUME NEW file, IsLog(file), NEW answers, NEW allowWrites \in BOOLEAN
  PROVE  PassCovers(file, answers, allowWrites, StrictReplay(file, answers, allowWrites))
<1> DEFINE entries == StrictEvents(file)
           result  == StrictReplay(file, answers, allowWrites)
           wrong   == {n \in DOMAIN entries : Diverges(entries[n], answers, allowWrites)}
           last    == IF wrong = {} THEN Len(entries) ELSE Min(wrong)
           through == {m \in 1..last : IsCall(entries[m].event) /\ ~Unsent(entries[m].event, allowWrites)}
<1>1. Faithful(entries, file)
  BY StrictEventsFaithful
<1>2. result = [pass |-> wrong = {}, sent |-> {entries[n].index : n \in through}]
  BY DEF StrictReplay
<1>3. result.pass = (wrong = {}) /\ result.sent = {entries[n].index : n \in through}
  BY <1>2
<1> HIDE DEF entries, result
<1>4. through \in SUBSET DOMAIN entries
  <2>1. Len(entries) \in Nat /\ DOMAIN entries = 1..Len(entries)
    BY <1>1 DEF Faithful
  <2>2. last \in 0..Len(entries)
    <3>1. CASE wrong = {}
      BY <2>1, <3>1
    <3>2. CASE wrong # {}
      <4>1. wrong \in SUBSET Nat /\ wrong \in SUBSET DOMAIN entries
        BY <2>1
      <4>2. Min(wrong) \in wrong
        <5> HIDE DEF wrong
        <5> QED
          BY <3>2, <4>1, LeastExists
      <4>3. QED
        BY <2>1, <3>2, <4>1, <4>2
    <3>3. QED
      BY <3>1, <3>2
  <2> HIDE DEF last
  <2>3. QED
    BY <2>1, <2>2
<1>5. \A n \in through : ~Unsent(entries[n].event, allowWrites) /\ IsCall(entries[n].event)
  OBVIOUS
<1>6. \A n \in result.sent : ~file.events[n].broken /\ (file.events[n].write => allowWrites)
  <2>1. ASSUME NEW n \in through
        PROVE  LET event == file.events[entries[n].index]
               IN ~event.broken /\ (event.write => allowWrites)
    BY <1>1, <1>4, <1>5 DEF Faithful, Unsent
  <2>2. QED
    BY <1>3, <2>1
<1>7. ASSUME result.pass, \A n \in DOMAIN file.events : ~file.events[n].long
      PROVE  /\ result.sent = {n \in DOMAIN file.events : IsCall(file.events[n])}
             /\ \A n \in result.sent : file.events[n].status \in {"none", answers[n]}
  <2>1. wrong = {} /\ Scanned(file) = file.events
    BY <1>3, <1>7, ScannedPositions
  <2>2. last = Len(entries)
    BY <2>1
  <2>3. 1..last = DOMAIN entries
    BY <1>1, <2>2 DEF Faithful
  <2>4. \A n \in DOMAIN entries : ~Diverges(entries[n], answers, allowWrites)
    BY <2>1
  <2>5. ASSUME NEW n \in DOMAIN entries, IsCall(entries[n].event)
        PROVE  /\ ~Unsent(entries[n].event, allowWrites)
               /\ entries[n].event.status \in {"none", answers[entries[n].index]}
    BY <2>4, <2>5 DEF Diverges, Mismatch
  <2>6. through = {n \in DOMAIN entries : IsCall(entries[n].event)}
    BY <2>3, <2>5
  <2> HIDE DEF through, last, wrong
  <2>7. \A m \in DOMAIN file.events : \E n \in DOMAIN entries : entries[n].index = m
    BY <1>1, <2>1 DEF Faithful
  <2>8. \A n \in DOMAIN entries : entries[n].index \in DOMAIN file.events
                                  /\ entries[n].event = file.events[entries[n].index]
    BY <1>1, <2>1 DEF Faithful
  <2>9. result.sent = {n \in DOMAIN file.events : IsCall(file.events[n])}
    <3>1. ASSUME NEW n \in result.sent
          PROVE  n \in DOMAIN file.events /\ IsCall(file.events[n])
      BY <1>3, <2>6, <2>8
    <3>2. ASSUME NEW m \in DOMAIN file.events, IsCall(file.events[m])
          PROVE  m \in result.sent
      BY <1>3, <2>6, <2>7, <2>8, <3>2
    <3>3. QED
      BY <3>1, <3>2
  <2>10. \A n \in result.sent : file.events[n].status \in {"none", answers[n]}
    <3>1. ASSUME NEW n \in through
          PROVE  file.events[entries[n].index].status \in {"none", answers[entries[n].index]}
      BY <2>5, <2>6, <2>8
    <3>2. QED
      BY <1>3, <3>1
  <2>11. QED
    BY <2>9, <2>10
<1>8. QED
  BY <1>6, <1>7 DEF PassCovers, result

-----------------------------------------------------------------------------
(* What loadObserved returns. *)

HoldsLogs(dir) == DOMAIN dir = Names /\ \A name \in Names : dir[name] # Absent => IsLog(dir[name])

\* An observation is an event in its place.
Observed(dir, x) ==
  \E name \in Names : \E n \in Nat :
     /\ dir[name] # Absent /\ n \in DOMAIN dir[name].events
     /\ x = [log |-> name, place |-> n, event |-> dir[name].events[n]]

LEMMA SeenIsObserved ==
  ASSUME NEW dir, HoldsLogs(dir), NEW x \in Seen(dir)
  PROVE  Observed(dir, x)
<1>1. PICK name \in Names : x \in InLog(dir, name)
  BY DEF Seen, HoldsLogs
<1>2. dir[name] # Absent
  BY <1>1 DEF InLog
<1>3. PICK n \in DOMAIN dir[name].events : x = [log |-> name, place |-> n, event |-> dir[name].events[n]]
  BY <1>1, <1>2 DEF InLog
<1>4. n \in Nat
  <2>1. IsLog(dir[name])
    BY <1>2 DEF HoldsLogs
  <2>2. Len(dir[name].events) \in Nat /\ DOMAIN dir[name].events = 1..Len(dir[name].events)
    BY <2>1, LogPositions
  <2>3. QED
    BY <2>2
<1>5. QED
  BY <1>2, <1>3, <1>4 DEF Observed

LEMMA InLogFinite ==
  ASSUME NEW dir, HoldsLogs(dir), NEW name \in Names
  PROVE  IsFiniteSet(InLog(dir, name))
<1>1. CASE dir[name] = Absent
  BY <1>1, FS_EmptySet DEF InLog
<1>2. CASE dir[name] # Absent
  <2> DEFINE places == {m \in DOMAIN dir[name].events : dir[name].events[m].kind # "other"}
             f == [n \in places |-> [log |-> name, place |-> n, event |-> dir[name].events[n]]]
             M == Len(dir[name].events)
  <2>1. M \in Int /\ 1 \in Int /\ DOMAIN dir[name].events = 1..M
    <3>1. IsLog(dir[name])
      BY <1>2 DEF HoldsLogs
    <3>2. QED
      BY <3>1, LogPositions
  <2>2. IsFiniteSet(places)
    <3> HIDE DEF M
    <3>1. IsFiniteSet(1..M)
      BY <2>1, FS_Interval
    <3>2. places \in SUBSET (1..M)
      BY <2>1
    <3> HIDE DEF places
    <3>3. QED
      BY <3>1, <3>2, FS_Subset
  <2>3. InLog(dir, name) = {f[n] : n \in places}
    BY <1>2 DEF InLog
  <2> HIDE DEF places, f
  <2>4. f \in Surjection(places, {f[n] : n \in places})
    <3>1. f = [n \in places |-> f[n]]
      BY DEF f
    <3>2. QED
      BY <3>1 DEF Surjection
  <2>5. QED
    BY <2>2, <2>3, <2>4, FS_Surjection
<1>3. QED
  BY <1>1, <1>2

LEMMA SeenFinite ==
  ASSUME NEW dir, HoldsLogs(dir)
  PROVE  IsFiniteSet(Seen(dir))
<1> DEFINE in  == InLog(dir, "inbound.log")
           out == InLog(dir, "outbound.log")
           msg == InLog(dir, "messages.log")
<1>1. IsFiniteSet(in) /\ IsFiniteSet(out) /\ IsFiniteSet(msg)
  BY InLogFinite DEF Names
<1>2. Seen(dir) = (in \cup out) \cup msg
  <2>1. DOMAIN dir = {"inbound.log", "outbound.log", "messages.log"}
    BY DEF HoldsLogs, Names
  <2> HIDE DEF in, out, msg
  <2>2. \A x : x \in Seen(dir) <=> x \in (in \cup out) \cup msg
    BY <2>1 DEF Seen, in, out, msg
  <2>3. QED
    BY <2>2
<1> HIDE DEF in, out, msg
<1>3. QED
  BY <1>1, <1>2, FS_Union

\* Two observations that are not told apart by Before are one.
LEMMA BeforeOrders ==
  ASSUME NEW dir, HoldsLogs(dir)
  PROVE  /\ \A x \in Seen(dir) : x.event.at \in Nat \ {0}
         /\ \A x, y \in Seen(dir) : x # y => Before(x, y) \/ Before(y, x)
         /\ \A x, y, z \in Seen(dir) : Before(x, y) /\ Before(y, z) => Before(x, z)
<1>1. ASSUME NEW x \in Seen(dir)
      PROVE  /\ x.log \in Names /\ x.place \in Nat /\ x.event.at \in Nat \ {0} /\ x.event.number \in Nat
             /\ x = [log |-> x.log, place |-> x.place, event |-> dir[x.log].events[x.place]]
  <2>1. PICK name \in Names : \E n \in Nat :
               /\ dir[name] # Absent /\ n \in DOMAIN dir[name].events
               /\ x = [log |-> name, place |-> n, event |-> dir[name].events[n]]
    BY SeenIsObserved DEF Observed
  <2>2. PICK n \in Nat :
               /\ dir[name] # Absent /\ n \in DOMAIN dir[name].events
               /\ x = [log |-> name, place |-> n, event |-> dir[name].events[n]]
    BY <2>1
  <2>3. x.log = name /\ x.place = n /\ x.event = dir[name].events[n]
    BY <2>2
  <2>4. dir[name].events[n].at \in Nat \ {0} /\ dir[name].events[n].number \in Nat
    BY <2>2 DEF HoldsLogs, IsLog
  <2>5. QED
    BY <2>2, <2>3, <2>4
<1>2. \A x \in Seen(dir) : Rank(x.log) \in {1, 2, 3}
  BY <1>1, RankIsOrder
<1>3. ASSUME NEW x \in Seen(dir), NEW y \in Seen(dir), x # y
      PROVE  Before(x, y) \/ Before(y, x)
  <2>1. x.log # y.log \/ x.place # y.place
    BY <1>1, <1>3
  <2>2. Rank(x.log) # Rank(y.log) \/ (x.log = y.log /\ x.place # y.place)
    BY <1>1, <2>1, RankIsOrder
  <2> DEFINE a == x.event.at
             b == y.event.at
             m == x.event.number
             n == y.event.number
             r == Rank(x.log)
             s == Rank(y.log)
             p == x.place
             q == y.place
             one == x.log = y.log
  <2>3. /\ a \in Nat /\ b \in Nat /\ m \in Nat /\ n \in Nat
        /\ r \in Nat /\ s \in Nat /\ p \in Nat /\ q \in Nat
    BY <1>1, <1>2
  <2>4. r # s \/ (one /\ p # q)
    BY <2>2
  <2> HIDE DEF a, b, m, n, r, s, p, q, one
  <2>5. \/ a < b \/ (a = b /\ m < n) \/ (a = b /\ m = n /\ (r < s \/ (one /\ p < q)))
        \/ b < a \/ (b = a /\ n < m) \/ (b = a /\ n = m /\ (s < r \/ (one /\ q < p)))
    BY <2>3, <2>4
  <2>6. QED
    BY <2>5 DEF Before, a, b, m, n, r, s, p, q, one
<1>4. ASSUME NEW x \in Seen(dir), NEW y \in Seen(dir), NEW z \in Seen(dir), Before(x, y), Before(y, z)
      PROVE  Before(x, z)
  <2>1. \A w \in {x, y, z} : /\ w.event.at \in Nat /\ w.event.number \in Nat
                             /\ w.place \in Nat /\ Rank(w.log) \in Nat
    BY <1>1, <1>2
  <2>2. QED
    BY <1>4, <2>1 DEF Before
<1>5. QED
  BY <1>1, <1>3, <1>4

\* The observations are in the order of their times, whichever log they are from.
Timed(obs) ==
  /\ Len(obs) \in Nat /\ DOMAIN obs = 1..Len(obs)
  /\ \A n \in DOMAIN obs : obs[n].at \in Nat \ {0}
  /\ \A a, b \in DOMAIN obs : a < b => obs[a].at <= obs[b].at

LEMMA ObservationsTimed ==
  ASSUME NEW dir, HoldsLogs(dir)
  PROVE  Timed(Observations(dir))
<1> DEFINE S == Seen(dir)
           R == {p \in S \X S : Before(p[1], p[2])}
           N == Cardinality(S)
           Good(s) == \A i, j \in DOMAIN s : i < j => Before(s[i], s[j])
           all == CHOOSE s \in SetToSeqs(S) : Good(s)
<1>1. /\ IsFiniteSet(S) /\ \A x \in S : x.event.at \in Nat \ {0}
      /\ \A x, y \in S : x # y => Before(x, y) \/ Before(y, x)
      /\ \A x, y, z \in S : Before(x, y) /\ Before(y, z) => Before(x, z)
  BY SeenFinite, BeforeOrders
<1>2. \A x, y \in S : <<x, y>> \in R <=> Before(x, y)
  OBVIOUS
<1>3. /\ \A x, y \in S : x # y => <<x, y>> \in R \/ <<y, x>> \in R
      /\ \A x, y, z \in S : <<x, y>> \in R /\ <<y, z>> \in R => <<x, z>> \in R
  <2> HIDE DEF S, R
  <2> QED
    BY <1>1, <1>2
<1>4. \E s \in SetToSeqs(S) : \A i, j \in DOMAIN s : i < j => <<s[i], s[j]>> \in R
  <2> HIDE DEF S, R
  <2> QED
    BY <1>1, <1>3, SortedExists
<1>5. \E s \in SetToSeqs(S) : Good(s)
  <2>1. PICK s \in SetToSeqs(S) : \A i, j \in DOMAIN s : i < j => <<s[i], s[j]>> \in R
    BY <1>4
  <2>2. Good(s)
    BY <2>1
  <2>3. QED
    BY <2>2
<1>6. all \in SetToSeqs(S) /\ Good(all)
  <2> HIDE DEF S, Good
  <2> QED
    BY <1>5
<1>7. Observations(dir) = [n \in DOMAIN all |-> all[n].event]
  BY DEF Observations
<1>8. all \in [1..N -> S] /\ N \in Nat
  <2> HIDE DEF S, all
  <2> QED
    BY <1>1, <1>6, OrderComplete
<1>9. \A i, j \in 1..N : i < j => Before(all[i], all[j])
  BY <1>6, <1>8
<1> HIDE DEF N, S, all
<1>10. DOMAIN Observations(dir) = 1..N /\ Len(Observations(dir)) = N
  BY <1>7, <1>8
<1>11. \A n \in 1..N : Observations(dir)[n] = all[n].event /\ Observations(dir)[n].at \in Nat \ {0}
  BY <1>1, <1>7, <1>8
<1>12. \A i, j \in 1..N : i < j => all[i].event.at <= all[j].event.at
  <2>1. \A i \in 1..N : all[i].event.at \in Nat
    BY <1>11
  <2>2. QED
    BY <1>9, <2>1 DEF Before
<1>13. QED
  BY <1>8, <1>10, <1>11, <1>12 DEF Timed

-----------------------------------------------------------------------------
(* VerifyIncident. *)

\* The states of its loop.
Accs(obs) == [cursor      : Nat \ {0},
              correlation : {""} \cup {Correlation(obs[n]) : n \in DOMAIN obs},
              previous    : {0} \cup {obs[n].at : n \in DOMAIN obs},
              late        : BOOLEAN,
              missing     : BOOLEAN]

Candidates(obs, mode, acc, step) ==
  {n \in acc.cursor..Len(obs) : Matches(step, obs[n]) /\ Correlated(mode, acc.correlation, obs[n])}

\* A step takes the observation n.
Takes(obs, mode, acc, step, next, n) ==
  /\ n \in Candidates(obs, mode, acc, step)
  /\ \A m \in Candidates(obs, mode, acc, step) : n <= m
  /\ next.cursor = n + 1
  /\ next.correlation = IF acc.correlation = "" THEN Correlation(obs[n]) ELSE acc.correlation
  /\ next.previous = obs[n].at
  /\ next.late = (acc.late \/ (acc.previous # 0 /\ step.within > 0 /\ obs[n].at - acc.previous > step.within))
  /\ next.missing = FALSE

\* The three outcomes of a step.
LEMMA AdvanceOutcome ==
  ASSUME NEW obs, Timed(obs), NEW mode, NEW acc \in Accs(obs), NEW step,
         NEW next, next = Advance(obs, mode, acc, step)
  PROVE  /\ next \in Accs(obs)
         /\ acc.missing => next = acc
         /\ ~acc.missing /\ Candidates(obs, mode, acc, step) = {}
              => next = [acc EXCEPT !.missing = TRUE]
         /\ ~acc.missing /\ Candidates(obs, mode, acc, step) # {}
              => \E n : Takes(obs, mode, acc, step, next, n)
<1> DEFINE candidates == Candidates(obs, mode, acc, step)
           n == Min(candidates)
           taken == [cursor      |-> n + 1,
                     correlation |-> IF acc.correlation = "" THEN Correlation(obs[n]) ELSE acc.correlation,
                     previous    |-> obs[n].at,
                     late        |-> acc.late \/ (acc.previous # 0 /\ step.within > 0
                                                  /\ obs[n].at - acc.previous > step.within),
                     missing     |-> FALSE]
<1>1. next = IF acc.missing THEN acc
             ELSE IF candidates = {} THEN [acc EXCEPT !.missing = TRUE]
             ELSE taken
  BY DEF Advance, Candidates, NextCursor, Previous
<1>2. acc.cursor \in Nat \ {0} /\ acc.missing \in BOOLEAN
  BY DEF Accs
<1>3. candidates \in SUBSET DOMAIN obs /\ candidates \in SUBSET Nat
  BY <1>2 DEF Candidates, Timed
<1>4. CASE acc.missing
  BY <1>1, <1>4
<1>5. CASE ~acc.missing /\ candidates = {}
  <2>1. next = [acc EXCEPT !.missing = TRUE]
    BY <1>1, <1>5
  <2>2. next \in Accs(obs)
    BY <2>1 DEF Accs
  <2>3. QED
    BY <1>5, <2>1, <2>2
<1>6. CASE ~acc.missing /\ candidates # {}
  <2>1. next = taken
    BY <1>1, <1>6
  <2>2. n \in candidates /\ \A m \in candidates : n <= m
    <3> HIDE DEF candidates
    <3> QED
      BY <1>3, <1>6, LeastExists
  <2> HIDE DEF n
  <2>3. n \in DOMAIN obs /\ n \in Nat
    BY <1>3, <2>2
  <2>4. taken \in Accs(obs)
    <3>1. n + 1 \in Nat \ {0}
      BY <2>3
    <3>2. acc.correlation \in {""} \cup {Correlation(obs[m]) : m \in DOMAIN obs}
      BY DEF Accs
    <3>3. QED
      BY <2>3, <3>1, <3>2 DEF Accs
  <2>5. Takes(obs, mode, acc, step, next, n)
    <3>1. /\ next.cursor = taken.cursor /\ next.previous = taken.previous
          /\ next.missing = taken.missing /\ next.correlation = taken.correlation
          /\ next.late = taken.late
      BY <2>1
    <3>2. /\ taken.cursor = n + 1 /\ taken.previous = obs[n].at /\ taken.missing = FALSE
          /\ taken.correlation = IF acc.correlation = "" THEN Correlation(obs[n]) ELSE acc.correlation
          /\ taken.late = (acc.late \/ (acc.previous # 0 /\ step.within > 0
                                        /\ obs[n].at - acc.previous > step.within))
      OBVIOUS
    <3> HIDE DEF taken
    <3>3. QED
      BY <2>2, <3>1, <3>2, Zenon DEF Takes
  <2>6. QED
    BY <1>6, <2>1, <2>4, <2>5
<1>7. QED
  BY <1>2, <1>4, <1>5, <1>6

LEMMA AdvanceInAccs ==
  ASSUME NEW obs, Timed(obs), NEW mode, NEW acc \in Accs(obs), NEW step
  PROVE  Advance(obs, mode, acc, step) \in Accs(obs)
<1> DEFINE next == Advance(obs, mode, acc, step)
<1>1. next = Advance(obs, mode, acc, step)
  OBVIOUS
<1> HIDE DEF next
<1>2. next \in Accs(obs)
  BY <1>1, AdvanceOutcome
<1>3. QED
  BY <1>2 DEF next

\* The states of the loop, step by step, and the findings they end in.
Verified(f, obs, workflow) ==
  LET N == Len(workflow.steps) IN
  /\ N \in Nat /\ DOMAIN workflow.steps = 1..N
  /\ \A n \in 0..N : f[n] \in Accs(obs)
  /\ f[0] = AtFirst
  /\ \A n \in 1..N : f[n] = Advance(obs, workflow.correlation, f[n - 1], workflow.steps[n])
  /\ Verify(obs, workflow).missing = f[N].missing
  /\ Verify(obs, workflow).late = f[N].late

LEMMA VerifyLoop ==
  ASSUME NEW obs, Timed(obs), NEW workflow, IsSequence(workflow.steps)
  PROVE  \E f : Verified(f, obs, workflow)
<1> DEFINE steps == workflow.steps
           mode  == workflow.correlation
           N == Len(steps)
           T == Accs(obs)
           step == [p \in T \X (1..N) |-> Advance(obs, mode, p[1], steps[p[2]])]
           Loop(g) == g = [n \in 0..Len(steps) |->
                             IF n = 0 THEN AtFirst ELSE Advance(obs, mode, g[n - 1], steps[n])]
           g == CHOOSE h : Loop(h)
<1>1. N \in Nat /\ DOMAIN steps = 1..N
  BY DEF IsSequence
<1>2. AtFirst \in T
  BY DEF AtFirst, Accs
<1>3. step \in [T \X (1..N) -> T]
  <2>1. ASSUME NEW p \in T \X (1..N)
        PROVE  Advance(obs, mode, p[1], steps[p[2]]) \in T
    <3>1. p[1] \in T
      OBVIOUS
    <3> HIDE DEF T
    <3>2. QED
      BY <3>1, AdvanceInAccs DEF T
  <2>2. QED
    BY <2>1
<1>4. PICK f \in [0..N -> T] : \A n \in 0..N : Stepped(f, AtFirst, step, n)
  <2> HIDE DEF step, T, N
  <2> QED
    BY <1>1, <1>2, <1>3, LoopExists
<1>5. ASSUME NEW n \in 0..N
      PROVE  f[n] = IF n = 0 THEN AtFirst ELSE Advance(obs, mode, f[n - 1], steps[n])
  <2>1. Stepped(f, AtFirst, step, n)
    BY <1>4
  <2>2. n # 0 => <<f[n - 1], n>> \in T \X (1..N)
    <3> HIDE DEF T
    <3> QED
      BY <1>1, <1>4
  <2> HIDE DEF T
  <2>3. QED
    BY <2>1, <2>2 DEF Stepped
<1>6. Loop(f)
  <2> HIDE DEF T, step
  <2> QED
    BY <1>4, <1>5
<1>7. Loop(g)
  <2> HIDE DEF Loop
  <2> QED
    BY <1>6
<1>8. Verify(obs, workflow) = [missing |-> g[Len(steps)].missing, late |-> g[Len(steps)].late]
  BY DEF Verify
<1> HIDE DEF g
<1>9. /\ DOMAIN g = 0..N
      /\ \A n \in 0..N :
           g[n] = IF n = 0 THEN AtFirst ELSE Advance(obs, mode, g[n - 1], steps[n])
  BY <1>7
<1> HIDE DEF Loop, step
<1>10. \A n \in 0..N : g[n] \in T
  <2> DEFINE P == {n \in Nat : n <= N => g[n] \in T}
  <2>1. 0 \in P
    BY <1>1, <1>2, <1>9
  <2>2. ASSUME NEW n \in P
        PROVE  n + 1 \in P
    <3>1. CASE n + 1 <= N
      <4>1. n \in Nat /\ n <= N /\ n + 1 \in 0..N /\ (n + 1) - 1 = n /\ n + 1 # 0
        BY <1>1, <3>1
      <4>2. g[n] \in T
        BY <4>1
      <4>3. g[n + 1] = Advance(obs, mode, g[n], steps[n + 1])
        BY <1>9, <4>1
      <4> HIDE DEF P, T
      <4>4. g[n + 1] \in T
        BY <4>2, <4>3, AdvanceInAccs DEF T
      <4>5. QED
        BY <4>1, <4>4 DEF P
    <3>2. CASE ~(n + 1 <= N)
      BY <3>2
    <3>3. QED
      BY <3>1, <3>2
  <2>3. P \in SUBSET Nat
    OBVIOUS
  <2> HIDE DEF P
  <2>4. \A n \in Nat : n \in P
    BY <2>1, <2>2, <2>3, SetInduction
  <2>5. QED
    BY <1>1, <2>4 DEF P
<1>11. Verified(g, obs, workflow)
  <2>1. 0 \in 0..N /\ N \in 0..N /\ \A n \in 1..N : n \in 0..N /\ n # 0
    BY <1>1
  <2>2. g[0] = AtFirst /\ \A n \in 1..N : g[n] = Advance(obs, mode, g[n - 1], steps[n])
    BY <1>9, <2>1
  <2>3. Verify(obs, workflow).missing = g[N].missing /\ Verify(obs, workflow).late = g[N].late
    BY <1>8
  <2>4. QED
    BY <1>1, <1>10, <2>2, <2>3 DEF Verified
<1>12. QED
  BY <1>11

\* The step n took the observation before the cursor, in time.
TookInTime(f, obs, workflow, n) ==
  LET m     == f[n].cursor - 1
      step  == workflow.steps[n]
      prior == f[n - 1]
  IN /\ m \in DOMAIN obs /\ prior.cursor <= m
     /\ Matches(step, obs[m])
     /\ Correlated(workflow.correlation, prior.correlation, obs[m])
     /\ f[n].correlation = IF prior.correlation = "" THEN Correlation(obs[m]) ELSE prior.correlation
     /\ f[n].previous = obs[m].at
     /\ prior.previous # 0 /\ step.within > 0 => ~(obs[m].at - prior.previous > step.within)

\* Without a finding at the end there was none on the way.
LEMMA NoFindingBefore ==
  ASSUME NEW obs, Timed(obs), NEW workflow, NEW f, Verified(f, obs, workflow),
         ~Verify(obs, workflow).missing, ~Verify(obs, workflow).late
  PROVE  \A n \in 0..Len(workflow.steps) : ~f[n].missing /\ ~f[n].late
<1> DEFINE N == Len(workflow.steps)
           P == {k \in Nat : k <= N => ~f[N - k].missing /\ ~f[N - k].late}
<1>1. N \in Nat
  BY DEF Verified
<1>2. 0 \in P
  BY <1>1 DEF Verified
<1>3. ASSUME NEW k \in P
      PROVE  k + 1 \in P
  <2> SUFFICES ASSUME k + 1 <= N
               PROVE  ~f[N - (k + 1)].missing /\ ~f[N - (k + 1)].late
    OBVIOUS
  <2> DEFINE n == N - (k + 1)
             mode == workflow.correlation
             step == workflow.steps[n + 1]
  <2>1. k \in Nat /\ n \in 0..N /\ n + 1 \in 1..N /\ n + 1 = N - k /\ (n + 1) - 1 = n
    BY <1>1
  <2>2. ~f[n + 1].missing /\ ~f[n + 1].late
    <3>1. k <= N /\ k \in P
      BY <1>1, <2>1
    <3>2. QED
      BY <2>1, <3>1
  <2> HIDE DEF n, P
  <2>3. f[n] \in Accs(obs)
    BY <2>1 DEF Verified
  <2>4. f[n + 1] = Advance(obs, mode, f[n], step)
    BY <2>1 DEF Verified
  <2> DEFINE prior == f[n]
             next  == f[n + 1]
  <2> HIDE DEF mode, step, prior, next
  <2>5. /\ prior.missing => next = prior
        /\ ~prior.missing /\ Candidates(obs, mode, prior, step) = {}
             => next = [prior EXCEPT !.missing = TRUE]
        /\ ~prior.missing /\ Candidates(obs, mode, prior, step) # {}
             => \E m : Takes(obs, mode, prior, step, next, m)
    <3>1. prior \in Accs(obs) /\ next = Advance(obs, mode, prior, step)
      BY <2>3, <2>4 DEF prior, next
    <3>2. QED
      BY <3>1, AdvanceOutcome
  <2>6. ~next.missing /\ ~next.late /\ ~prior.missing
    BY <2>2, <2>5 DEF next
  <2>7. Candidates(obs, mode, prior, step) # {}
    BY <2>3, <2>5, <2>6 DEF Accs, prior
  <2>8. PICK m : Takes(obs, mode, prior, step, next, m)
    BY <2>5, <2>6, <2>7
  <2>9. ~prior.late
    BY <2>6, <2>8 DEF Takes
  <2>10. QED
    BY <2>6, <2>9 DEF n, prior
<1>4. P \in SUBSET Nat
  OBVIOUS
<1> HIDE DEF P
<1>5. \A k \in Nat : k \in P
  BY <1>2, <1>3, <1>4, SetInduction
<1>6. ASSUME NEW n \in 0..N
      PROVE  ~f[n].missing /\ ~f[n].late
  <2>1. N - n \in Nat /\ N - n <= N /\ N - (N - n) = n
    BY <1>1
  <2>2. N - n \in P
    BY <1>5, <2>1
  <2> HIDE DEF N
  <2>3. QED
    BY <2>1, <2>2 DEF P
<1>7. QED
  BY <1>6

LEMMA EachStepTaken ==
  ASSUME NEW obs, Timed(obs), NEW workflow, NEW f, Verified(f, obs, workflow),
         ~Verify(obs, workflow).missing, ~Verify(obs, workflow).late,
         NEW n \in 1..Len(workflow.steps)
  PROVE  TookInTime(f, obs, workflow, n)
<1> DEFINE mode  == workflow.correlation
           step  == workflow.steps[n]
           prior == f[n - 1]
<1>1. n - 1 \in 0..Len(workflow.steps) /\ n \in 0..Len(workflow.steps)
  BY DEF Verified
<1>2. prior \in Accs(obs) /\ f[n] = Advance(obs, mode, prior, step)
  BY <1>1 DEF Verified
<1>3. ~prior.missing /\ ~f[n].missing /\ ~f[n].late
  BY <1>1, NoFindingBefore
<1> DEFINE next == f[n]
<1>4. next = Advance(obs, mode, prior, step) /\ ~next.missing /\ ~next.late
  BY <1>2, <1>3
<1> HIDE DEF mode, step, prior, next
<1>5. /\ ~prior.missing /\ Candidates(obs, mode, prior, step) = {}
           => next = [prior EXCEPT !.missing = TRUE]
      /\ ~prior.missing /\ Candidates(obs, mode, prior, step) # {}
           => \E m : Takes(obs, mode, prior, step, next, m)
  BY <1>2, <1>4, AdvanceOutcome
<1>6. Candidates(obs, mode, prior, step) # {}
  BY <1>2, <1>3, <1>5, <1>4 DEF Accs
<1>7. PICK m : Takes(obs, mode, prior, step, next, m)
  BY <1>3, <1>5, <1>6
<1>8. m \in DOMAIN obs /\ m \in Nat /\ prior.cursor <= m
  <2>1. m \in prior.cursor..Len(obs)
    BY <1>7 DEF Takes, Candidates
  <2>2. prior.cursor \in Nat \ {0}
    BY <1>2 DEF Accs
  <2>3. Len(obs) \in Nat /\ DOMAIN obs = 1..Len(obs)
    BY DEF Timed
  <2>4. QED
    BY <2>1, <2>2, <2>3
<1>9. next.cursor - 1 = m
  <2>1. next.cursor = m + 1
    BY <1>7 DEF Takes
  <2>2. QED
    BY <1>8, <2>1
<1>10. Matches(step, obs[m]) /\ Correlated(mode, prior.correlation, obs[m])
  BY <1>7 DEF Takes, Candidates
<1>11. ~(prior.previous # 0 /\ step.within > 0 /\ obs[m].at - prior.previous > step.within)
  BY <1>7, <1>4 DEF Takes
<1>12. next.previous = obs[m].at
       /\ next.correlation = IF prior.correlation = "" THEN Correlation(obs[m]) ELSE prior.correlation
  BY <1>7 DEF Takes
<1>13. QED
  BY <1>8, <1>9, <1>10, <1>11, <1>12 DEF TookInTime, mode, step, prior, next

\* The cursor has moved on at every step.
LEMMA CursorGrows ==
  ASSUME NEW obs, NEW workflow, NEW f, Verified(f, obs, workflow),
         \A n \in 1..Len(workflow.steps) : TookInTime(f, obs, workflow, n)
  PROVE  \A a, b \in 1..Len(workflow.steps) : a < b => f[a].cursor < f[b].cursor
<1> DEFINE N == Len(workflow.steps)
           P == {b \in Nat : b <= N => \A a \in 1..b : a < b => f[a].cursor < f[b].cursor}
<1>1. N \in Nat /\ \A n \in 0..N : f[n].cursor \in Nat
  BY DEF Verified, Accs
<1>2. 0 \in P
  OBVIOUS
<1>3. ASSUME NEW b \in P
      PROVE  b + 1 \in P
  <2> SUFFICES ASSUME b + 1 <= N, NEW a \in 1..(b + 1), a < b + 1
               PROVE  f[a].cursor < f[b + 1].cursor
    OBVIOUS
  <2>1. b \in Nat /\ b + 1 \in 1..N /\ b \in 0..N /\ a \in 0..N /\ a \in 1..b /\ (b + 1) - 1 = b
    BY <1>1
  <2>2. f[b].cursor < f[b + 1].cursor
    <3>1. TookInTime(f, obs, workflow, b + 1)
      BY <2>1
    <3>2. f[(b + 1) - 1].cursor <= f[b + 1].cursor - 1
      BY <3>1 DEF TookInTime
    <3>3. f[b].cursor \in Nat /\ f[b + 1].cursor \in Nat
      <4>1. b + 1 \in 0..N
        BY <1>1, <2>1
      <4>2. QED
        BY <1>1, <2>1, <4>1
    <3>4. QED
      BY <2>1, <3>2, <3>3
  <2>3. CASE a = b
    BY <2>2, <2>3
  <2>4. CASE a # b
    <3>1. f[a].cursor < f[b].cursor
      BY <1>1, <2>1, <2>4
    <3>2. f[a].cursor \in Nat /\ f[b].cursor \in Nat /\ f[b + 1].cursor \in Nat
      <4>1. b + 1 \in 0..N
        BY <1>1, <2>1
      <4>2. QED
        BY <1>1, <2>1, <4>1
    <3>3. QED
      BY <2>2, <3>1, <3>2
  <2>5. QED
    BY <2>3, <2>4
<1>4. P \in SUBSET Nat
  OBVIOUS
<1> HIDE DEF P
<1>5. \A b \in Nat : b \in P
  BY <1>2, <1>3, <1>4, SetInduction
<1>6. QED
  BY <1>1, <1>5 DEF P

\* Every correlation met in the first n steps is the one kept, or none where none
\* is required.
OneMet(f, obs, workflow, n) ==
  \A a \in 1..n :
    /\ Correlation(obs[f[a].cursor - 1]) \in {"", f[n].correlation}
    /\ workflow.correlation = "required" => Correlation(obs[f[a].cursor - 1]) # ""

LEMMA OneCorrelation ==
  ASSUME NEW obs, NEW workflow, NEW f, Verified(f, obs, workflow),
         workflow.correlation \in {"prefer", "required"},
         \A n \in 1..Len(workflow.steps) : TookInTime(f, obs, workflow, n)
  PROVE  OneMet(f, obs, workflow, Len(workflow.steps))
<1> DEFINE N == Len(workflow.steps)
           P == {n \in Nat : n <= N => OneMet(f, obs, workflow, n)}
<1>1. N \in Nat
  BY DEF Verified
<1>2. 0 \in P
  <2>1. 1..0 = {}
    OBVIOUS
  <2>2. QED
    BY <2>1 DEF OneMet
<1>3. ASSUME NEW n \in P
      PROVE  n + 1 \in P
  <2> SUFFICES ASSUME n + 1 <= N
               PROVE  OneMet(f, obs, workflow, n + 1)
    OBVIOUS
  <2>1. n \in Nat /\ n <= N /\ n + 1 \in 1..N /\ (n + 1) - 1 = n
    BY <1>1
  <2>2. OneMet(f, obs, workflow, n)
    BY <2>1
  <2>3. TookInTime(f, obs, workflow, n + 1)
    BY <2>1
  <2> DEFINE id(a) == Correlation(obs[f[a].cursor - 1])
             soFar == f[n].correlation
             now   == f[n + 1].correlation
  <2>4. Correlated(workflow.correlation, soFar, obs[f[n + 1].cursor - 1])
        /\ now = IF soFar = "" THEN id(n + 1) ELSE soFar
    BY <2>1, <2>3 DEF TookInTime
  <2>5. /\ workflow.correlation = "required" => id(n + 1) # "" /\ soFar \in {"", id(n + 1)}
        /\ workflow.correlation = "prefer" => soFar = "" \/ id(n + 1) = "" \/ soFar = id(n + 1)
    BY <2>4 DEF Correlated
  <2>6. ASSUME NEW a \in 1..(n + 1)
        PROVE  id(a) \in {"", now} /\ (workflow.correlation = "required" => id(a) # "")
    <3>1. CASE a = n + 1
      <4> HIDE DEF soFar, now
      <4>1. id(n + 1) \in {"", now} /\ (workflow.correlation = "required" => id(n + 1) # "")
        <5> HIDE DEF id
        <5> QED
          BY <2>4, <2>5
      <4>2. QED
        BY <3>1, <4>1
    <3>2. CASE a # n + 1
      <4>1. a \in 1..n
        BY <2>1, <3>2
      <4>2. id(a) \in {"", soFar} /\ (workflow.correlation = "required" => id(a) # "")
        BY <2>2, <4>1 DEF OneMet
      <4> HIDE DEF id, soFar, now
      <4>3. QED
        BY <2>4, <4>2
    <3>3. QED
      BY <3>1, <3>2
  <2>7. QED
    BY <2>6 DEF OneMet
<1>4. P \in SUBSET Nat
  OBVIOUS
<1> HIDE DEF P
<1>5. N \in P
  BY <1>1, <1>2, <1>3, <1>4, SetInduction
<1>6. N <= N
  BY <1>1
<1>7. QED
  BY <1>5, <1>6 DEF P

\* A workflow without findings did happen.
LEMMA VerifySound ==
  ASSUME NEW obs, Timed(obs), NEW workflow, IsSequence(workflow.steps),
         \A n \in DOMAIN workflow.steps : workflow.steps[n].within \in Nat,
         ~Verify(obs, workflow).missing, ~Verify(obs, workflow).late
  PROVE  \E e \in Embeddings(obs, workflow) :
           Together(obs, workflow.correlation, e) /\ InTime(obs, workflow, e)
<1>1. PICK f : Verified(f, obs, workflow)
  BY VerifyLoop
<1> DEFINE N == Len(workflow.steps)
           e == [n \in 1..N |-> f[n].cursor - 1]
<1>2. N \in Nat /\ DOMAIN workflow.steps = 1..N
  BY <1>1 DEF Verified
<1>3. \A n \in 1..N : TookInTime(f, obs, workflow, n)
  BY <1>1, EachStepTaken
<1>4. \A n \in 1..N : e[n] \in DOMAIN obs /\ Matches(workflow.steps[n], obs[e[n]])
  BY <1>3 DEF TookInTime
<1>5. \A a, b \in 1..N : a < b => e[a] < e[b]
  <2>1. \A a, b \in 1..N : a < b => f[a].cursor < f[b].cursor
    <3> HIDE DEF e
    <3> QED
      BY <1>1, <1>3, CursorGrows
  <2>2. ASSUME NEW a \in 1..N
        PROVE  f[a].cursor \in Nat
    <3>1. a \in 0..N
      BY <1>2
    <3> HIDE DEF e
    <3>2. f[a] \in Accs(obs)
      BY <1>1, <3>1 DEF Verified
    <3>3. QED
      BY <3>2 DEF Accs
  <2>3. QED
    BY <2>1, <2>2
<1>6. e \in Embeddings(obs, workflow)
  <2>1. e \in [DOMAIN workflow.steps -> DOMAIN obs] /\ DOMAIN e = 1..N
    BY <1>2, <1>4
  <2> HIDE DEF e
  <2>2. QED
    BY <1>4, <1>5, <2>1 DEF Embeddings
<1>7. Together(obs, workflow.correlation, e)
  <2> DEFINE ids == {Correlation(obs[e[a]]) : a \in DOMAIN e}
             c == f[N].correlation
  <2>1. CASE workflow.correlation \in {"prefer", "required"}
    <3>1. \A a \in 1..N : /\ Correlation(obs[e[a]]) \in {"", c}
                          /\ workflow.correlation = "required" => Correlation(obs[e[a]]) # ""
      <4>1. OneMet(f, obs, workflow, N)
        <5> HIDE DEF e
        <5> QED
          BY <1>1, <1>3, <2>1, OneCorrelation
      <4>2. QED
        BY <4>1 DEF OneMet
    <3>2. ids \subseteq {"", c} /\ (workflow.correlation = "required" => "" \notin ids)
      BY <3>1
    <3> HIDE DEF ids, c
    <3>3. ids \ {""} \in SUBSET {c}
      BY <3>2
    <3>4. IsFiniteSet({c}) /\ Cardinality({c}) = 1
      BY FS_Singleton
    <3>5. Cardinality(ids \ {""}) <= 1
      BY <3>3, <3>4, FS_Subset
    <3>6. workflow.correlation = "required" => ids = ids \ {""}
      BY <3>2
    <3>7. workflow.correlation = "required" => "" \notin ids /\ Cardinality(ids) <= 1
      BY <3>2, <3>5, <3>6
    <3>8. QED
      BY <2>1, <3>5, <3>7 DEF Together, ids
  <2>2. CASE workflow.correlation \notin {"prefer", "required"}
    BY <2>2 DEF Together
  <2>3. QED
    BY <2>1, <2>2
<1>8. InTime(obs, workflow, e)
  <2> SUFFICES ASSUME NEW a \in 1..N, a > 1, workflow.steps[a].within > 0
               PROVE  obs[e[a]].at - obs[e[a - 1]].at <= workflow.steps[a].within
    BY DEF InTime
  <2>1. a - 1 \in 1..N
    BY <1>2
  <2>2. e[a] = f[a].cursor - 1 /\ e[a - 1] = f[a - 1].cursor - 1
    BY <2>1
  <2>3. f[a - 1].previous = obs[e[a - 1]].at
    BY <1>3, <2>1, <2>2 DEF TookInTime
  <2>4. f[a - 1].previous # 0 =>
          ~(obs[e[a]].at - f[a - 1].previous > workflow.steps[a].within)
    BY <1>3, <2>2 DEF TookInTime
  <2>5. obs[e[a]].at \in Nat \ {0} /\ obs[e[a - 1]].at \in Nat \ {0}
    BY <1>4, <2>1 DEF Timed
  <2>6. workflow.steps[a].within \in Nat
    BY <1>2
  <2> HIDE DEF e
  <2>7. QED
    BY <2>3, <2>4, <2>5, <2>6
<1>9. QED
  BY <1>6, <1>7, <1>8

\* Where no correlation is asked for, the step n takes an observation no later than
\* any choice of observations in order does.
Ahead(f, e, n) == ~f[n].missing /\ (IF n = 0 THEN f[n].cursor = 1 ELSE f[n].cursor <= e[n] + 1)

LEMMA GreedyStaysAhead ==
  ASSUME NEW obs, Timed(obs), NEW workflow, NEW f, Verified(f, obs, workflow),
         workflow.correlation = "none", NEW e \in Embeddings(obs, workflow)
  PROVE  \A n \in 0..Len(workflow.steps) : Ahead(f, e, n)
<1> DEFINE N == Len(workflow.steps)
           P == {n \in Nat : n <= N => Ahead(f, e, n)}
<1>1. N \in Nat /\ DOMAIN workflow.steps = 1..N
  BY DEF Verified
<1>2. /\ e \in [1..N -> DOMAIN obs]
      /\ \A a, b \in 1..N : a < b => e[a] < e[b]
      /\ \A a \in 1..N : Matches(workflow.steps[a], obs[e[a]])
  BY <1>1 DEF Embeddings
<1>3. 0 \in P
  <2>1. f[0] = AtFirst
    BY DEF Verified
  <2>2. f[0].cursor = 1 /\ f[0].missing = FALSE
    <3>1. AtFirst.cursor = 1 /\ AtFirst.missing = FALSE
      BY DEF AtFirst
    <3>2. QED
      BY <2>1, <3>1
  <2>3. Ahead(f, e, 0)
    BY <2>2 DEF Ahead
  <2>4. QED
    BY <2>3
<1>4. ASSUME NEW n \in P
      PROVE  n + 1 \in P
  <2> SUFFICES ASSUME n + 1 <= N
               PROVE  Ahead(f, e, n + 1)
    OBVIOUS
  <2>1. n \in Nat /\ n <= N /\ n \in 0..N /\ n + 1 \in 1..N /\ (n + 1) - 1 = n /\ n + 1 # 0
    BY <1>1
  <2>2. Ahead(f, e, n)
    BY <2>1
  <2> HIDE DEF P
  <2> DEFINE prior == f[n]
             next  == f[n + 1]
             step  == workflow.steps[n + 1]
             m     == e[n + 1]
             mode  == workflow.correlation
             candidates == Candidates(obs, mode, prior, step)
  <2>3. prior \in Accs(obs) /\ next = Advance(obs, mode, prior, step)
    <3>1. f[n + 1] = Advance(obs, workflow.correlation, f[(n + 1) - 1], workflow.steps[n + 1])
      BY <2>1 DEF Verified
    <3>2. prior \in Accs(obs)
      BY <2>1 DEF Verified
    <3>3. QED
      BY <2>1, <3>1, <3>2
  <2>4. m \in DOMAIN obs /\ Matches(step, obs[m])
    BY <1>2, <2>1
  <2>5. prior.cursor \in Nat /\ m \in 1..Len(obs) /\ Len(obs) \in Nat
    BY <2>3, <2>4 DEF Accs, Timed
  <2>6. prior.cursor <= m
    <3>1. CASE n = 0
      BY <2>2, <2>5, <3>1 DEF Ahead
    <3>2. CASE n # 0
      <4>1. n \in 1..N /\ n < n + 1
        BY <2>1, <3>2
      <4>2. e[n] < m /\ e[n] \in DOMAIN obs
        BY <1>2, <2>1, <4>1
      <4>3. e[n] \in Nat
        BY <4>2 DEF Timed
      <4>4. prior.cursor <= e[n] + 1
        BY <2>2, <3>2 DEF Ahead
      <4> HIDE DEF prior, m
      <4>5. QED
        BY <2>5, <4>2, <4>3, <4>4
    <3>3. QED
      BY <3>1, <3>2
  <2>7. ~prior.missing
    BY <2>2 DEF Ahead
  <2> HIDE DEF prior, next, step, m, mode
  <2>8. m \in candidates
    BY <2>4, <2>5, <2>6 DEF Candidates, Correlated, mode
  <2>9. PICK k : Takes(obs, mode, prior, step, next, k)
    <3>1. ~prior.missing /\ Candidates(obs, mode, prior, step) # {}
            => \E k : Takes(obs, mode, prior, step, next, k)
      BY <2>3, AdvanceOutcome
    <3>2. QED
      BY <2>7, <2>8, <3>1
  <2>10. k <= m /\ next.cursor = k + 1 /\ ~next.missing
    BY <2>8, <2>9 DEF Takes
  <2>11. k \in Nat
    <3>1. k \in prior.cursor..Len(obs)
      BY <2>9 DEF Takes, Candidates
    <3>2. QED
      BY <2>5, <3>1
  <2>12. next.cursor <= m + 1
    BY <2>5, <2>10, <2>11
  <2>13. QED
    BY <2>1, <2>10, <2>12 DEF Ahead, next, m
<1>5. P \in SUBSET Nat
  OBVIOUS
<1> HIDE DEF P
<1>6. \A n \in Nat : n \in P
  BY <1>3, <1>4, <1>5, SetInduction
<1>7. QED
  BY <1>1, <1>6 DEF P

\* A step is reported missing only of a workflow that did not happen.
LEMMA VerifyComplete ==
  ASSUME NEW obs, Timed(obs), NEW workflow, IsSequence(workflow.steps),
         workflow.correlation = "none", Verify(obs, workflow).missing
  PROVE  Embeddings(obs, workflow) = {}
<1> SUFFICES ASSUME NEW e \in Embeddings(obs, workflow)
             PROVE  FALSE
  OBVIOUS
<1>1. PICK f : Verified(f, obs, workflow)
  BY VerifyLoop
<1> DEFINE N == Len(workflow.steps)
<1>2. N \in Nat /\ f[N].missing
  BY <1>1 DEF Verified
<1>3. N \in 0..N
  BY <1>2
<1>4. Ahead(f, e, N)
  BY <1>1, <1>3, GreedyStaysAhead
<1>5. QED
  BY <1>2, <1>4 DEF Ahead

-----------------------------------------------------------------------------
(* The checks. *)

\* The directories hold logs at every moment, the archive and the bundle too.
LogsInv ==
  /\ IsLog(source["outbound.log"])
  /\ \A name \in Names : source[name] # Absent => IsLog(source[name])
  /\ sealer # "idle" => \A name \in Names : archive[name] # Absent => IsLog(archive[name])
  /\ bundle # Absent => \A name \in Names : bundle[name] # Absent => IsLog(bundle[name])

LEMMA LogsInit == Init => LogsInv
<1> SUFFICES ASSUME Init
             PROVE  LogsInv
  OBVIOUS
<1>1. source \in Sources /\ sealer = "idle" /\ bundle = Absent
  BY DEF Init
<1>2. source["outbound.log"] # Absent /\ \A name \in Names : source[name] # Absent => IsLog(source[name])
  BY <1>1, BundleAssumption
<1>3. IsLog(source["outbound.log"])
  BY <1>2 DEF Names
<1>4. QED
  BY <1>1, <1>2, <1>3 DEF LogsInv

LEMMA AppendIsLog ==
  ASSUME NEW file, IsLog(file)
  PROVE  IsLog([file EXCEPT !.events = Append(@, Later)])
<1> DEFINE events == file.events
           longer == Append(events, Later)
           S == {events[n] : n \in DOMAIN events} \cup {Later}
           T == {longer[n] : n \in DOMAIN longer}
<1>1. events \in Seq({events[n] : n \in DOMAIN events}) /\ "events" \in DOMAIN file
  BY DEF IsLog, IsSequence
<1>2. events \in Seq(S)
  BY <1>1
<1>3. longer \in Seq(S) /\ Later \in S
  BY <1>2
<1>4. Len(longer) \in Nat /\ DOMAIN longer = 1..Len(longer)
  BY <1>3
<1>5. longer \in Seq(T)
  <2> HIDE DEF longer, S
  <2>1. longer \in [1..Len(longer) -> S]
    BY <1>3
  <2>2. longer \in [1..Len(longer) -> T]
    BY <1>4, <2>1
  <2>3. QED
    BY <1>4, <2>2
<1>6. ASSUME NEW n \in DOMAIN longer
      PROVE  longer[n].at \in Nat \ {0} /\ longer[n].number \in Nat
  <2>1. \A m \in DOMAIN events : events[m].at \in Nat \ {0} /\ events[m].number \in Nat
    BY DEF IsLog
  <2>2. Later.at \in Nat \ {0} /\ Later.number \in Nat
    BY BundleAssumption
  <2>3. longer[n] \in S
    BY <1>3
  <2> HIDE DEF longer
  <2>4. QED
    BY <2>1, <2>2, <2>3
<1> DEFINE grown == [file EXCEPT !.events = Append(@, Later)]
<1>7. grown.events = longer /\ "events" \in DOMAIN grown
  BY <1>1
<1> HIDE DEF longer, grown
<1>8. IsLog(grown)
  BY <1>5, <1>6, <1>7 DEF IsLog, IsSequence
<1>9. QED
  BY <1>8 DEF grown

LEMMA LogsStep == LogsInv /\ SealInv /\ [Next]_vars => LogsInv'
<1> SUFFICES ASSUME LogsInv, SealInv, [Next]_vars
             PROVE  LogsInv'
  OBVIOUS
<1> USE DEF LogsInv, sealing, opening
<1>1. CASE Append1
  <2> DEFINE grown == [source["outbound.log"] EXCEPT !.events = Append(@, Later)]
  <2>1. source' = [source EXCEPT !["outbound.log"] = grown] /\ UNCHANGED <<sealer, archive, bundle>>
    BY <1>1 DEF Append1
  <2>2. IsLog(grown)
    BY AppendIsLog
  <2> HIDE DEF grown
  <2>3. /\ source'["outbound.log"] = grown
        /\ \A name \in Names : name # "outbound.log" => source'[name] = source[name]
    BY <2>1 DEF SealInv, Names
  <2>4. QED
    BY <2>1, <2>2, <2>3
<1>2. CASE StartSeal
  BY <1>2 DEF StartSeal, Empty
<1>3. CASE Copy
  <2>1. First(todo) \in Names /\ archive = [name \in Names |-> archive[name]]
    BY <1>3, FirstIsLeast DEF Copy, SealInv, IsDir
  <2>2. \A name \in Names : archive'[name] = IF name = First(todo) THEN source[name] ELSE archive[name]
    BY <1>3, <2>1 DEF Copy
  <2>3. QED
    BY <1>3, <2>2 DEF Copy
<1>4. CASE Rename
  BY <1>4 DEF Rename, StopSeal
<1>5. CASE Header \/ CopyTooLong \/ WriteTemp \/ Refuse \/ Stat \/ SealFails
  BY <1>5 DEF Header, CopyTooLong, WriteTemp, Refuse, Stat, SealFails, StopSeal
<1>6. CASE Open \/ CheckWorkflow \/ CheckStrictly \/ UNCHANGED vars
  <2>1. UNCHANGED source /\ UNCHANGED sealing
    BY <1>6 DEF Open, ReadBundle, RefuseDestination, Create, Write, Opened, OpenFails,
                CheckWorkflow, CheckStrictly, vars
  <2>2. QED
    BY <2>1
<1>7. QED
  BY <1>1, <1>2, <1>3, <1>4, <1>5, <1>6 DEF Next, Seal

\* A check was made of the directory that is there now: nothing changes it after.
CheckInv ==
  /\ seals \in Nat
  /\ seals = 0 => sealer = "idle" /\ bundle = Absent
  /\ check # NoCheck => sealer = "idle" /\ (seals = 0 \/ opener = "opened")
  /\ check.tool = "workflow" =>
       check.workflow \in Workflows /\ check.result = Verify(Observations(Checked), check.workflow)
  /\ check.tool = "strict" =>
       /\ check.allowWrites \in BOOLEAN /\ Checked["outbound.log"] # Absent
       /\ check.result = StrictReplay(Checked["outbound.log"], check.answers, check.allowWrites)

LEMMA CheckInit == Init => CheckInv
BY DEF Init, CheckInv, NoCheck

\* Between a check and the end nothing happens to a directory.
LEMMA CheckedStays ==
  ASSUME CheckInv, OpenInv, check # NoCheck, [Next]_vars
  PROVE  UNCHANGED <<source, sealer, bundle, seals, opener, dest, check>>
<1>1. sealer = "idle" /\ ((opener = "idle" /\ bundle = Absent) \/ opener = "opened")
  BY DEF CheckInv, OpenInv
<1>2. ~Append1 /\ ~Seal
  BY <1>1 DEF Append1, Seal, StartSeal, Header, Copy, CopyTooLong, WriteTemp, Refuse, Stat, Rename, SealFails
<1>3. ~Open
  BY <1>1 DEF Open, ReadBundle, RefuseDestination, Create, Write, Opened, OpenFails
<1>4. ~CheckWorkflow /\ ~CheckStrictly
  BY DEF CheckWorkflow, CheckStrictly, Checkable
<1>5. UNCHANGED vars
  BY <1>2, <1>3, <1>4 DEF Next
<1>6. QED
  BY <1>5 DEF vars

LEMMA CheckStep == CheckInv /\ OpenInv /\ [Next]_vars => CheckInv'
<1> SUFFICES ASSUME CheckInv, OpenInv, [Next]_vars
             PROVE  CheckInv'
  OBVIOUS
<1>1. CASE check # NoCheck
  <2>1. UNCHANGED <<source, sealer, bundle, seals, opener, dest, check>>
    BY <1>1, CheckedStays
  <2>2. Checked' = Checked
    BY <2>1 DEF Checked
  <2>3. QED
    BY <2>1, <2>2 DEF CheckInv
<1>2. CASE check = NoCheck
  <2>1. CASE CheckWorkflow
    <3>1. UNCHANGED <<source, sealer, bundle, seals, opener, dest>>
      BY <2>1 DEF CheckWorkflow, sealing, opening
    <3>2. Checked' = Checked
      BY <3>1 DEF Checked
    <3>3. PICK w \in Workflows :
            check' = [tool |-> "workflow", workflow |-> w, result |-> Verify(Observations(Checked), w)]
      BY <2>1 DEF CheckWorkflow
    <3>4. /\ check'.tool = "workflow" /\ check'.workflow = w
          /\ check'.result = Verify(Observations(Checked), w)
      BY <3>3
    <3>5. sealer = "idle" /\ (seals = 0 \/ opener = "opened")
      BY <2>1 DEF CheckWorkflow, Checkable, CheckInv
    <3>6. QED
      BY <3>1, <3>2, <3>4, <3>5 DEF CheckInv
  <2>2. CASE CheckStrictly
    <3>1. UNCHANGED <<source, sealer, bundle, seals, opener, dest>> /\ Checked["outbound.log"] # Absent
      BY <2>2 DEF CheckStrictly, sealing, opening
    <3>2. Checked' = Checked
      BY <3>1 DEF Checked
    <3>3. PICK answers \in Answers(Checked["outbound.log"]), allowWrites \in BOOLEAN :
            check' = [tool |-> "strict", answers |-> answers, allowWrites |-> allowWrites,
                      result |-> StrictReplay(Checked["outbound.log"], answers, allowWrites)]
      BY <2>2 DEF CheckStrictly
    <3>4. /\ check'.tool = "strict" /\ check'.answers = answers /\ check'.allowWrites = allowWrites
          /\ check'.result = StrictReplay(Checked["outbound.log"], answers, allowWrites)
      BY <3>3
    <3>5. sealer = "idle" /\ (seals = 0 \/ opener = "opened")
      BY <2>2 DEF CheckStrictly, Checkable, CheckInv
    <3>6. QED
      BY <3>1, <3>2, <3>4, <3>5 DEF CheckInv
  <2>3. CASE ~CheckWorkflow /\ ~CheckStrictly
    <3>1. check' = check
      BY <2>3 DEF Next, Append1, Seal, StartSeal, Header, Copy, CopyTooLong, WriteTemp, Refuse, Stat,
                  Rename, SealFails, Open, ReadBundle, RefuseDestination, Create, Write, Opened,
                  OpenFails, vars
    <3>2. check'.tool = "none"
      BY <1>2, <3>1 DEF NoCheck
    <3>3. seals' \in Nat /\ (seals' = 0 => sealer' = "idle" /\ bundle' = Absent)
      <4>1. CASE Seal
        <5>1. CASE StartSeal
          BY <5>1 DEF StartSeal, CheckInv
        <5>2. CASE ~StartSeal
          <6>1. sealer # "idle" /\ seals' = seals
            BY <4>1, <5>2 DEF Seal, Header, Copy, CopyTooLong, WriteTemp, Refuse, Stat, Rename, SealFails
          <6>2. QED
            BY <6>1 DEF CheckInv
        <5>3. QED
          BY <5>1, <5>2
      <4>2. CASE ~Seal
        <5>1. UNCHANGED <<sealer, bundle, seals>>
          BY <2>3, <4>2 DEF Next, Append1, Open, ReadBundle, RefuseDestination, Create, Write, Opened,
                            OpenFails, vars, sealing
        <5>2. QED
          BY <5>1 DEF CheckInv
      <4>3. QED
        BY <4>1, <4>2
    <3>4. QED
      BY <1>2, <3>1, <3>2, <3>3 DEF CheckInv
  <2>4. QED
    BY <2>1, <2>2, <2>3
<1>3. QED
  BY <1>1, <1>2

BundleInv == SealInv /\ OpenInv /\ LogsInv /\ CheckInv

LEMMA BundleInvHolds == Spec => []BundleInv
<1>1. Init => BundleInv
  BY SealInit, OpenInit, LogsInit, CheckInit DEF BundleInv
<1>2. BundleInv /\ [Next]_vars => BundleInv'
  BY SealStep, OpenStep, LogsStep, CheckStep DEF BundleInv
<1>3. QED
  BY <1>1, <1>2, PTL DEF Spec

\* What is checked is a directory of logs: where it was opened it is the bundle.
LEMMA CheckedHoldsLogs ==
  ASSUME BundleInv
  PROVE  HoldsLogs(Checked)
<1>1. CASE opener = "opened"
  <2>1. bundle # Absent /\ Checked = dest /\ IsDir(dest) /\ IsDir(contents) /\ contents = bundle
        /\ Present(dest) = Present(contents) /\ \A name \in Present(contents) : dest[name] = contents[name]
    BY <1>1 DEF Complete, BundleInv, OpenInv, SealInv, Checked
  <2>2. DOMAIN dest = Names /\ \A name \in Names : dest[name] # Absent => dest[name] = bundle[name]
    BY <2>1, PresentInDir DEF Present
  <2>3. QED
    BY <2>1, <2>2 DEF BundleInv, LogsInv, HoldsLogs
<1>2. CASE opener # "opened"
  BY <1>2 DEF BundleInv, SealInv, LogsInv, HoldsLogs, Checked
<1>3. QED
  BY <1>1, <1>2

\* A workflow verified without findings did happen, in the order of the times, with
\* one correlation and within the bounds, and where no correlation is asked for a
\* step that is reported as missing is missing (VerifyIncident, loadObserved).
THEOREM VerdictIsRight == Spec => []WorkflowVerdictIsRight
<1>1. BundleInv => WorkflowVerdictIsRight
  <2> SUFFICES ASSUME BundleInv, check.tool = "workflow"
               PROVE  WorkflowVerdictIsRight
    BY DEF WorkflowVerdictIsRight
  <2> DEFINE obs == Observations(Checked)
             w   == check.workflow
  <2>1. w \in Workflows /\ check.result = Verify(obs, w)
    BY DEF BundleInv, CheckInv
  <2>2. IsSequence(w.steps) /\ \A n \in DOMAIN w.steps : w.steps[n].within \in Nat
    BY <2>1, BundleAssumption
  <2>3. Timed(obs)
    BY CheckedHoldsLogs, ObservationsTimed
  <2> HIDE DEF obs, w
  <2>4. ASSUME ~check.result.missing, ~check.result.late
        PROVE  \E f \in Embeddings(obs, w) : Together(obs, w.correlation, f) /\ InTime(obs, w, f)
    BY <2>1, <2>2, <2>3, <2>4, VerifySound
  <2>5. ASSUME w.correlation = "none", check.result.missing
        PROVE  Embeddings(obs, w) = {}
    BY <2>1, <2>2, <2>3, <2>5, VerifyComplete
  <2>6. \A a, b \in DOMAIN obs : a < b => obs[a].at <= obs[b].at
    BY <2>3 DEF Timed
  <2>7. QED
    BY <2>4, <2>5, <2>6 DEF WorkflowVerdictIsRight, obs, w
<1>2. QED
  BY <1>1, BundleInvHolds, PTL

\* A strict replay that passes has sent every call of the log and got the status
\* that was recorded, if the scanner got through; a write that was not allowed and
\* a body that is not the recorded one are never sent (NewReplayer, Replay).
THEOREM StrictPassCovers == Spec => []StrictPassIsComplete
<1>1. BundleInv => StrictPassIsComplete
  <2> SUFFICES ASSUME BundleInv, check.tool = "strict"
               PROVE  StrictPassIsComplete
    BY DEF StrictPassIsComplete
  <2> DEFINE file == Checked["outbound.log"]
             answers == check.answers
             allowWrites == check.allowWrites
             result == check.result
  <2>1. /\ allowWrites \in BOOLEAN /\ file # Absent
        /\ result = StrictReplay(file, answers, allowWrites)
    BY DEF BundleInv, CheckInv
  <2>2. IsLog(file)
    BY <2>1, CheckedHoldsLogs DEF HoldsLogs, Names
  <2> HIDE DEF file, answers, allowWrites, result
  <2>3. PassCovers(file, answers, allowWrites, result)
    BY <2>1, <2>2, StrictReplayCovers
  <2>4. QED
    BY <2>3 DEF StrictPassIsComplete, PassCovers, file, answers, allowWrites, result
<1>2. QED
  BY <1>1, BundleInvHolds, PTL

=============================================================================
