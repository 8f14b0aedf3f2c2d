------------------------ MODULE MatcherHealingProofs ------------------------
(***************************************************************************)
(* Proofs about pkg/heal, for any captured calls, fields, patterns,         *)
(* configurations, backup names and failures.                              *)
(*                                                                         *)
(* Backups: a name is only written that was free and is still free, and    *)
(* replay.yaml is replaced only after its content was backed up.           *)
(*                                                                         *)
(* Rules: what is written was validated against the samples, which do not  *)
(* change until the healer stops (DataInv); the rest follows from what     *)
(* analyzeGroup, mergeGeneratedRules and Matcher.Match compute.            *)
(***************************************************************************)
EXTENDS MatcherHealing, TLAPS, WellFoundedInduction, FiniteSetTheorems

Saved == {backups[i] : i \in DOMAIN backups}

BackupInv ==
  /\ pc = "backup" => backupPath \notin DOMAIN backups
  /\ pc = "promote" => existing = NoConfig \/ existing \in Saved
  /\ overwritten \subseteq Saved

LEMMA MinOfNaturals ==
  ASSUME NEW S \in SUBSET Nat, S # {}
  PROVE  Min(S) \in S
<1>1. PICK x \in S : \A y \in S : ~(<<y, x>> \in OpToRel(<, Nat))
  BY NatLessThanWellFounded, WFMin
<1>2. \A y \in S : ~(y < x)
  BY <1>1, Zenon DEF OpToRel
<1>3. \A y \in S : x =< y
  BY <1>2
<1>4. QED
  BY <1>3 DEF Min

(* nextBackupPath returns one of the names that are free. *)
LEMMA ChosenIsFree ==
  ASSUME ChooseBackup, pc' = "backup"
  PROVE  backupPath' \notin DOMAIN backups
<1> DEFINE free == 0..(MaxBackups - 1) \ DOMAIN backups
<1>1. free \in SUBSET Nat /\ free # {}
  BY HealingAssumption DEF ChooseBackup
<1>2. backupPath' = Min(free)
  BY <1>1 DEF ChooseBackup
<1>3. QED
  BY <1>1, <1>2, MinOfNaturals

LEMMA BackupInit == Init => BackupInv
BY DEF Init, BackupInv

LEMMA BackupStep == BackupInv /\ [Next]_vars => BackupInv'
<1> SUFFICES ASSUME BackupInv, [Next]_vars
             PROVE  BackupInv'
  OBVIOUS
<1> USE DEF BackupInv, Saved, files
<1>1. ASSUME NEW a \in BOOLEAN, NEW force \in BOOLEAN, Start(a, force)
      PROVE  BackupInv'
  BY <1>1 DEF Start
<1>2. CASE Analyze
  BY <1>2 DEF Analyze
<1>3. CASE Propose
  BY <1>3 DEF Propose
<1>4. CASE ReadActive
  BY <1>4 DEF ReadActive
<1>5. CASE ChooseBackup
  <2>1. UNCHANGED <<backups, overwritten>> /\ pc' \in {"idle", "backup"}
    BY <1>5 DEF ChooseBackup
  <2>2. QED
    BY <1>5, <2>1, ChosenIsFree
<1>6. CASE BackUp
  <2>1. /\ pc = "backup" /\ pc' = "promote"
        /\ backups' = [i \in DOMAIN backups \cup {backupPath} |->
                         IF i = backupPath THEN existing ELSE backups[i]]
        /\ overwritten' = overwritten /\ existing' = existing
    BY <1>6 DEF BackUp
  <2>2. backupPath \notin DOMAIN backups
    BY <2>1
  <2>3. existing \in Saved' /\ Saved \subseteq Saved'
    BY <2>1, <2>2
  <2>4. QED
    BY <2>1, <2>3
<1>7. CASE Promote
  BY <1>7 DEF Promote
<1>8. CASE WriteReports \/ Abort
  BY <1>8 DEF WriteReports, Abort, Exit
<1>9. ASSUME NEW cfg \in UserConfigs, Edit(cfg)
      PROVE  BackupInv'
  BY <1>9 DEF Edit
<1>10. ASSUME NEW call \in Calls, Capture(call)
       PROVE  BackupInv'
  BY <1>10 DEF Capture
<1>11. CASE UNCHANGED vars
  BY <1>11 DEF vars
<1>12. QED
  BY <1>1, <1>2, <1>3, <1>4, <1>5, <1>6, <1>7, <1>8, <1>9, <1>10, <1>11 DEF Next, Heal

(* What --apply replaced in replay.yaml is in some backup for good, whatever
   failed or died in between: Run, nextBackupPath and writeAtomic of heal.go. *)
THEOREM NothingIsLost == Spec => []NoConfigLost
<1>1. BackupInv => NoConfigLost
  BY DEF BackupInv, NoConfigLost, Saved
<1>2. QED
  BY <1>1, BackupInit, BackupStep, PTL DEF Spec

-----------------------------------------------------------------------------
(* What a configuration holds once it was validated, and until the healer   *)
(* stops: no sample is added meanwhile, so it stays true of the samples.    *)

HasRules(cfg) ==
  /\ "rules" \in DOMAIN cfg
  /\ \E S : cfg.rules \in Seq(S)

\* A rule was inferred from the samples there are.
Inferred(rule) == rule \in GeneratedRules

Validated ==
  /\ HasRules(data)
  /\ Buildable(data)
  /\ ~Ambiguous(data)
  /\ \A i \in DOMAIN data.rules : data.rules[i].heal => Inferred(data.rules[i])

DataInv ==
  /\ samples \in Seq(Calls)
  /\ active # NoConfig => HasRules(active)
  /\ pc \in {"propose", "read", "choose", "backup", "promote"} => Validated

LEMMA ImageFinite ==
  ASSUME NEW S, IsFiniteSet(S), NEW f
  PROVE  IsFiniteSet({f[x] : x \in S})
<1> DEFINE T == {f[x] : x \in S}
           g == [x \in S |-> f[x]]
<1>1. g \in Surjection(S, T)
  BY DEF Surjection
<1>2. QED
  BY <1>1, FS_Surjection, Zenon

(* The keys, and so the generated rules, are finitely many. *)
LEMMA RulesFinite ==
  ASSUME samples \in Seq(Calls)
  PROVE  IsFiniteSet(GeneratedRules) /\ Cardinality(GeneratedRules) \in Nat
<1> DEFINE key == [i \in DOMAIN samples |-> Key(samples[i])]
           rule == [k \in Keys |-> AnalyzeGroup(k)]
<1>1. IsFiniteSet(DOMAIN samples)
  BY FS_Interval
<1>2. Keys = {key[i] : i \in DOMAIN samples}
  BY DEF Keys
<1>3. IsFiniteSet(Keys)
  <2> HIDE DEF key
  <2>1. QED
    BY <1>1, <1>2, ImageFinite
<1>4. {AnalyzeGroup(k) : k \in Keys} = {rule[k] : k \in Keys}
  OBVIOUS
<1>5. IsFiniteSet({rule[k] : k \in Keys})
  <2> HIDE DEF rule
  <2>1. QED
    BY <1>3, ImageFinite
<1>6. IsFiniteSet(GeneratedRules)
  BY <1>4, <1>5, FS_Subset, Zenon DEF GeneratedRules
<1>7. QED
  BY <1>6, FS_CardinalityType

(* What is left of the rules of a file are rules of the user. *)
LEMMA UserRulesKept ==
  ASSUME NEW S, NEW rules \in Seq(S), NEW user \in UserRules(rules)
  PROVE  user \in Seq({rule \in S : ~rule.heal})
<1> DEFINE kept == {i \in DOMAIN rules : ~rules[i].heal}
<1>1. PICK order \in SetToSeqs(kept) : user = [n \in DOMAIN order |-> rules[order[n]]]
  BY DEF UserRules
<1>2. IsFiniteSet(kept) /\ Cardinality(kept) \in Nat
  <2>1. IsFiniteSet(DOMAIN rules)
    BY FS_Interval
  <2>2. kept \subseteq DOMAIN rules
    OBVIOUS
  <2> HIDE DEF kept
  <2>3. QED
    BY <2>1, <2>2, FS_Subset, FS_CardinalityType
<1>3. order \in [1..Cardinality(kept) -> kept]
  BY DEF SetToSeqs
<1>4. \A i \in kept : rules[i] \in {rule \in S : ~rule.heal}
  OBVIOUS
<1> HIDE DEF kept
<1>5. user \in [1..Cardinality(kept) -> {rule \in S : ~rule.heal}]
  BY <1>1, <1>3, <1>4
<1>6. QED
  BY <1>2, <1>5

(* mergeGeneratedRules: rules of earlier healings go, new ones are inferred. *)
LEMMA MergedRules ==
  ASSUME samples \in Seq(Calls), NEW S, NEW rules \in Seq(S),
         NEW merged \in MergeGeneratedRules(rules)
  PROVE  /\ \E T : merged \in Seq(T)
         /\ \A i \in DOMAIN merged : merged[i].heal => Inferred(merged[i])
<1> DEFINE Users == {rule \in S : ~rule.heal}
<1>1. PICK both \in UserRules(rules) \X GeneratedInOrder : merged = both[1] \o both[2]
  BY DEF MergeGeneratedRules
<1>2. both[1] \in Seq(Users)
  BY <1>1, UserRulesKept
<1>3. Cardinality(GeneratedRules) \in Nat
  BY RulesFinite
<1>4. both[2] \in [1..Cardinality(GeneratedRules) -> GeneratedRules]
  BY <1>1 DEF GeneratedInOrder, SetToSeqs
<1>5. both[2] \in Seq(GeneratedRules)
  BY <1>3, <1>4
<1> HIDE DEF Users
<1>6. /\ merged \in Seq(Users \cup GeneratedRules)
      /\ DOMAIN merged = 1..Len(merged) /\ Len(merged) \in Nat
  BY <1>1, <1>2, <1>5
<1>7. ASSUME NEW i \in DOMAIN merged, merged[i].heal
      PROVE  Inferred(merged[i])
  <2>1. merged[i] \in Users \cup GeneratedRules
    BY <1>6
  <2>2. QED
    BY <2>1, <1>7 DEF Inferred, Users
<1>8. QED
  BY <1>6, <1>7

LEMMA AnalyzeValidates ==
  ASSUME DataInv, Analyze
  PROVE  pc' = "propose" => Validated'
<1>1. PICK rules \in MergeGeneratedRules(Base.rules) : data' = [Base EXCEPT !.rules = rules]
  BY DEF Analyze
<1>2. "rules" \in DOMAIN Base /\ \E S : Base.rules \in Seq(S)
  <2>1. Empty.rules \in Seq({})
    BY DEF Empty
  <2>2. QED
    BY <2>1 DEF DataInv, HasRules, Base, Empty
<1>3. data'.rules = rules /\ "rules" \in DOMAIN data'
  BY <1>1, <1>2
<1>4. samples \in Seq(Calls)
  BY DEF DataInv
<1>5. /\ \E T : rules \in Seq(T)
      /\ \A i \in DOMAIN rules : rules[i].heal => Inferred(rules[i])
  BY <1>2, <1>4, MergedRules
<1>6. samples' = samples
  BY DEF Analyze
<1>7. GeneratedRules' = GeneratedRules
  BY <1>6 DEF GeneratedRules, AnalyzeGroup, Keys, Group, Classify, CommonPatterns,
              CommonFields, FitsHeldOut
<1>8. pc' = "propose" => Buildable(data') /\ ~Ambiguous(data')
  BY DEF Analyze
<1>9. Ambiguous(data)' = Ambiguous(data')
  BY <1>6 DEF Ambiguous
<1>10. QED
  BY <1>3, <1>5, <1>7, <1>8, <1>9 DEF Validated, HasRules, Inferred

LEMMA DataInit == Init => DataInv
BY DEF Init, DataInv

LEMMA DataStep == DataInv /\ [Next]_vars => DataInv'
<1> SUFFICES ASSUME DataInv, [Next]_vars
             PROVE  DataInv'
  OBVIOUS
<1> USE DEF files
<1>0. ASSUME UNCHANGED <<samples, data>>
      PROVE  Validated' = Validated
  <2>1. GeneratedRules' = GeneratedRules
    BY <1>0 DEF GeneratedRules, AnalyzeGroup, Keys, Group, Classify, CommonPatterns,
                CommonFields, FitsHeldOut
  <2>2. Ambiguous(data)' = Ambiguous(data)
    BY <1>0 DEF Ambiguous
  <2>3. QED
    BY <1>0, <2>1, <2>2 DEF Validated, HasRules, Inferred
<1>1. ASSUME NEW a \in BOOLEAN, NEW force \in BOOLEAN, Start(a, force)
      PROVE  DataInv'
  BY <1>1 DEF Start, DataInv, HasRules
<1>2. CASE Analyze
  <2>1. pc' = "propose" => Validated'
    BY <1>2, AnalyzeValidates
  <2>2. pc' \in {"idle", "report", "propose"} /\ UNCHANGED <<samples, active>>
    BY <1>2 DEF Analyze
  <2>3. QED
    BY <2>1, <2>2 DEF DataInv, HasRules
<1>3. CASE Propose
  BY <1>0, <1>3 DEF Propose, DataInv, HasRules
<1>4. CASE ReadActive
  BY <1>0, <1>4 DEF ReadActive, DataInv, HasRules
<1>5. CASE ChooseBackup
  <2>1. /\ pc = "choose" /\ pc' \in {"idle", "backup"}
        /\ UNCHANGED <<samples, active, data>>
    BY <1>5 DEF ChooseBackup
  <2>2. QED
    BY <1>0, <2>1 DEF DataInv, HasRules
<1>6. CASE BackUp
  BY <1>0, <1>6 DEF BackUp, DataInv, HasRules
<1>7. CASE Promote
  <2>1. HasRules(data) /\ active' = data /\ pc' = "report" /\ UNCHANGED samples
    BY <1>7 DEF Promote, DataInv, Validated
  <2>2. QED
    BY <2>1 DEF DataInv, HasRules
<1>8. CASE WriteReports \/ Abort
  BY <1>8 DEF WriteReports, Abort, Exit, DataInv, HasRules
<1>9. ASSUME NEW cfg \in UserConfigs, Edit(cfg)
      PROVE  DataInv'
  <2>1. HasRules(cfg) /\ active' = cfg /\ UNCHANGED <<samples, data, pc>>
    BY <1>9, ConfigAssumption DEF Edit, HasRules
  <2>2. QED
    BY <1>0, <2>1 DEF DataInv, HasRules
<1>10. ASSUME NEW call \in Calls, Capture(call)
       PROVE  DataInv'
  BY <1>10 DEF Capture, DataInv, HasRules
<1>11. CASE UNCHANGED vars
  BY <1>0, <1>11 DEF vars, DataInv, HasRules
<1>12. QED
  BY <1>1, <1>2, <1>3, <1>4, <1>5, <1>6, <1>7, <1>8, <1>9, <1>10, <1>11 DEF Next, Heal

(* A file is only written with a configuration that was validated. *)
LEMMA OnlyValidatedIsWritten ==
  ASSUME DataInv, [Next]_vars, Writes
  PROVE  Validated /\ samples \in Seq(Calls)
<1>1. pc \in {"propose", "promote"}
  BY DEF Writes, Next, Heal, Start, Analyze, Propose, ReadActive, ChooseBackup, BackUp,
         Promote, WriteReports, Abort, Exit, Edit, Capture, vars, files
<1>2. QED
  BY <1>1 DEF DataInv

-----------------------------------------------------------------------------
(* What a written configuration accepts.                                    *)

(* A request that matches any capture matches itself, as a capture. *)
LEMMA SelfMatch ==
  ASSUME NEW cfg, NEW captured, NEW req, Match(cfg, captured, req)
  PROVE  Match(cfg, req, req)
<1>1. \A k, ignored : EqualExcept(k, req, req, ignored)
  BY DEF EqualExcept
<1>2. ASSUME NEW rule, MatchWithRule(cfg, rule, captured, req), req.method = captured.method
      PROVE  MatchWithRule(cfg, rule, req, req)
  BY <1>1, <1>2 DEF MatchWithRule, BodyMatches
<1>3. MatchByDefault(cfg, req, req)
  BY <1>1 DEF MatchByDefault
<1>4. QED
  BY <1>2, <1>3 DEF Match

(* A request that the rule accepts for a capture is accepted by a scenario step
   with the same rule. *)
LEMMA ScenarioAccepts ==
  ASSUME NEW cfg, Buildable(cfg), NEW captured, NEW req \in Calls,
         NEW rule \in RuleFor(cfg.rules, req, req.escaped), Match(cfg, captured, req)
  PROVE  MatchRule(rule, req)
<1>1. MatchWithRule(cfg, rule, captured, req) /\ Selects(rule, req, req.escaped)
  BY DEF Match, RuleFor
<1>2. rule.grpcMethod \in GrpcMethods \cup {Unset}
  BY DEF RuleFor, Buildable
<1>3. rule.grpcMethod # Unset => rule.grpcMethod = req.path
  BY <1>1, <1>2, CallAssumption DEF Selects
<1>4. Selects(rule, req, req.path)
  BY <1>1, <1>3 DEF Selects, MatchWithRule
<1>5. RegexesAccept("json", rule, req)
  BY <1>1 DEF MatchWithRule, BodyMatches, NeedsBody, RegexesAccept
<1>6. QED
  BY <1>1, <1>4, <1>5 DEF MatchRule, MatchWithRule, BodyMatches, NeedsBody

LEMMA GroupFinite ==
  ASSUME samples \in Seq(Calls), NEW key
  PROVE  Cardinality(Group(key)) \in Nat
<1>1. IsFiniteSet(DOMAIN samples) /\ Group(key) \subseteq DOMAIN samples
  BY FS_Interval DEF Group
<1>2. QED
  BY <1>1, FS_Subset, FS_CardinalityType

(* Every group has a first observation. *)
LEMMA MinOfGroup ==
  ASSUME samples \in Seq(Calls), NEW key, Group(key) # {}
  PROVE  Min(Group(key)) \in Group(key)
<1>1. Group(key) \in SUBSET Nat
  BY DEF Group
<1>2. QED
  BY <1>1, MinOfNaturals

(* What analyzeGroup accepts for a field is allowlisted, not protected, and fits
   every observation of the group, the one held out included. *)
LEMMA InferredFrom ==
  ASSUME samples \in Seq(Calls), NEW rule, Inferred(rule)
  PROVE  LET items == Group(rule.key)
         IN  /\ rule.key \in Keys
             /\ rule = AnalyzeGroup(rule.key)
             /\ Cardinality(items) >= MinSamples
             /\ DOMAIN rule.regex =
                  {f \in CommonFields(items) : Classify(items, f) # {}}
<1>1. PICK key \in Keys : rule = AnalyzeGroup(key) /\ DOMAIN rule.regex # {}
  BY DEF Inferred, GeneratedRules
<1>2. rule.key = key
  BY <1>1 DEF AnalyzeGroup
<1> DEFINE items == Group(key)
           fields == IF Cardinality(items) < MinSamples THEN {}
                     ELSE {f \in CommonFields(items) : Classify(items, f) # {}}
<1>3. DOMAIN rule.regex = fields
  BY <1>1 DEF AnalyzeGroup
<1>4. ~(Cardinality(items) < MinSamples)
  BY <1>1, <1>3
<1>5. Cardinality(items) >= MinSamples
  BY <1>4, GroupFinite, HealingAssumption
<1>6. QED
  BY <1>1, <1>2, <1>3, <1>4, <1>5

(* The sets of the members and of the fields of a generated rule. *)
LEMMA InferredRule ==
  ASSUME samples \in Seq(Calls), NEW rule, Inferred(rule)
  PROVE  LET items == Group(rule.key)
         IN  /\ rule.heal /\ rule.ignored = {} /\ rule.grpcMethod = Unset
             /\ rule.methods = {samples[Min(items)].method}
             /\ rule.hosts = {samples[Min(items)].host}
             /\ rule.paths = {samples[Min(items)].path}
             /\ rule.compare = IF DOMAIN rule.regex \cap Of("json") = {} THEN {} ELSE {"json"}
             /\ \A f \in DOMAIN rule.regex :
                  rule.regex[f] = UNION {Accepts(p) : p \in Classify(items, f)}
<1> DEFINE items == Group(rule.key)
           fields == {f \in CommonFields(items) : Classify(items, f) # {}}
<1>1. rule = AnalyzeGroup(rule.key) /\ Cardinality(items) >= MinSamples /\ DOMAIN rule.regex = fields
  BY InferredFrom
<1>2. ~(Cardinality(items) < MinSamples)
  BY <1>1, GroupFinite, HealingAssumption
<1>3. QED
  BY <1>1, <1>2 DEF AnalyzeGroup

(* The fields of a generated rule: allowlisted, not protected, in every sample
   of its group, with a pattern that fits all of them. *)
LEMMA InferredField ==
  ASSUME samples \in Seq(Calls), NEW rule, Inferred(rule), NEW f \in DOMAIN rule.regex
  PROVE  /\ f \in (Volatile \ Protected) \cap (Fields \ Of("protobuf"))
         /\ \A i \in Group(rule.key) : Has(samples[i], f) /\ samples[i].at[f] \in rule.regex[f]
<1> DEFINE items == Group(rule.key)
<1>1. f \in CommonFields(items) /\ Classify(items, f) # {}
  BY InferredFrom
<1>2. PICK p \in Classify(items, f) : TRUE
  BY <1>1
<1>3. /\ p \in CommonPatterns(items, f) /\ f \notin Protected
      /\ p \in Fits[samples[Max(items)].at[f]]
  BY <1>2 DEF Classify, FitsHeldOut
<1>4. /\ f \in Volatile
      /\ \A i \in items \ {Max(items)} : p \in Fits[samples[i].at[f]]
  BY <1>3 DEF CommonPatterns
<1>5. \A i \in items : p \in Fits[samples[i].at[f]]
  BY <1>3, <1>4
<1>6. f \in Fields \ Of("protobuf") /\ \A i \in items : Has(samples[i], f)
  BY <1>1 DEF CommonFields
<1>7. ASSUME NEW i \in items
      PROVE  samples[i].at[f] \in rule.regex[f]
  <2>1. samples[i] \in Calls
    BY DEF Group
  <2>2. samples[i].at[f] \in DOMAIN Fits
    BY <2>1, <1>6, CallAssumption
  <2>3. samples[i].at[f] \in Accepts(p)
    BY <2>2, <1>5 DEF Accepts
  <2>4. rule.regex[f] = UNION {Accepts(q) : q \in Classify(items, f)}
    BY InferredRule
  <2>5. QED
    BY <1>2, <2>3, <2>4
<1>8. QED
  BY <1>3, <1>4, <1>6, <1>7

(* A generated rule says nothing of a Protobuf body, and of a JSON body only if it
   has a pattern for one of its fields. *)
LEMMA InferredBody ==
  ASSUME samples \in Seq(Calls), NEW rule, Inferred(rule)
  PROVE  /\ ~NeedsBody("protobuf", rule)
         /\ NeedsBody("json", rule) <=> DOMAIN rule.regex \cap Of("json") # {}
<1>1. rule.compare = IF DOMAIN rule.regex \cap Of("json") = {} THEN {} ELSE {"json"}
  BY InferredRule
<1>2. DOMAIN rule.regex \cap Of("protobuf") = {}
  BY InferredField
<1>3. QED
  BY <1>1, <1>2 DEF NeedsBody

(* A recorded request that the rule of its own group governs matches its own
   capture if the matcher finds the fields of the rule. *)
LEMMA InferredAcceptsOwn ==
  ASSUME samples \in Seq(Calls), NEW cfg, NEW rule, Inferred(rule),
         NEW i \in DOMAIN samples, rule.key = Key(samples[i]),
         Selects(rule, samples[i], samples[i].escaped),
         DOMAIN rule.regex \cap Lost = {}
  PROVE  MatchWithRule(cfg, rule, samples[i], samples[i])
<1> DEFINE call == samples[i]
           items == Group(rule.key)
<1>1. i \in items /\ call \in Calls
  BY DEF Group
<1>2. \A k, ignored : EqualExcept(k, call, call, ignored)
  BY DEF EqualExcept
<1>3. \A f \in DOMAIN rule.regex :
        f \in Fields \ Of("protobuf") /\ Has(call, f) /\ call.at[f] \in rule.regex[f]
  BY <1>1, InferredField
<1>4. \A k : RegexesAccept(k, rule, call)
  BY <1>3 DEF RegexesAccept, Of, Found
<1>6. ~NeedsBody("protobuf", rule)
  BY InferredBody
<1>7. NeedsBody("json", rule) => call.body = "json"
  BY <1>1, <1>3, InferredBody, CallAssumption
<1>8. BodyMatches("json", cfg, rule, call, call) /\ BodyMatches("protobuf", cfg, rule, call, call)
  BY <1>2, <1>4, <1>6, <1>7 DEF BodyMatches
<1>9. rule.paths = {call.path}
  <2>1. rule.paths = {samples[Min(items)].path}
    BY InferredRule
  <2>2. \A j \in items : samples[j].path = call.path
    BY DEF Group, Key
  <2>3. Min(items) \in items
    BY <1>1, MinOfGroup
  <2>4. QED
    BY <2>1, <2>2, <2>3
<1>10. QED
  BY <1>2, <1>4, <1>8, <1>9 DEF MatchWithRule, Selects

(* It matches nothing if the matcher does not find one of them. *)
LEMMA LostMatchesNothing ==
  ASSUME NEW cfg, NEW rule, DOMAIN rule.regex \subseteq Fields \ Of("protobuf"),
         NEW captured, NEW req, MatchWithRule(cfg, rule, captured, req)
  PROVE  DOMAIN rule.regex \cap Lost = {}
<1> SUFFICES ASSUME NEW f \in DOMAIN rule.regex \cap Lost
             PROVE  FALSE
  OBVIOUS
<1>1. f \in Of("json")
  BY MatcherAssumption DEF Of
<1>2. NeedsBody("json", rule)
  BY <1>1 DEF NeedsBody
<1>3. RegexesAccept("json", rule, req)
  BY <1>2 DEF MatchWithRule, BodyMatches
<1>4. Found(req, f)
  BY <1>1, <1>3 DEF RegexesAccept
<1>5. QED
  BY <1>4 DEF Found

(* Any request that a generated rule governs: a scenario step with the rule
   accepts it just if it matches itself as a capture. *)
LEMMA ScenarioExact ==
  ASSUME samples \in Seq(Calls), NEW cfg, Buildable(cfg), NEW req \in Calls,
         NEW rule \in RuleFor(cfg.rules, req, req.escaped), Inferred(rule),
         MatchRule(rule, req)
  PROVE  MatchWithRule(cfg, rule, req, req)
<1>1. Selects(rule, req, req.path) /\ Selects(rule, req, req.escaped)
  BY DEF MatchRule, RuleFor
<1>2. \A k, ignored : EqualExcept(k, req, req, ignored)
  BY DEF EqualExcept
<1>3. BodyMatches("json", cfg, rule, req, req) /\ BodyMatches("protobuf", cfg, rule, req, req)
  BY <1>2, InferredBody DEF MatchRule, BodyMatches
<1>4. QED
  BY <1>1, <1>2, <1>3 DEF MatchWithRule, MatchRule, Selects

(* The rule that governs a request is one. *)
LEMMA OneRule ==
  ASSUME NEW cfg, HasRules(cfg), NEW req,
         NEW rule \in RuleFor(cfg.rules, req, req.escaped),
         NEW other \in RuleFor(cfg.rules, req, req.escaped)
  PROVE  other = rule
<1>1. \A m, n \in DOMAIN cfg.rules : m <= n /\ n <= m => m = n
  BY DEF HasRules
<1>2. QED
  BY <1>1 DEF RuleFor

-----------------------------------------------------------------------------
(* The properties of what is written.                                       *)

LEMMA ImplWritten ==
  ASSUME DataInv, [Next]_vars, Writes
  PROVE  /\ \A i, j \in DOMAIN samples :
              Match(data, samples[j], samples[i]) => samples[j].response = samples[i].response
         /\ \A req \in Calls : \A rule \in RuleFor(data.rules, req, req.escaped) :
              /\ \A j \in DOMAIN samples : Match(data, samples[j], req) => MatchRule(rule, req)
              /\ rule.heal => (MatchRule(rule, req) <=> Match(data, req, req))
<1>1. Validated /\ samples \in Seq(Calls)
  BY OnlyValidatedIsWritten
<1>2. ASSUME NEW i \in DOMAIN samples, NEW j \in DOMAIN samples,
             Match(data, samples[j], samples[i])
      PROVE  samples[j].response = samples[i].response
  <2>1. Match(data, samples[i], samples[i])
    BY <1>2, SelfMatch
  <2>2. QED
    BY <1>1, <1>2, <2>1 DEF Validated, Ambiguous
<1>3. ASSUME NEW req \in Calls, NEW rule \in RuleFor(data.rules, req, req.escaped)
      PROVE  /\ \A j \in DOMAIN samples : Match(data, samples[j], req) => MatchRule(rule, req)
             /\ rule.heal => (MatchRule(rule, req) <=> Match(data, req, req))
  <2>1. \A captured : Match(data, captured, req) => MatchRule(rule, req)
    BY <1>1, <1>3, ScenarioAccepts DEF Validated
  <2>2. ASSUME rule.heal, MatchRule(rule, req)
        PROVE  Match(data, req, req)
    <3>1. Inferred(rule)
      BY <1>1, <1>3, <2>2 DEF Validated, RuleFor
    <3>2. MatchWithRule(data, rule, req, req)
      BY <1>1, <1>3, <2>2, <3>1, ScenarioExact DEF Validated
    <3>3. \A other \in RuleFor(data.rules, req, req.escaped) : other = rule
      BY <1>1, <1>3, OneRule DEF Validated
    <3>4. QED
      BY <1>3, <3>2, <3>3 DEF Match
  <2>3. QED
    BY <2>1, <2>2
<1>4. QED
  BY <1>2, <1>3

(* A request that matches a recorded call under a configuration that healing
   wrote is answered as it was recorded: ambiguityCount tries only recorded
   requests, and that is enough for them because a request that matches any
   capture matches its own. *)
THEOREM HealedAnswersAsRecorded == Spec => AnswersAsRecorded
<1>1. DataInv /\ [Next]_vars =>
        [Writes => \A i, j \in DOMAIN samples :
           Match(data, samples[j], samples[i]) => samples[j].response = samples[i].response]_vars
  BY ImplWritten
<1>2. QED
  BY <1>1, DataInit, DataStep, PTL DEF Spec, AnswersAsRecorded

(* Whatever request an application may send: a scenario step with the rule that
   governs it accepts it if it matches a capture, and, with a generated rule, just
   if it matches itself (Matcher.Match and RuleMatcher.Match). *)
THEOREM ScenarioFollowsMatcher == Spec => ScenarioAgrees
<1>1. DataInv /\ [Next]_vars =>
        [Writes => \A req \in Calls : \A rule \in RuleFor(data.rules, req, req.escaped) :
           /\ \A j \in DOMAIN samples : Match(data, samples[j], req) => MatchRule(rule, req)
           /\ rule.heal => (MatchRule(rule, req) <=> Match(data, req, req))]_vars
  BY ImplWritten
<1>2. QED
  BY <1>1, DataInit, DataStep, PTL DEF Spec, ScenarioAgrees

LEMMA InferredRelaxes ==
  ASSUME DataInv, [Next]_vars, Writes,
         NEW i \in DOMAIN samples, NEW req \in Calls,
         NEW rule \in RuleFor(data.rules, req, req.escaped),
         rule.heal, Match(data, samples[i], req),
         NEW f \in Of("query") \cup (Of("json") \cap UNION {Of(k) : k \in rule.compare})
  PROVE  req.at[f] = samples[i].at[f] \/ f \in (Volatile \ Protected) \cup data.ignored
<1>1. Validated /\ samples \in Seq(Calls)
  BY OnlyValidatedIsWritten
<1>2. Inferred(rule)
  BY <1>1 DEF Validated, RuleFor
<1>3. MatchWithRule(data, rule, samples[i], req)
  BY DEF Match
<1>4. Ignored(data, rule) \subseteq (Volatile \ Protected) \cup data.ignored
  <2>1. rule.ignored = {}
    BY <1>1, <1>2, InferredRule
  <2>2. DOMAIN rule.regex \subseteq Volatile \ Protected
    BY <1>1, <1>2, InferredField
  <2>3. QED
    BY <2>1, <2>2 DEF Ignored
<1>5. CASE f \in Of("query")
  BY <1>3, <1>4, <1>5 DEF MatchWithRule, EqualExcept
<1>6. CASE f \in Of("json") \cap UNION {Of(k) : k \in rule.compare}
  <2>1. "json" \in rule.compare
    BY <1>6 DEF Of
  <2>2. EqualExcept("json", req, samples[i], Ignored(data, rule))
    BY <1>3, <2>1 DEF MatchWithRule, BodyMatches, NeedsBody
  <2>3. QED
    BY <1>4, <1>6, <2>2 DEF EqualExcept
<1>7. QED
  BY <1>5, <1>6

(* Whatever request an application may send: a generated rule accepts it for a
   capture only if the two agree on everything that is compared and neither
   volatile by name nor ignored by the user, protected fields included. *)
THEOREM OnlyVolatileIsRelaxed == Spec => RelaxesOnlyVolatile
<1>1. DataInv /\ [Next]_vars =>
        [Writes => \A i \in DOMAIN samples : \A req \in Calls :
           \A rule \in RuleFor(data.rules, req, req.escaped) :
             rule.heal /\ Match(data, samples[i], req) =>
               \A f \in Of("query") \cup (Of("json") \cap UNION {Of(k) : k \in rule.compare}) :
                 req.at[f] = samples[i].at[f] \/ f \in (Volatile \ Protected) \cup data.ignored]_vars
  BY InferredRelaxes
<1>2. QED
  BY <1>1, DataInit, DataStep, PTL DEF Spec, RelaxesOnlyVolatile

LEMMA RulesHaveEvidence ==
  ASSUME DataInv, [Next]_vars, Writes
  PROVE  /\ \A i \in DOMAIN data.rules : data.rules[i].heal => HasEvidence(data.rules[i])
         /\ \A i \in DOMAIN samples :
              \A rule \in RuleFor(data.rules, samples[i], samples[i].escaped) :
                Governs(rule, i)
                  => (MatchesOwnCapture(i) <=> DOMAIN rule.regex \cap Lost = {})
<1>1. Validated /\ samples \in Seq(Calls)
  BY OnlyValidatedIsWritten
<1>2. ASSUME NEW i \in DOMAIN data.rules, data.rules[i].heal
      PROVE  HasEvidence(data.rules[i])
  <2>1. Inferred(data.rules[i])
    BY <1>1, <1>2 DEF Validated
  <2>2. QED
    BY <1>1, <2>1, InferredFrom, InferredField DEF HasEvidence
<1>3. ASSUME NEW i \in DOMAIN samples,
             NEW rule \in RuleFor(data.rules, samples[i], samples[i].escaped),
             Governs(rule, i)
      PROVE  MatchesOwnCapture(i) <=> DOMAIN rule.regex \cap Lost = {}
  <2> DEFINE call == samples[i]
  <2>1. Inferred(rule) /\ Selects(rule, call, call.escaped) /\ rule.key = Key(call)
    BY <1>1, <1>3 DEF Validated, RuleFor, Governs
  <2>2. \A other \in RuleFor(data.rules, call, call.escaped) : other = rule
    BY <1>1, <1>3, OneRule DEF Validated
  <2>3. Match(data, call, call) <=> MatchWithRule(data, rule, call, call)
    BY <1>3, <2>2 DEF Match
  <2>4. DOMAIN rule.regex \subseteq Fields \ Of("protobuf")
    BY <1>1, <2>1, InferredField
  <2>5. DOMAIN rule.regex \cap Lost = {} => MatchWithRule(data, rule, call, call)
    BY <1>1, <1>3, <2>1, InferredAcceptsOwn
  <2>6. MatchWithRule(data, rule, call, call) => DOMAIN rule.regex \cap Lost = {}
    BY <2>4, LostMatchesNothing
  <2>7. QED
    BY <2>3, <2>5, <2>6 DEF MatchesOwnCapture
<1>4. QED
  BY <1>2, <1>3

(* Every generated rule that is written has the evidence of the samples there are
   now: enough of them, all fitting the patterns, the held-out one included; and
   it accepts the recorded requests of its own group for their own captures just
   if the matcher finds its fields at the paths the healer wrote. *)
THEOREM GeneratedRulesFit == Spec => HealRulesFit
<1>1. DataInv /\ [Next]_vars =>
        [Writes => /\ \A i \in DOMAIN data.rules : data.rules[i].heal => HasEvidence(data.rules[i])
                   /\ \A i \in DOMAIN samples :
                        \A rule \in RuleFor(data.rules, samples[i], samples[i].escaped) :
                          Governs(rule, i)
                            => (MatchesOwnCapture(i) <=> DOMAIN rule.regex \cap Lost = {})]_vars
  BY RulesHaveEvidence
<1>2. QED
  BY <1>1, DataInit, DataStep, PTL DEF Spec, HealRulesFit
=============================================================================
