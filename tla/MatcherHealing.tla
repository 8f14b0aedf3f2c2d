--------------------------- MODULE MatcherHealing ---------------------------
(***************************************************************************)
(* pkg/heal: rules for replay.yaml are inferred from the captured calls    *)
(* of an incident, written to replay.proposed.yaml and, with --apply, to   *)
(* replay.yaml, whose former content is saved under a new backup name.     *)
(* One healer runs at a time; it may fail or be killed between any two of  *)
(* its file operations, and further samples are captured between runs.     *)
(***************************************************************************)
EXTENDS SemanticMatcher, SequencesExt

CONSTANTS
  Calls,        (* captured calls: the request, and .response               *)
  MaxSamples,   (* bound on the captured calls of the incident              *)
  MinSamples,   (* --min-samples                                            *)
  MinScore,     (* --min-confidence, in percent                             *)
  Volatile,     (* fields whose name is allowlisted: request_id, nonce, ... *)
  Protected,    (* fields whose name is protected: tenant, price, ...       *)
  Fits,         (* the patterns each value fits                             *)
  Rank,         (* the order of the names of generated rules, by group      *)
  UserConfigs,  (* configurations the user saves as replay.yaml             *)
  NoConfig,     (* there is no such file                                    *)
  MaxBackups,   (* backup names tried                                       *)
  MaxRuns,      (* bound on runs of the healer                              *)
  MaxEdits      (* bound on saves by the user                               *)

ASSUME HealingAssumption ==
  /\ MaxSamples \in Nat /\ MaxRuns \in Nat /\ MaxEdits \in Nat
  /\ MinSamples \in Nat /\ MinSamples >= 2
  /\ MaxBackups \in Nat
  /\ NoConfig \notin UserConfigs

\* A value is Absent, or fits the patterns of Fits.  A body that has JSON fields
\* is JSON, and the path of a gRPC method, made of identifiers, is never escaped.
ASSUME CallAssumption ==
  \A call \in Calls :
    /\ call.at \in [Fields -> DOMAIN Fits]
    /\ (\E f \in Of("json") : Has(call, f)) => call.body = "json"
    /\ call.escaped \in GrpcMethods => call.path = call.escaped

\* What the user saves has a sequence of rules.
ASSUME ConfigAssumption ==
  \A cfg \in UserConfigs :
    /\ "rules" \in DOMAIN cfg
    /\ cfg.rules \in Seq({cfg.rules[i] : i \in DOMAIN cfg.rules})

VARIABLES
  samples,      (* captured calls, in the order of the outbound logs        *)
  active,       (* replay.yaml                                              *)
  proposed,     (* replay.proposed.yaml                                     *)
  backups,      (* replay.yaml.bak, .bak.1, ... that exist                  *)
  pc,           (* control point of the healer                              *)
  apply,        (* --apply                                                  *)
  data,         (* the configuration being written                          *)
  existing,     (* content of replay.yaml read for the backup               *)
  backupPath,   (* the backup name chosen                                   *)
  overwritten,  (* history: what Promote replaced                           *)
  runs, edits   (* bounded counters                                         *)

files == <<active, proposed, backups>>
vars  == <<samples, files, pc, apply, data, existing, backupPath, overwritten, runs, edits>>

-----------------------------------------------------------------------------
(* Inference.                                                              *)

\* Calls are grouped by method, lower-cased host with its port, and path.
Key(call)  == <<call.method, call.name, call.port, call.path>>
Keys       == {Key(samples[i]) : i \in DOMAIN samples}
Group(key) == {i \in DOMAIN samples : Key(samples[i]) = key}

\* The patterns in the order they are tried, and the confidence in each.
Patterns == <<"uuid", "rfc3339", "integer", "hex", "base64url">>
Score == [uuid |-> 99, rfc3339 |-> 99, integer |-> 97, hex |-> 98, base64url |-> 96]
Accepts(pattern) == {v \in DOMAIN Fits : pattern \in Fits[v]}

\* The first pattern that every value of the training observations fits; the
\* last observation of the group is held out.
CommonPatterns(items, f) ==
  LET fit == {p \in DOMAIN Patterns :
                \A i \in items \ {Max(items)} : Patterns[p] \in Fits[samples[i].at[f]]}
  IN  {Patterns[p] : p \in {q \in fit : f \in Volatile /\ \A r \in fit : q <= r}}

FitsHeldOut(items, f, p) == p \in Fits[samples[Max(items)].at[f]]

\* Mutant: protected names are not looked at.
ClassifyUnprotected(items, f) ==
  {p \in CommonPatterns(items, f) : FitsHeldOut(items, f, p) /\ Score[p] >= MinScore}

\* The accepted proposal for a field, if any: never for a protected field, and
\* only if the observation that was held out fits the pattern as well.
Classify(items, f) ==
  {p \in CommonPatterns(items, f) :
     f \notin Protected /\ FitsHeldOut(items, f, p) /\ Score[p] >= MinScore}

\* Fields of all observations whose values vary.
CommonFields(items) ==
  {f \in Fields \ Of("protobuf") :
     /\ \A i \in items : Has(samples[i], f)
     /\ \E i, j \in items : samples[i].at[f] # samples[j].at[f]}

\* The rule for a group.  Its host is spelled as in the first observation and
\* has no port; a JSON pattern makes it compare the rest of the body.  A JSON
\* field is written as the path of its keys, also where the matcher finds
\* nothing at that path.
AnalyzeGroup(key) ==
  LET items  == Group(key)
      first  == samples[Min(items)]
      fields == IF Cardinality(items) < MinSamples THEN {}
                ELSE {f \in CommonFields(items) : Classify(items, f) # {}}
  IN  [ heal |-> TRUE, key |-> key, methods |-> {first.method},
        hosts |-> {first.host}, paths |-> {first.path}, grpcMethod |-> Unset,
        regex |-> [f \in fields |-> UNION {Accepts(p) : p \in Classify(items, f)}],
        ignored |-> {},
        compare |-> IF fields \cap Of("json") = {} THEN {} ELSE {"json"} ]

GeneratedRules == {rule \in {AnalyzeGroup(k) : k \in Keys} : DOMAIN rule.regex # {}}

\* The generated rules in the order of their names.
GeneratedInOrder ==
  {rules \in SetToSeqs(GeneratedRules) :
     \A i, j \in DOMAIN rules : i < j => Rank[rules[i].key] < Rank[rules[j].key]}

\* Mutant: rules of earlier healings stay.
MergeKeepsStale(rules) == {rules \o generated : generated \in GeneratedInOrder}

\* The rules of the user in their order, without those of earlier healings.
UserRules(rules) ==
  LET kept == {i \in DOMAIN rules : ~rules[i].heal}
  IN  {[n \in DOMAIN order |-> rules[order[n]]] :
         order \in {o \in SetToSeqs(kept) : \A i, j \in DOMAIN o : i < j => o[i] < o[j]}}

\* Rules of the user stay in front; rules of earlier healings go.
MergeGeneratedRules(rules) ==
  {both[1] \o both[2] : both \in UserRules(rules) \X GeneratedInOrder}

\* Mutant: only the calls that share a group are compared.
AmbiguousInGroup(cfg) ==
  \E i, j, k \in DOMAIN samples :
    /\ Key(samples[i]) = Key(samples[j]) /\ Key(samples[i]) = Key(samples[k])
    /\ Match(cfg, samples[j], samples[i]) /\ Match(cfg, samples[k], samples[i])
    /\ samples[j].response # samples[k].response

\* Some recorded request matches calls that were answered differently.
Ambiguous(cfg) ==
  \E i \in DOMAIN samples :
    LET matching == {j \in DOMAIN samples : Match(cfg, samples[j], samples[i])}
    IN  \E j, k \in matching : samples[j].response # samples[k].response

Empty == [settings |-> 0, ignored |-> {}, descriptors |-> FALSE, rules |-> << >>]
Base  == IF active = NoConfig THEN Empty ELSE active

-----------------------------------------------------------------------------
(* Run, one action per file operation.                                     *)

\* Options, and the check that a proposal is not overwritten without --force;
\* an incident without outbound calls has no log to heal from.
Start(a, force) ==
  /\ pc = "idle" /\ pc' = "analyze"
  /\ runs < MaxRuns /\ runs' = runs + 1
  /\ proposed = NoConfig \/ force
  /\ samples # << >>
  /\ apply' = a
  /\ UNCHANGED <<samples, files, data, existing, backupPath, overwritten, edits>>

\* The configuration and the logs are read, groups analysed, rules merged and
\* every recorded request tried; an ambiguity ends the run with a report only.
Analyze ==
  /\ pc = "analyze"
  /\ \E rules \in MergeGeneratedRules(Base.rules) : data' = [Base EXCEPT !.rules = rules]
  /\ pc' = IF ~Buildable(data') THEN "idle"
           ELSE IF Ambiguous(data') THEN "report" ELSE "propose"
  /\ UNCHANGED <<samples, files, apply, existing, backupPath, overwritten, runs, edits>>

Propose ==
  /\ pc = "propose" /\ pc' = IF apply THEN "read" ELSE "report"
  /\ proposed' = data
  /\ UNCHANGED <<samples, active, backups, apply, data, existing, backupPath, overwritten, runs, edits>>

ReadActive ==
  /\ pc = "read" /\ pc' = IF active = NoConfig THEN "promote" ELSE "choose"
  /\ existing' = active
  /\ UNCHANGED <<samples, files, apply, data, backupPath, overwritten, runs, edits>>

\* Mutant: the first name is taken, whether it exists or not.
ChooseBackupFirst ==
  /\ pc = "choose" /\ pc' = "backup"
  /\ backupPath' = 0
  /\ UNCHANGED <<samples, files, apply, data, existing, overwritten, runs, edits>>

\* nextBackupPath: the first name that does not exist, or an error.
ChooseBackup ==
  LET free == 0..(MaxBackups - 1) \ DOMAIN backups
  IN  /\ pc = "choose" /\ pc' = IF free = {} THEN "idle" ELSE "backup"
      /\ backupPath' = IF free = {} THEN backupPath ELSE Min(free)
      /\ UNCHANGED <<samples, files, apply, data, existing, overwritten, runs, edits>>

\* The content that was read is written to the name that was free.
BackUp ==
  /\ pc = "backup" /\ pc' = "promote"
  /\ backups' = [i \in DOMAIN backups \cup {backupPath} |->
                   IF i = backupPath THEN existing ELSE backups[i]]
  /\ UNCHANGED <<samples, active, proposed, apply, data, existing, backupPath, overwritten, runs, edits>>

Promote ==
  /\ pc = "promote" /\ pc' = "report"
  /\ active' = data
  /\ overwritten' = overwritten \cup (({active} \cap {existing}) \ {NoConfig})
  /\ UNCHANGED <<samples, proposed, backups, apply, data, existing, backupPath, runs, edits>>

\* What the process knew is gone with it.
Exit ==
  /\ pc' = "idle"
  /\ apply' = FALSE /\ data' = Empty /\ existing' = NoConfig /\ backupPath' = 0

\* The reports are written, whatever the outcome was.
WriteReports ==
  /\ pc = "report" /\ Exit
  /\ UNCHANGED <<samples, files, overwritten, runs, edits>>

\* A file operation fails, or the process is killed: what writeAtomic was
\* writing has replaced the file or has not touched it.
Abort ==
  /\ pc \notin {"idle", "analyze"} /\ Exit
  /\ UNCHANGED <<samples, files, overwritten, runs, edits>>

-----------------------------------------------------------------------------
(* Between, and during, runs.                                              *)

\* The user saves a configuration.  What is saved after the healer has read
\* replay.yaml for the backup is replaced by Promote without a backup.
Edit(cfg) ==
  /\ edits < MaxEdits /\ edits' = edits + 1
  /\ active' = cfg
  /\ UNCHANGED <<samples, proposed, backups, pc, apply, data, existing, backupPath,
                 overwritten, runs>>

\* Another sample is captured.
Capture(call) ==
  /\ pc = "idle" /\ Len(samples) < MaxSamples
  /\ samples' = Append(samples, call)
  /\ UNCHANGED <<files, pc, apply, data, existing, backupPath, overwritten, runs, edits>>

\* Backups of earlier healings may be there.
Init ==
  /\ samples = << >>
  /\ active = NoConfig /\ proposed = NoConfig
  /\ \E n \in 0..MaxBackups : backups = [i \in 0..(n - 1) |-> Empty]
  /\ pc = "idle" /\ apply = FALSE
  /\ data = Empty /\ existing = NoConfig /\ backupPath = 0
  /\ overwritten = {} /\ runs = 0 /\ edits = 0

Heal ==
  \/ \E a, force \in BOOLEAN : Start(a, force)
  \/ Analyze \/ Propose \/ ReadActive \/ ChooseBackup \/ BackUp \/ Promote
  \/ WriteReports \/ Abort

Next ==
  \/ Heal
  \/ \E cfg \in UserConfigs : Edit(cfg)
  \/ \E call \in Calls : Capture(call)

Spec == Init /\ [][Next]_vars

-----------------------------------------------------------------------------
(* Properties.                                                             *)

\* Nothing that --apply replaced is lost: what it read in replay.yaml and then
\* replaced is in some backup for good, whatever failed or died in between and
\* however many names are in use.
NoConfigLost == overwritten \subseteq {backups[i] : i \in DOMAIN backups}

\* The step writes the configuration under validation to one of the files.
Writes == proposed' # proposed \/ (pc = "promote" /\ pc' = "report")

\* Under a configuration that healing wrote, a recorded request that matches
\* any captured call gets the response that was recorded for it.
AnswersAsRecorded ==
  [][Writes => \A i, j \in DOMAIN samples :
       Match(data, samples[j], samples[i]) => samples[j].response = samples[i].response]_vars

\* Whatever an application may send: a request that a generated rule accepts
\* for a capture differs from it, in its query and in a body that is compared,
\* only in volatile fields that are not protected, and in what the user ignores.
RelaxesOnlyVolatile ==
  [][Writes => \A i \in DOMAIN samples : \A req \in Calls :
       \A rule \in RuleFor(data.rules, req, req.escaped) :
         rule.heal /\ Match(data, samples[i], req) =>
           \A f \in Of("query") \cup (Of("json") \cap UNION {Of(k) : k \in rule.compare}) :
             req.at[f] = samples[i].at[f] \/ f \in (Volatile \ Protected) \cup data.ignored]_vars

HasEvidence(rule) ==
  /\ Cardinality(Group(rule.key)) >= MinSamples
  /\ \A j \in Group(rule.key) : \A f \in DOMAIN rule.regex : samples[j].at[f] \in rule.regex[f]

\* Recorded requests that the rule of their own group governs and that it accepts
\* for their own captures.
Governs(rule, i)    == rule.heal /\ rule.key = Key(samples[i])
MatchesOwnCapture(i) == Match(data, samples[i], samples[i])

\* A generated rule that is written has the evidence of all present samples:
\* rules of earlier healings that newer samples contradict are gone, and patterns
\* hold for every observation, the held-out one included.  A recorded request that
\* the rule of its own group governs matches its own capture just if the rule
\* names no field that its path does not lead to (analyzeGroup writes the path of
\* flattenJSON, Match reads that of parseJSONPath).
HealRulesFit ==
  [][Writes => /\ \A i \in DOMAIN data.rules : data.rules[i].heal => HasEvidence(data.rules[i])
               /\ \A i \in DOMAIN samples :
                    \A rule \in RuleFor(data.rules, samples[i], samples[i].escaped) :
                      Governs(rule, i)
                        => (MatchesOwnCapture(i) <=> DOMAIN rule.regex \cap Lost = {})]_vars

\* A proposed rule is validated against a held-out observation, as the
\* documentation says: the last recorded request of its group matches its own
\* capture under it, whatever the keys of its body are.
HeldOutAccepted ==
  [][Writes => \A i \in DOMAIN samples :
       \A rule \in RuleFor(data.rules, samples[i], samples[i].escaped) :
         Governs(rule, i) /\ i = Max(Group(rule.key)) => MatchesOwnCapture(i)]_vars

\* The two evaluations of a rule agree, whatever an application may send: a
\* scenario step with the rule that governs a request accepts it if the request
\* matches any capture, and, if the rule is a generated one, just when the request
\* matches itself as a capture (Matcher.Match and RuleMatcher.Match).
ScenarioAgrees ==
  [][Writes => \A req \in Calls : \A rule \in RuleFor(data.rules, req, req.escaped) :
       /\ \A j \in DOMAIN samples : Match(data, samples[j], req) => MatchRule(rule, req)
       /\ rule.heal => (MatchRule(rule, req) <=> Match(data, req, req))]_vars
=============================================================================
