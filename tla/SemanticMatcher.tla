-------------------------- MODULE SemanticMatcher --------------------------
(***************************************************************************)
(* pkg/matcher: whether a request of the application matches a captured    *)
(* dependency call under the matching section of replay.yaml.              *)
(*                                                                         *)
(* Abstracted: a call (a request, or the request of a captured call) is a  *)
(* record of its method, host as spelled, lower-cased host name, port,     *)
(* decoded and escaped path, body format and the value at each field.  A   *)
(* regular expression is the set of what it accepts; the empty string that *)
(* Get returns for a missing header or parameter is Absent.  The path of a *)
(* body field leads to that field or to nothing, never to another one.     *)
(***************************************************************************)
EXTENDS Naturals, Sequences, FiniteSetsExt

CONSTANTS
  Fields,     (* headers, query parameters, JSON and Protobuf fields       *)
  Kind,       (* the kind of each field                                    *)
  Elements,   (* the fields that are elements of an array                  *)
  Lost,       (* body fields that their path does not lead to: it does not *)
              (* tell a dot or a bracket in a key from a step              *)
  Malformed,  (* those whose path is refused, as that of the key "ids[x"   *)
  Absent,     (* the value of a field that is not there                    *)
  Unset,      (* the selector of a rule that leaves it out                 *)
  GrpcMethods (* the methods of the loaded Protobuf descriptors            *)

ASSUME MatcherAssumption ==
  /\ Kind \in [Fields -> {"header", "query", "json", "protobuf"}]
  /\ Elements \subseteq Fields
  /\ Malformed \subseteq Lost /\ Lost \subseteq Fields
  /\ \A f \in Lost : Kind[f] \in {"json", "protobuf"}
  /\ Unset \notin GrpcMethods

Has(call, f) == call.at[f] # Absent
Of(k)        == {f \in Fields : Kind[f] = k}

\* JSONPathValue finds the field at the path that names it.
Found(call, f) == Has(call, f) /\ f \notin Lost

\* Host and port as equalHost compares them: 80 and 443 are no port.
Authority(call) == <<call.name, call.port \ {"80", "443"}>>

-----------------------------------------------------------------------------
(* Selection of the rule.                                                  *)

Selects(rule, call, path) ==
  /\ rule.methods = Unset \/ call.method \in rule.methods
  /\ rule.hosts = Unset \/ call.host \in rule.hosts
  /\ rule.paths = Unset \/ path \in rule.paths
  /\ rule.grpcMethod \in {Unset, path}

\* The first rule that fits, as a set of at most one.
RuleFor(rules, call, path) ==
  LET fits == {i \in DOMAIN rules : Selects(rules[i], call, path)}
  IN  {rules[i] : i \in {j \in fits : \A k \in fits : j <= k}}

\* New refuses rules with a path it cannot parse, rules that need Protobuf
\* descriptors nobody loaded, and those that name a method they do not have.
Buildable(cfg) ==
  \A i \in DOMAIN cfg.rules :
    LET rule == cfg.rules[i]
    IN  /\ (DOMAIN rule.regex \cup rule.ignored \cup (cfg.ignored \cap Of("json")))
             \cap Malformed = {}
        /\ rule.grpcMethod \in GrpcMethods \cup {Unset}
        /\ \/ cfg.descriptors
           \/ /\ rule.grpcMethod = Unset /\ "protobuf" \notin rule.compare
              /\ DOMAIN rule.regex \cap Of("protobuf") = {}

-----------------------------------------------------------------------------
(* The conditions a rule adds.                                             *)

\* Fields a rule takes out of the comparison, those it can find.
Ignored(cfg, rule) ==
  (rule.ignored \cup (cfg.ignored \ Of("protobuf")) \cup DOMAIN rule.regex) \ Lost

\* equalQuery, equalHeaders, and the comparison of two documents of which the
\* ignored fields were removed; a removed array element leaves a null behind.
EqualExcept(k, a, b, ignored) ==
  /\ \A f \in Of(k) \ ignored : a.at[f] = b.at[f]
  /\ \A f \in Of(k) \cap ignored \cap Elements : Has(a, f) <=> Has(b, f)

\* The regular expressions of the rule on the fields of one kind.
RegexesAccept(k, rule, req) ==
  \A f \in Of(k) \cap DOMAIN rule.regex :
    /\ req.at[f] \in rule.regex[f]
    /\ k \in {"json", "protobuf"} => Found(req, f)

NeedsBody(k, rule) == k \in rule.compare \/ Of(k) \cap DOMAIN rule.regex # {}

\* Mutant: the patterns are forgotten for a body that is compared.
BodyMatchesComparedOnly(k, cfg, rule, captured, req) ==
  NeedsBody(k, rule) =>
    /\ req.body = k
    /\ k \in rule.compare \/ RegexesAccept(k, rule, req)
    /\ k \in rule.compare => /\ captured.body = k
                             /\ EqualExcept(k, req, captured, Ignored(cfg, rule))

\* JSON or Protobuf: the request must decode, and the capture if compared.
BodyMatches(k, cfg, rule, captured, req) ==
  NeedsBody(k, rule) =>
    /\ req.body = k
    /\ RegexesAccept(k, rule, req)
    /\ k \in rule.compare => /\ captured.body = k
                             /\ EqualExcept(k, req, captured, Ignored(cfg, rule))

MatchWithRule(cfg, rule, captured, req) ==
  /\ rule.methods = Unset \/ captured.method \in rule.methods
  /\ IF rule.hosts = Unset THEN Authority(req) = Authority(captured)
                         ELSE {req.host, captured.host} \subseteq rule.hosts
  /\ IF rule.paths = Unset THEN req.escaped = captured.escaped
                         ELSE {req.path, captured.path} \subseteq rule.paths
  /\ EqualExcept("query", req, captured, Ignored(cfg, rule))
  /\ RegexesAccept("query", rule, req) /\ RegexesAccept("header", rule, req)
  /\ "header" \in rule.compare =>
       EqualExcept("header", req, captured, Ignored(cfg, rule))
  /\ BodyMatches("json", cfg, rule, captured, req)
  /\ BodyMatches("protobuf", cfg, rule, captured, req)

MatchByDefault(cfg, captured, req) ==
  /\ Authority(req) = Authority(captured)
  /\ req.escaped = captured.escaped
  /\ EqualExcept("query", req, captured, cfg.ignored)

\* Matcher.Match: does the request match the captured call?
Match(cfg, captured, req) ==
  LET rules == RuleFor(cfg.rules, req, req.escaped)
  IN  /\ req.method = captured.method
      /\ rules = {} => MatchByDefault(cfg, captured, req)
      /\ \A rule \in rules : MatchWithRule(cfg, rule, captured, req)

\* RuleMatcher.Match: a rule of its own, as a scenario uses it.
MatchRule(rule, req) ==
  /\ Selects(rule, req, req.path)
  /\ RegexesAccept("header", rule, req) /\ RegexesAccept("query", rule, req)
  /\ Of("json") \cap DOMAIN rule.regex # {} => req.body = "json"
  /\ RegexesAccept("json", rule, req)
  /\ NeedsBody("protobuf", rule) =>
       req.body = "protobuf" /\ RegexesAccept("protobuf", rule, req)
=============================================================================
