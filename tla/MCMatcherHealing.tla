-------------------------- MODULE MCMatcherHealing --------------------------
(* An instance of MatcherHealing: three endpoints of one host. *)
EXTENDS MatcherHealing

CONSTANTS absent, unset, none

\* "ctx.nonce" is one key with a dot in it, "ids[x" one that cannot be a path.
F == {"trace_id", "nonce", "account_time", "ctx.nonce", "ids[x"}
K == [f \in F |-> IF f = "trace_id" THEN "query" ELSE "json"]

FitsOf == [v \in {absent, "u1", "u2", "n1", "h", "x"} |->
             IF v \in {"u1", "u2"} THEN {"uuid"}
             ELSE IF v = "n1" THEN {"integer", "hex"}
             ELSE IF v = "h" THEN {"hex"} ELSE {}]

Call(host, name, port, path, escaped, body, t, n, a, response) ==
  [ method |-> "POST", host |-> host, name |-> name, port |-> port, path |-> path,
    escaped |-> escaped, body |-> body, response |-> response,
    at |-> [f \in F |-> CASE f = "trace_id" -> t [] f = "nonce" -> n
                           [] f = "account_time" -> a [] OTHER -> absent] ]

Orders(port, t, n, a, r) == Call("api", "api", port, "/o", "/o", "json", t, n, a, r)

Dotted(n) == [Call("api", "api", {}, "/d", "/d", "json", absent, absent, absent, 200)
                EXCEPT !.at["ctx.nonce"] = n]

SomeCalls ==
  { Dotted("n1"), Dotted("h"),
    Orders({}, "u1", "n1", "u2", 200),
    Orders({}, "u1", "h", "u2", 200),
    Orders({}, "u2", "n1", "u1", 201),
    Orders({"81"}, "u2", "n1", "u2", 201),
    Call("API", "api", {}, "/o", "/o", "json", "u2", "n1", "u2", 200),
    Call("api", "api", {}, "/o", "/o", "none", "u2", absent, absent, 200),
    Call("api", "api", {}, "/o b", "/o%20b", "none", "u2", absent, absent, 200) }

\* The names of the generated rules: the port's comes first.
RankOf == [k \in {Key(c) : c \in SomeCalls} |->
             IF k[3] # {} THEN 0
             ELSE CASE k[4] = "/o" -> 1 [] k[4] = "/d" -> 2 [] OTHER -> 3]

UserRule == [ heal |-> FALSE, key |-> << >>, methods |-> unset, hosts |-> {"api"}, paths |-> unset,
              grpcMethod |-> unset, regex |-> [f \in {"nonce"} |-> {"h"}],
              ignored |-> {}, compare |-> {"json"} ]
StaleRule == [UserRule EXCEPT !.heal = TRUE, !.key = <<"POST", "api", {}, "/o">>]

Config(settings, rules) ==
  [settings |-> settings, ignored |-> {"trace_id"}, descriptors |-> FALSE, rules |-> rules]
\* The descriptors that the user loads have another method, and one path that
\* the user ignores is none.
RefusedRule == [UserRule EXCEPT !.grpcMethod = "/pkg.Svc/Other"]
Configs == { Config(1, << >>), Config(2, <<UserRule, StaleRule>>),
             [Config(3, <<RefusedRule>>) EXCEPT !.descriptors = TRUE],
             [Config(4, <<UserRule>>) EXCEPT !.ignored = {"ids[x"}] }
=============================================================================
