# InfernoSIM in TLA+

InfernoSIM is a Go sidecar. `infernosim record` captures the HTTP traffic of a
service into an *incident* (JSON-lines logs); `infernosim replay` sends the captured
inbound requests to the service again while a *stub* answers the service's outbound
calls from the capture; `infernosim serve` runs the stub alone for tests, with a
control API; further commands verify, heal, seal and strictly replay an incident,
and capture and replay Kafka topics. This directory holds the TLA+ specifications of
that code, the TLC configurations that check them, and the TLAPS proofs of what
holds for every size of the system. `PROJECT.json` relates every definition to the
lines it models, and lists the runs, the mutants that show each property can fail,
the hazards and the theorems.

All definitions are translated from the Go source. Where the documentation says
something else, section 5 says so.

## 1. Inventory

### The parts, their state and their operations

| part | source | state | operations | what makes it correct |
|---|---|---|---|---|
| dependency stub | `pkg/stubproxy` | call counter `seen`, budget `maxSeen`, use counts of captured events, attempts per dependency, divergence reasons and flag | `ServeHTTP` (one goroutine per call), `Reset`, `ConfigureReplayCardinality`, `Snapshot`, `Close` | a captured response is served as often as it was captured; a call of the capture is never refused; a refusal over the budget or without a match is reported; runs are independent |
| scenario engine | `pkg/scenario` | current state of each scenario, a mutex | `Match`, `Reset` | concurrent calls take no transition twice |
| fault injection | `pkg/inject` | rules (constant) | the stub asks for the first rule of a dependency | `retries=n` fails exactly the first n matched calls |
| simulator server | `pkg/simserver` | two HTTP servers, the proof, the observed-call log | status, proof and reset requests, `Close` | a status without the flag certifies that nothing was refused; a drained shutdown loses no observed call; shutdown ends |
| replay command | `cmd/agent` (`executeReplay`) | the summary, the reference fingerprint | the run loop: reset, fan out, wait, collect, judge; the verdict | a pass means what the documentation says; a faithful service passes; the command ends |
| replay driver | `pkg/replaydriver/replay.go` | position, fingerprint, counts, deadline | `ReplayEvents` | the counts describe what was sent on every way out |
| state-aware rewriting | `replaydriver/state*.go`, `dependency.go` | captured-to-live value map | `Rewrite`, `PrepareBody`, `UpdateState` | a request carries the live value of what an earlier response produced |
| incident verification | `replaydriver/verify.go`, `inspect` | none | `VerifyIncident`, the chains of `inspect` | what they foretell is what a replay then does |
| event log | `pkg/event` | the file, the sequence number, buffers, a mutex | `NewLogger` (repairs the file), `Write`, `Close` | numbers increase; what was acknowledged stays readable |
| capturing proxies | `pkg/capture`, `runRecord` | pending exchanges, the two logs, the CA store and its leaf cache | inbound proxy, forward proxy, CONNECT tunnels with and without TLS interception, the shutdown, `LoadInboundEvents` | who was answered is recorded; requests load as received; one certificate per host |
| message log, Kafka | `pkg/message`, `pkg/kafkasim` | log file, sequence, positions; the fault plan | `Capture`, `Plan`, `Replay` | no holes in a capture; the plan has exactly the faults asked for; the topic gets a prefix of it |
| matcher, matcher healing | `pkg/matcher`, `pkg/heal` | `replay.yaml`, the proposal, backups | `New`, `Match`; infer, propose, back up, promote | a generated rule makes nothing interchangeable that was answered differently; no configuration is lost |
| workflow verification, strict replay | `pkg/workflow`, `pkg/replay` | none | `VerifyIncident`, `Replay` | a verdict says what happened; a pass covers the log |
| sealed bundles | `pkg/bundlev2` | archive, temporary file, destination | `SealDirectory`, `OpenToDirectory` | an output exists only if it is whole |
| privacy, contract, AsyncAPI, gRPC descriptors, generators, templates, lint, reports | see `PROJECT.json` | none over time | pure functions over documents | best tested |

### How they interact

* The application under test is between two parts of the same program: a worker of
  the replay driver calls it, and it calls the stub. Nothing in the code connects
  the two: an outbound call carries no identity of the inbound request or of the run
  it belongs to. The stub attributes a call to whatever run its counters are in.
  `ReplayRun` composes the three.
* `executeReplay` shares the stub with the handlers. `Reset` and
  `ConfigureReplayCardinality` are sequences of stores under four different
  synchronisations (two atomics and three mutexes), with no regard for handlers that
  are running.
* The control API of `pkg/simserver` runs the same `Reset` and reads the same fields
  while the application calls. `SimServer` composes it with the stub.
* While recording, the two proxies log from their handlers, tunnels share the cache
  of leaf certificates, and `Server.Close` waits for none of them; the process may
  be killed at any point and the next one repairs the file.
* The directory a recorder leaves (or still appends to) is the input of sealing,
  workflow verification, strict replay, replay and healing, which meet in files
  only. Healing writes the configuration that the stub and the scenario engine read
  when they start.

### Which behaviours are hard

Concurrency of handlers with each other and with the run loop; calls that outlive
their run, because a worker's client gives up after its timeout while the
application goes on; short writes and crashes in the logs; sequences of file
operations that die in the middle; produce calls whose acknowledgement is lost;
replacements whose order is that of a map; verdicts that depend on several counters
read at different moments. The list with lines is in `PROJECT.json` under `hazards`.

## 2. Modules

| module | models | checked by | proved in |
|---|---|---|---|
| `StubProxy` | the stub with scenarios and injection, one action per shared access of `ServeHTTP`, `Reset` and `ConfigureReplayCardinality` | `MCStubProxy`, one run | `StubProxyProofs` |
| `SimServer` | `StubProxy` inside the simulator server: status polls, resets, shutdown | `MCSimServer`, one run | `StubProxyProofs` |
| `EventLog` | the JSON-lines logger with crashes and full disks | `MCEventLog`, one run | `EventLogProofs` |
| `AppendLog` | the promise of a log: only appended, increasing, acknowledged is kept; `EventLog` implements it | `log_capture` | `EventLogProofs` |
| `ReplayRun` | the replay command, its workers, the application and the stub | `MCReplayRun`, two runs | `ReplayRunProofs` |
| `ReplayDriver` | `ReplayEvents` with state rewriting and every way out, `verify` and `inspect` | `MCReplayDriver`, two runs | `ReplayDriverProofs` |
| `RecordSession` | a recording session: both proxies, the leaf cache, shutdown, `LoadInboundEvents` | `MCRecordSession`, one run | `RecordSessionProofs` |
| `KafkaReplay` | capture sessions, the fault plan, the replay of a topic | `MCKafkaReplay`, one run | `KafkaReplayProofs` |
| `SemanticMatcher` | which captured call matches a request, under a configuration | `heal` | `MatcherHealingProofs` |
| `MatcherHealing` | inference of rules and the file operations of healing | `MCMatcherHealing`, two runs | `MatcherHealingProofs` |
| `WorkflowVerify` | workflow verification and strict replay, as functions of a directory | `incident_bundle` | `IncidentBundleProofs` |
| `IncidentBundle` | sealing and opening by file operation, and the checks on what was recorded or opened | `MCIncidentBundle`, one run | `IncidentBundleProofs` |

### StubProxy

A request is a goroutine: `pc[r]` is its control point, `call`, `ticket`, `event`,
`step` and `attempt` are the local variables of `ServeHTTP`. The shared variables
have the names of the struct's fields (`seen`, `maxSeen`, `useCount` for
`eventUseCounts`, `attempts`, `divergences`, `unexpected` for `unexpectedOutbound`);
`scenario` is the state map of the engine. Each access to a shared field is a step:
the atomic add (`Arrive`), the atomic load of the budget (`CheckBudget`), the
engine's lock (`TakeStep`, `NoStep`), rendering after it (`Render`), `matchMu`
(`TakeEvent`, `NoEvent`), `mu` (`Report`), `attemptsMu` (`CountAttempt`), the answer
(`Reply`). The controller's steps are the stores of `Reset` and
`ConfigureReplayCardinality` in their order.

What a call contains is abstracted to which calls a captured event or a scenario
step accepts (`Accepts`, `Steps[k].accepts`). Sleeping (latency rules, recorded
durations) is a step not taken yet. `charged` records, for the properties, which
requests a counter counts since it was last cleared, and `undisturbed` whether a
handler and the controller overlapped since the last `Reset` began.

`RefusalsReported` is about the two refusals that `ServeHTTP` reports (`Report`).
Other answers with an error are reported nowhere: a body that cannot be read or is
too large (`bad_body`), a template that fails (`render_failed`), and the 502 of an
incident without captured calls (`no_events`, `stubproxy.go:304-306`).

`ServedWithinCapture`, `ScenarioFlow` and `RetryFailuresExact` hold even when a
Reset races with handlers. `NoFalseDivergence`, `CleanStart` and the second part of
`RefusalsReported` are about runs that no handler of another run overlapped: a
handler that was counted before a Reset and matches after it uses up a captured
response of the next run.

### SimServer

Extends `StubProxy`: its handlers run under the conditions of the server
(`Receives`), record the observed call (`Observe`: `recordObserved`, which ignores
the error of a closed log), and `Snapshot` is the three reads of the code. `Close`
is `adminServer.Shutdown`, `stubServer.Shutdown`, `stub.Close`, each of the first
two ending when its requests are answered or the five-second context expires.
net/http is external: `Shutdown` closes the listener, waits for the requests of its
own connections, and does not know hijacked ones (`Hijacked`: the tunnels of the
HTTPS stub, and the HTTP/2 connections that `h2c.NewHandler` takes over,
`stubproxy.go:531`). One poll and one reset may run at a time.

### EventLog and AppendLog

The file is the sequence of records a decoder reads from its start, whether
undecodable bytes follow (`torn`) and whether it ends in a newline (`terminated`).
`Write` is `Call`, `Lock` (the mutex and the sequence number), then `Emit`,
`DiskFull` or `Refuse`, and `Return`. `broken` is the sticky error of `bufio.Writer`
and `json.Encoder`. `Crash` may happen at any step, with any part of the record
being written in the file; what the operating system has accepted survives, as after
a kill of the process (not a power cut: the code does not sync). Opening is `Scan`,
`Truncate`, `Terminate`, and a crash between them is covered.

### ReplayRun

`ctl` walks through the loop of `executeReplay`; `wpc`, `at` and `sigs` are the
workers (`ReplayEvents`); `app`, `healthy` and `todo` are the requests inside the
application, each with the outbound calls it has still to make; the stub is reduced
to what the verdict reads: counter, budget, uses per kind of call and refusals.
`Scripts` says which calls a request may cause, so an application that skips or adds
calls is an instance. With `Async` it may answer before it calls. The wall clock is
a flag that rises at any time (`Expire`), a client timeout a choice (`GiveUp`), an
unreadable response another (`Fail`: `ReplayEvents` returns an error). `Assess` and
`ComputeOutcome` are the end of the command, in the order of the code; findings of
`--diff` and `--openapi` and a missed window are choices there.

`Skips` is the set of requests that safe mode leaves out: the writes, unless
`--allow-writes` is given (`--safe-mode` is on by default, `main.go:441`, and the
command passes no list of allowed paths). They are sent by nobody, and
`CompletedEvents` of a replay that is done does not count them, while one that ends
early counts those it had passed. The verdict compares the number of requests sent
with that of the capture only if `--window` is given (`main.go:1095`), so that a
strong pass may stand for a part of the capture. `StrongMeansComplete` says which
part: all requests that are not skipped, by every worker in every run; and
`FaithfulAppPasses` says that a faithful application passes just if one of these
calls a dependency, and otherwise fails with `FAIL_NO_COVERAGE`, the case that the
proof covers and no instance.

Not in it: the validation of the environment before the loop, transparent mode,
`ForwardErrors` (`forwardProxyRequest`, the only function that counts one, is never
called), and the pacing of requests.

### ReplayDriver

`ReplayEvents` on its own, with what `ReplayRun` leaves out. `pc` is "loop" while
the loop looks at request `i` and walks through its early returns and `continue`s in
their order: the idle limit (`Stall`), the deadline before and after a request
(`ExpireBefore`, `Finish`), bodies that were not captured (`Omitted`), safe mode
(`Skip`), then the request (`Send`, `DoFails`, `Respond`) and the reading of its
response (`ReadFails`, `Answered`). `state` is `RuntimeState.values`. A request is
the set of values it carries; `Substitutions` gives every outcome that `substitute`
may have over the orders of the map, with `Inside` saying which value's text is a
part of another's. `UpdateState` pairs the values of the captured response with
those of the live one by locator and kind, and follows rotations through
`consumedIndex`. The target answers with the values of the capture produced anew or
without them, and with any set of `Extras` besides, in any order. What was captured
of a response is all of it, its headers, or nothing; then `ExtractResponseValues`
looks at the request's own headers and body (`own`), as in logs whose events hold
request and response in one (`exchange.go:13`).

A recursion over the order of the map is a recursive function (`Replaced`); the
loops of `UpdateState` put values in the order of the places in them, of which the
last stays (`Links`, `LastPut`). `LiveValuesSent` relates a request to all responses
before it. It is about values that are `Recognised`: their text is not a part of
another's (`Unambiguous`), and no answer so far held a value that passes for them
(`PassesFor`): one of the same name, any cookie for a captured cookie, and, where
nothing was captured of the response, any value of the kind (`state.go:134`).
`VerifyPredicts` relates what `verify` and `inspect` say of the capture to what the
replay then does. `EveryExitCounts` says what the counts are at each return: at the
end `CompletedEvents` and `SafeModeSkipped` add up to the capture, while a replay
that ends early returns the index, skipped requests included, and neither
`SafeModeSkipped` nor `ReplayedEvents` (`replay.go:206`, `:237`, `:340`, `:401`).

### RecordSession

`handler[x]` and `call[c]` are the goroutines of the inbound and the forward proxy;
`main` is the sequence of `Close` calls after the signal, which wait for no handler,
so that every write may find its log closed. A client chooses its trace
(`ClientTraces`), and `SanitizeTraceID` replaces an ill-formed one for the response
event only. net/http is external: `Server.Close` closes the connections it has, but
not those that were hijacked, and `h2c.NewHandler` (`http.go:342`) hijacks every
HTTP/2 connection. So an exchange of `H2c` may begin, and be answered, at any stage
of the shutdown, and every other one only while the server is open. In the forward
proxy a call is plain, a tunnel passed on, or an intercepted tunnel: `CertFound` is
`GenerateLeafCert` under the read lock, `StoreCert` under the write lock with its
second look at the cache. `Loaded` is `LoadInboundEvents` on the log at any moment.

### KafkaReplay

Producers choose timestamps (`Publish`). A capture session is `Open` (which refuses
a torn log and resumes the numbering), `Poll`, `Write`, which may tear the log, and
`EndCapture` by the limit, a signal, an error or a kill; a session starts at the
beginning or the end of the topic. `Plan` is the pure function of the code: reorder
in windows, drop, duplicate, poison by position. `PlanFaithful` compares it with
what the settings ask for, record by record: the place of a record is counted with
its window reversed (`Place`), and from the place follow its copies and its poison
(`Wanted`). Of a `ProduceSync`, `Send` is the produce request, `Receive` the broker
having the record, `Acknowledge` its answer, `ProduceFails` an error (the broker may
have the record all the same). `Expire` is the timeout of the context: it ends the
wait before a record, but not a record whose request was sent, because kgo's default
producer is idempotent and does not fail such a record by its context
(`kafka.go:334`). The broker and its client are external.

### SemanticMatcher and MatcherHealing

A configuration is a sequence of rules; `Match` says whether a captured call matches
a request, `MatchRule` whether a scenario step with the same rule accepts it. They
are different code, so that one property (`ScenarioAgrees`) is about their
agreement. A pattern is the set of values it accepts, a field belongs to the query,
the JSON body or a Protobuf body. `AnalyzeGroup` is the inference, with the last
sample held out; `MergeGeneratedRules` and `Ambiguous` follow. Then one action per
file operation: `Propose`, `ReadActive`, `ChooseBackup`, `BackUp`, `Promote`,
`WriteReports`, with `Abort` between any two of them, a save by the user (`Edit`)
and more samples (`Capture`).

A field of a JSON body has a path, which `flattenJSON` writes by joining keys with
dots (`heal.go:524`) and `parseJSONPath` takes apart at dots and brackets
(`matcher.go:545`). For a key with a dot or a bracket the two differ: the fields of
`Lost` are those whose path, as written, leads nowhere, those of `Malformed` have a
path that does not parse, so that `New` refuses the whole configuration. That a path
leads to another field that exists, and that two keys are written as one path, is
left out.

`AnswersAsRecorded` and `RelaxesOnlyVolatile` say what a written configuration may
make interchangeable; `HealRulesFit` that its rules have the evidence of the samples
there are now, and that a recorded request matches its own capture just if its rule
names no lost field; `ScenarioAgrees` that a scenario step with a rule accepts what
the rule accepts of any capture, and, for a generated rule, nothing else than what
matches itself. Values are compared as the model's values are: that a generated host
pattern names no port and so relaxes the port too, and that numbers beyond 2^53 are
equal when their `float64` are, is not in it.

### WorkflowVerify and IncidentBundle

A directory maps the names of its logs to sequences of events. `Observations` is the
merge of `loadObserved` (the one order of its events that `Before` accepts, the
comparison of the code), `Verify` the greedy matching with its correlation and its
bounds on time, `StrictReplay` the loop that stops at the first divergence, which
may be found before anything is sent (`Unsent`: a write that is not allowed, a body
with another hash than was recorded). A target's answer is the status that
`http.Client` ends with; where it was redirected to is not seen.
`WorkflowVerdictIsRight` compares `Verify` with a definition that knows nothing of a
cursor: the set of all order-preserving choices of observations. `IncidentBundle`
adds sealing and opening, one action per file operation, beside a recorder that
appends, with a failure or a kill between any two operations, and applies the checks
to the directory as recorded or as opened. A bundle is opened into the directory of
the last attempt again or into one of `Destinations`, which may hold other files; a
file that exists is not overwritten but ends the extraction.

## 3. Runs

`CHECK_DEADLOCK FALSE` appears in every configuration: each system stops when its
bounded work is done (all requests answered and no Reset left, the process exited,
the replay concluded, all writes made, the runs of a command used up).

| run | bounds | what it shows |
|---|---|---|
| `stub_replay` | 3 calls, fanout 2, 1 captured event that calls to two dependencies match and that may be used twice, budget 2, a scenario with three steps, one retry failure, a timeout rule, 1 Reset | the stub's invariants and exact retry failures, with any call crossing the Reset |
| `sim_status` | 2 calls, one over a hijacked connection, 1 Reset, 2 polls, shutdown | status and shutdown properties, `CloseCompletes` |
| `log_capture` | 2 writers, 2 writes each, 3 crashes or full disks | the logger's invariants, its refinement of `AppendLog`, `WritesReturn` |
| `replay_verdict` | 2 workers, 2 runs, 2 requests, the first with its call, another one or none, the second a write that safe mode skips, every disturbance | what a passing verdict means |
| `replay_faithful` | 2 workers, 2 runs, 2 requests with a call each, the second a skipped write, calls before or after the answer | a faithful application passes; the command ends |
| `replay_driver` | 9 captures of two to four requests, answers with a cookie or a token besides, safe mode and not, with and without a seed of the adapters | what requests carry, what each exit counts, what verify foretells |
| `record_session` | 2 exchanges with a call each, one of them on h2c, hosts `api` (allowed) and `bank`, traces absent, ill-formed and well-formed | what the incident holds, how it loads, one certificate per host |
| `kafka_replay` | partitions with 3 and 1 messages, 2 sessions of at most 2 messages, times 1 to 2, six settings of the faults | captures without gaps, the plan, what the topic receives |
| `heal` | 3 samples out of 9 calls of four endpoints, one with a dot in a key, 2 samples to infer from, four configurations that the user may save, two of them refused, 2 runs, 1 save, 2 backup names | what written rules accept; no configuration is lost |
| `heal_heldout` | the same | a violation, see section 5 |
| `incident_bundle` | directories with two logs of up to 2 events each, or three logs, five workflows in three correlation modes, every answer to strict replay, 2 runs of seal and of open, into a new directory or one with other messages | verdicts against their definitions; bundles and directories are whole |
| `replay_fresh` | two responses whose identifiers count up | a violation, see section 5 |

Why the bounds are enough. Three calls are one more than the budget of two, so every
order of "within budget, last, beyond" and every pair of concurrent matches occurs,
with a third handler left to cross the Reset; a second Reset meets the same states
as the first. Two workers and two runs are the least with a cross-worker and a
cross-run comparison and with a straggler from run one in run two. Three failures
allow a short write, a crash of the process that repairs it and a crash during that
repair. The captures of `replay_driver` are a token that is rotated, two cookies in
one response, an identifier inside another value, values that were not captured,
events of an older log, writes and expired tokens, each with a later request that
needs them. Two captured requests, one of them a write, are the least of which safe
mode leaves out a part. Two exchanges and two calls give every pair of handlers,
which may bear the same trace or call the same host. Three messages in one partition
make a window that is full and one that is not, and two sessions of two the
resumption within a partition. Three samples are up to two to infer a pattern from
and one that is held out or contradicts it; two runs the healing of a healed
configuration, with every backup name taken. Four events in two logs are enough for
a first match that is kept to prevent a later one, and for every order of the merge.
Two runs of seal and open let one fail before another. `Symmetry` is used for runs
without liveness properties only.

Fairness. `SimServer`: only the steps of `Close` and its deadline; clients and
handlers may stall. `EventLog`: strong fairness of `Lock`, because a waiter of a
`sync.Mutex` is not starved, weak of the rest of `Write`, and the opening of the
log; nobody has to call, close or restart. `ReplayRun`: the loop and each worker; a
worker that waits is released by the client's timeout of at most 15 seconds; the
application owes nothing. `StubProxy`, `RecordSession`, `ReplayDriver`,
`KafkaReplay`, `MatcherHealing` and `IncidentBundle` state no fairness: their
properties are about what may never happen.

## 4. Proofs

Every theorem is about the specification that the runs check, for every value of the
constants that its module's named assumption allows; each leaf is checked by TLAPS.
Each proof has an inductive invariant and one step per action.

**The stub** (`StubProxyProofs`; any finite set of requests, any capture, any
scenario steps, any number of Resets): `TypeCorrect`, `CaptureNeverOverused`,
`RefusalsNeverLost`, `ScenarioPath`, `RunsStartClean`, `RetriesFailExactly`,
`FaithfulRunsPass`. `TypeOK` needs one argument, that the target of a step is a
declared state. The others relate a counter with the set of requests charged to it:
a step that adds one to the counter adds one request to the set, and no request is
charged twice because `pc` never returns to an earlier point (`UseInv`,
`RefusalInv`, `FlowInv`). `CleanInv` says, for each point of `Reset`, which stores
have been made and that nobody has touched them since; `AttemptInv` that the
attempts counted for a dependency are numbered 1, 2, ... without a gap or a
repetition, so that exactly those up to the limit failed. `FaithfulRunsPass`
(`NoFalseDivergence`) counts: the calls charged to a kind of captured event are at
most as often as the kind's uses allow, a handler that has not been matched yet is
charged and has used none, and so there is an event of its kind left; the sum over
the kinds bounds the budget. Assumption: `StubAssumption`, the types of the
constants; steps name declared states because `scenario.NewWithRegistry` refuses
others, and the fanout is a positive number because `executeReplay` refuses others.

**The simulator server** (`StubProxyProofs`): `NoFlagCertifies`, `StatusIsNotStale`,
`DrainKeepsRecords`. A step of the server is a step of the stub or leaves it alone
(`ServerStepIsStubStep`), so the stub's invariants carry over. `CountInv` and
`ReasonInv` say that a call is counted once and refused once, and that in a run no
handler of another crossed the reasons are of counted calls; by the surjection from
calls to reasons there are at most as many reasons as calls. `PollInv` follows a
status through its three reads: while no Reset runs the list only grows, and the
flag, which agrees with it, is read last. `CloseInv` says that after a drain within
the deadline only hijacked connections carry running handlers. Assumption:
`SimServerAssumption` (the types of two constants).

**The event log** (`EventLogProofs`; any writers, writes and failures):
`TypeCorrect`, `NumbersIncrease`, `AcknowledgedIsKept`, `WholeLines`,
`ImplementsLog`. The invariant `LogInv` says who may touch the file: only a process
that is up has writers, a writer past `Lock` holds the mutex, and the number it
holds is larger than every number in the file. A new process starts from the largest
number it decodes, and that is an upper bound because the numbers increase. The
refinement keeps `log` and `acked` and forgets the rest: `Emit`, and a full disk or
a crash that leaves the whole record decodable, are an `Add`, `Return` of a success
is an `Acknowledge`, everything else is a stutter. Assumption: `EventLogAssumption`
(`Nobody` is no writer).

**The replay command** (`ReplayRunProofs`; any workers, runs, requests, scripts):
`PassedWithoutRefusal`, `PassedDeterministically`, `PassedWithCoverage`,
`StrongIsComplete`, `FaithfulReplayPasses`. `RunInv` says that the refusals of a run
are all refusals there are while the loop goes on, because it goes on only after a
run without reasons and an application that was quiet when a run was judged makes no
call before the next run sends a request (`RefusalInv`); that a completed
fingerprint is the reference, or waits for its worker to be collected, or has set
`nonDeterministic` (`PrintInv`); and what the verdict looked at (`VerdictInv`). For
`StrongIsComplete` the requests counted are those of the completed runs, for each
worker the requests that are not skipped, because a run counts only if every worker
completed; that each was sent, and no other, follows from the place of the worker.
`FaithfulReplayPasses` is an argument by counting: in a run nobody straggled into,
the calls the stub has seen of a kind, and those still to be made, are the calls of
that kind in the scripts of the requests sent; these are at most `Captured` for each
worker, hence at most the budget and the uses of the kind, and the next call of the
kind is served. All responses are then good, so that all fingerprints are equal. If
a request that is sent makes a call the coverage is there; if none does, nothing is
ever observed, and the verdict is `FAIL_NO_COVERAGE`. Totals are cardinalities of
sets of pairs, so that the facts about sums are facts about finite sets. Assumption:
`ReplayRunAssumption`.

**The replay driver** (`ReplayDriverProofs`; any capture, target, seed of the
adapters, order of the map): `ExitsCount`, `LiveValuesAreSent`, `PredictionsHold`.
Each request the loop is past has a signature or was skipped, so that the index an
early return gives is where the signatures end. For the values sent: a value that is
`Recognised` and was produced anew is mapped to its live value, or the two are the
same; `UpdateState` keeps this, since of all that an answer holds nothing but the
value's live counterpart is linked with it, with captured values in the response and
without, and `substitute`, in whatever order, touches the value once and its live
value never (induction over the order, `Replaced`). With no value missing each
consumer has a producer in front of it, from which `PredictionsHold` follows.
Assumption: `DriverAssumption` (types, and that what an answer holds is finite).

**Recording** (`RecordSessionProofs`; any exchanges, calls, hosts, traces):
`AnsweredAreRecorded`, `OneCertificate`, `LoadsWhatWasReceived`. `MainInv` types the
shutdown; `InboundInv` says that a handler past `LogRequest` has its request in the
log while the log is open, and that who is answered has both events in it, because a
log is closed only after the server, whose closing ends the answers on its
connections, and who is answered on h2c at a stage before the log's closing was
logged before; `CertInv` that a certificate shown is the one in the cache, which is
stored once. For `LoadsWhatWasReceived` (`LoadedAsReceived`), `LoadInv` says that
receptions are numbered, that an event bears the time and the trace of its exchange,
or the trace that was made up for it, that a request is logged once, and that the
count is taken after the log is closed; that the load can sort the requests at all
is an induction over finite sets. Assumption: `RecordAssumption` (types; an
identifier from `GenerateID` is no client's trace).

**Kafka** (`KafkaReplayProofs`; any partitions, times, limits, numbers of sessions):
`NoGaps`, `TornIsRefused`, `PrefixOfPlan`, `PlanDoesWhatItSays`, `OrderInPartition`.
`CaptureInv` is the conjunction of types (`CaptureTypes`), of what was fetched and
not written, which continues the log of each partition up to the consumer's position
(`FetchedInv`), and of what the current session has written, which reaches up to
what was fetched (`SessionInv`). The plan is taken apart by induction over its
places: every entry comes from a place that is kept, entries of one place are next
to each other, and their numbers are those reported. For `PlanDoesWhatItSays` the
place of a record in the reordered sequence is one more than the number of records
that precede it (`PlaceIsPlace`, with windows reversed, the last one too), `n`
divides it just if it is a multiple (`MultipleIsEvery`), and what the plan has of a
record are the copies that its place asks for (`PlacesAsWanted`). That the order of
a partition is kept needs, besides, that the records of one capture session are in
the order of their offsets, and that a sorting of the log exists. Assumption:
`KafkaAssumption` (types).

**Healing** (`MatcherHealingProofs`; any calls, configurations, fields, numbers of
runs): `NothingIsLost`, `HealedAnswersAsRecorded`, `ScenarioFollowsMatcher`,
`OnlyVolatileIsRelaxed`, `GeneratedRulesFit`. `BackupInv` says that past `BackUp`
the content read is in a backup, and that a backup name chosen is free, so that no
backup is overwritten; only the healer creates backups, one at a time. `DataInv`
says that what is about to be written is what was computed from the present samples
and found without ambiguity; the four action properties then follow from what the
inference, the merge and the two matchers compute: a pattern comes from a volatile
field that is not protected and fits every observation, the held-out one included;
the merge keeps no generated rule of an earlier healing; `MatchRule` asks for
nothing that `Match` has not asked for. Assumptions: `HealingAssumption`,
`MatcherAssumption`, `ConfigAssumption` (what a user saves has a sequence of rules)
and `CallAssumption` (a body with JSON fields is JSON, and an escaped path that is
the name of a gRPC method is the path, because such names contain nothing to
escape). For `GeneratedRulesFit` and `ScenarioFollowsMatcher`, what a generated rule
compares and which patterns it has on lost fields is followed through the inference
and the merge.

**Bundles** (`IncidentBundleProofs`; any directories, any number of runs):
`OpensWhatWasSealed`. `SealInv` says that what is archived, with what is still to
do, is the directory, except that the log the recorder appends to may be one event
older; `OpenInv` that the files of the archive that are not to be extracted any more
are in the directory and whole, that no other file is there but the one being
written, and that this one is the next of the archive.

**The checks of an incident** (`IncidentBundleProofs`; any logs, workflows and
answers of the target): `VerdictIsRight`, `StrictPassCovers`. `LogsInv` says that
the directory, the archive and the bundle hold logs at every moment, and `CheckInv`
that a verdict is the one of the directory that is there now (nothing happens to a
directory after its check). What remains is about functions. `Before` and `Sooner`
are total orders on what a directory holds, so that a sorting exists
(`SortedExists`, by induction over the size of a finite set) and has every event
(`OrderComplete`). The loop of `VerifyIncident` is a function on the numbers of the
steps, which exists by induction (`LoopExists`). Without a finding at the end there
was none on the way, so each step took an observation behind the one before
(`CursorGrows`) and kept to one correlation (`OneMet`), which is the choice the
property asks for. For the converse, `Ahead`: no choice of observations in order is
ever before the cursor, so if there is one, no step is missing. With a correlation
mode the converse is false, and the property does not say it: the first match fixes
the correlation and is never given back. For `StrictPassCovers`, that nothing
diverged means that every call of the log was sent. Assumption: `BundleAssumption`
(a directory has the three names, and `outbound.log` is there; logs and the steps of
a workflow are sequences; numbers are natural, times are positive and bounds are no
negative durations, which `ValidateConfigs` refuses; an absent file is no empty
file).

Proved and not checked by a run of its own: `TypeOK` of `StubProxy` and of
`EventLog`, `WholeLines`, `PassedWithCoverage`.

Only model-checked:

* liveness under fairness (`CloseCompletes`, `WritesReturn`, `Terminates`), which
  the prover does not handle.

Every invariant and every other action property that a passing run checks is a
theorem.

## 5. Where code and documentation disagree

Shown by a run:

* `replay_fresh`: `substitute` (`replaydriver/state.go:87`) makes one replacement
  after another on the same text, in the random order of a map. With identifiers
  that count up (captured n1, n2; live n2, n3) the n1 of a request may become n2 and
  then n3, the identifier of another resource; `RELEASE_NOTES.md:309` says that
  captured values are mapped to fresh ones. For the same reason a value inside
  another one's text is replaced in part, and of two cookies in one response each
  captured one is mapped to the last live one, because all cookies have the same
  locator (`state.go:121-130`). Last, a mapping that an adapter has seeded stays
  when the target produces the value as captured, because `UpdateState` puts only
  values that differ (`state.go:127`). And where nothing was captured of a response,
  any live value of its kind is put for every captured one of that kind
  (`state.go:134`), so that a cookie or a token that the target adds there remaps
  values of earlier responses. `LiveValuesSent` is about values that these cases do
  not touch (`Recognised`), and holds.
* `heal_heldout`: `flattenJSON` writes the key `ctx.request_id` as the path
  `$.ctx.request_id`, which `parseJSONPath` (`matcher.go:565`) reads as `request_id`
  inside `ctx`. The rule generated for it finds no value there and refuses every
  request, the recorded ones included, and is promoted all the same: what is held
  out is a value for the pattern, and not a request for the rule, against
  `Readme.md:21` and `docs/INCIDENT_TO_TEST.md:71`.

Found while modelling, part of the models, without a run of their own:

* Stub. The budget of captured calls is checked before the scenarios
  (`stubproxy.go:257`), although `Readme.md:277` says scenarios come first: every
  scenario response uses up one captured call. A scenario advances although its
  response cannot be rendered and the application gets a 502 (`scenario.go:199`).
  `Reset` does not wait for handlers (`stubproxy.go:161`), so that one counted
  before it may use up a captured response of the next run. `Snapshot` is three
  reads and not a point in time (`stubproxy.go:71`, `:875`): a status may contain
  the flag without a reason.
* Replay. An inbound-only incident passes strongly as soon as the application calls
  anything (`cmd/agent/main.go:1104`), against `Readme.md:183`. A replay in safe
  mode may pass strongly though it sent a part of the capture, unless `--window` is
  given (`main.go:1095`). `--diff` compares by index although skipped and failed
  requests have no place in the list (`main.go:993`). Calls that reach the stub
  after it was read for the verdict, because their application answered first or a
  worker gave up (`replay.go:332`), are no part of the verdict (`main.go:1017`): a
  call refused then does not turn a pass into a failure, and `PassMeansNoRefusal`
  does not say so.
* Counts. A replay that the idle limit or the deadline ends early counts skipped
  requests as completed and returns neither `SafeModeSkipped` nor `ReplayedEvents`
  (`replay.go:206`, `:237`, `:340`, `:401`), unlike one that is done; the command
  sums `CompletedEvents` of both (`main.go:984`, `:1008`), in a report that fails
  anyway.
* `verify` ignores the cookies of responses whose body was not captured, although
  the replay would use them, and takes values in a request's own body for values of
  its response where none was captured.
* Recording. A request whose trace is ill-formed keeps it in its request event and
  gets a new one in its response event, so that the two never pair; two requests
  with the same trace pair with one response. Inbound events are correlated by the
  proxy's trace, outbound ones by headers. The time of a request is taken when its
  body has been read (`http.go:298`), which may be long after it arrived. An HTTP/2
  client that is answered when the shutdown has closed `inbound.log` finds nothing
  in the incident, because its hijacked connection outlives the server
  (`http.go:342`); `AnsweredIsRecorded` leaves out just this case. A `drop` injected
  over HTTP/2 is recorded but not applied.
* A strict replay passes on the part of a log in front of a line longer than 64 KiB
  (`pkg/replay/replay.go:52`): the scanner's error is not looked at.
  `StrictPassIsComplete` is about logs without such a line.
* Healing. What the user saves between the read of `replay.yaml` and its promotion
  (`heal.go:211` to `:223`) is replaced without a backup, against
  `docs/INCIDENT_TO_TEST.md:64`. `NoConfigLost` is about what was read, and holds.
* Replay of a topic. `cmd/agent/main.go:2231` calls `--timeout` the maximum duration
  of a replay. The client (`kafka.go:334`) is made with kgo's default idempotent
  producer and none of the options that would end the wait for an answer, so that a
  broker that takes a produce request and never answers keeps the command waiting
  for ever; `Expire` therefore ends no produce call that was sent, and no property
  says that a replay ends.
* Capture of a topic. That a session's offsets are consecutive is a property of
  plain topics: compacted and transactional ones have gaps of their own, which the
  model's topic does not.
* Workflow verification never gives a match back; with a correlation asked for it
  may report a step as missing although a chain exists.
* Sealing: two seals to one path race between `Stat` and `Rename` (`bundle.go:125`),
  and the later one replaces the earlier.

## 6. Not modelled

* The transparent mode of the stub (`stubproxy.go:749`): connections redirected by
  the kernel and served by index instead of by match, sharing two counters with the
  rest. It needs the kernel's redirection and is used on Linux hosts only; that it
  reads the index before it counts the call is listed as a hazard.
* `forwardProxyRequest` of the stub, which nothing calls, and the certificates,
  signatures and TLS handshakes, which are library code.
* In `ReplayDriver`, the cookie jar of the client, which appends the cookies it
  received behind the captured ones; how values are found in JSON, forms, headers
  and cookies, which is data of the instance; the comparison of `--diff`.
* In `RecordSession`, body limits, redaction, gRPC framing and the agent's injection
  rules. In `MatcherHealing`, JSONPath, Protobuf decoding and regular expressions,
  which are abstracted to values at fields. In `IncidentBundle`, encryption and the
  limits on sizes, names and kinds of files. In `WorkflowVerify`, the validation of
  the configuration and the wording of findings.
* `pkg/privacy`, contract, AsyncAPI and gRPC descriptors, generators, templates,
  lint, reports, the lookup of configurations, `cmd/benchmark` and the integrations:
  functions over documents or clients of the control API, without state over time
  and without concurrency; unit tests with golden files reach what can go wrong
  there.
* Option parsing, printing and the exit codes of the commands.
