---------------------------- MODULE ReplayDriver ----------------------------
(***************************************************************************)
(* ReplayEvents of pkg/replaydriver: captured inbound requests are sent to *)
(* the target one after the other, with the values that earlier responses  *)
(* produced in place of the captured ones; and the verify and inspect      *)
(* commands, which judge from the capture alone whether that will work.    *)
(*                                                                         *)
(* Abstracted: a request is the set of values it carries in its headers,   *)
(* URL and body; a value may occur inside the text of another.  Pacing is  *)
(* time that passes.  The client's cookie jar, which appends the cookies   *)
(* it received behind the captured ones, is left out.                      *)
(***************************************************************************)
EXTENDS Naturals, Sequences, FiniteSets, SequencesExt

CONSTANTS
  Scripts,      (* captured requests, ordered as LoadInboundEvents returns *)
  Live,         (* what the target produces now for a captured value       *)
  Inside,       (* pairs <<v, w>>: the text of v is a proper part of w's   *)
  Garbled,      (* a value of which a part was replaced                    *)
  Seeds,        (* maps that the state adapters load before the replay     *)
  Extras,       (* sets of values the target may add to a response now     *)
  SafeModes,    (* --safe-mode, and --allow-writes                         *)
  IdleLimit     (* whether MaxIdleTime is set                              *)

\* A request: write (POST, PUT, PATCH or DELETE), allowed (its path has a
\* prefix of SafeModeAllow), omitted (its body was not captured), expired (its
\* token had expired), uses (values found by IdentifyConsumers), carries (other
\* values), produces (values of its response, in order), payload (what was
\* captured of the response: "full", "headers" or "none") and own (the values
\* that ExtractResponseValues would find in the request's own headers and body).
VARIABLES
  script, safe, (* the capture and the mode of this replay                 *)
  i,            (* the request the loop is at                              *)
  pc,           (* "loop", "sending", "reading" or how the replay returned *)
  state,        (* RuntimeState.values                                     *)
  request,      (* the request being sent: what each value became          *)
  received,     (* the values of the response being read                   *)
  late,         (* the wall-clock deadline has passed                      *)
  replayed,     (* ReplayedEvents                                          *)
  signatures,   (* ResponseSignatures: index and outcome of each request   *)
  skipped,      (* safeModeSkipped                                         *)
  result,       (* the counts of ReplayResult, once the replay has returned*)
  sent          (* history: what each request sent had become              *)

vars == <<script, safe, i, pc, state, request, received, late, replayed,
          signatures, skipped, result, sent>>

Values == DOMAIN Live
Carried(req) == {use.value : use \in req.uses} \cup req.carries

\* What a value may have become on its way: substitute puts in live values.
Texts == Values \cup {Live[v] : v \in Values} \cup {Garbled}
           \cup UNION {{p.value : p \in extra} : extra \in Extras}

\* The fields of a value found in a response.
IsProduced(p) == DOMAIN p = {"kind", "name", "value"}

ASSUME DriverAssumption ==
  /\ IsFiniteSet(Values)
  /\ \A seed \in Seeds : DOMAIN seed \subseteq Values /\ \A v \in DOMAIN seed : seed[v] \in Texts
  /\ \A extra \in Extras : IsFiniteSet(extra) /\ \A p \in extra : IsProduced(p)
  /\ SafeModes \subseteq BOOLEAN
  /\ \A events \in Scripts :
       /\ Len(events) \in Nat /\ DOMAIN events = 1..Len(events)
       /\ \A k \in DOMAIN events :
            /\ IsFiniteSet(events[k].uses) /\ Carried(events[k]) \subseteq Values
            /\ \A found \in {events[k].produces, events[k].own} :
                 /\ Len(found) \in Nat /\ DOMAIN found = 1..Len(found)
                 /\ \A a \in DOMAIN found : IsProduced(found[a]) /\ found[a].value \in Values

-----------------------------------------------------------------------------
(* State-aware rewriting.                                                  *)

ReplaceIn(text, old) ==
  IF text = old THEN state[old]
  ELSE IF <<old, text>> \in Inside THEN Garbled ELSE text

\* One replacement after the other, each on the outcome of those before it.
Replaced(value, order) ==
  LET text[n \in 0..Len(order)] ==
        IF n = 0 THEN value ELSE ReplaceIn(text[n - 1], order[n])
  IN  text[Len(order)]

\* substitute ranges over a map: every replacement is made once, in any order.
Substitutions(value) == {Replaced(value, order) : order \in SetToSeqs(DOMAIN state)}

IsCookie(p) == p.kind = "cookie"

\* ExtractResponseValues on what was captured of a response, each value at its
\* place; without a response, on the request itself, as for the events of older
\* logs that hold both.
CapturedValues(req) ==
  CASE req.payload = "full"    -> req.produces
    [] req.payload = "headers" ->
         [k \in {n \in DOMAIN req.produces : IsCookie(req.produces[n])} |-> req.produces[k]]
    [] OTHER                   -> req.own

\* Mutant: names and locators are not compared.
PairedByKind(old, new) == old.kind = new.kind /\ old.value # new.value

\* A captured value and a live one with the same kind and the same name, or the
\* same locator, which is "Set-Cookie" for every cookie.
Paired(old, new) ==
  /\ old.kind = new.kind
  /\ old.name = new.name \/ IsCookie(old)
  /\ old.value # new.value

\* The index of NewRequestRewriterWithEvents.
Consumers == UNION {script[k].uses : k \in DOMAIN script}

\* Live value new for captured value old, found by the loops of UpdateState at
\* a place.
Link(old, new, place) == [old |-> old, new |-> new, place |-> place]

\* Each captured value is linked to each live one it pairs with; without captured
\* values every consumer is, to the live values of its kind.
Links(old, new) ==
  IF DOMAIN old # {}
  THEN {Link(old[p[1]].value, new[p[2]].value, p) :
          p \in {p \in (DOMAIN old) \X (DOMAIN new) : Paired(old[p[1]], new[p[2]])}}
  ELSE {Link(p[1].value, new[p[2]].value, <<0, p[2]>>) :
          p \in {p \in Consumers \X (DOMAIN new) : /\ p[1].kind = new[p[2]].kind
                                                  /\ p[1].value # new[p[2]].value}}

\* The places in the order of the loops.
Before(p, q) == p[1] < q[1] \/ (p[1] = q[1] /\ p[2] < q[2])

\* Of the links of a captured value, the last one to be put stays.
LastPut(links, v) ==
  CHOOSE l \in links : /\ l.old = v
                      /\ \A m \in links : m.old = v => ~Before(l.place, m.place)

Put(links) ==
  LET linked == {l.old : l \in links}
  IN  [v \in DOMAIN state \cup linked |-> IF v \in linked THEN LastPut(links, v).new ELSE state[v]]

UpdateState(old, new) == Put(Links(old, new))

-----------------------------------------------------------------------------
(* ReplayEvents.                                                           *)

Returned == pc \in {"done", "expanded", "stalled", "failed"}

Keep == UNCHANGED <<script, safe>>

NoResult == [completed |-> 0, skipped |-> 0, replayed |-> << >>]

Fail == pc' = "failed" /\ result' = NoResult

\* A return before the end says how many requests the loop was past, the skipped
\* ones among them, but neither how many were skipped nor what was replayed.
ReturnEarly(how, count) ==
  /\ pc' = how
  /\ result' = [NoResult EXCEPT !.completed = count]

\* Suspended for longer than the idle limit since the last request.
Stall ==
  /\ pc = "loop" /\ i <= Len(script) /\ IdleLimit
  /\ ReturnEarly("stalled", i - 1)
  /\ UNCHANGED <<i, state, request, received, late, replayed, signatures, skipped, sent>>
  /\ Keep

\* The deadline has passed when the pause before the request is over.
ExpireBefore ==
  /\ pc = "loop" /\ i <= Len(script) /\ late
  /\ ReturnEarly("expanded", i - 1)
  /\ UNCHANGED <<i, state, request, received, late, replayed, signatures, skipped, sent>>
  /\ Keep

\* A body that was not captured ends the replay, unless safe mode is on: then a
\* write is skipped, or sent without its body when it is allowed.
Omitted ==
  /\ pc = "loop" /\ i <= Len(script) /\ ~late
  /\ script[i].omitted /\ ~safe
  /\ Fail
  /\ UNCHANGED <<i, state, request, received, late, replayed, signatures, skipped, sent>>
  /\ Keep

Skips(req) == safe /\ req.write /\ ~req.allowed

Skip ==
  /\ pc = "loop" /\ i <= Len(script) /\ ~late
  /\ Skips(script[i])
  /\ skipped' = skipped + 1
  /\ i' = i + 1
  /\ UNCHANGED <<pc, state, request, received, late, replayed, signatures, result, sent>>
  /\ Keep

Send ==
  /\ pc = "loop" /\ i <= Len(script) /\ ~late
  /\ ~(script[i].omitted /\ ~safe)
  /\ ~Skips(script[i])
  /\ \E became \in [Carried(script[i]) -> Texts] :
       /\ \A v \in DOMAIN became : became[v] \in Substitutions(v)
       /\ request' = became
       /\ sent' = Append(sent, [index |-> i, became |-> became])
  /\ pc' = "sending"
  /\ UNCHANGED <<i, state, received, late, replayed, signatures, skipped, result>>
  /\ Keep

\* The end of an iteration: the deadline is looked at once more.
\* Mutant: the request just finished is not counted.
NextRequestNotCounted ==
  IF late THEN ReturnEarly("expanded", i - 1) /\ UNCHANGED i
  ELSE pc' = "loop" /\ i' = i + 1 /\ UNCHANGED result

NextRequest ==
  IF late THEN ReturnEarly("expanded", i) /\ UNCHANGED i
  ELSE pc' = "loop" /\ i' = i + 1 /\ UNCHANGED result

\* client.Do returns an error, its own timeout or that of MaxIdleTime included.
DoFails ==
  /\ pc = "sending"
  /\ signatures' = Append(signatures, [index |-> i, error |-> TRUE, values |-> {}])
  /\ request' = << >>
  /\ NextRequest
  /\ UNCHANGED <<state, received, late, replayed, skipped, sent>>
  /\ Keep

Renew(p)    == [p EXCEPT !.value = Live[@]]
Anew(found) == {Renew(found[k]) : k \in DOMAIN found}

\* The target answers: as it did when captured, or otherwise (an error status),
\* with values of its own or without.  They are found in any order: JSON keys
\* are in a map, cookies in the order the target sets them.
Respond ==
  /\ pc = "sending"
  /\ \E values \in {Anew(script[i].produces), {}}, extra \in Extras :
       received' \in SetToSeqs(values \cup extra)
  /\ pc' = "reading"
  /\ UNCHANGED <<i, state, request, late, replayed, signatures, skipped, result, sent>>
  /\ Keep

\* The request's context is already cancelled: a body that has not arrived yet
\* cannot be read, which ends the replay.
ReadFails ==
  /\ pc = "reading"
  /\ Fail
  /\ request' = << >> /\ received' = << >>
  /\ UNCHANGED <<i, state, late, replayed, signatures, skipped, sent>>
  /\ Keep

Answered ==
  /\ pc = "reading"
  /\ replayed' = Append(replayed, i)
  /\ state' = UpdateState(CapturedValues(script[i]), received)
  /\ signatures' = Append(signatures, [index |-> i, error |-> FALSE,
                                        values |-> Range(received)])
  /\ request' = << >> /\ received' = << >>
  /\ NextRequest
  /\ UNCHANGED <<late, skipped, sent>>
  /\ Keep

Finish ==
  /\ pc = "loop" /\ i > Len(script)
  /\ pc' = "done"
  /\ result' = [completed |-> Len(script) - skipped, skipped |-> skipped, replayed |-> replayed]
  /\ UNCHANGED <<i, state, request, received, late, replayed, signatures, skipped, sent>>
  /\ Keep

\* The wall clock passes MaxWallClock.
Expire ==
  /\ ~late /\ ~Returned
  /\ late' = TRUE
  /\ UNCHANGED <<i, pc, state, request, received, replayed, signatures, skipped, result, sent>>
  /\ Keep

\* ApplyAdapters: the adapters, files with old and live values, that could be
\* read; one that could not is reported, and the others count.
ApplyAdapters == state \in Seeds

Init ==
  /\ script \in Scripts /\ safe \in SafeModes /\ ApplyAdapters
  /\ i = 1 /\ pc = "loop"
  /\ request = << >> /\ received = << >> /\ late = FALSE
  /\ replayed = << >> /\ signatures = << >> /\ skipped = 0
  /\ result = NoResult /\ sent = << >>

Loop == Stall \/ ExpireBefore \/ Omitted \/ Skip \/ Send \/ Finish
Next == Loop \/ DoFails \/ Respond \/ ReadFails \/ Answered \/ Expire

Spec == Init /\ [][Next]_vars

-----------------------------------------------------------------------------
(* verify and inspect.                                                     *)

\* What the events before request k show of produced values: a response of which
\* only headers were captured counts for nothing, not even with its cookies; one
\* that was not captured at all counts with what the request itself holds.
\* Mutant: the request's own response counts too.
ProducedUpTo(k) ==
  UNION {{[kind |-> p.kind, value |-> p.value] : p \in Range(CapturedValues(script[j]))} :
           j \in {m \in 1..k : script[m].payload # "headers"}}

ProducedBefore(k) ==
  UNION {{[kind |-> p.kind, value |-> p.value] : p \in Range(CapturedValues(script[j]))} :
           j \in {m \in 1..(k - 1) : script[m].payload # "headers"}}

MissingDeps ==
  {m \in (DOMAIN script) \X Consumers : /\ m[2] \in script[m[1]].uses
                                       /\ m[2] \notin ProducedBefore(m[1])}

Writes  == {k \in DOMAIN script : script[k].write}
Expired == {k \in DOMAIN script : script[k].expired}

\* 100, less 10 for a write, 15 for a missing value and 20 for an expired token.
Readiness ==
  LET losses == 10 * Cardinality(Writes) + 15 * Cardinality(MissingDeps)
                + 20 * Cardinality(Expired)
  IN  IF losses > 100 THEN 0 ELSE 100 - losses

\* inspect: the requests that use a value of an earlier response, of any kind.
DependencyChains ==
  Cardinality({k \in DOMAIN script :
    \E use \in script[k].uses, p \in ProducedBefore(k) : p.value = use.value})

-----------------------------------------------------------------------------
(* Properties.                                                             *)

Answers(j, values) ==
  \E n \in DOMAIN signatures :
    signatures[n].index = j /\ ~signatures[n].error /\ signatures[n].values = values

\* Request j was answered with what its response held when captured, no more and
\* no less; and what the capture tells of that response is true of it.
AnsweredAsCaptured(j) ==
  /\ Answers(j, Anew(script[j].produces))
  /\ Range(CapturedValues(script[j])) \subseteq Range(script[j].produces)

\* An answer with the live counterpart of v preceded request k.
Produced(v, k) ==
  \E j \in 1..(k - 1), n \in DOMAIN signatures :
    /\ signatures[n].index = j
    /\ \E p \in Range(CapturedValues(script[j])) :
         p.value = v /\ Renew(p) \in signatures[n].values

\* A value of an answer that is not v's but passes for it: one with the name of v,
\* any cookie if v was one of the captured cookies, or, when no values were captured
\* of the response, any of a kind that some request uses v as.
PassesFor(new, v, req) ==
  /\ new.value # Live[v]
  /\ \/ \E p \in Range(CapturedValues(req)) :
          /\ p.value = v /\ p.kind = new.kind
          /\ p.name = new.name \/ new.kind = "cookie"
     \/ /\ DOMAIN CapturedValues(req) = {}
        /\ \E use \in Consumers : use.value = v /\ use.kind = new.kind

\* The answer to request j held such a value.
Mistaken(v, j) ==
  \E n \in DOMAIN signatures : /\ signatures[n].index = j
                              /\ \E new \in signatures[n].values : PassesFor(new, v, script[j])

\* A value whose text cannot be taken for another's: neither it nor what it
\* becomes is a part of, or the same as, another value; and no adapter maps it
\* though the target produces it as captured (UpdateState leaves such a mapping).
Unambiguous(v) ==
  /\ \A w \in Values \ {v} : Live[v] # w /\ <<w, v>> \notin Inside /\ <<w, Live[v]>> \notin Inside
  /\ <<v, Live[v]>> \notin Inside
  /\ \A seed \in Seeds : v \in DOMAIN seed => Live[v] # v

\* No text and no answer before request k makes the rewriter take v for another.
Recognised(v, k) == Unambiguous(v) /\ \A j \in 1..(k - 1) : ~Mistaken(v, j)

\* A request sent after the target has produced a fresh value carries that value
\* wherever the captured request carried the captured one, through any number of
\* rotations of tokens in between, and whatever else the answers hold that does
\* not pass for it (NewRequestRewriterWithEvents, UpdateState, Rewrite,
\* PrepareBody).
LiveValuesSent ==
  \A n \in DOMAIN sent : \A v \in DOMAIN sent[n].became :
    Recognised(v, sent[n].index) /\ Produced(v, sent[n].index)
      => sent[n].became[v] = Live[v]

\* What verify promises: a capture it scores 100 loses no request to safe mode,
\* and where it finds no missing value each request is sent with live values as
\* long as every request before it was answered as captured; inspect then counts
\* every request that uses a value as part of a chain (VerifyIncident).
VerifyPredicts ==
  /\ Readiness = 100 => skipped = 0
  /\ MissingDeps = {} =>
       /\ DependencyChains = Cardinality({k \in DOMAIN script : script[k].uses # {}})
       /\ \A n \in DOMAIN sent :
            (\A j \in 1..(sent[n].index - 1) : AnsweredAsCaptured(j))
            => \A use \in script[sent[n].index].uses :
                 Recognised(use.value, sent[n].index)
                   => sent[n].became[use.value] = Live[use.value]

Indices(s)    == {s[n].index : n \in DOMAIN s}
WithAnswer(s) == {s[n].index : n \in {m \in DOMAIN s : ~s[m].error}}
Due(n)        == {k \in 1..n : ~Skips(script[k])}

\* On every way out of the loop the result describes what was done.  At the end
\* there is a signature of each request that safe mode lets pass, CompletedEvents
\* and SafeModeSkipped add up to the capture, and ReplayedEvents are the answered
\* requests.  A replay that ends early has a signature of each such request up to
\* CompletedEvents, which counts the skipped ones too, and says nothing of them
\* nor of the answers; one that fails says nothing at all (the returns of
\* ReplayEvents).
EveryExitCounts ==
  /\ pc = "done" =>
       /\ Indices(signatures) = Due(Len(script))
       /\ result.completed = Len(signatures)
       /\ result.completed + result.skipped = Len(script)
       /\ Range(result.replayed) = WithAnswer(signatures)
  /\ pc \in {"expanded", "stalled"} =>
       /\ Indices(signatures) = Due(result.completed)
       /\ result.skipped = 0 /\ result.replayed = << >>
  /\ pc = "failed" => result = NoResult

\* Every value the target has produced anew is sent in place of the captured
\* one, as the release notes say: without the reservations of Recognised it
\* does not hold (substitute, and the locator that all cookies share).
FreshValuesSent ==
  \A n \in DOMAIN sent : \A v \in DOMAIN sent[n].became :
    Produced(v, sent[n].index) => sent[n].became[v] = Live[v]
=============================================================================
