--------------------------- MODULE IncidentBundle ---------------------------
(***************************************************************************)
(* The life of an incident directory after it was recorded: bundle seal    *)
(* and bundle open (pkg/bundlev2), with failures and crashes between their *)
(* file operations, beside a recorder that may still append; and the       *)
(* checks of WorkflowVerify on the directory that was recorded or opened.  *)
(*                                                                         *)
(* Abstracted: encryption, and the limits on sizes, names and file types;  *)
(* an archive maps the names of files to their contents.                   *)
(***************************************************************************)
EXTENDS WorkflowVerify

CONSTANTS
  Sources,      (* directories that have been recorded                     *)
  Shared,       (* bound: those of them that are sealed                    *)
  Later,        (* an event that the recorder appends while sealing        *)
  Workflows,    (* configurations of workflow verify                       *)
  Destinations, (* what a directory holds that a bundle is opened into     *)
  Attempts      (* bound on the runs of seal, and of open                  *)

VARIABLES
  source,       (* the incident directory                                  *)
  appended,     (* the recorder has appended Later                         *)
  sealer,       (* control point of bundle seal                            *)
  todo,         (* the files the walk has still to archive                 *)
  size,         (* the size in the header of the file being archived       *)
  archive,      (* what has been archived                                  *)
  bundle,       (* the sealed file, or Absent                              *)
  seals,        (* runs of seal                                            *)
  opener,       (* control point of bundle open                            *)
  contents,     (* the decrypted archive                                   *)
  rest,         (* its files that are still to be extracted                *)
  dest,         (* the directory it is extracted into                      *)
  opens,        (* runs of open                                            *)
  check         (* a check of a directory and its result                   *)

vars == <<source, appended, sealer, todo, size, archive, bundle, seals,
          opener, contents, rest, dest, opens, check>>

Names    == {"inbound.log", "outbound.log", "messages.log"}
Present(dir) == {name \in DOMAIN dir : dir[name] # Absent}
First(names) == CHOOSE name \in names : \A other \in names : Rank(name) <= Rank(other)
Empty    == [name \in Names |-> Absent]
NoCheck  == [tool |-> "none"]

IsSequence(s) == s \in Seq({s[n] : n \in DOMAIN s})
IsLog(file)   ==
  /\ "events" \in DOMAIN file /\ IsSequence(file.events)
  /\ \A n \in DOMAIN file.events : file.events[n].at \in Nat \ {0} /\ file.events[n].number \in Nat

ASSUME BundleAssumption ==
  /\ \A dir \in Sources :
       /\ DOMAIN dir = Names /\ dir["outbound.log"] # Absent
       /\ \A name \in Names : dir[name] # Absent => IsLog(dir[name])
  /\ [events |-> << >>, torn |-> FALSE] # Absent
  /\ Later.at \in Nat \ {0} /\ Later.number \in Nat
  /\ \A dir \in Destinations : dir = [name \in Names |-> dir[name]]
  /\ \A w \in Workflows :
       IsSequence(w.steps) /\ \A n \in DOMAIN w.steps : w.steps[n].within \in Nat

sealing  == <<sealer, todo, size, archive, bundle, seals>>
opening  == <<opener, contents, rest, dest, opens>>

\* The recorder appends while the directory is being sealed.
Append1 ==
  /\ ~appended /\ sealer # "idle"
  /\ appended' = TRUE
  /\ source' = [source EXCEPT !["outbound.log"].events = Append(@, Later)]
  /\ UNCHANGED <<check>> /\ UNCHANGED sealing /\ UNCHANGED opening

-----------------------------------------------------------------------------
(* SealDirectory.                                                          *)

StartSeal ==
  /\ sealer = "idle" /\ seals < Attempts /\ check = NoCheck
  /\ source \in Shared \/ appended
  /\ seals' = seals + 1
  /\ sealer' = "walking"
  /\ todo' = Present(source) /\ archive' = Empty
  /\ UNCHANGED <<source, appended, size, bundle, check>> /\ UNCHANGED opening

StopSeal == sealer' = "idle" /\ todo' = {} /\ size' = 0 /\ archive' = Empty

\* The header of a file is written with the size it has now.
Header ==
  /\ sealer = "walking" /\ todo # {}
  /\ size' = Len(source[First(todo)].events)
  /\ sealer' = "copying"
  /\ UNCHANGED <<source, appended, todo, archive, bundle, seals, check>> /\ UNCHANGED opening

\* A file that has grown is more than its header announced, which ends the walk.
Copy ==
  /\ sealer = "copying"
  /\ Len(source[First(todo)].events) = size
  /\ archive' = [archive EXCEPT ![First(todo)] = source[First(todo)]]
  /\ todo' = todo \ {First(todo)} /\ size' = 0 /\ sealer' = "walking"
  /\ UNCHANGED <<source, appended, bundle, seals, check>> /\ UNCHANGED opening

CopyTooLong ==
  /\ sealer = "copying"
  /\ Len(source[First(todo)].events) # size
  /\ StopSeal
  /\ UNCHANGED <<source, appended, bundle, seals, check>> /\ UNCHANGED opening

\* Encryption, and the temporary file, written, synced and closed.
WriteTemp ==
  /\ sealer = "walking" /\ todo = {}
  /\ sealer' = "written"
  /\ UNCHANGED <<source, appended, todo, size, archive, bundle, seals, check>> /\ UNCHANGED opening

OutputIsFree == bundle = Absent

Refuse ==
  /\ sealer = "written" /\ ~OutputIsFree
  /\ StopSeal
  /\ UNCHANGED <<source, appended, bundle, seals, check>> /\ UNCHANGED opening

Stat ==
  /\ sealer = "written" /\ OutputIsFree
  /\ sealer' = "renaming"
  /\ UNCHANGED <<source, appended, todo, size, archive, bundle, seals, check>> /\ UNCHANGED opening

Rename ==
  /\ sealer = "renaming"
  /\ bundle' = archive
  /\ StopSeal
  /\ UNCHANGED <<source, appended, seals, check>> /\ UNCHANGED opening

\* Any file operation fails, or the process is killed; a temporary file that is
\* left behind has a name of its own.
SealFails ==
  /\ sealer \in {"copying", "walking", "written", "renaming"}
  /\ StopSeal
  /\ UNCHANGED <<source, appended, bundle, seals, check>> /\ UNCHANGED opening

Seal == StartSeal \/ Header \/ Copy \/ CopyTooLong \/ WriteTemp \/ Refuse \/ Stat \/ Rename \/ SealFails

-----------------------------------------------------------------------------
(* OpenToDirectory.                                                        *)

\* The bundle is read and decrypted as a whole.  The user names the directory of
\* the last run again, or another one.
ReadBundle ==
  /\ opener = "idle" /\ bundle # Absent /\ opens < Attempts
  /\ opens' = opens + 1
  /\ contents' = bundle /\ rest' = Present(bundle)
  /\ dest' \in {dest} \cup Destinations
  /\ opener' = "decrypted"
  /\ UNCHANGED <<source, appended, check>> /\ UNCHANGED sealing

\* Mutant: a directory that holds files is accepted.
DestinationIsEmptyAlways == TRUE

DestinationIsEmpty == Present(dest) = {}

RefuseDestination ==
  /\ opener = "decrypted" /\ ~DestinationIsEmpty
  /\ opener' = "idle" /\ contents' = Empty /\ rest' = {}
  /\ UNCHANGED <<source, appended, dest, opens, check>> /\ UNCHANGED sealing

\* The next file of the archive is created.  One that exists is not overwritten:
\* the extraction ends with an error (OpenFails).
Create ==
  /\ opener \in {"decrypted", "extracting"}
  /\ opener = "decrypted" => DestinationIsEmpty
  /\ rest # {} /\ dest[First(rest)] = Absent
  /\ dest' = [dest EXCEPT ![First(rest)] = [events |-> << >>, torn |-> FALSE]]
  /\ opener' = "writing"
  /\ UNCHANGED <<source, appended, contents, rest, opens, check>> /\ UNCHANGED sealing

Write ==
  /\ opener = "writing"
  /\ dest' = [dest EXCEPT ![First(rest)] = contents[First(rest)]]
  /\ rest' = rest \ {First(rest)}
  /\ opener' = "extracting"
  /\ UNCHANGED <<source, appended, contents, opens, check>> /\ UNCHANGED sealing

\* OpenToDirectory returns nil.
Opened ==
  /\ opener = "extracting" /\ rest = {}
  /\ opener' = "opened"
  /\ UNCHANGED <<source, appended, contents, rest, dest, opens, check>> /\ UNCHANGED sealing

\* The disk is full, a file exists, or the process is killed: what was extracted
\* stays, the last file perhaps in part.
OpenFails ==
  /\ opener \in {"decrypted", "writing", "extracting"}
  /\ opener' = "idle" /\ contents' = Empty /\ rest' = {}
  /\ IF opener = "writing"
     THEN LET events == contents[First(rest)].events
          IN \E n \in 0..Len(events) :
               dest' = [dest EXCEPT ![First(rest)] =
                          [events |-> SubSeq(events, 1, n), torn |-> n > 0]]
     ELSE UNCHANGED dest
  /\ UNCHANGED <<source, appended, opens, check>> /\ UNCHANGED sealing

Open == ReadBundle \/ RefuseDestination \/ Create \/ Write \/ Opened \/ OpenFails

-----------------------------------------------------------------------------
(* The checks.                                                             *)

\* A directory is checked where it was recorded or where it was opened.
Checked == IF opener = "opened" THEN dest ELSE source

Checkable ==
  /\ check = NoCheck
  /\ seals = 0 \/ (opener = "opened" /\ sealer = "idle")

CheckWorkflow ==
  /\ Checkable /\ Loads(Checked)
  /\ \E w \in Workflows :
       check' = [tool |-> "workflow", workflow |-> w, result |-> Verify(Observations(Checked), w)]
  /\ UNCHANGED <<source, appended>> /\ UNCHANGED sealing /\ UNCHANGED opening

\* The target answers each call with a status, or not at all.
Answers(file) == [DOMAIN file.events -> {"200", "500", "error"}]

CheckStrictly ==
  /\ Checkable
  /\ Checked["outbound.log"] # Absent /\ StrictLoads(Checked["outbound.log"])
  /\ \E answers \in Answers(Checked["outbound.log"]), allowWrites \in BOOLEAN :
       check' = [tool |-> "strict", answers |-> answers, allowWrites |-> allowWrites,
                 result |-> StrictReplay(Checked["outbound.log"], answers, allowWrites)]
  /\ UNCHANGED <<source, appended>> /\ UNCHANGED sealing /\ UNCHANGED opening

Init ==
  /\ source \in Sources /\ appended = FALSE
  /\ sealer = "idle" /\ todo = {} /\ size = 0 /\ archive = Empty /\ bundle = Absent /\ seals = 0
  /\ opener = "idle" /\ contents = Empty /\ rest = {} /\ dest = Empty /\ opens = 0
  /\ check = NoCheck

Next == Append1 \/ Seal \/ Open \/ CheckWorkflow \/ CheckStrictly

Spec == Init /\ [][Next]_vars

-----------------------------------------------------------------------------
(* Properties.                                                             *)

\* Strictly increasing choices of observations for the steps of a workflow.
Embeddings(obs, workflow) ==
  {f \in [DOMAIN workflow.steps -> DOMAIN obs] :
     /\ \A a, b \in DOMAIN f : a < b => f[a] < f[b]
     /\ \A a \in DOMAIN f : Matches(workflow.steps[a], obs[f[a]])}

\* The correlations an embedding may have.
Together(obs, mode, f) ==
  LET ids == {Correlation(obs[f[a]]) : a \in DOMAIN f}
  IN CASE mode = "required" -> "" \notin ids /\ Cardinality(ids) <= 1
       [] mode = "prefer"   -> Cardinality(ids \ {""}) <= 1
       [] OTHER             -> TRUE

InTime(obs, workflow, f) ==
  \A a \in DOMAIN f :
    (a > 1 /\ workflow.steps[a].within > 0) => obs[f[a]].at - obs[f[a - 1]].at <= workflow.steps[a].within

\* A workflow verified without findings did happen: there are observations for
\* its steps, in the order of their times across the logs, with one correlation
\* and within the bounds.  Where no correlation is asked for, a step is reported
\* as missing only if there is no such order, though the first match is taken and
\* never given back (VerifyIncident, loadObserved).
WorkflowVerdictIsRight ==
  check.tool = "workflow" =>
    LET obs == Observations(Checked)
        w   == check.workflow
        found == Embeddings(obs, w)
    IN /\ (~check.result.missing /\ ~check.result.late)
            => \E f \in found : Together(obs, w.correlation, f) /\ InTime(obs, w, f)
       /\ w.correlation = "none" /\ check.result.missing => found = {}
       /\ \A a, b \in DOMAIN obs : a < b => obs[a].at <= obs[b].at

\* A strict replay that passes has sent every call of the log and got the status
\* that was recorded, and it never sends a write that was not allowed nor a body
\* that is not the recorded one, as long as no line is too long for the scanner
\* (NewReplayer, Replay, executeOutboundCall).
StrictPassIsComplete ==
  check.tool = "strict" =>
    LET events == Checked["outbound.log"].events IN
    /\ \A n \in check.result.sent : ~events[n].broken /\ (events[n].write => check.allowWrites)
    /\ check.result.pass /\ (\A n \in DOMAIN events : ~events[n].long)
         => /\ check.result.sent = {n \in DOMAIN events : IsCall(events[n])}
            /\ \A n \in check.result.sent : events[n].status \in {"none", check.answers[n]}

\* A bundle that exists is whole: each file is what the incident's file was at a
\* moment of the sealing, up to an event, and a file that nobody appended to is
\* the incident's; and where open reports success the directory is the bundle,
\* though earlier runs of seal and of open failed between any two of their
\* operations (SealDirectory, archiveDirectory, extractArchive).
OpenedIsSealed ==
  /\ bundle # Absent =>
       \A name \in Names :
         \/ bundle[name] = source[name]
         \/ name = "outbound.log" /\ appended /\ source[name].events = Append(bundle[name].events, Later)
  /\ opener = "opened" => dest = bundle
=============================================================================
