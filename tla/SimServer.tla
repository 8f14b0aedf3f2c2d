----------------------------- MODULE SimServer -----------------------------
(***************************************************************************)
(* pkg/simserver around the stub: a control client polls the status and    *)
(* asks for resets while the application calls the stub, and the server    *)
(* shuts down.  The stub's steps are those of StubProxy, with the server's *)
(* conditions on them; its Reset is what POST /reset runs.                 *)
(*                                                                         *)
(* net/http is external: Shutdown closes the listener and waits for the    *)
(* requests of its connections, or for the context's deadline; it does not *)
(* know the hijacked connections: the tunnels of the HTTPS stub, and those *)
(* on which h2c.NewHandler speaks HTTP/2, as gRPC clients do.              *)
(* One poll and one reset may run at a time, each beside the other.         *)
(***************************************************************************)
EXTENDS StubProxy

CONSTANTS
  Hijacked,     (* requests on a hijacked connection: CONNECT or h2c *)
  MaxPolls      (* bound on the status requests                      *)

ASSUME SimServerAssumption ==
  Hijacked \subseteq Requests /\ MaxPolls \in Nat

VARIABLES
  life,         (* Server: serving, the steps of Close, closed, exited   *)
  expired,      (* the five seconds of the shutdown context have passed  *)
  logOpen,      (* the observed-event log is open                        *)
  record,       (* of each request: not yet, written or lost             *)
  poll,         (* next read of Snapshot, or idle or done                *)
  snap,         (* the Snapshot being built                              *)
  polls,        (* status requests so far                                *)
  before,       (* history: the divergences when the poll started        *)
  resetDuring   (* history: a Reset ran since the poll started           *)

server  == <<life, expired, logOpen, record>>
client  == <<poll, snap, polls, before, resetDuring>>
simVars == <<vars, server, client>>

NoSnap == [observed |-> 0, divergences |-> {}, unexpected |-> FALSE]

-----------------------------------------------------------------------------
(* The stub, as the server runs it.                                        *)

\* A plain request needs the stub's listener, the others their connection.
Receives(r) == life \in {"serving", "drain_admin"} \/ r \in Hijacked

\* recordObserved follows the count, before anything else; the error of a
\* closed log is ignored.
Observe(r) ==
  /\ pc[r] = "counted" /\ record[r] = "none"
  /\ record' = [record EXCEPT ![r] = IF logOpen THEN "written" ELSE "lost"]
  /\ UNCHANGED <<vars, life, expired, logOpen, client>>

Serve(r) ==
  /\ life # "exited"
  /\ \/ /\ Receives(r)
        /\ pc[r] = "idle"
        /\ Handler(r)
     \/ /\ pc[r] # "idle"
        /\ pc[r] = "counted" => record[r] # "none"
        /\ Handler(r)
  /\ UNCHANGED <<server, client>>

\* POST /__infernosim/reset; a reset that runs is completed.
HandleReset ==
  /\ life \in {"serving", "drain_admin", "drain_stub"}
  /\ ctl = "idle" => life = "serving"
  /\ Controller
  /\ resetDuring' = TRUE
  /\ UNCHANGED <<server, poll, snap, polls, before>>

-----------------------------------------------------------------------------
(* GET /__infernosim/status and /proof: Snapshot reads three times.        *)

\* Mutant: the index of the transparent mode instead of the count of calls.
StartPollReadsIndex ==
  /\ life = "serving"
  /\ poll \in {"idle", "done"} /\ poll' = "divergences"
  /\ polls < MaxPolls /\ polls' = polls + 1
  /\ snap' = NoSnap
  /\ before' = divergences
  /\ resetDuring' = (ctl # "idle")
  /\ UNCHANGED <<vars, server>>

StartPoll ==
  /\ life = "serving"
  /\ poll \in {"idle", "done"} /\ poll' = "divergences"
  /\ polls < MaxPolls /\ polls' = polls + 1
  /\ snap' = [NoSnap EXCEPT !.observed = seen]
  /\ before' = divergences
  /\ resetDuring' = (ctl # "idle")
  /\ UNCHANGED <<vars, server>>

ReadDivergences(from, to) ==
  /\ life # "exited"
  /\ poll = from /\ poll' = to
  /\ snap' = [snap EXCEPT !.divergences = divergences]
  /\ UNCHANGED <<vars, server, polls, before, resetDuring>>

ReadUnexpected(from, to) ==
  /\ life # "exited"
  /\ poll = from /\ poll' = to
  /\ snap' = [snap EXCEPT !.unexpected = unexpected]
  /\ UNCHANGED <<vars, server, polls, before, resetDuring>>

\* Mutant: the fields under mu are read in the other order.
PollFlagFirst ==
  \/ StartPoll
  \/ ReadUnexpected("divergences", "unexpected")
  \/ ReadDivergences("unexpected", "done")

Poll ==
  \/ StartPoll
  \/ ReadDivergences("divergences", "unexpected")
  \/ ReadUnexpected("unexpected", "done")

-----------------------------------------------------------------------------
(* Close, after a signal or the failure of a listener.                     *)

Shut(from, to) ==
  /\ life = from /\ life' = to
  /\ UNCHANGED <<vars, expired, record, client>>

BeginClose == Shut("serving", "drain_admin") /\ UNCHANGED logOpen

\* Mutant: Shutdown without a deadline.
AdminDrainedWithoutDeadline ==
  /\ Shut("drain_admin", "drain_stub")
  /\ ctl = "idle" /\ poll \in {"idle", "done"}
  /\ UNCHANGED logOpen

\* adminServer.Shutdown returns: the control requests are answered.
AdminDrained ==
  /\ Shut("drain_admin", "drain_stub")
  /\ expired \/ (ctl = "idle" /\ poll \in {"idle", "done"})
  /\ UNCHANGED logOpen

\* Mutant: the log is closed without waiting for the stub's requests.
StubNotDrained == Shut("drain_stub", "close_log") /\ UNCHANGED logOpen

\* stubServer.Shutdown returns: the plain requests are answered.
StubDrained ==
  /\ Shut("drain_stub", "close_log")
  /\ expired \/ Active \subseteq Hijacked
  /\ UNCHANGED logOpen

\* stub.Close closes the observed-event log.
CloseLog == Shut("close_log", "closed") /\ logOpen' = FALSE

\* runServe returns, and the process takes its goroutines with it.
Exit == Shut("closed", "exited") /\ UNCHANGED logOpen

Expire ==
  /\ life \in {"drain_admin", "drain_stub"} /\ ~expired
  /\ expired' = TRUE
  /\ UNCHANGED <<vars, life, logOpen, record, client>>

CloseStep == BeginClose \/ AdminDrained \/ StubDrained \/ CloseLog \/ Exit \/ Expire

-----------------------------------------------------------------------------
SimInit ==
  /\ Init
  /\ life = "serving" /\ expired = FALSE /\ logOpen = TRUE
  /\ record = [r \in Requests |-> "none"]
  /\ poll = "idle" /\ snap = NoSnap /\ polls = 0
  /\ before = {} /\ resetDuring = FALSE

SimNext ==
  \/ \E r \in Requests : Observe(r) \/ Serve(r)
  \/ HandleReset \/ Poll \/ CloseStep

\* Whether the server is told to close is the environment's choice; once it
\* is, the context's deadline comes and every step of Close that can run, runs.
\* Clients may stall for ever, so the handlers are not assumed to progress.
SimFairness == WF_simVars(AdminDrained \/ StubDrained \/ CloseLog \/ Expire)

SimSpec == SimInit /\ [][SimNext]_simVars /\ SimFairness

-----------------------------------------------------------------------------
(* Properties.                                                             *)

\* A status without the flag certifies, if no Reset ran since it was asked
\* for, that no call was refused up to the moment its divergences were read:
\* it lists none, and none had been reported before.  The flag is read last.
NoFlagNoDivergence ==
  (poll = "done" /\ ~snap.unexpected /\ ~resetDuring)
    => snap.divergences = {} /\ before = {}

\* A status keeps every reason reported before it was asked for, and counts at
\* least the calls that had been refused by then, unless a Reset raced with it
\* or with a call.
SnapshotIsNotStale ==
  (poll = "done" /\ ~resetDuring)
    => /\ before \subseteq snap.divergences
       /\ undisturbed => Cardinality(before) <= snap.observed

\* Only a request that outlives the shutdown deadline, or that came through a
\* hijacked connection (CONNECT or h2c), is missing from the observed-event log.
ObservedLogComplete ==
  \A r \in Requests : record[r] = "lost" => expired \/ r \in Hijacked

\* Once told to close, the server closes, whatever its handlers do.
CloseCompletes == life = "drain_admin" ~> life \in {"closed", "exited"}
=============================================================================
