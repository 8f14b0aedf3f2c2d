----------------------------- MODULE AppendLog -----------------------------
(***************************************************************************)
(* What an incident log promises the commands that read it: records are    *)
(* only ever appended, each with a larger sequence number than the one     *)
(* before it, and an event whose Write returned nil is in the log for good. *)
(* EventLog, the logger of pkg/event, implements it.                       *)
(***************************************************************************)
EXTENDS Naturals, Sequences

CONSTANT Ids    (* identities of the events *)

VARIABLES
  log,          (* the records a reader decodes *)
  acked         (* the events whose Write returned nil *)

LastSeq == IF log = << >> THEN 0 ELSE log[Len(log)].seq

Init == log = << >> /\ acked = {}

\* A record of some event, with a larger sequence number, follows the others.
Add ==
  /\ Len(log') = Len(log) + 1
  /\ \A i \in 1..Len(log) : log'[i] = log[i]
  /\ log'[Len(log) + 1].id \in Ids
  /\ log'[Len(log) + 1].seq > LastSeq
  /\ UNCHANGED acked

Acknowledge(id) ==
  /\ \E i \in 1..Len(log) : log[i].id = id
  /\ acked' = acked \cup {id}
  /\ UNCHANGED log

Next == Add \/ \E id \in Ids : Acknowledge(id)

Spec == Init /\ [][Next]_<<log, acked>>
=============================================================================
