----------------------------- MODULE MCEventLog -----------------------------
(* EventLog for TLC: its constants are model values. *)
EXTENDS EventLog

=============================================================================
