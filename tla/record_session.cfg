\* Two exchanges with a call each, tunnelled to a host or not, and the traces that
\* clients choose; the second client uses h2c; the session is stopped at any time.
SPECIFICATION Spec
CONSTANTS
  x1 = x1
  x2 = x2
  c1 = c1
  c2 = c2
  Exchanges = {x1, x2}
  Calls = {c1, c2}
  Caller <- MCCaller
  H2c = {x2}
  Hosts = {"api", "bank"}
  Allowed = {"api"}
  ClientTraces <- MCTraces
  WellFormed <- MCWellFormed
CHECK_DEADLOCK FALSE
INVARIANTS AnsweredIsRecorded LoadedAsReceived OneCertificatePerHost
