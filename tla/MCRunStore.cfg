\* Two callers race for one key with two requests; two processes recover the same runs, one row
\* a scan, beside a run that fails every attempt.
SPECIFICATION Spec
CONSTANTS
  Clients = {c1, c2}
  Servers = {s1, s2}
  Keys = {k1}
  Requests = {q1, q2}
  Runs = {r0, r1, r2}
  Legacy = {r0}
  NoRow = NoRow
  NoCheckpoint = NoCheckpoint
  BatchLimit = 1
  MaxFaults = 2
INVARIANTS ReceiptsAreStable AcceptedStaysReadable
PROPERTIES ReceiptsAreNormalized
