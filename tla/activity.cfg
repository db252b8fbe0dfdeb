\* Two connections, two anomalies or faults.
CONSTANTS
  Conns = {c1, c2}
  AdmitMax = 2
  RequestMax = 2
  FaultMax = 2
  Losses = {1, 4}
  Backlog = 0
  Capacity = 2
  MaxRecords = 11
SYMMETRY Symmetry
SPECIFICATION Spec
INVARIANTS OneExchange Reported FramesAccepted
CHECK_DEADLOCK FALSE
