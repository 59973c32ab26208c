\* Two transactions race for the head of the chain and two passes for the
\* cursor; batches of two, two to a pass, so that a pass
\* flushes half way.
CONSTANTS
  Writer = {w1, w2}
  MaxEvents = 3
  Shipper = {s1, s2}
  Batch = 2
  MaxBatches = 2
  NoHash = NoHash
SPECIFICATION Spec
SYMMETRY WorkerSymmetry
INVARIANTS
  TypeOK
  ChainValid
  ExportVerifies
  CursorCovers
  NoFalseAlarm
\* The events may be used up.
CHECK_DEADLOCK FALSE
