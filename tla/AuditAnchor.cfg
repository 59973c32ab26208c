\* One housekeeping transaction that recorded an event before it anchors.
CONSTANTS
  Writer = {w1, w2}
  MaxEvents = 3
SPECIFICATION Spec
INVARIANT AnchorsVerify
\* The events may be used up.
CHECK_DEADLOCK FALSE
