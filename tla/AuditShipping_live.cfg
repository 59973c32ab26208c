\* One transaction appends; batches of two, one to a pass, so that later passes
\* go on from where one ended.
CONSTANTS
  Writer = {w1}
  MaxEvents = 3
  Shipper = {s1, s2}
  Batch = 2
  MaxBatches = 1
  NoHash = NoHash
SPECIFICATION FairSpec
PROPERTY FeedImplemented
\* The events may be used up.
CHECK_DEADLOCK FALSE
