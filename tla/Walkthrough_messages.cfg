CONSTANTS
  MaxActs = 1
  NoView = NoView
SPECIFICATION FairPlayerSpec
INVARIANT MessageByMessage
CHECK_DEADLOCK FALSE
