SPECIFICATION FairSocketSpec
CONSTANTS
  Notifier = {"n1"}
  MaxFrame = 4
  MaxNote = 1
  Room = 2
INVARIANTS FramesAreWhole MessagesAreThose
PROPERTY SendersMoveOn
CHECK_DEADLOCK FALSE
