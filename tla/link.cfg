SPECIFICATION Spec
CONSTANTS
  QmuFrames = 2
  MaxFrames = 3
  MaxLinks = 0
  RxBufNum = 2
  NumMod <- McNumMod
  PbufFrames = 2
  Senders = {"app"}
  MaxOpens = 2
  MaxNoPbuf = 1
INVARIANTS TypeOK CountIsLength NewestInOrder
CHECK_DEADLOCK FALSE
