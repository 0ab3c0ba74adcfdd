SPECIFICATION FairSpec
CONSTANTS
  QmuFrames = 1
  MaxFrames = 4
  MaxLinks = 0
  RxBufNum = 1
  NumMod <- McNumMod
  PbufFrames = 2
  Senders = {}
  MaxOpens = 0
  MaxNoPbuf = 0
PROPERTIES QueueIsEmptied
CHECK_DEADLOCK FALSE
