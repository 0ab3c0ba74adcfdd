SPECIFICATION FairSpec
CONSTANTS
  QmuFrames = 2
  MaxFrames = 2
  MaxLinks = 1
  RxBufNum = 1
  NumMod <- McNumMod
  PbufFrames = 2
  Senders = {"app","etx"}
  MaxOpens = 1
  MaxNoPbuf = 0
INVARIANTS FramesNoticed
PROPERTIES MutexComesBack FramesTaken SendersProceed
CHECK_DEADLOCK FALSE
