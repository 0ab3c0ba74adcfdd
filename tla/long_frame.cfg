SPECIFICATION Spec
CONSTANTS
  UsedProtos = {"hdlc"}
  MaxPair = 252
  Addr = 2
  OtherAddr = 1
  Bodies <- McLong
  Types = {1}
  Acks = {2}
  FirstIds = {0}
  AckIds = {0}
  MaxLens = {700}
  Chunks = {300}
  NoiseBytes = {}
  Cuts = {}
  MaxSent = 2
  MaxNoise = 0
  MaxFrame = 300
INVARIANT IntactArrive
CHECK_DEADLOCK FALSE
