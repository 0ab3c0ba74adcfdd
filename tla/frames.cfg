SPECIFICATION Spec
CONSTANTS
  UsedProtos = {"hdlc", "fffe"}
  MaxPair = 3
  Addr = 2
  OtherAddr = 1
  Bodies <- McBodies
  Types = {1}
  Acks = {2}
  FirstIds = {255, 65535}
  AckIds = {125}
  MaxLens = {20, 48}
  Chunks = {9, 20}
  NoiseBytes = {124, 125, 254}
  Cuts = {9}
  MaxSent = 2
  MaxNoise = 1
  MaxFrame = 24
INVARIANTS TypeOK NothingInvented IntactArrive
CHECK_DEADLOCK FALSE
