SPECIFICATION Spec
CONSTANTS
  Firmware <- McFlush
  Images <- McFlushFiles
  PartLen <- McPartLen
  SectorCells = 2
  NorParts = {}
  MaxFault = 0
  MaxCrash = 0
  FactoryKey = FALSE
  AppCheck = TRUE
  NoFw = NoFw
  NoFile = NoFile
  Torn = Torn
INVARIANTS SignedMeansReleased
