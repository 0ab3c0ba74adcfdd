SPECIFICATION Spec
CONSTANTS
  Firmware <- McAny
  Images <- McStick
  PartLen <- McPartLen
  SectorCells = 2
  NorParts = {"download"}
  MaxFault = 0
  MaxCrash = 1
  FactoryKey = TRUE
  AppCheck = FALSE
  NoFw = NoFw
  NoFile = NoFile
  Torn = Torn
INVARIANTS TypeOK SignedMeansReleased TornReleaseNeverRuns TornIsRecoverable
