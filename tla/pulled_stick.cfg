SPECIFICATION Spec
CONSTANTS
  Firmware <- McGood
  Images <- McSame
  PartLen <- McPartLen
  SectorCells = 2
  NorParts = {}
  MaxFault = 0
  MaxCrash = 0
  FactoryKey = FALSE
  AppCheck = TRUE
  NoFw = NoFw
  NoFile = NoFile
  Torn = Torn
PROPERTIES StoredIsInstalled
