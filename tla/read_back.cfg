SPECIFICATION Spec
CONSTANTS
  Firmware <- McGood
  Images <- McTftp
  PartLen <- McPartLen
  SectorCells = 2
  NorParts = {"download"}
  MaxFault = 1
  MaxCrash = 0
  FactoryKey = FALSE
  AppCheck = TRUE
  NoFw = NoFw
  NoFile = NoFile
  Torn = Torn
INVARIANTS ReadBackSees
