SPECIFICATION Spec
CONSTANTS
  Firmware <- McSizes
  Images <- McMixed
  PartLen <- McTight
  SectorCells = 2
  NorParts = {"factory"}
  MaxFault = 1
  MaxCrash = 0
  FactoryKey = TRUE
  AppCheck = TRUE
  NoFw = NoFw
  NoFile = NoFile
  Torn = Torn
INVARIANTS StoredIsRead
PROPERTIES BootKeepsPackages
