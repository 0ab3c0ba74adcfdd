SPECIFICATION FairSpec
CONSTANTS
  Firmware <- McGood
  Images <- McSame
  PartLen <- McTight
  SectorCells = 2
  NorParts = {}
  MaxFault = 0
  MaxCrash = 2
  FactoryKey = FALSE
  AppCheck = TRUE
  NoFw = NoFw
  NoFile = NoFile
  Torn = Torn
INVARIANTS TornReleaseNeverRuns TornIsRecoverable ReleasedOnce
PROPERTIES ImplementsService EventuallyRuns DownloadIsInstalled BootComesToAnEnd RunsWhatIsStored
