SPECIFICATION Spec
CONSTANTS
  MaxJobs = 2
  MaxPids = 2
  Names = {1, 2}
  Kinds <- MCKinds
  MaxFile = 2
  MaxTotal = 3
  Inputs <- MCInputs
  MaxInputs = 2
  MaxAsset = 2
  MaxAssets = 3
  MaxBundle = 1
  BootTime = 1
  PassTime = 2
  BundleTime = 4
  Decks <- MCDecks
  MaxSlides = 2
  MaxOutput = 2
INVARIANTS SandboxType Contained FilesOwn OutputBounded
INVARIANTS GatewayAgrees LatexAnswered
INVARIANTS ConfigurationAgrees QuietStop SlidesAnswered
PROPERTY ProgramsEnd
CHECK_DEADLOCK FALSE
