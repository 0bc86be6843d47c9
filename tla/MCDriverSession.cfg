CONSTANTS
  Features <- MCFeatures
  Specs <- MCSpecs
  SessionSpecs <- MCSessionSpecs
  Worlds <- MCWorlds
  MaxBridges = 3
  MaxKeys = 2
  MaxBatch = 3
  MaxRows = 2
  Exact = 4
  IntMax = 7
  Base = 10
  MaxUnits = 20
SPECIFICATION SessionSpec
CHECK_DEADLOCK FALSE
INVARIANTS
  TypeOK
  RequiredMeansProtected
  StrangersLearnNothing
  TunnelCarriesEverything
  OneForward
  NothingDroppedSilently
  AnswerIsHonest
  TreeIsComplete
  DescribedByItself
  IndexColumnsInOrder
  ValuesAreExact
PROPERTY
  ImplementsPromise
