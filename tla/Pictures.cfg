SPECIFICATION PicturesSpec
CONSTANTS
  Points <- SomePoints
  MinPoints = 1
  StaleLimit = 1
  MinDuration = 2
  QueueSize = 1
  PipeSize = 1
  MaxTime = 2
  Clear = 1
  Furthest = 3
  MaxImages = 2
  Duration = 2
  Grace = 1
  Cooldown = 1
  Rearm = 2
  MaxAge = 1
  GateTime = 8
  Operators = {o1, o2}
  MaxCommands = 4
  MaxNow = 4
  MaxMoves = 1
  PoseAge = 1
  Window = 1
  MinSamples = 2
  SeedAge = 0
  NoSeed = NoSeed
INVARIANTS
  MoveIsFresh
  NothingSlipsOut
  SlamSound
PROPERTIES
  NothingIsReplayed
  TriggersAreEarned
CHECK_DEADLOCK FALSE
