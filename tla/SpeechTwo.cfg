SPECIFICATION RobotSpec
CONSTANTS
  Samples = 2
  ReleaseSteps = 2
  MaxPlays = 3
  Low <- MinusFour
  High = 4
  Margin = 1
  MaxDelta = 1
  Offsets <- SomeOffsets
  KeyPeriods = 3
  MaxNotices = 3
  MaxReactions = 2
  Pieces = 2
  MaxSounds = 2
  Games = {g1, g2}
  MaxInterrupts = 1
  MaxMotions = 3
  Programs = {game, precache}
  Engines <- SomeEngines
  Configs <- SomeConfigs
  Texts = {hello}
  MaxTalks = 3
  NoSound = NoSound
INVARIANT WordsAreAsAsked
CHECK_DEADLOCK FALSE
