SPECIFICATION WatchersSpec
CONSTANTS
  Confirm = 2
  LostGrace = 2
  FoundDelay = 2
  AutoReset = 2
  LostHold = 3
  Gains = {1, 2}
  Decay = 1
  Alert = 5
  Found = 8
  MaxGap = 3
  BottleConfirm = 2
  BottleLost = 2
  FoundAgain = 2
  MusicConfirm = 2
  MusicLost = 2
  MusicCooldown = 2
  MaxStep = 2
  MaxToggles = 4
  QueueMax = 2
  MaxChunks = 5
  PipeRoom = 2
INVARIANTS
  FoundIsEarned
  DetectionIsOfNow
  NewestIsKept
PROPERTIES
  EventsAreEarned
  GameLetsGo
  WorkerEnds
  MonitorEnds
  CameraIsReleased
CHECK_DEADLOCK FALSE
