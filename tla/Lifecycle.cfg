CONSTANTS
  MAX_REQUESTS = 1
  MAX_GESTURES = 1
  FAULTS = {"heartbeat", "media", "game", "controller", "cleanup", "slow"}
  MAX_FAULTS = 1
SPECIFICATION FairSpec
INVARIANTS TypeOK CameraReturned GameHasAudio DownHonest
PROPERTIES OneGame MicBeforeReap ExitRestores StartResolved StopRestores
