SPECIFICATION MSpec
CONSTANTS
  MidiPort = TRUE
  MayCrash = TRUE
  MayReturn = TRUE
  MayRaise = TRUE
INVARIANTS
  NoOrphanRecorder
  CleanIsClean
PROPERTIES
  FinishedIsRecorded
  FailureShown
  StopCollected
  MountLossStops
