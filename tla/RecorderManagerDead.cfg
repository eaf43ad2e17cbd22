SPECIFICATION MSpec
CONSTANTS
  MidiPort = FALSE
  MayCrash = TRUE
  MayReturn = FALSE
  MayRaise = FALSE
INVARIANT NotActiveWithoutRecorder
