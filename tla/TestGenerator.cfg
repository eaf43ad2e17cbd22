SPECIFICATION GSpec
CONSTANTS
    ArmSeconds = 3
    RunSeconds = 5
    None = None
PROPERTIES SoundNeedsArm SoundEnds AutoStopShown
