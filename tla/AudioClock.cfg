SPECIFICATION Spec
CONSTANTS
    Sources = {adat1, iec958}
    Checked = {adat1}
    None = None
    Rates = {48000, 44100}
    Required = 48000
INVARIANT OutcomeIsTrue
PROPERTY QuietChange
PROPERTY ServicesReturn
