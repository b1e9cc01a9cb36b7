SPECIFICATION Spec
CONSTANTS
    Bytes = {165}
    MaxBytes = 2
    ClockStretch = 2
    Habits <- MCAckHabits
PROPERTIES
    ZeroMeansDone
