SPECIFICATION Spec
CONSTANTS
    Bytes = {0, 165, 255}
    MaxBytes = 3
    ClockStretch = 2
    Habits <- MCHabits
INVARIANTS
    TypeOK
PROPERTIES
    ImplementsCalls
    BusLeftFree
    CallsEnd
