\* Two commands, one mishap and two reseed loops for a torrent that seeds two units.
CONSTANTS
    SeedTarget = 2
    MaxUp = 2
    MaxLoops = 2
    MaxCommands = 2
    MaxMishaps = 1
SPECIFICATION Spec
CHECK_DEADLOCK FALSE
INVARIANTS
    SharesWhatItSays
    ReseedHasALoop
    NeverServedTwice
PROPERTIES
    ReseedIsTried
