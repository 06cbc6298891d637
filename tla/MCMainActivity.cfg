SPECIFICATION Spec
CONSTANTS
    Activities = {a1, a2}
    MaxSessions = 3
INVARIANTS
    DirUntilTorn
    TextIsTrue
