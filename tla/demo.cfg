SPECIFICATION Spec
CONSTANTS
    j1 = j1
    j2 = j2
    j3 = j3
    Job = {j1, j2, j3}
    Counts = {3}
    BatchSize = 2
    EmployeeRole = TRUE
    Present = {2}
    MaxIncidents = 1
CHECK_DEADLOCK FALSE
INVARIANTS
    TypeOK
    OneGenerationAtATime
    CountsAreTrue
PROPERTIES
    PollSettles
