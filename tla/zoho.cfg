SPECIFICATION FairSpec
CONSTANTS
    u1 = u1
    u2 = u2
    User = {u1, u2}
    Value = {"blank", "a", "b"}
    Blank = "blank"
    Accepted = {"blank", "a"}
    Initial = {"a"}
    Created <- TwoUsers
    Scheduler = {r1}
    Manual = {r2}
    Conflict = {c1}
    Resolver = {q1, q2}
    Verdicts = {"keep_db", "keep_sheet"}
    BatchSize = 1
    Directions = {"bidirectional", "sheet_to_db"}
    Policies = {"mark", "delete"}
    Answers = {"done", "failed", "lost", "repeated"}
    MayStop = {r1}
    MayOutrun = TRUE
    MaxDisturbances = 2
    None = None
CHECK_DEADLOCK FALSE
INVARIANTS
    TypeOK
    OneRunAtATime
    
    
    

    
