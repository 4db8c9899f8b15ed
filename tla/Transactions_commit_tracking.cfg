SPECIFICATION Spec
CONSTANTS
    t1 = t1
    
    Threads = {t1}
    MaxOps = 2
    MaxParts = 2
    Scripts <- CommitScripts
    Plans <- MCPlans

PROPERTY CommitClearsTracking
CHECK_DEADLOCK FALSE
