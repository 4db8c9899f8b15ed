SPECIFICATION Spec
CONSTANTS
    t1 = t1
    
    Threads = {t1}
    MaxOps = 2
    MaxParts = 2
    Scripts <- ReadWriteScripts
    Plans <- MCPlans

INVARIANT SavepointsOnlyInCleanTransactions
CHECK_DEADLOCK FALSE
