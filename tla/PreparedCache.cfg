SPECIFICATION Spec
CONSTANTS
    c1 = c1
    c2 = c2
    qa = qa
    qb = qb
    qc = qc
    Callers <- MCCallers
    Shapes <- MCShapes
    Capacities <- MCCapacities
    Threshold = 2
    MaxUse = 7
    MaxIds = 3
 
PROPERTY ImplementsLru
PROPERTY FirstHandleStays
CHECK_DEADLOCK FALSE
