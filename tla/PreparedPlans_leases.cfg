SPECIFICATION Spec
CONSTANTS
    t1 = t1
    t2 = t2
    qa = qa
    qb = qb
    Threads <- MCThreads
    Shapes <- MCShapes
    Capacity = 1
    MaxIds = 3
    MaxDdl = 1
    MaxDiscards = 2
SYMMETRY ThreadAndShapeSymmetry
INVARIANT TypeOK
INVARIANT LeasedHandlesStay
INVARIANT OrphansAreOld
INVARIANT RetryRecovers
CHECK_DEADLOCK FALSE
