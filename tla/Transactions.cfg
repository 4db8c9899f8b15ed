SPECIFICATION Spec
CONSTANTS
    t1 = t1
    t2 = t2
    Threads = {t1, t2}
    MaxOps = 2
    MaxParts = 2
    Scripts <- MCScripts
    Plans <- MCPlans
ACTION_CONSTRAINT AloneOrPair
SYMMETRY ThreadSymmetry
INVARIANTS
    FailedOperationsLeaveNothing
    AcknowledgedWritesKept
    LeftoversArePoisoned
    AutocommitRestored
    WritesAreTracked
    PoisonNeedsTransaction
    TrackedWritesBlockSavepoints
CHECK_DEADLOCK FALSE
