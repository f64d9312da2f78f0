CONSTANTS
    NPROC = 2
    NCPU = 1
    CondLock = {"wait_lock", "tickslock"}
    MaxPid = 2
    KillPids = {0}
SPECIFICATION Spec
INVARIANTS KilledForCause
