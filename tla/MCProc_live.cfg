CONSTANTS
    NPROC = 3
    NCPU = 1
    CondLock = {"wait_lock", "tickslock"}
    MaxPid = 3
    KillPids = {2}
SPECIFICATION FairSpec
PROPERTIES InitReaps KilledExits
