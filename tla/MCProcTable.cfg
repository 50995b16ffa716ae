CONSTANTS
    NPROC = 3
    MaxPid = 4
    c1 = c1
    c2 = c2
    CPUs <- MCCPUs
    NoCpu = NoCpu
SYMMETRY CpuSymmetry
SPECIFICATION Spec
INVARIANT TypeOK
INVARIANT RunningOnOneCpu
INVARIANT LockHandoff
INVARIANT WaiterHasNoZombie
INVARIANT ParentAlive
INVARIANT LivePidsUnique
