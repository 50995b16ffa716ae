CONSTANTS
    p1 = p1
    c1 = c1
    s1 = s1
    s2 = s2
    r1 = r1
    r2 = r2
    d1 = d1
    d2 = d2
    NoThread = NoThread
    Producers <- MCProducers
    Consumers <- MCConsumers
    Senders <- MCSenders
    Receivers <- MCReceivers
    MaxNum = 2
    NUM = 2
    Amount = 2
    Depositors <- MCNone
SPECIFICATION Spec
INVARIANT TypeOK
INVARIANT NoLostWakeup
INVARIANT BufferSafe
INVARIANT NoHang
INVARIANT BufferInv
CHECK_DEADLOCK FALSE
