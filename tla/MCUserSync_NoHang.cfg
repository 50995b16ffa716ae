CONSTANTS
    p1 = p1
    c1 = c1
    s1 = s1
    s2 = s2
    r1 = r1
    r2 = r2
    d1 = d1
    d2 = d2
    NoThread = NoThread
    Producers <- MCNone
    Consumers <- MCNone
    Senders <- MCSenders2
    Receivers <- MCReceivers2
    MaxNum = 2
    NUM = 2
    Amount = 2
    Depositors <- MCNone
SPECIFICATION Spec
CHECK_DEADLOCK FALSE
INVARIANT NoHang
