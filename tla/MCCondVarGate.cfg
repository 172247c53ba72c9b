CONSTANTS
    Waiters = {w1, w2, w3}
    Notifiers = {n1, n2}
    Free = Free
SPECIFICATION Spec
INVARIANT TypeOK
INVARIANT MutexHeldInside
INVARIANT NoLostWakeup
PROPERTY ImplementsGate
