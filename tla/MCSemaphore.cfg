\* Four callers on two slots: two calls can wait behind two holders, so the
\* order of the queue and the hand-over are both exercised.
CONSTANTS
    Tasks = {t1, t2, t3, t4}
    Limit = 2
SPECIFICATION MCSpec
PROPERTIES ImplementsFifoSlots WaitingIsServed
