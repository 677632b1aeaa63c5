CONSTANTS
    a = a b = b
    t1 = t1 t2 = t2
    i1 = i1 i2 = i2 i3 = i3
    None = None
SPECIFICATION FairSpec
INVARIANTS FramersOK UsersOK PoolOK
PROPERTIES RingOK TimersOK
CHECK_DEADLOCK FALSE
