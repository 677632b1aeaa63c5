CONSTANTS
    t1 = t1 t2 = t2 t3 = t3 s1 = s1 s2 = s2 i1 = i1
    p1 = p1 u1 = u1 a1 = a1 a2 = a2 x1 = x1
    None = None
SPECIFICATION FairSpec
INVARIANTS LockOK WheelOK CastOK CallsOK
PROPERTIES PartsServed SessionsServed
CHECK_DEADLOCK FALSE
