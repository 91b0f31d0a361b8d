CONSTANTS
    s1 = s1
    p1 = p1
    h1 = h1
    h2 = h2
    t1 = t1
    t2 = t2
    k1 = k1
    c1 = c1
    c2 = c2
    c3 = c3
    i1 = i1
    i2 = i2
    r1 = r1
    r2 = r2
SPECIFICATION Spec
PROPERTIES CapturedSettles HeldIsReleased
CHECK_DEADLOCK FALSE
