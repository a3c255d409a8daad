\* A release that finds the lock held outside its owner's CacheUse is lost.
SPECIFICATION Spec
CONSTANTS
    t1 = t1  t2 = t2  ext = ext  m = m  c = c  l = l  q = q  i = i  r = r
    Threads = {t1, t2}
    Controlled = {t1, t2}
    External = ext
    Files = {m}
    Role <- MCRole
    Requests <- ControlRequests
    Free = Free
    MaxVersion = 1
    MaxEpoch = 1
SYMMETRY Symmetry
INVARIANTS
    ReleaseIsServed
