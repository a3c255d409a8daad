\* Two threads, one of them at a time paused, cancelled or late, a model that is replaced, callers of release;
\* and a thread whose requests do and do not use the parts of a context: a component, an
\* IP-Adapter, a refiner, a LoRA and a prepared Q8 copy.
SPECIFICATION Spec
CONSTANTS
    t1 = t1  t2 = t2  ext = ext  m = m  c = c  l = l  q = q  i = i  r = r
    Threads = {t1, t2}
    Controlled = {t1, t2}
    External = ext
    Files = {m, c, q, l, i, r}
    Role <- MCRole
    Requests <- MCAllRequests
    Free = Free
    MaxVersion = 2
    MaxEpoch = 1
SYMMETRY Symmetry
CONSTRAINT OneModelOrOneThread
INVARIANTS
    TypeOK
    ImageIsOneSnapshot
    ResidentIsComplete
    ResidentModelMatchesKey
    ReleaseInUseIsServed
    NoRecursiveLock
PROPERTY
    OnlyOwnerChangesCache
