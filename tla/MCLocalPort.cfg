\* Two managed runs of a machine that has one free port.
SPECIFICATION ServicesSpec
CONSTANTS
    c1 = c1  c2 = c2  p1 = p1  up = up  d1 = d1  d2 = d2  a1 = a1
    Commands = {c1, c2}
    Ports = {p1}
    UserPort = up
    OutDirs = {d1, d2}
    Artifacts = {a1}
    Nobody = Nobody
    MaxEdit = 2
    Requests <- ManagedRuns
    Orders <- MCOrders
    MaxSide = 100
    ComfySide = 60
    ComfySteps = 15
    MostPasses = 2
    Inquiries <- MCInquiries
    Ids <- MCIds
    Workflows <- MCWorkflows
    sx = sx  sl = sl  kx = kx  kl = kl  oo = oo  rx = rx  rl = rl
    vs = vs  vq = vq  vo = vo  es = es  ew = ew
    Holds <- MCHolds
    SuitsVae <- MCSuits
    SharedVae <- MCShared
    GoodEncoders = {es}
    SharedEncoder = es
    Asking <- MCAsking
    NoPart = NoPart
    i1 = i1  i2 = i2
    Pictures = {i1, i2}
    NotSaid = NotSaid
    Storyboards <- MCStoryboards
    FewestFrames = 2
    MostFrames = 16
    SourceRate = 25
    MaxReplaced = 1
    t1 = t1  t2 = t2  ext = ext  weights = weights
    Threads = {t1, t2}
    Controlled = {t1, t2}
    External = ext
    Role <- ModelOnly
    Free = Free
    MaxVersion = 1
    MaxEpoch = 0
CHECK_DEADLOCK FALSE
INVARIANT
    ImageOfItsModel
