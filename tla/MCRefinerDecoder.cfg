\* A refiner, a file that is no refiner, and the refiner again.
SPECIFICATION InspectionsSpec
CONSTANTS
    sx = sx  sl = sl  kx = kx  kl = kl  oo = oo  rx = rx  rl = rl
    vs = vs  vq = vq  vo = vo  es = es  ew = ew
    Holds <- MCHolds
    SuitsVae <- MCSuits
    SharedVae <- MCShared
    GoodEncoders = {es}
    SharedEncoder = es
    Asking <- MCAsking
    NoPart = NoPart
CHECK_DEADLOCK FALSE
INVARIANT
    RefinerHasItsDecoder
