\* Two runs, in two modes, that ask for the default path, its numbered alternative or an
\* explicit path; there may be files already.
SPECIFICATION Spec
CONSTANTS
    mp4 = mp4  gif = gif  second = second
    Producers = {p1, p2}
    User = User
    None = None
    Outputs = {mp4, second}
    Stem <- OwnStem
    Names <- TwoPaths
    Requests <- PathRequests
    FrameFiles <- TwoFrameFiles
    Others = Others
    Remains <- FileKinds
SYMMETRY AnyProducers
CHECK_DEADLOCK FALSE
INVARIANTS
    TypeOK
    ReportMeansComplete
    FailureRestores
    OldBundleSafe
    CompleteBundleStays
PROPERTIES
    UsersFramesStay
