\* A video and a GIF of the same name share their report and frames, not their lock.
SPECIFICATION Spec
CONSTANTS
    mp4 = mp4  gif = gif  second = second
    Producers = {p1, p2}
    User = User
    None = None
    Outputs = {mp4, gif}
    Stem <- SharedStem
    Names <- OnePath
    Requests <- SuffixRequests
    FrameFiles <- TwoFrameFiles
    Others = Others
    Remains <- NoRemains
SYMMETRY AnyProducers
CHECK_DEADLOCK FALSE
INVARIANTS
    CompleteBundleStays
