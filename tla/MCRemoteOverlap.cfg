\* Two batches with a file in common take different locks.
SPECIFICATION BatchSpec
CONSTANTS
    png = png  report = report  png2 = png2  report2 = report2
    x = x  y = y
    Clients = {x, y}
    Someone = Someone
    Redirect = Redirect
    NoFile = NoFile
    Bases = {"image", "image-0001"}
    TargetsOf <- SharedTargets
    Numbered <- NoNumbers
    BatchRequests <- OverlappingJobs
    BatchRemains <- OldFiles
CHECK_DEADLOCK FALSE
PROPERTIES
    RollbackReplacesNothing
