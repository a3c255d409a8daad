\* Two processes at each store: batches, package cache, images and reports, identities, copies.
SPECIFICATION StoresSpec
CONSTANTS
    png = png  report = report  png2 = png2  report2 = report2
    x = x  y = y  a = a  b = b  p = p  q = q  r1 = r1  r2 = r2  f1 = f1  f2 = f2  f3 = f3
    Clients = {x, y}
    Someone = Someone
    Redirect = Redirect
    NoFile = NoFile
    Bases = {"image", "image-run-0002"}
    TargetsOf <- OwnTargets
    Numbered <- DefaultNames
    BatchRequests <- BatchJobs
    BatchRemains <- OldFiles
    Runs = {r1, r2}
    Members = {"index", "weights"}
    Index = "index"
    Corrupt = {2}
    MaxPackage = 2
    MaxPurge = 1
    Makers = {a, b}
    Names = {p, q}
    Blank = Blank
    Stranger = Stranger
    ImageJobs <- MCImageJobs
    MaxWeights = 2
    Before <- MCBefore
    Readers = {r1, r2}
    HashedFiles = {f1, f2, f3}
    FileContents = {1, 2}
    TableLimit = 2
    MaxHistory = 2
    Casts <- MCCasts
    Reads <- MCReads
    Converters = {x, y}
    Key <- MCKey
    MaxSource = 2
    MaxLosses = 1
CHECK_DEADLOCK FALSE
SYMMETRY StoreSymmetry
INVARIANT
    RecordsAreTrue
PROPERTIES
    PublishesAtomically BatchKept
    PackageKept
    PublishedImagesAreTrue
    AnswersArePresent
    ConversionsAreTrue
