CONSTANTS
    o1 = o1
    o2 = o2
    f = f
    Sock = {1, 2}
    NoOffer = NoOffer
    Offer = {o1, o2}
    File = {f}
    FileOf <- MCFileOf
    max_dnloads = 2
    max_uploads = 1
    MaxLength = 2
    Pipelining = FALSE
SPECIFICATION Spec
INVARIANTS Counted FilesOwned
PROPERTIES UploadsEnd
CHECK_DEADLOCK FALSE
