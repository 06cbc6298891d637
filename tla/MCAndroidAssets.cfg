SPECIFICATION FairSpec
CONSTANTS
    Threads = {th1, th2}
    Names <- FileNames
    Paths <- SavedModel
    NChunks = 2
    NoFile = NoFile
INVARIANTS
    TypeOK
    ReturnMeansComplete
PROPERTY
    CopiesEnd
