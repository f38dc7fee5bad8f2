\* The default of one queue; two recorded sessions and one that is not.
SPECIFICATION FairSpec
CONSTANTS
    None = None
    Rec = {r1, r2, r3}
    EnableRecording = {r1, r2}
    theNumberOfQueues = 1
    MaxKills = 1
INVARIANTS
    JobIsHead
    UploadsFresh
PROPERTIES
    AtLeastOnce
    DeletedIsLogged
    FilesReclaimed
