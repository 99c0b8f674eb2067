\* One artifact of one file, two installs, a read and the prefetch.
\* Every call is made once, and the model stops when all have ended (CallsEnd
\* says that none stops before).
SPECIFICATION Spec
CHECK_DEADLOCK FALSE
CONSTANTS
    Call <- CallDef
    Kind <- KindDef
    Artifact = {"a1"}
    File <- FileDef
    FilesOf <- FilesDef
    Art <- ArtDef
    Want <- WantDef
    Room = 1
    Windows = TRUE
    MaxDamage = 1
    MaxFaults = 1
    None = None
INVARIANTS
    FilesVerify
    OneInstall
    GateSharesAFetch
PROPERTIES
    FetchedIsFound
    CallsEnd
