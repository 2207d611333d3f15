SPECIFICATION Spec
CONSTANTS
    Absent = Absent
    Null = Null
    Invalid = Invalid
    Mask = Mask
    Texts <- MCTexts
    Apps <- MCApps
    Ids <- MCIds
    Clients = {c1, c2}
    Reserved <- MCReserved
    Edits <- MCEdits
    NewRequests <- MCNewRequests
    InitialApps <- MCInitialApps
    MaxHandlers = 2
    MaxWrites = 1
SYMMETRY ClientSymmetry
CHECK_DEADLOCK FALSE
INVARIANTS
    SecretsStayReal
    StoredServicesSound
    NamesDisjoint
PROPERTIES
    SiblingsKept
    VolumeDataKept
