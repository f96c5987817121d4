SPECIFICATION Spec
CONSTANTS
    Paths = {1, 2}
    Worlds <- MCWorlds
    Requests <- MCRequests
    MaxMoves = 1
    Absent = Absent
    ListLength = 2
INVARIANTS
    PairingIsSound
    NothingIsLost
PROPERTIES
    Returns
