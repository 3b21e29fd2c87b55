SPECIFICATION Spec
CONSTANTS
    Builds = {1, 2, 3}
    Jobs = {j1, j2}
    Uploads <- MCUploads
    Invalid = Invalid
    Keep = 1
    MaxClock = 1
SYMMETRY MCSymmetry
INVARIANTS
    TypeOK
PROPERTY
    PruneLeavesKeep
