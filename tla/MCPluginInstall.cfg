SPECIFICATION Spec
CONSTANTS
    j1 = j1
    j2 = j2
    Jobs = {j1, j2}
    Versions = {v1, v2}
    v1 = v1
    v2 = v2
    MaxCrashes = 2
SYMMETRY Symmetry
INVARIANTS
    
    NoStrayProcess
    ManifestHasFiles
