SPECIFICATION Spec
CONSTANTS
    Clients = {c1, c2}
    Names <- MCNames
    Paths <- MCShortPaths
    Uploads = {u1, u2}
    MaxFiles = 2
    MaxRestarts = 1
    MaxFaults = 0
    MaxDisconnects = 0
SYMMETRY MCSymmetry
PROPERTIES DirectorySurvivesRestart
