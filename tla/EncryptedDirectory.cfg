SPECIFICATION Spec
CONSTANTS
    Clients = {c1, c2}
    Names <- MCNames
    Paths <- MCPaths
    Uploads = {u1, u2}
    MaxFiles = 3
    MaxRestarts = 0
    MaxFaults = 0
    MaxDisconnects = 0
SYMMETRY MCSymmetry
INVARIANTS TypeOK NamesUnique ListingResolves
PROPERTIES FilesAreAMap
