\* Does the first Take after a successful DelCache load from the database?
CONSTANTS
    Readers = {r1, r2}
    Writers = {w1}
    MaxVersion = 2
    WithExpiry = TRUE
    None = None
SPECIFICATION Spec
SYMMETRY ReaderWriterSymmetry
INVARIANT NextTakeLoads
