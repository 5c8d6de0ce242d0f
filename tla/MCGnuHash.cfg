SPECIFICATION LookupSpec
CONSTANTS
    a = a
    b = b
    c = c
    d = d
    e = e
    Names = {a, b, c, d, e}
    Hash <- MCHash
    WordBits = 4
    Tables <- MCTables
INVARIANTS WalksBucket LookupCorrect
PROPERTIES LookupEnds
