SPECIFICATION Spec
CONSTANTS
    k1 = k1
    k2 = k2
    k3 = k3
    k4 = k4
    Key <- FourKeys
    HashFuncs <- SomeHashes
    Data = {0, 1}
    NoValues = NoValues
    NoKey = NoKey
    table_size = 2
    slice_num = 2
    r1 = r1
    r2 = r2
    r3 = r3
    Proc = {r1, r2, r3}
    NoPid = NoPid
    ring_size = 8
INVARIANTS
    RowsAreExact
    IterationIsComplete
    RowExclusive
    RingIsSound
PROPERTIES
    TableIsMap
    SharedIsGiven
CHECK_DEADLOCK FALSE
