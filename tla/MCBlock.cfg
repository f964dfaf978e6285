CONSTANTS
    Tasks = {t1, t2}
    SECTOR_SIZE = 2
    LastSector = 2
    Bytes = {0, 1}
    Buffers <- MCBuffers
    Lengths = {1, 3}
    Seeks <- MCSeeks
    MaxPosition = 6
    U32 = 16
    MaxEntries = 4
    Labels <- MCLabels
    None = None
SYMMETRY Alike
SPECIFICATION BlockSpec
INVARIANTS PartitionExact
PROPERTIES WritesOnlyAsked
