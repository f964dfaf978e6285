CONSTANTS
    Tasks = {t1, t2}
    BOOT = boot
    LastSector = 1
    Addresses = {0, 1, 2, 5}
    LBA_LIMIT = 4
    SectorData = {d1, d2}
    MaxPolls = 2
    Free = Free
SPECIFICATION AtaSpec
INVARIANTS ReadIsTrue WriteIsDone
PROPERTIES LockReleased
