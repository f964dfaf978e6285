CONSTANTS
    PAGE_SIZE = 2
    Entries = 4
    Half = 3
    Frames = {1, 2, 3, 4, 5, 6, 7, 8, 9, 10, 11, 12, 13, 14, 15, 16, 17, 18, 19, 20, 21, 22, 23, 24}
    FreeSets <- MCFree
    KERNEL = 0
    BootTable = 100
    HeapPages <- MCHeap
    Devices <- MCDevices
    StackTop = 7
    user_stack_pages = 2
    Images <- MCImages
    None = None
    Junk = Junk
SPECIFICATION Spec
INVARIANTS ImageLoaded SpacesApart KernelHalfShared
