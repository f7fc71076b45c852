SPECIFICATION Spec

CONSTANTS
    call1 = call1
    call2 = call2
    call3 = call3
    call4 = call4
    byte = byte
    Zero = Zero
    None = None
    Calls <- MCCalls
    Descriptors <- MCDescriptors
    Initial <- MCInitial
    Chunk = 2
    DataLen = 2
    Workloads <- MCWorkloads

INVARIANTS
    DescriptorsOwned
    WholeFile
    CursorTiles

PROPERTY CallsAnswered

CHECK_DEADLOCK FALSE
