SPECIFICATION Spec

CONSTANTS
    r1 = r1
    r2 = r2
    r3 = r3
    w1 = w1
    c1 = c1
    c2 = c2
    chunkA = chunkA
    chunkB = chunkB
    None = None
    Reads <- MCReads
    TimedReads <- MCTimedReads
    Writes <- MCWrites
    Closes <- MCCloses
    Stream <- MCStream

INVARIANTS
    CallbacksSafe
    AbandonedIsClosed

PROPERTIES
    CloseReturns
    ReadsAreMailbox

CHECK_DEADLOCK FALSE
