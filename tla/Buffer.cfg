SPECIFICATION Spec
CONSTANTS
    Byte = {"a", "b"}
    kBlockSize = 2
    MaxChunk = 3
    MaxBlocks = 3
    MaxNeedle = 3
INVARIANTS ChainInOrder FindIsFirstOccurrence
PROPERTIES ImplementsByteQueue
