CONSTANTS
    kPrependSize = 2
    InitSize = 1
    ExtraSize = 1
    Byte = {1, 2}
    MaxLen = 2
    MaxReadable = 4
SPECIFICATION BufferSpec
INVARIANTS
    HoldsTheBytes
