CONSTANTS
    Messages <- SomeMessages
    Junk <- SomeJunk
    MaxItems = 3
    MaxChunk = 9
    COMMAND_SIZE = 5
SPECIFICATION Spec
INVARIANTS ChunkFree RoundTrip
