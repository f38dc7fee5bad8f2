\* Sessions with instructions of every kind, handshakes that fail and streams
\* that break; instructions are up to MaxGuacMessage bytes long and the first
\* session is longer than the buffer.
SPECIFICATION FairSpec
CONSTANTS
    MaxGuacMessage = 16
    Args = 20
    Ready = 21
    ServerInfo = 22
    Streams <- Sessions
    Garbage <- NotInstructions
INVARIANTS
    TypeOK
    WindowMatches
    WholeInstructions
    RoomToRead
    HandshakeExact
    RelayedInOrder
PROPERTY
    AllRelayed
