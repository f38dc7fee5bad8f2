\* A session with an argument of two three-byte characters.
SPECIFICATION Spec
CONSTANTS
    MaxGuacMessage = 16
    Args = 20
    Ready = 21
    ServerInfo = 22
    Streams <- WideSession
    Garbage <- NotInstructions
INVARIANT
    WholeInstructions
