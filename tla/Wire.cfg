SPECIFICATION Spec
CONSTANTS
    Base = 8
    KeyBytes = 2
    NonceBytes = 1
    MacBytes = 2
    AddressBytes = 3
    AddressBytes4 = 2
    AeadTagBytes = 1
    MaxPacketBytes = 75
    Magic = 1234
    ProtocolVersion = 3
    Values <- MCValues
    AlteredBytes = {0, 1, 2, 7}
    Hello <- MCHello
    Answer <- MCAnswer
    Streams = {1, 2}
    Payloads <- MCPayloads
    MaxRounds = 2
INVARIANTS
    
    Canonical
    InlineFits
    TranscriptBinds
    
CHECK_DEADLOCK FALSE
