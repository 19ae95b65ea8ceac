CONSTANTS
    Malformed = Malformed
    NoError = NoError
    Foreign = Foreign
    Unserializable = Unserializable
    Byte = {0, 1}
    I32 = {1}
    Status = {0}
    MaxLen = 1
    MaxCerts = 1
    Msg <- MCMsg
    SenderRetries = FALSE
    MaxSends = 2
    MaxWire = 14
    LenWidth = 2
SPECIFICATION FairSpec
INVARIANT TypeOK
INVARIANT NothingLostInFlight
PROPERTY ImplementsChannel
PROPERTY SentIsReceived
