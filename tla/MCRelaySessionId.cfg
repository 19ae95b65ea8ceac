CONSTANTS
    a = a
    b = b
    Malformed = Malformed
    HttpError = HttpError
    NoPost = NoPost
    U32_MAX = 2
    Byte <- MCByte
    Data <- MCData
    Replies <- MCReplies
    MaxRead = 2
    MaxPosts = 3
    Features = {"nitro"}
    Records <- MCRecords
    MaxSessions = 2
    MaxOutput = 1
    NoError = NoError
    None = None
SPECIFICATION Spec
PROPERTY SessionIdStable
