CONSTANTS
    p1 = p1
    p2 = p2
    h1 = h1
    h2 = h2
    d = d
    dd = dd
    Malformed = Malformed
    HttpError = HttpError
    NoPost = NoPost
    None = None
    NonUtf8 = NonUtf8
    Untrusted = Untrusted
    U32_MAX = 2
    PolicyHash <- MCPolicyHash
    RuntimeHash <- MCRuntimeHash
    Genuine <- MCGenuine
    Blob <- MCBlob
    Large <- MCLarge
    Policies <- MCNitroPolicies
    Configs <- MCGoodConfigs
    Calls <- MCFewCalls
    Enclaves <- MCGenuineEnclave
    HostFaults <- AnyHost
    CallerDiscards = FALSE
    MaxCalls = 4
SPECIFICATION Spec
INVARIANT TaintedContextRefuses
CHECK_DEADLOCK FALSE
