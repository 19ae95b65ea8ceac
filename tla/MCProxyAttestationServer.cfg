CONSTANTS
    Unreadable = Unreadable
    None = None
    Builds <- MCBuilds
    Ops <- MCOps
    Urls = {u1, u2}
    CAs = {ca1, ca2}
    OneServer = TRUE
SPECIFICATION Spec
INVARIANT TypeOK
INVARIANT IssuedUnderTheCaOfTheStart
