CONSTANTS
    a = a
    b = b
    x = x
    y = y
    CredCount = 4
    Rps <- MCRps
    NoRp = NoRp
    RpOf <- MCRpOf
    Protect <- MCProtect
    HasSecret <- MCHasSecret
    Clients <- MCClients
    AllowLists <- MCAllowLists
    None = None
SYMMETRY ClientSymmetry
SPECIFICATION Spec
INVARIANTS ProtectedNeedsUv ChainKeepsItsOwn
