CONSTANTS
    None = None
    Absent = Absent
    r1 = r1
    r2 = r2
    Rps = {r1, r2}
    MaxResets = 1
    MaxRegistered = 2
    Supported <- MCSupported
    Requested <- MCRequested
    CertKeys <- MCCertKeys
    MaxEnables = 1
    MaxManaged = 3
    RpOf <- MCRpOf
    Names = {n1, n2}
    FirstName = n1
    MaxFaults = 1
SPECIFICATION Spec
INVARIANTS   AckedNameKept
PROPERTIES EnumerationSound
