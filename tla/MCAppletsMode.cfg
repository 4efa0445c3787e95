CONSTANTS
    None = None
    Bare = Bare
    MaxRetries = 3
    Pins = {default, other}
    DefaultPin = default
    PivSlots = {s9a, s9c}
    AuthSlot = s9a
    PivKeys = 3
    Passwords = {pw1, pw3}
    DefaultPw1 = pw1
    DefaultPw3 = pw3
    PgpKeys = 2
    a = a
    b = b
    empty = empty
    Names = {a, b, empty}
    NameLen <- MCNameLen
    MaxNameLen = 2
    AccessKeys = {k}
    MaxCredentials = 1
    MaxCounter = 2
    MaxSecrets = 2
    MaxChallenges = 3
    otp = otp
    ccid = ccid
    fido = fido
    Caps = {otp, ccid, fido}
    Supported = {ccid, fido}
    Modes <- MCModes
    Locks = {l}
    Zero = Zero
    MaxSerial = 2
    Timings = {t0, t1}
    Absent = Absent
    Malformed = Malformed
SPECIFICATION Spec
INVARIANTS NeverPanics
