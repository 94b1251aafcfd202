\* Two requests at once, two browsers, and three events.
CONSTANTS
    Requests = {r1, r2}
    NoRequest = NoRequest
    Browsers = {b1, b2}
    Lifetime = 6
    MaxHeld = 1
    MaxEvents = 3
SPECIFICATION Spec
SYMMETRY MCSymmetry
INVARIANTS
    SetUpOnce
    ActiveStaysIn
    SignedOutIsGone
    KeyInForceIsStored
