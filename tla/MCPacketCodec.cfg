SPECIFICATION Spec
CONSTANTS
    MaxPayload = 11
    HmacSize = 2
    Hmac <- MCHmac
    Headers <- MCHeaders
    Items <- MCItems
    Noise <- MCNoise
    Leftovers <- MCLeftovers
INVARIANTS
    TypeOK
    ReadsWhatWasAdded
    AlteredIsRefused
    ArrivesWhole
    SignedOnceAtTheEnd
