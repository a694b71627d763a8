CONSTANTS
    PublicAddress <- MCPublicAddress
    FixedAddresses <- MCFixedAddresses
    RandomAddresses <- MCRandomAddresses
    RandomPrands <- MCRandomPrands
    FixupDraws <- MCFixupDraws
    Ah <- MCAh
    MinRotation = 2
    MaxRotation = 4
    RandomMs = {1, 3}
SPECIFICATION Spec
INVARIANT RotatedAddressWellFormed
INVARIANT StaticAddressWellFormed
CHECK_DEADLOCK FALSE
