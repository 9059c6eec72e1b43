SPECIFICATION RouterSpec
CONSTANTS
    Providers = {p1, p2}
    m1 = m1
    m2 = m2
    m3 = m3
    Models = {m1, m2, m3}
    Listings <- MCListings
    NoPrefix = NoPrefix
    NoModel = NoModel
    NoProvider = NoProvider
    MaxFlips = 2
INVARIANTS
    UnavailableMeansSeenDown
    PrefixDecides
    FallbackOnlyIfUnlisted
    FoundProviderServes
    ListingTolerates
CHECK_DEADLOCK FALSE
