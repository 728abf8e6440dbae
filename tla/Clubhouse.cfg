\* Two channels, pages of two, refreshes of three messages.
SPECIFICATION Spec
CONSTANTS
    Channels = {a, b}
    None = None
    PageLimit = 2
    LoadLimit = 3
    MaxMessages = 4
    MaxStrays = 2
SYMMETRY Symmetry
INVARIANTS
    TypeOK
    CacheInOrder
    GapsOnlyBeforeOwnPosts
    NeverStalls
