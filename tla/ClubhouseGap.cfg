\* A peer posts between the last refresh and the window's own post.
SPECIFICATION Spec
CONSTANTS
    Channels = {a}
    None = None
    PageLimit = 2
    LoadLimit = 3
    MaxMessages = 3
    MaxStrays = 2
INVARIANT NothingSkipped
