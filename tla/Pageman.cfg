SPECIFICATION PagesSpec
CONSTANTS
    PageItems = 2
    Sizes = {8, 12}
    MaxPages = 3
    None = None
INVARIANTS
    StackExact Thrifty
